---------------------------- MODULE BuildPipeline ----------------------------
(***************************************************************************)
(* From CompileFunction to linked code: JitCompiler, ModuleMap and          *)
(* ModuleBuilder.                                                           *)
(*                                                                          *)
(* The engine hands every function it compiles to CompileFunction, which    *)
(* only queues it in the builder of its script module (functions of no      *)
(* module share one builder).  BuildModules then builds every builder --    *)
(* translates what is pending, defines the absolute symbols of the          *)
(* registered functions it uses, hands its LLVM module to the JIT -- and    *)
(* only then links every builder: looks up each translated function and     *)
(* fills its user data and the slot the engine gave to CompileFunction.     *)
(*                                                                          *)
(* The process ends when an assertion or ExitOnError fires, or when the     *)
(* pointer to a moved LLVM module is dereferenced: failed then names why.   *)
(***************************************************************************)
EXTENDS Naturals, Sequences, FiniteSets, Functions

CONSTANTS
  Function,        \* script functions
  SystemFunction,  \* functions the application registered
  ScriptModule,    \* asIScriptModule, by name
  Shared,          \* the builder of the functions whose GetModule() is null
  None,            \* a null pointer
  Runtime,         \* address of the asllvm.private.* functions, as one symbol
  Contents,        \* [ScriptModule -> SUBSET Function]: what building a module compiles
  ModuleOf,        \* [Function -> ScriptModule \cup {Shared}]: GetModule()
  EngineOf,        \* [Function -> engines]: GetEngine()
  DeclOf,          \* [Function -> declarations]: GetDeclaration(true, true, false)
  Calls,           \* [Function -> SUBSET Function]: callees known at compile time
  VirtualCalls,    \* [Function -> SUBSET Function]: callees found through a vtable
  SystemCalls,     \* [Function -> SUBSET SystemFunction]
  SystemDeclOf,    \* [SystemFunction -> declarations]
  NativeOf,        \* [SystemFunction -> addresses]: sysFuncIntf->func
  Verbose          \* JitConfig::verbose

Unit == ScriptModule \cup {Shared}
Engines == {EngineOf[f] : f \in Function}

ASSUME ConstantsAssumption ==
  /\ Shared \notin ScriptModule
  /\ None \notin Function \cup SystemFunction \cup Unit \cup Engines
  /\ Contents \in [ScriptModule -> SUBSET Function]
  /\ ModuleOf \in [Function -> Unit]
  /\ Calls \in [Function -> SUBSET Function]
  /\ VirtualCalls \in [Function -> SUBSET Function]
  /\ SystemCalls \in [Function -> SUBSET SystemFunction]
  /\ Verbose \in BOOLEAN

\* Building a module compiles everything its functions may call: the engine
\* adds to a module the shared functions it uses, and creates the functions
\* that have no module (template factory stubs) when it is compiled.
ASSUME ClosedModulesAssumption ==
  \A m \in ScriptModule : \A f \in Contents[m] :
    Calls[f] \cup VirtualCalls[f] \subseteq Contents[m]

\* Two functions of one script module never have the same declaration.
ASSUME DeclarationAssumption ==
  \A f, g \in Function :
    ModuleOf[f] \in ScriptModule /\ ModuleOf[f] = ModuleOf[g] /\ DeclOf[f] = DeclOf[g]
      => f = g

\* Nor do two functions of no module.  The code does not see to that: the
\* factory stubs of array<Foo>, for the Foo of one module and that of another,
\* have the same declaration.  What relies on it names it as a hypothesis.
SharedNamesDistinct ==
  \A f, g \in Function :
    ModuleOf[f] = Shared /\ ModuleOf[g] = Shared /\ DeclOf[f] = DeclOf[g] => f = g

\* Registered functions with one declaration (the methods of the instances of
\* a template) are one native function.
ASSUME NativeAssumption ==
  \A s, t \in SystemFunction :
    SystemDeclOf[s] = SystemDeclOf[t] => NativeOf[s] = NativeOf[t]

VARIABLES
  requests,   \* what the engine still has to pass to CompileFunction for the
              \* module it is building
  requested,  \* what it has passed to CompileFunction
  engine,     \* JitCompiler::m_engine
  builders,   \* ModuleMap: the shared builder and m_map
  absolute,   \* absolute symbols of the main dylib: name -> address
  code,       \* symbols of the LLVM modules added to it: name -> Function
  userData,   \* [Function -> Function or None]: whose code virtual calls reach
  slot,       \* [Function -> Function or None]: whose code *jit_function enters
  phase,      \* where build_modules is: "idle" outside a call
  cursor,     \* the builder it is at
  todo,       \* the builders it has yet to visit in this phase
  failed      \* "no", or why the process ended

vars == <<requests, requested, engine, builders, absolute, code, userData,
          slot, phase, cursor, todo, failed>>

-----------------------------------------------------------------------------
(* A definition named X_Y is not part of the model: it is X with the fault Y,  *)
(* and shows which property the fault would break.                            *)
-----------------------------------------------------------------------------
(* Symbol names.  A name and a number: LLVM numbers a function created under  *)
(* a name its module already uses.                                            *)

ScriptName_NoDeclaration(f) == <<"script", ModuleOf[f]>>
ScriptName(f)    == <<"script", ModuleOf[f], DeclOf[f]>>
SystemName(s)    == <<"external", SystemDeclOf[s]>>
ScriptNames      == [f \in Function |-> ScriptName(f)]
SystemNames      == [s \in SystemFunction |-> SystemName(s)]
Plain(name)      == <<name, 0>>
PrivateSymbol    == Plain(<<"private">>)

\* The symbol tables Function::Create may leave once it has created those of S
\* that are not in the table yet, each under its name, in some order.
Created(table, S, name) ==
  LET new == S \ DOMAIN table
      all == DOMAIN table \cup S
      Numbered(number) ==
        [f \in all |-> IF f \in new THEN <<name[f], number[f]>> ELSE table[f]]
  IN  {t \in {Numbered(number) : number \in [new -> 0 .. Cardinality(all)]} :
         \A f \in all :
           /\ \A g \in all : t[f] = t[g] => f = g
           /\ \A k \in 0 .. t[f][2] : \E g \in all : t[g] = <<name[f], k>>}

Empty == [x \in {} |-> None]

-----------------------------------------------------------------------------
(* Builders.                                                                 *)

NewBuilder ==
  [pending |-> <<>>,     \* m_pending_functions
   jit     |-> <<>>,     \* m_jit_functions
   scripts |-> Empty,    \* m_script_functions: Function -> name
   systems |-> Empty,    \* m_system_functions: SystemFunction -> name
   open    |-> TRUE]     \* m_llvm_module has not been moved from

\* ModuleMap::operator[] followed by ModuleBuilder::append.
Queued(f) ==
  LET u == ModuleOf[f]
      b == IF u \in DOMAIN builders THEN builders[u] ELSE NewBuilder
  IN  [v \in DOMAIN builders \cup {u} |->
        IF v = u THEN [b EXCEPT !.pending = Append(@, f)] ELSE builders[v]]

Current == builders[cursor]
AlreadyCompiled(f) == f \in Range(Current.jit)

Init ==
  /\ requests = {}
  /\ requested = {}
  /\ engine = None
  /\ builders = [u \in {Shared} |-> NewBuilder]
  /\ absolute = Empty
  /\ code = Empty
  /\ userData = [f \in Function |-> None]
  /\ slot = [f \in Function |-> None]
  /\ phase = "idle"
  /\ cursor = None
  /\ todo = {}
  /\ failed = "no"

-----------------------------------------------------------------------------
(* The AngelScript engine and the host application.                          *)

\* asCModule::JITCompile: a function of no module is compiled when it is
\* created, once; one of a module, each time a module that holds it is built.
BuildScriptModule(m) ==
  /\ failed = "no" /\ phase = "idle" /\ requests = {}
  /\ ~(Contents[m] \subseteq requested)
  /\ requests' = {f \in Contents[m] : ModuleOf[f] = Shared => f \notin requested}
  /\ UNCHANGED <<requested, engine, builders, absolute, code, userData, slot,
                 phase, cursor, todo, failed>>

OfAnotherEngine(f) == engine # None /\ EngineOf[f] # engine

CompileFunction(f) ==
  /\ failed = "no"
  /\ f \in requests
  /\ IF OfAnotherEngine(f)
     THEN /\ failed' = "engine"
          /\ UNCHANGED <<requests, requested, engine, builders>>
     ELSE /\ engine' = EngineOf[f]
          /\ builders' = Queued(f)
          /\ requests' = requests \ {f}
          /\ requested' = requested \cup {f}
          /\ UNCHANGED failed
  /\ UNCHANGED <<absolute, code, userData, slot, phase, cursor, todo>>

BuildModules ==
  /\ failed = "no" /\ phase = "idle" /\ requests = {}
  /\ IF Verbose /\ engine = None
     THEN /\ failed' = "diagnostic"
          /\ UNCHANGED <<phase, cursor, todo>>
     ELSE /\ phase' = "build"
          /\ cursor' = Shared
          /\ todo' = DOMAIN builders \ {Shared}
          /\ UNCHANGED failed
  /\ UNCHANGED <<requests, requested, engine, builders, absolute, code,
                 userData, slot>>

-----------------------------------------------------------------------------
(* build_modules, first loop: build() of every builder.                      *)

Popped(b) == [b EXCEPT !.pending = Tail(@)]

\* One turn of the loop of build_functions.
BuildFunction ==
  /\ failed = "no" /\ phase = "build" /\ Current.pending # <<>>
  /\ LET f == Head(Current.pending)
         popped == Popped(Current)
     IN  \/ /\ AlreadyCompiled(f)
            /\ builders' = [builders EXCEPT ![cursor] = popped]
            /\ UNCHANGED failed
         \/ /\ ~AlreadyCompiled(f)
            /\ ~Current.open
            /\ failed' = "moved"
            /\ UNCHANGED builders
         \/ /\ ~AlreadyCompiled(f)
            /\ Current.open
            /\ \E scripts \in Created(Current.scripts, {f} \cup Calls[f], ScriptNames),
                  systems \in Created(Current.systems, SystemCalls[f], SystemNames) :
                 builders' = [builders EXCEPT ![cursor] =
                   [popped EXCEPT !.jit = Append(@, f),
                                  !.scripts = scripts,
                                  !.systems = systems]]
            /\ UNCHANGED failed
  /\ UNCHANGED <<requests, requested, engine, absolute, code, userData, slot,
                 phase, cursor, todo>>

\* The absolute symbols a module needs, and those of them that link_symbols
\* passes to the dylib: the ones no lookup finds there.
SymbolsNeeded(b) ==
  [n \in {b.systems[s] : s \in DOMAIN b.systems} \cup {PrivateSymbol} |->
     IF n = PrivateSymbol THEN Runtime
     ELSE NativeOf[CHOOSE s \in DOMAIN b.systems : b.systems[s] = n]]
SymbolsToDefine_NoLookup(b) == SymbolsNeeded(b)
SymbolsToDefine(b) ==
  [n \in DOMAIN SymbolsNeeded(b) \ DOMAIN absolute |-> SymbolsNeeded(b)[n]]

\* The symbols of the functions the builder's LLVM module has a body for.
DefinedBy(b) ==
  [n \in {b.scripts[f] : f \in Range(b.jit)} |->
     CHOOSE f \in Range(b.jit) : b.scripts[f] = n]

Extended(map, more) ==
  [x \in DOMAIN map \cup DOMAIN more |-> IF x \in DOMAIN more THEN more[x] ELSE map[x]]

NextToBuild_LinkAtOnce ==
  /\ phase' = "link"
  /\ cursor' = Shared
  /\ todo' = DOMAIN builders \ {Shared}

\* The next builder of the first loop (unordered_map: any order), or the
\* start of the second.
NextToBuild ==
  IF todo = {}
  THEN /\ phase' = "link"
       /\ cursor' = Shared
       /\ todo' = DOMAIN builders \ {Shared}
  ELSE /\ phase' = "build"
       /\ cursor' \in todo
       /\ todo' = todo \ {cursor'}

\* The rest of build(): dump_state, link_symbols, optimizer, addIRModule.
EmitModule ==
  /\ failed = "no" /\ phase = "build" /\ Current.pending = <<>>
  /\ LET symbols == SymbolsToDefine(Current)
         defined == DefinedBy(Current)
     IN  \/ /\ ~Current.open
            /\ failed' = "moved"
            /\ UNCHANGED <<builders, absolute, code, phase, cursor, todo>>
         \/ /\ Current.open
            /\ \/ DOMAIN symbols \cap DOMAIN absolute # {}
               \/ DOMAIN defined \cap DOMAIN code # {}
            /\ failed' = "duplicate"
            /\ UNCHANGED <<builders, absolute, code, phase, cursor, todo>>
         \/ /\ Current.open
            /\ DOMAIN symbols \cap DOMAIN absolute = {}
            /\ DOMAIN defined \cap DOMAIN code = {}
            /\ absolute' = Extended(absolute, symbols)
            /\ code' = Extended(code, defined)
            /\ builders' = [builders EXCEPT ![cursor].open = FALSE]
            /\ NextToBuild
            /\ UNCHANGED failed
  /\ UNCHANGED <<requests, requested, engine, userData, slot>>

-----------------------------------------------------------------------------
(* build_modules, second loop: link() of every builder.                      *)

\* A lookup materialises the module of the symbol, and with it every module
\* it needs symbols of: it succeeds iff none of them is left undefined.
Resolvable(u) ==
  \E U \in SUBSET DOMAIN builders :
    /\ u \in U
    /\ \A v \in U :
         /\ ~builders[v].open
         /\ Range(builders[v].jit) # {} => PrivateSymbol \in DOMAIN absolute
         /\ \A s \in DOMAIN builders[v].systems :
              builders[v].systems[s] \in DOMAIN absolute
         /\ \A f \in DOMAIN builders[v].scripts :
              LET n == builders[v].scripts[f]
              IN  /\ n \in DOMAIN code
                  /\ \E w \in U : n \in {builders[w].scripts[g] :
                                          g \in Range(builders[w].jit)}

NextToLink_OneOnly ==
  IF todo = {}
  THEN /\ phase' = "idle"
       /\ cursor' = None
       /\ todo' = {}
       /\ builders' = [u \in {Shared} |-> builders[u]]
  ELSE /\ phase' = "link"
       /\ cursor' \in todo
       /\ todo' = {}
       /\ UNCHANGED builders

\* The next builder of the second loop, or the return of build_modules, which
\* clears m_map but keeps the shared builder as it is.
NextToLink ==
  IF todo = {}
  THEN /\ phase' = "idle"
       /\ cursor' = None
       /\ todo' = {}
       /\ builders' = [u \in {Shared} |-> builders[u]]
  ELSE /\ phase' = "link"
       /\ cursor' \in todo
       /\ todo' = todo \ {cursor'}
       /\ UNCHANGED builders

\* link(): symbol.name is the plain name, entry_name the thunk's real name.
LinkModule ==
  /\ failed = "no" /\ phase = "link"
  /\ LET mine == Range(Current.jit)
         found == \A f \in mine : /\ Plain(ScriptName(f)) \in DOMAIN code
                                  /\ Resolvable(cursor)
     IN  \/ /\ ~found
            /\ failed' = "unresolved"
            /\ UNCHANGED <<builders, userData, slot, phase, cursor, todo>>
         \/ /\ found
            /\ userData' = [f \in Function |->
                 IF f \in mine THEN code[Plain(ScriptName(f))] ELSE userData[f]]
            /\ slot' = [f \in Function |-> IF f \in mine THEN f ELSE slot[f]]
            /\ NextToLink
            /\ UNCHANGED failed
  /\ UNCHANGED <<requests, requested, engine, absolute, code>>

-----------------------------------------------------------------------------
Next ==
  \/ \E m \in ScriptModule : BuildScriptModule(m)
  \/ \E f \in Function : CompileFunction(f)
  \/ BuildModules
  \/ BuildFunction
  \/ EmitModule
  \/ LinkModule

Spec == Init /\ [][Next]_vars

\* Once called, build_modules runs on: it waits for nobody.
FairSpec == Spec /\ WF_vars(BuildFunction) /\ WF_vars(EmitModule) /\ WF_vars(LinkModule)
-----------------------------------------------------------------------------
(* Properties.                                                               *)

IsMap(map, S, T) == DOMAIN map \subseteq S /\ map \in [DOMAIN map -> T]

ScriptSymbol == {ScriptName(f) : f \in Function} \X Nat
SystemSymbol == {SystemName(s) : s \in SystemFunction} \X Nat

IsBuilder(b) ==
  /\ b = [pending |-> b.pending, jit |-> b.jit, scripts |-> b.scripts,
          systems |-> b.systems, open |-> b.open]
  /\ b.pending \in Seq(Function)
  /\ b.jit \in Seq(Function)
  /\ IsMap(b.scripts, Function, ScriptSymbol)
  /\ IsMap(b.systems, SystemFunction, SystemSymbol)
  /\ b.open \in BOOLEAN

\* Every variable holds a value of its kind; a builder is being visited
\* exactly while build_modules runs.
TypeOK ==
  /\ requests \subseteq Function
  /\ requested \subseteq Function
  /\ engine \in Engines \cup {None}
  /\ builders = [u \in DOMAIN builders |-> builders[u]]
  /\ DOMAIN builders \subseteq Unit /\ Shared \in DOMAIN builders
  /\ \A u \in DOMAIN builders : IsBuilder(builders[u])
  /\ IsMap(absolute, SystemSymbol \cup {PrivateSymbol},
           {NativeOf[s] : s \in SystemFunction} \cup {Runtime})
  /\ IsMap(code, ScriptSymbol, Function)
  /\ userData \in [Function -> Function \cup {None}]
  /\ slot \in [Function -> Function \cup {None}]
  /\ phase \in {"idle", "build", "link"}
  /\ cursor \in IF phase = "idle" THEN {None} ELSE DOMAIN builders
  /\ todo \subseteq DOMAIN builders \ {Shared, cursor}
  /\ failed \in {"no", "engine", "diagnostic", "moved", "duplicate", "unresolved"}

\* link_symbols resolves the ids of the registered functions in m_engine
\* (modulebuilder.cpp:527): every function it ever holds is of that engine.
OneEngine == \A f \in requested : EngineOf[f] = engine

\* A function compiled for several modules gets one body and one symbol: the
\* builder that owns it translates it once, however often it was appended.
TranslatedOnce ==
  \A u \in DOMAIN builders : IsInjective(builders[u].jit)

\* Neither loop of build_modules makes the JIT refuse a symbol: no name is
\* defined twice, and none is looked up before the modules it leads to are in.
LinkerNeverFails == failed \notin {"duplicate", "unresolved"}

\* What the VM enters for a function, and what virtual calls reach through
\* its user data, is its own code, although link() finds it by name only.
OwnCode ==
  \A f \in Function : slot[f] \in {None, f} /\ userData[f] \in {None, f}

\* A registered function is called through a name made of its declaration
\* only, which the first module that uses it defines for all: the name leads
\* to the function's own address in every module that has been built.
SystemBindings ==
  \A u \in DOMAIN builders :
    ~builders[u].open =>
      \A s \in DOMAIN builders[u].systems :
        LET n == builders[u].systems[s]
        IN  n \in DOMAIN absolute /\ absolute[n] = NativeOf[s]

\* A symbol leads to what it is made for, whichever module uses it first: the code
\* of a script function, once translated, and the address of a registered one.
NamesLead == TypeOK /\ OneEngine /\ TranslatedOnce /\ OwnCode /\ SystemBindings

\* Between two calls of build_modules, a function the VM may enter as native
\* code calls native code only: everything it calls directly is in the JIT
\* under the name it uses, everything it calls virtually has its user data.
ReadyIsClosed ==
  phase = "idle" =>
    \A f \in Function : slot[f] # None =>
      /\ \A g \in Calls[f] : /\ Plain(ScriptName(g)) \in DOMAIN code
                             /\ code[Plain(ScriptName(g))] = g
      /\ \A g \in VirtualCalls[f] : userData[g] = g

HasCode == {code[n] : n \in DOMAIN code}

\* A function whose compilation was requested before a call of build_modules
\* is callable, natively and virtually, after it -- unless the process ended.
RequestsAreServed ==
  \A f \in Function :
    (phase = "build" /\ f \in requested)
      ~> ((slot[f] = f /\ userData[f] = f) \/ failed # "no")

\* The pipeline is an implementation of what JitService promises.
Service ==
  INSTANCE JitService WITH
    Callees   <- [f \in Function |-> Calls[f] \cup VirtualCalls[f]],
    available <- HasCode,
    entry     <- slot
ImplementsService == Service!Spec

\* No run checks the last two, which the code does not keep (known deviations).
\* README.md:27: BuildModules has to be called before any script call, so
\* also after a further script module has been compiled.
BuildModulesRepeatable == failed # "moved"

\* diagnostic() asserts m_engine != nullptr (jitcompiler.cpp:57).
DiagnosticHasEngine == failed # "diagnostic"
=============================================================================
