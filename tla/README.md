# Formal model of asllvm

asllvm is a just-in-time compiler for AngelScript: it translates the bytecode of script
functions to LLVM IR, lets ORC compile it and hands native code back to the AngelScript
virtual machine. The repository comes with three add-ons that scripts and hosts use, an array,
strings and a builder of script modules. This directory holds TLA+ modules that model all of
these, TLC configurations that check them on small instances, and proofs that TLAPS checks for
every instance.

Paths below are relative to `src/`; `functionbuilder.cpp` and its neighbours are in
`src/asllvm/detail/`. `PROJECT.json` maps every definition to the lines it models, and lists
the runs, the mutants each property is known to catch, the hazards and the findings.

## 1. The system

| Component | State it keeps | Operations | What makes it correct |
|---|---|---|---|
| Build pipeline (`jit.cpp`, `jitcompiler.cpp`, `modulemap.cpp`, `modulebuilder.cpp`, `modulecommon.cpp`) | `m_engine`; one builder per script module plus one for functions of no module; per builder the pending functions, the translated ones, the symbol tables and the LLVM module; the ORC dylib; the engine's slots and user data | `CompileFunction`, `BuildModules` (build every builder, then link every builder) | symbols are defined once and found; a slot leads to its function's own code, and that code only calls code |
| Generated calls (`functionbuilder.cpp`, `runtime.cpp`) | what a running script leaves in the VM context: status, calling system function, program pointer | entry thunk, script calls, virtual calls, system calls, behaviours, null and status checks | an exception ends the execution it belongs to, at once, and no other |
| System-call marshalling (`emit_system_call` in `functionbuilder.cpp`, `get_system_function_type` in `modulebuilder.cpp`) | compile-time stack pointer, loop counters | popping arguments per calling convention, storing the result | what the script pushed is what the native function takes, and the stack is balanced |
| Bytecode translation (`functionbuilder.cpp`) | basic blocks, labels, insertion point, pending jump table, compile-time stack pointer | preprocess walk, translate walk | blocks are well formed and run along the paths of the bytecode |
| Stack frame (`stackframe.cpp`) | storage of locals, stack and parameters | push, pop, pointer to an AngelScript offset | caller and callee agree on where a parameter lies; accesses stay in the frame |
| Objects and reference counts (`functionbuilder.cpp`, `runtime.cpp`) | objects, handles in variables | ALLOC, FREE, REFCPY, RefCpyV, behaviours | a live handle counts, a dead one does not |
| Devirtualisation (`ashelper.cpp`, `functionbuilder.cpp`) | class tables of the engine | resolution of a virtual method | the function called directly is the one the table holds |
| Script array (`3rd/scriptarray`) | buffer, capacity, references of each array; per subtype the cache of the methods it compares with; the engine's template instances | construction, sizes, insertion, removal, assignment, sort, find, comparison, garbage collection | an array is the list its documentation describes, references are counted per slot, threads share one cache |
| String add-on (`3rd/scriptstdstring`) | the cache of string constants of the process and its counts | `GetStringConstant`, `ReleaseStringConstant`, split, join, format and parse | no pointer of an engine dangles, every call returns, text that is taken apart or parsed is the text that was put together |
| Script builder (`3rd/scriptbuilder`) | the module, sections that were included, metadata found and stored, class and namespace of the text | start a module, add sections, build it; includes, `#if`, pragmas, metadata, paths | each section once and none missing, whoever includes whom; metadata with the declaration it stands before |
| Types (`builder.cpp`, `modulebuilder.cpp`), debug information (`debuginfo.cpp`) | caches of LLVM types and metadata | conversions | - |

How they interact. While a script module is being built, the engine calls `CompileFunction`
for each of its functions; asllvm only queues them. The host calls `BuildModules` later:
every builder translates its queue (`FunctionBuilder`, which uses a `StackFrame` and declares
callees through the builder), defines absolute symbols for the registered functions it uses
and gives its LLVM module to ORC; only when all have done so is every translated function
looked up and its slot and user data filled. The VM then enters native code through
`asBC_JitEntry` and the slot. Native code calls back into `runtime.cpp`, finds overriding
methods through the user data of the functions in an object's table, and calls registered
functions directly, which may execute scripts again.

The compiler has no threads; the array cache and the string factory are called by any number
of them. What makes the compiler hard is order (builders in the order of an
`unordered_map`, pops in the order of a loop, blocks in the order of the bytecode while code
runs along its jumps), sequences of calls the host may make (build twice, nest executions),
values computed in two places that must agree (names, parameter lists, stack offsets), and
failures that surface several native frames below the one that has to report them. What makes
the add-ons hard is threads that wait for one lock, memory that fails in the middle of a call,
callbacks into scripts from the middle of a sort, and files that include each other.

## 2. The modules

`Foo`, `MCFoo` and `FooProofs` are a specification, its instance for TLC and its theorems.

| Module | Role |
|---|---|
| `JitService` | abstract: what the compiler promises the engine |
| `BuildPipeline` | `JitCompiler`, `ModuleMap`, `ModuleBuilder`; implements `JitService` |
| `BuildPipelineProofs` | theorems about it |
| `ScriptMachine` | abstract: how scripts run, whoever runs them |
| `ScriptCalls` | entry thunk, calls and checks of generated code, and the runtime; implements `ScriptMachine` |
| `ScriptCallsProofs` | theorems about it |
| `SystemCall` | `emit_system_call` against the convention of the native function |
| `SystemCallProofs` | theorems about it |
| `BytecodeWalk` | abstract: how the VM runs the bytecode of a function |
| `Translator` | both walks of `translate_bytecode`, and the blocks running; implements `BytecodeWalk` |
| `ScriptCallLayout` | `emit_script_call`, the entry thunk, ALLOC and `allocate_parameter_storage`, dword by dword |
| `ScriptCallLayoutProofs` | theorems about it and `Devirtualization` |
| `Words`, `ScriptFrame` | integers of a width; the memory of one activation (`StackFrame`), next to what it means to the script |
| `NumberOps`, `PointerOps` | what `translate_instruction` emits for instructions on numbers and on addresses; both extend `ScriptFrame`, `MCOpcodes` composes them |
| `RefCounting` | instructions that own objects, beside what the VM does for them |
| `FunctionBuilderProofs` | theorems about `Translator` and `RefCounting` |
| `Devirtualization` | which function a virtual call reaches, bound early or looked up |
| `ArrayList` | abstract: the list an array is to a script |
| `ScriptArray` | `CScriptArray`: buffer, capacity, objects, counts; implements `ArrayList` |
| `ArraySort` | sorts, find and comparison, with callbacks into the script |
| `ArrayCache` | `Precache`: threads that share the methods of a subtype |
| `ArrayTemplate` | the template callback: which arrays the collector looks at |
| `ArrayCallsProofs` | theorems about all parts of arrays |
| `StringFactory` | `CStdStringFactory`: constants shared by the threads of a process |
| `StringFactoryProofs` | theorems about it |
| `StringSplit`, `StringNumbers` | split and join; format and parse integers |
| `ScriptText`, `ScriptPaths` | what the builder does to the text of a section, and to the name of a file |
| `ScriptBuilder` | `CScriptBuilder`: modules, sections, includes, metadata; uses both |
| `ScriptBuilderProofs` | theorems about it |

Modules that a run composes name their parts apart: `SortInit`, `SplitNext`, `templateVars`.

A definition named `X_Y` is not part of a model: it is `X` with the fault `Y` (a dropped
guard, a missing update, a swapped order), and a mutant of `PROJECT.json` puts it in the place
of `X` to show which property notices.

### BuildPipeline

`builders` is `ModuleMap` (the shared builder and `m_map`), each with `m_pending_functions`,
`m_jit_functions`, the two symbol tables and `open`, false once `m_llvm_module` has been moved
away. `absolute` and `code` are the main dylib, `slot` and `userData` what linking fills.
`phase`, `cursor` and `todo` are where `build_modules` is: the shared builder first, then the
others in any order, twice. Actions: `BuildScriptModule` (the engine), `CompileFunction`,
`BuildModules`, and the steps of its loops, `BuildFunction` (one turn of `build_functions`),
`EmitModule` (the rest of `build`) and `LinkModule`. A name is a name and a number, because
LLVM numbers a second function of one name: `Created` allows any order in which the functions
used by a body are created. `failed` says why the process ended (an assertion, `ExitOnError`
or a null pointer).

What is assumed of the engine is in named assumptions: `ClosedModulesAssumption` (a module is
built with everything its functions may call), `DeclarationAssumption` (a script module has no two
functions of one declaration), `NativeAssumption` (registered functions with one declaration,
the methods of the instances of a template, are one native function). The last is what makes
binding by declaration correct. Of the functions of no module nothing is assumed: that no two of
them have one declaration (`SharedNamesDistinct`) is a hypothesis of the theorems, true of the
instance and not of every program (section 5). `BuildScriptModule` sends no request again that would change
nothing for the engine: a function of no module is compiled once.

### ScriptCalls

An element of `executions` is one `asCContext::Execute`: status, `m_callingSystemFunction`,
program pointer (at the JitEntry or at the RET) and the native frames above it. `state` is the
`VmState` an implementation has just returned, or the mark that a host function has. Each
instruction that can call is two steps, the call and what is done with its outcome
(`AfterCall`), and between them anything may run. `ThunkReturn` is the tail of an entry thunk.
The environment raises exceptions in system functions and behaviours and starts executions
from them. A body is a sequence of instructions told apart by what they do to control, with
virtual calls resolved to any override.

Implementing `ScriptMachine` is the correctness statement: there an exception takes all calls
of an execution away in one step. The refinement mapping forgets the frames of a doomed
execution (`Doomed`), so each test an implementation makes on the way down is a stutter, and
any instruction it would still run is a step the machine does not allow.

### SystemCall

One call after the other, each load a step: `PopReturnPointer`, then the turns of the argument
loop by kind (`PopObject`, `PopSretPointer`, `PopParam`), then `CallNative`, which also clamps
the stack pointer as `ugly_hack_stack_pointer_within_bounds` does. A load yields the pushed
item that starts at the stack pointer, `Unknown` in the middle of one; parameters are of one
dword or two. `Handled` names the signatures the code marshals as they are; the others are the
two findings below.

### Translator

A program maps offsets to instructions told apart by what they do to the program pointer, with
the dwords each leaves on the stack. The first walk collects labels and tables, the second
fills blocks, with the stack pointer of the order of the bytecode; then the blocks run, as
often as they are called. `Reject` is the assertions on `empty_stack()`. Programs are what the
AngelScript compiler may emit (`IsBytecode`, `IsFlow`, `IsBalanced`): every instruction is on a path,
there is one RET, at the end, the entries of a table are JMPs, paths agree on the stack. `BytecodeWalk`
runs the same program as the VM does; the refinement compares offset and stack pointer at each
instruction.

### ScriptCallLayout

One call, from the push of its arguments to the return, by each way in (`via`): from a script
function, through the table, from the host through the thunk, from ALLOC. The caller pops
arguments off its stack one after the other into LLVM parameters (`emit_script_call`); the
callee gives each an alloca and an offset counting down (`allocate_parameter_storage`). Every
dword has a name, so a value that arrives in part or one place off is seen. The null test on
the object, the return pointer of a function that returns on the stack, and the offset at
which ALLOC finds the variable below the arguments are all steps.

### ScriptFrame, NumberOps, PointerOps

`mem` is the allocas of a generated function and what lies outside, as bytes (of `Bits` bits
instead of 8; a `Word(n)` has n bytes). `held`, `reg` and `stack` are what the script has in its
variables, the value register and on its stack, where a pointer is a place and not a number. An
instruction changes both: the bytes as the emitted code does, the meaning as the VM does.
`Represents` says when bytes mean a value; `outside` and `raised` record an access that leaves
its alloca and an exception, `null` that a null pointer was used and whether the code tests for it,
`undefined` an instruction whose result is (a division by zero, a 64-bit shift whose count reads
beyond the dword it is in). Instructions follow each other
in any order their operands allow, `MaxSteps` of them.

### RefCounting

A place is a variable, a global handle, the object register or an argument on the stack.
`native` is the pointer there, `meant` the reference the script has; `count` is the object's
own count, `lost` what REFCPY, RefCpyV (stubs that never release what they overwrite) and
exceptions (which leave the variables of a frame alone) leave behind. Actions: ALLOC, FREE,
REFCPY, RefCpyV, GETOBJ, LOADOBJ, STOREOBJ, the use of an argument, and an exception.

### Devirtualization

`classes` are declared one after the other (`DeclareClass`, `DeclareMethod`), each with its
list of virtual methods and its table, as the compiler makes them from the parent's.
`EmitCall` is `resolve_virtual_script_function`: a final method is looked up by its
declaration (`get_nonvirtual_match`), any other through the table of the object when it is
made.

### ScriptArray and ArrayList

An array is a buffer (`data`, `max`) and a count; `refs` and `val` are the objects' counts and
values, `held` those the script has in variables. Every method is one action made of the code's
helpers (`ResizeBy`, `Construct`, `SetSlots`, `RemoveSlots`, `InsertSlots`), which work on a record of one
array and the objects and change its slots through `Put`: other slots in the place of some, the
new ones counted and the old ones released. Each has its own way to
fail (`mem`, `made`: how many objects could be made). A constructor that finds no memory for its
buffer goes on, and may write through the null pointer: `crashed`, the end of the program. `script` is a constant record of what a
script does, chosen at the start: kind of subtype, sizes, whether memory fails.

### ArraySort, ArrayCache, ArrayTemplate

`ArraySort` runs one call: the insertion sorts turn by turn, with `order` the answers of the
callback, consistent or not, and its outcomes (`Failures`); `std::sort` as any arrangement it may leave by
an order, and, of a comparison that is none or fails, as an end of the call (`undefined`) or any
arrangement; a refusal when the subtype has no method to compare with; find and `operator==`; the context taken, pushed or created and given back.
`ArrayCache` has a step per access to shared data: the look without the lock, the lock, the
look again, the allocation that may fail, the scan of the methods one by one, the publication.
`ArrayTemplate` declares types one after the other and lets scripts use each as a subtype.

### StringFactory, StringSplit, StringNumbers

A call of the factory is the steps of its body: lock, find, insert or count, unlock, and the
use of the pointer after it; erasure with the last reference, registration that makes the
factory without a lock, and the end of the process that deletes it if it is empty. Splitting is a
turn of the loop per action, formatting and parsing a turn per character.

### ScriptText, ScriptPaths, ScriptBuilder

A text is a sequence of tokens told apart by what the passes do about them. `ScriptText` has
both passes as folds; `ScriptPaths` the loops of `GetAbsolutePath`. In `ScriptBuilder` the calls
of `AddSectionFromFile` and `LoadScriptSection` nest as frames of `calls`; `NextInclude` follows
the includes of the section on top, which `ProcessScriptSection` has added to the module before. `BuildModule` has the lookup of declarations
and the assertions in it.

## 3. What TLC checks

| Run | Instance | Distinct states | Shows |
|---|---|---|---|
| `pipeline` | modules A and B that call into each other, sharing a method and a template stub; C of a second engine; verbose; fairness | 512 | symbols, bindings and slots are right in every order; `JitService` is implemented; everything requested is linked, or the process has ended |
| `calls` | four functions, loops, an override that calls its base, behaviours and system functions that raise, three nested executions, methods without an object | 147150 | `ScriptMachine` is implemented; an exception that native code has noticed ends its execution and is its outcome |
| `syscall` | all handled signatures of up to two parameters, at 0 and 2 dwords | 1800 | arguments, object, result and stack pointer are right |
| `translator` | 479 programs: all of up to four instructions, and longer ones with tables, loops, checks | 7345 | blocks are well formed and follow the bytecode |
| `opcodes` | one frame with two variables and two parameters, four functions with different instructions, bytes of two bits | 153092 | values, value register, stack and branches are the script's; accesses stay inside, and null raises but where the code does not test for it |
| `call_layout` | all signatures of up to three parameters on two depths of the stack; all hierarchies of three classes with two methods and two calls | 1364829 | arguments, object and stack are where the callee's bytecode has them; bound calls reach the override |
| `counts` | two counted objects, a value, an object without counts; two variables and a global handle | 244510 | counts and pointers are right up to what the stubs leave out; nothing reachable is destroyed |
| `array` | two arrays of handles, of objects (memory fails) or of numbers, of up to three elements, as lists, filled or copied, with and without memory | 21431 | references, capacity, elements of their own; `ArrayList` is implemented |
| `array_calls` | lists of up to four elements with consistent and inconsistent callbacks, or none; three threads and three methods; a type and two classes | 201392 | sorts and searches, the shared cache, the collector; calls return and threads go on |
| `strings` | two threads, three constants of two strings; strings of up to five characters; integers of five bits | 383403 | nothing dangles; split and join, format and parse are inverse; calls return |
| `script_builder` | a script, two files of a library and a section in memory, including each other; texts of up to seven tokens; paths of up to five parts | 558653 | sections, metadata, conditions, names of files; calls return |
| `call_entry` | a host that enters functions with any number of values | - | violation: see the known deviations |

Runs that put several components together (`call_layout`, `array_calls`, `strings`,
`script_builder`) hold a behaviour of one of them at a time, while the others rest: the
components share no state in the code either, except in `script_builder`, where the builder
uses the text and the paths as operators.

A property that a run lists may be a conjunction of named parts (`Faithful`, `SortRight`,
`CacheRight`, ...); each part is stated and commented where it is defined.

Bounds. The pipeline's instance has two modules of an engine, the least with calls in both
directions of a link order, a shared function requested twice, one builder that may be
visited before or after, two registered functions of one name, and a second engine. Its
counters are bounded by the finite set of requests. Three nested executions (`MaxExecutions`)
are an outer one, one whose exception must not concern it, and one inside that. `calls` has no
bound on steps; bodies do not recurse, as recursion adds only more frames of a kind the
instance already stacks. Two parameters make every order of special and script arguments
and of sizes, three the positions first, middle and last; the theorems remove this bound. Four
instructions (`MaxInstructions`) make each kind of jump with what precedes and follows a label,
and the longer programs are the shapes that need more: a first case that is a jump itself, two
tables, nested loops, a value on the stack across a check or a choice; `Depths` bounds the stack
at 2. Two or three instructions on a frame (`MaxSteps`) make a write, what reads it, and what
tests it; bytes of two bits keep signs, overflow and the widths 1, 2, 4 and 8 apart. `MaxCount`
of 3 bounds the counts of an object at every place but one. `MaxClasses` of 3 is a
class, one that overrides, and one declared after a call was bound. Three elements hold a
gap before, in and behind what is inserted or removed; arrays of objects are let become longer
(`room`) than they may (`maxSize`), so that sizes are refused. Three threads are one that makes the cache, one that waits and one that
comes late; two threads with three constants of two strings have one string twice. Lists of four
elements have ties before, between and behind others. Five characters hold delimiters that overlap
and parts on both sides of them, and `MaxSize` is as long as an array may become; integers of
five bits have two hexadecimal digits, of which the first is not full, and five binary ones.
`MaxModules` of 2 is one module after another with the same builder.

Runs that allow a deadlock say why: a process that an assertion, `ExitOnError` or a null
pointer has ended takes no step, and neither does a host with nothing left to do.

Fairness. `BuildFunction`, `EmitModule` and `LinkModule` are the body of one function on one
thread, which waits for nobody: weak fairness of each only says that it runs on. The same
holds for `AfterCall`, `ThunkReturn` and `LeaveVM`, native code and VM that have just been
returned to, for the turns of the loops of sorts, of split and of `GetAbsolutePath`, and for
`Proceed` of `ScriptBuilder`, the rest of a call of the host. A thread of `ArrayCache` or
`StringFactory` runs on likewise, with strong fairness of the step that takes the lock: a mutex
that is free again and again is given to a thread that waits for it. Nothing is
assumed of scripts, host functions or the application: they may loop, never return, or never
call. `MCScriptBuilder` writes the weak fairness of `Proceed` out as "infinitely often no call is
open, or infinitely often one proceeds", because a call that is open can proceed.

## 4. What is proved

TLAPS checks the following for all values of the constants that satisfy the assumptions.

**BuildPipelineProofs**, from `ConstantsAssumption`, `ClosedModulesAssumption`,
`DeclarationAssumption` and `NativeAssumption`, which TLC evaluates on the instance, and under the
hypothesis `SharedNamesDistinct` (no two functions of the shared builder have one declaration):
`TypeCorrect`, `EngineIsUnique`, `TranslationIsUnique`, `LinkingSucceeds`, `CodeIsOwn`,
`SystemCallsAreBound`, together `SymbolsAreRight`; `NativeCodeIsClosed`, and
`ServiceIsImplemented` (`Spec => JitService`). None of the properties is inductive: that linking
finds a symbol depends on what every builder did before, and on how far the loops are. `IInv`
therefore says what holds at each of four stages -- `Fresh` (no builder emitted), `Building`,
`Linking`, `Served` -- together with what holds always: requests are closed under calls, builders
hold functions of their own module, tables name them by declaration, the dylib leads where names
say. `Accounted` is the core: until the first build is over, everything requested is pending
or translated in its builder, and the code in the dylib is exactly that of closed builders.
One lemma per action shows that the invariant is preserved; the refinement is two lemmas
(`EmitRefines`, `LinkRefines`), all other actions stutter or are `Request`.

**SystemCallProofs**, from `SignatureAssumption`, `BelowAssumption` and the hypothesis
`AllHandled` (every signature is handled): `TypeCorrect`, `ArgumentsArrive`, `StackRestored`,
`ResultAndObject`, for any number of parameters. The invariant relates the three counters of
the loop and the stack pointer to the item that is next (`Counters`) and says where those
taken have been put (`Placed`); clamping the stack pointer is then seen to change nothing.

**ScriptCallLayoutProofs**, from `FunctionsAssumption`, which takes the offsets of a function's
parameters to be sums of the widths before them, and the hypothesis `OneEntered` (a host enters
functions of at most one value): `TypeCorrect`, `ArgumentsAreFound`, `StackRestored`, `NullNeverRuns`,
`VariableOfALLOC`, together `ObjectFound`, for any number of parameters and any depth. `Layout`
says for each stage where every dword is: `Placed` by the script, `Pushed`, `Taken` off the
stack, `Kept` in allocas.

In the same module, for `Devirtualization` from `NamesAssumption`: `ClassesTypeCorrect`, `DirectIsVirtual`,
`AlwaysMatched`, together `BindingSafe`, for any hierarchy and any number of calls. The invariant
says that lines of classes are closed (`Lined`), that tables agree with the parent's up to overrides
(`Inherited`, `Introduced`, `Implemented`), that a name has one slot in a line (`Functional`), and
that a call that was bound was bound to what the table holds (`Bound`); a final method stays
what it is in every class declared later.

**ScriptCallsProofs**, for any functions, bodies and depth of nested executions: `TypeCorrect`, and
`CallsImplementMachine` (`Spec => ImplementsMachine`), the statement that an exception ends its
execution and no other. The invariant `ExecutionsConsistent` says what a stack of native frames may
look like: the thunk below, each frame at the instruction of its caller that calls it
(`CallersConsistent`), a state left only where the call that left it will test it
(`StateConsistent`), the program pointer moved by the thunk alone. Under the refinement mapping every
action is then one step of the machine or a stutter: what runs in a doomed execution is only
tests, because a state that is not the normal one is still to be tested by the frame below.

**FunctionBuilderProofs**, for `Translator` from `ProgramsAssumption` :
`BlocksAreRight` and `NativeWalksBytecode` (`TranslatorSpec => ImplementsBytecode`), for programs of any
length with any tables and jumps. The invariant `TranslatorIInv` describes what has been made when
the second walk is at an offset (`Made`): every instruction of a block is what its bytecode says
(`Faithful`), what follows it is in the same block or at the front of the block it names
(`Continued`, `Starts`), and a block is open only if it is the current one or its label is still
ahead. `Before` ties this to the bytecode before the offset, `TablesKnown` says that the first walk
has all entries of the tables it has passed, the open one included. When the walk ends nothing is
ahead, so all blocks are closed and each path of native code is one of the bytecode.

For `RefCounting`, under `Disciplined` (the script frees and copies no null): `TypeCorrect`,
`MovesKeepPointers`, `LeaksAreTheStubs`, `ReachableLive`, together `ReferencesKept`, for any number
of objects and places. `CountsExplained` needs to know that what the script holds is alive,
that an object not born yet has lost nothing, and what is on top of the stack (`ReferencesIInv`).

**ArrayCallsProofs**, each part on its own:

- The cache, for any number of threads and methods: `OnlyOneCache`, `CompleteWhenSeen`,
  `LeavesUnlocked`, `NeverReplaced`, together `CacheSafe`. A thread in the part under
  the lock holds it (`Locked`), the cache is allocated by the only thread that found none with
  the lock held (`OneCache`), and what is being built is right about the methods looked at so far
  (`ScannedRight`).
- The verdict on a template instance: `NeverLeaked`, for any number of classes declared afterwards.
  The invariant keeps what was looked at when an array type was left out (`VerdictsRight`): the subtype is not
  collected and, if handles of a class of a script are stored, final. So nothing derived later can be in it.
- Calls: `ReturnsWell`, what find and `operator==` return, the context given back and an abort in
  `operator==` handed on, for lists of any length; `SortsRight`, that the insertion sorts leave the
  elements as they were whatever the callbacks answer, and their part in order by any order they
  answer. Of `std::sort` this is what the library promises for a comparison that is an order, not
  proved here; for another one the theorem says nothing (`Defined`). The loop
  invariant `SortInv` has the part passed in order but for the gap, and counts occurrences with
  the element that was taken out. Hypothesis `Representable` excludes the two known deviations:
  a start and a count whose sum is no int, and integers wider than one.
- Storage: `ReferencesExact` and `StorageSafe`, for any number of arrays and objects and any sizes.
  `RefCountsExact` is not inductive by itself, as a call changes the slots of one array and the counts
  of all objects. Each helper is therefore shown to keep `Sound(w, out)` of the record it works on, where
  `out` is what all other arrays and the variables refer to: counts are `out` and the uses in this
  array's slots, the slots fit the capacity, and of objects no slot shares one. `StorageIInv` adds types,
  that a dead array has no buffer, and that an object in an array of objects is counted once.
  Hypothesis `RangesFit` excludes the known deviation of `RemoveRange`: a start and a count whose sum wraps.
  What a program does after a constructor has written through a null buffer (`crashed`) is not said.
- Elements: `ArrayImplementsList` and `ArrayCallsAsPromised`, that buffers, objects and counts implement the lists of
  `ArrayList` and every call does what its own name says, under `RangesFit`, for arrays that may have fewer
  than half as many elements as a size has values (2^31; `Resize` takes a difference of sizes as an int). The properties themselves speak of
  scripts for which memory and room suffice (`Ample`); without, an insertion overwrites an element, which is
  the known deviation of `InsertAt`. `Shows(w, out, was, l, r)` says which list the record a helper works on shows,
  and that objects of other arrays have the values they had; one lemma per helper says how it changes that
  list (a copy of an array of objects into itself, or of itself after it grew, included), one per call puts these
  together. The invariant `RefinesIInv` adds to `StorageIInv` that no slot of an array of objects is without its
  object when there is memory enough: an empty slot shows no value, and assigning to it is ignored.
  An object that is written through one slot is in no other (`StorageIInv`), so the other lists stay. For objects
  the theorems go beyond the run `array`, where arrays of objects never have enough room (with room for two in
  `MCScripts` the run takes four minutes, and passes).

**StringFactoryProofs**, from `ConstantsAssumption` (finitely many) and `NamesAssumption`, for any
number of threads, constants and strings: `TypeCorrect`, `CountsKept`, `PointersStay`,
`ReleasesAlwaysSucceed`, together `FactorySafe`. Beside `Locked`, the invariant needs that a
constant is the business of one call at a time (`OneCaller`, what engines guarantee) and that
what a call has found out under the lock is still so when it acts on it (`CallsKnow`).
`FactoryOutlives`: the factory is deleted only when no engine has a pointer of it, because at the end of
the process no thread is left that could insert (`Ended`), and an entry that is still counted keeps
the cache from being empty (`Outliving`).

In the same module, for `StringSplit` from `DelimitersAssumption` and `MaxLengthAssumption`:
`SplitsRight`, what split makes of any string, as long as `NoNul` holds of it (the last part ends at a
NUL, a known deviation). `SplitIInv` has the parts and their delimiters make the string up to `prev`
(`Passed`), and a delimiter that began within a part would have been found before (`AtInPart`,
`BareBefore`). For `StringNumbers` from `WidthAssumption`: `NumbersReadBack`, for any width. What a
format writes has a shape (`FormatShape`: sign, zeros, digits, spaces), `NumberIInv` says how much of it
has been read: `res` is what the digits read so far stand for (`Lead`), wrapped, and wrapping early or
late is the same (`WrapsLate`), so that digits that overflow on the way still end at the number.

**ScriptBuilderProofs**, from `NamesAssumption` and `PathsAssumption`: `TypeCorrect`,
`SectionsOnce`, `IncludesAllFollowed`, together `SectionsComplete`, for any files. A name that is remembered
is a section of the module or a call that is still open (`Remembered`, `Accounted`), calls nest
(`CallsNest`), and every include of an added section is remembered or still ahead in an open
call (`Followed`).

In the same module, for `ScriptPaths` from `PathsAreParts`: `NamesAreOne`, for paths of any length
in which no two slashes meet (`NoneEmpty`).
Taking out `name/..` leaves the place a path leads to as it is (`ParentGoes`), and so do the dots that
are taken out first (`DotsGo`); a path that leaves the root is shortened and never done (`OffRoot`).

What the recursive functions `StringJoin`, `Power`, `Place` and `WithoutDots` compute, for all inputs, is
proved without an induction theorem (those take an operator as a parameter): a set of numbers with 0
and every successor is `Nat` (`Induct`, as finite sets are well founded by inclusion), and of the solutions of
a recursion there is one (`Solution`, `OneSolution`).

Only model-checked:

- Liveness, which needs fairness and ENABLED.
- `Faithful` and `AccessesRight` of the instructions on a frame: what they compute is defined on the bits
  of bytes, with operators the provers have no theory of.
- `TextRight` and `BuildRight`: what the folds over a text, token by token, compute for every input needs induction
  over data with an invariant of the whole scanner.

## 5. Known deviations

What the code does and a document, comment or assertion of the repository says otherwise.
One has a run, `call_entry`: the thunk reads the arguments of the host below the frame pointer,
where `functionbuilder.hpp:43` and `allocate_parameter_storage` have them above, so that all
but the first are wrong. The others were seen as counterexamples of the modules and can be
again by the change given in brackets; properties kept for them are marked in the modules.

- A second `BuildModules` dereferences the LLVM module the shared builder gave away
  (`modulebuilder.cpp:282`; `BuildModulesRepeatable` in `MCBuildPipeline.cfg`).
- With verbose set, `BuildModules` before the first compilation fails the assertion at
  `jitcompiler.cpp:57` (`DiagnosticHasEngine`, same cfg).
- The null check of `this` in an entry thunk raises the exception and calls anyway
  (`functionbuilder.cpp:2041`, `doc/status.md:56`; `ScriptRunsActive` in `MCScriptCalls.cfg`).
- `m_callingSystemFunction` is given a native address instead of the function
  (`functionbuilder.cpp:1660`, `doc/compat.md:17`; `CallingFunctionKnown`, same cfg).
- A function that returns an object in memory is not given its address, and a method that
  returns one in registers is called on the place of its result (`functionbuilder.cpp:1615`, `:1532`,
  `doc/status.md:44`; `ReturnsByValue` in `MCSystemCall.cfg` with `Signatures` as
  `FunctionsInMemory` or `MethodsInRegisters`).
- A bool or small parameter has an alloca narrower than the moves that access it, and the
  storage of variables is indexed with a parameter's index (`functionbuilder.cpp:757`, `:733`; other
  `Slots` and `Bytes` in `MCOpcodes`). ADDSi and RDSPtr use a null pointer untested (`:771`, `:423`,
  `doc/status.md:56`): the model has both as they are (`UsedUntested`), and `NullRaises` asks for an exception
  only where the code tests.
- BSLL64, BSRL64 and BSRA64 have a dword as count and load it as 64 bits (`functionbuilder.cpp:1038`,
  `:1403`), four of the bytes stale or, at the end of the frame, outside of its storage, where
  `stackframe.cpp:116` asks for the offset to be inside (`WithinAllocas` in `MCOpcodes.cfg`). The model reads
  the same bytes, and ends where they are outside or a count as large as the value (`Without`).
- Division by zero, and of the least number by -1, raises no exception (`:260`, `doc/status.md:57`): the
  instruction is undefined in LLVM, and the model has it as such (`undefined`).
- Two functions of no module that have one declaration, such as the factory stubs of `array<Foo>` for the
  `Foo` of two script modules, are compiled in one builder under names LLVM tells apart by a number, but
  declared elsewhere, and looked up by `link()`, under the plain name (`modulecommon.cpp:18`,
  `modulebuilder.cpp:488`): calls of the second reach the first (`OwnCode`, with a second stub declared like
  the one of `MCBuildPipeline`).
- FREE releases, and REFCPY counts, whatever a handle holds, null included, and FREE leaves the
  pointer in the variable (`functionbuilder.cpp:593`, `:606`, `doc/status.md:67`; `FreesNull` and
  `CopiesNull` TRUE in `MCRefCounting.cfg`, with `NullIgnored`).
- `InsertAt` overwrites an element when the array may not grow (`scriptarray.cpp:807`; `CallsAsPromised`
  without `Ample`). `RemoveRange` takes start + count modulo 2^32 (`:669`; `numbers` up to `Word` - 1).
- Arrays of 64-bit integers are compared by their low 32 bits (`scriptarray.cpp:1027`), a `startAt`
  of 2^31 or more passes the bounds of a sort (`:1430`; items and `Starts` of `MCArrayCalls`).
- Two null handles each precede the other (`:1478`), and a comparison that ends by an exception or an
  abort answers false (`:1496`; the TODO at `:1484`): no order for `std::sort`, whose behaviour is then
  undefined (`Consistent` in `ArraySort`). An abort during find or a sort is lost if another comparison
  follows, which prepares the context anew (`:1296`, `:1485`, `:1590`).
- A constructor of an array goes on when there is no memory for its buffer, and copies to, or asks its size
  of, a null pointer (`:407`, `:435`, `:514`, `:546`; `crashed`). Other calls on an array without a buffer are
  not modelled (`Usable`).
- split does not end for an empty delimiter, and loses what follows a NUL in the last part
  (`scriptstdstring_utils.cpp:46`, `:51`; `Delimiters` and `Chars` of `MCStrings.cfg`).
- A file that could not be opened is taken to be included when it is asked for again
  (`scriptbuilder.cpp:92`, `:100`; `AlreadyMeansIncluded` in `MCScriptBuilder.cfg`). Metadata in a class behind
  `shared`, `abstract` or `final` is not read (`:319`), that of a variable with constructor arguments is
  stored for an argument (`:1001`; such tokens in `ForMetadata` of `MCScriptBuilder`). A `/../` at the root
  is never removed (`:1099`; `Ends` in `MCScriptBuilder.cfg`). In the root directory a relative path gets two
  slashes, which nothing takes out, so that `lib/a` and `/lib/a` are two files to the builder (`:1082`, `:96`;
  `FullyResolved`, same cfg); so do paths written with `//`. A module that is built again
  asserts: the declarations of the sections built before are looked up once more (`:560`, `:568`-`:697`),
  and only the sections added since are compiled. The instance builds one module again; `BuildRight` speaks of
  the first build of each.

## 6. What is not modelled

- Types, optimiser pipeline, debug information: conversions without state that matters.
- Floating point: its instructions, `formatFloat`, `parseFloat`.
- The width of `formatInt` and `formatUInt` as an asUINT that is passed for an `int` and grows by 30
  (`scriptstdstring.cpp:495`): widths are small numbers in the model.
- `StartNewModule` without an engine, or when the engine makes no module (`scriptbuilder.cpp:51`, `:56`).
- Arrays of one-byte elements with 2^31 and more of them, where `Resize` takes a difference of sizes for
  a negative int (`scriptarray.cpp:651`).
- LLVM, ORC and AngelScript: only as the code uses them. System-V classification of
  aggregates is LLVM's and the C++ compiler's.
- Suspension, line callbacks, abort and composite calls: not implemented by the code
  (`doc/status.md`).
- Builds without assertions: an assertion that fires ends the process in every model.
- `ReleaseJITFunction`, empty in the code, and script modules that are discarded after they
  were compiled; functions entered in their middle, which `README.md:26` of the repository excludes.
- Constructors that raise, and the members of script objects.
- Generic wrappers and registration of the add-ons, which forward; functions of the string
  add-on that are one call of `std::string`.
- The include callback of the builder, what a pragma callback does beyond its verdict, paths of
  Windows, and texts with unbalanced brackets.
- Callbacks of a sort that change the array they sort.

## 7. Plan

Done, in this order: `JitService`/`BuildPipeline`; `ScriptMachine`/`ScriptCalls`; `SystemCall`;
`BytecodeWalk`/`Translator`; `ScriptCallLayout`; `ScriptFrame` with its instructions; `RefCounting`;
`Devirtualization`; the add-ons. What would come next:

1. Proofs about the scans of `ScriptText`, with the induction that the paths use, and a version of `Words`
   without operators on bits for the frame.
2. `RefCounting` composed with `ScriptCalls`: whole call trees with objects.
3. Discarded modules in `BuildPipeline`.
