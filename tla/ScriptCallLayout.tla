--------------------------- MODULE ScriptCallLayout ---------------------------
(***************************************************************************)
(* Where the arguments of a script function lie, dword by dword: the script *)
(* pushes them, the code emitted for the call pops them as arguments of an  *)
(* LLVM function (emit_script_call), the callee keeps these by the offsets  *)
(* its bytecode uses (StackFrame::allocate_parameter_storage).  The host    *)
(* enters a function with its arguments in a frame of the virtual machine,  *)
(* and ALLOC calls a constructor behind the address of a variable.          *)
(*                                                                          *)
(* Offsets count down the frame, as in StackFrame: what was pushed first    *)
(* has the least, and a value begins at its greatest.                       *)
(***************************************************************************)
EXTENDS Integers, Sequences

CONSTANTS
  Functions, \* [returns, method, virtual, widths]; widths are those of the parameters, in dwords
  Entered,   \* those the host calls
  Built,     \* constructors, which ALLOC calls
  Start,     \* Start[f][n]: dwords before the n-th value of f; those of all, behind the last
  Depths,    \* dwords on the stack of the caller
  Below, Above \* bounds: offsets

PtrDwords == 2
Offsets == -Below .. Above

Vias == {"call", "entry", "alloc"}
Allowed(via) == CASE via = "call" -> Functions [] via = "entry" -> Entered [] via = "alloc" -> Built

-----------------------------------------------------------------------------
(* The values of a call                                                      *)

OnStack(f) == f.returns = "stack"
InRegister(f) == f.returns = "register"
Leading(f) == (IF f.method THEN 1 ELSE 0) + (IF OnStack(f) THEN 1 ELSE 0)
Count(f) == Leading(f) + Len(f.widths)
Parameter(f, n) == <<"parameter", n - Leading(f)>>

\* The compiler: the object lies before the address for what is returned, and
\* the parameters follow, each at a greater distance from the top.
ScriptValue(f, n) ==
  IF n > Leading(f) THEN Parameter(f, n)
  ELSE IF f.method /\ n = 1 THEN <<"object", 0>>
  ELSE <<"address", 0>>

\* emit_script_call, get_script_function_type: the address comes first.
CodeValue(f, n) ==
  IF n > Leading(f) THEN Parameter(f, n)
  ELSE IF OnStack(f) /\ n = 1 THEN <<"address", 0>>
  ELSE <<"object", 0>>

Width(f, value) == IF value[1] = "parameter" THEN f.widths[value[2]] ELSE PtrDwords
Space(f) == Start[f][Count(f) + 1]

FunctionsAssumption ==
  /\ Below \in Nat /\ Above \in Nat
  /\ \A f \in Functions :
       /\ f.returns \in {"nothing", "register", "stack"} /\ f.method \in BOOLEAN /\ f.virtual \in BOOLEAN
       /\ f.virtual => f.method
       /\ f.widths \in Seq(Nat \ {0})
       /\ Start[f] \in [1 .. Count(f) + 1 -> Nat]
       /\ Start[f][1] = 0
       /\ \A n \in 1 .. Count(f) : Start[f][n + 1] = Start[f][n] + Width(f, ScriptValue(f, n))
       /\ \A m, n \in 1 .. Count(f) + 1 : m <= n => Start[f][m] <= Start[f][n]
       /\ Space(f) <= Below
       /\ \A d \in Depths : d + PtrDwords + Space(f) <= Above
  /\ Entered \subseteq {f \in Functions : ~f.virtual}
  /\ Built \subseteq {f \in Functions : f.method /\ ~f.virtual /\ f.returns = "nothing"}
  /\ Depths \subseteq Nat
ASSUME FunctionsAssumption

-----------------------------------------------------------------------------
VARIABLES
  pc,     \* "push", "resolve", "pop", "enter", "run", "returned", "raised"
  via,    \* who calls
  f,      \* the callee
  null,   \* whether the object is null
  frame,  \* frame[offset]: a dword, the n-th of a value
  depth,  \* m_stack_pointer when the first argument is pushed
  sp,     \* m_stack_pointer
  next,   \* the value to push, to pop or to keep
  read,   \* read_dword_count
  args,   \* the arguments of the LLVM call
  offset, \* stack_offset of the callee
  params, \* m_parameters: what lies at an offset
  target  \* what ALLOC took for the address of the variable

vars == <<pc, via, f, null, frame, depth, sp, next, read, args, offset, params, target>>

Other == <<<<"other", 0>>, 0>>
Target == <<"variable", 0>>
Dword(value, n) == <<value, n>>

\* A load of w dwords: the value, if these are the dwords of one.
Loaded(at, w) == [n \in 0 .. w - 1 |-> frame[at - n]]
Whole(value, w) == [n \in 0 .. w - 1 |-> Dword(value, n)]
Stored(m, at, value, w) ==
  [o \in DOMAIN m |-> IF o \in at - w + 1 .. at THEN Dword(value, at - o) ELSE m[o]]
Register == Whole(<<"register", 0>>, PtrDwords)
IsNull(dwords) == null /\ dwords = Whole(<<"object", 0>>, PtrDwords)

Empty == [o \in Offsets |-> Other]
Init ==
  /\ pc = "push" /\ via \in Vias /\ f \in Allowed(via)
  /\ null \in IF f.virtual THEN BOOLEAN ELSE {FALSE}
  /\ \E d \in Depths :
       CASE via = "call" -> depth = d /\ frame = Empty
         [] via = "entry" -> depth = -Space(f) /\ frame = Empty
         [] via = "alloc" ->
              /\ depth = d + PtrDwords
              /\ frame = Stored(Empty, d + PtrDwords, Target, PtrDwords)
  /\ sp = depth /\ next = Count(f)
  /\ read = 0 /\ args = <<>> /\ offset = 0 /\ params = <<>> /\ target = <<>>

-----------------------------------------------------------------------------
(* The script, or the host, passes the values from the last to the first.    *)
(* ALLOC makes the object itself.                                            *)

Given == IF via = "alloc" THEN 1 ELSE 0
Push ==
  /\ pc = "push" /\ next > Given
  /\ LET value == ScriptValue(f, next)
         w == Width(f, value)
     IN  /\ sp' = sp + w
         /\ frame' = Stored(frame, sp + w, value, w)
  /\ next' = next - 1
  /\ UNCHANGED <<pc, via, f, null, depth, read, args, offset, params, target>>

\* The address behind the object.
SpaceForArguments_Object(g) == Space(g)
\* asCScriptFunction::GetSpaceNeededForArguments
SpaceForArguments(g) == Space(g) - PtrDwords
ALLOC ==
  /\ pc = "push" /\ via = "alloc" /\ next = Given
  /\ target' = Loaded(sp - SpaceForArguments(f), PtrDwords)
  /\ sp' = sp + PtrDwords
  /\ frame' = Stored(frame, sp + PtrDwords, <<"object", 0>>, PtrDwords)
  /\ pc' = "resolve" /\ next' = 1
  /\ UNCHANGED <<via, f, null, depth, read, args, offset, params>>

CALL ==
  /\ pc = "push" /\ via # "alloc" /\ next = 0
  /\ pc' = "resolve" /\ next' = 1
  /\ UNCHANGED <<via, f, null, frame, depth, sp, read, args, offset, params, target>>

-----------------------------------------------------------------------------
(* emit_script_call                                                          *)

\* resolve_virtual_script_function: the object is on top.
NullOnTop == f.virtual /\ IsNull(Loaded(sp, PtrDwords))
Resolve ==
  /\ pc = "resolve"
  /\ pc' = IF NullOnTop THEN "raised" ELSE "pop"
  /\ args' = IF InRegister(f) THEN <<Register>> ELSE <<>>
  /\ UNCHANGED <<via, f, null, frame, depth, sp, next, read, offset, params, target>>

\* The thunk reads a frame of the virtual machine.  It subtracts from the frame
\* pointer, which is at offset 0, the dwords it has read: a greater address has a
\* lesser offset.
EntryOffset(dwords) == dwords

\* The value is left on the stack.
Popped_None(w) == sp
Popped(w) == IF via = "entry" THEN sp ELSE sp - w
Pop ==
  /\ pc = "pop" /\ next <= Count(f)
  /\ LET value == CodeValue(f, next)
         w == Width(f, value)
         dwords == Loaded(IF via = "entry" THEN EntryOffset(read) ELSE sp, w)
         raises == value[1] = "object" /\ IsNull(dwords)
     IN  /\ args' = Append(args, dwords)
         /\ read' = read + w
         /\ sp' = Popped(w)
         /\ pc' = IF raises THEN "raised" ELSE pc
  /\ next' = next + 1
  /\ UNCHANGED <<via, f, null, frame, depth, offset, params, target>>

CallFunction ==
  /\ pc = "pop" /\ next = Count(f) + 1
  /\ pc' = "enter" /\ next' = 1
  /\ UNCHANGED <<via, f, null, frame, depth, sp, read, args, offset, params, target>>

-----------------------------------------------------------------------------
(* allocate_parameter_storage                                                *)

\* The pointer to a returned value is counted with the parameters.
ArgumentIndex_NoSkip(n) == n
ArgumentIndex(n) == IF InRegister(f) THEN n + 1 ELSE n
NextOffset(w) == offset - w
AllocateParameter ==
  /\ pc = "enter" /\ next <= Count(f)
  /\ params' = Append(params, [at |-> offset, holds |-> args[ArgumentIndex(next)]])
  /\ offset' = NextOffset(Width(f, CodeValue(f, next)))
  /\ next' = next + 1
  /\ UNCHANGED <<pc, via, f, null, frame, depth, sp, read, args, target>>

Run ==
  /\ pc = "enter" /\ next = Count(f) + 1
  /\ pc' = "run"
  /\ UNCHANGED <<via, f, null, frame, depth, sp, next, read, args, offset, params, target>>

\* The caller goes on, with the address of ALLOC popped.
Return ==
  /\ pc = "run"
  /\ pc' = "returned"
  /\ sp' = IF via = "alloc" THEN sp - PtrDwords ELSE sp
  /\ UNCHANGED <<via, f, null, frame, depth, next, read, args, offset, params, target>>

Next == Push \/ ALLOC \/ CALL \/ Resolve \/ Pop \/ CallFunction \/ AllocateParameter \/ Run \/ Return

Spec == Init /\ [][Next]_vars

-----------------------------------------------------------------------------
Dwords == ({"object", "address", "parameter", "other", "variable"} \X Nat) \X Nat
TypeOK ==
  /\ pc \in {"push", "resolve", "pop", "enter", "run", "returned", "raised"}
  /\ via \in Vias /\ f \in Allowed(via) /\ null \in BOOLEAN
  /\ frame \in [Offsets -> Dwords]
  /\ depth \in Offsets /\ sp \in Offsets \cup {depth - PtrDwords}
  /\ next \in 0 .. Count(f) + 1
  /\ read \in 0 .. Space(f) /\ offset \in -Space(f) .. 0
  /\ Len(args) <= Count(f) + 1 /\ Len(params) <= Count(f)

\* "The topmost element is the first passed parameter": where the bytecode of
\* the callee looks for a value, the value the caller passed for it was kept.
ArgumentsArrive ==
  pc = "run" =>
    \A n \in 1 .. Count(f) :
      LET value == ScriptValue(f, n)
      IN  params[n] = [at |-> -Start[f][n], holds |-> Whole(value, Width(f, value))]

\* A call takes from the stack what was pushed for it, and ALLOC the address.
StackBalanced ==
  pc = "returned" /\ via # "entry" => sp = IF via = "alloc" THEN depth - PtrDwords ELSE depth

\* A method does not run on null, and an exception means that it would have.
NullObjectRaises == (pc = "raised" => null) /\ (null => pc \notin {"enter", "run", "returned"})

\* ALLOC stores the object through the address that was pushed first.
TargetFound == target # <<>> => target = Whole(Target, PtrDwords)

\* The object of a call is the one the script means: null raises an exception, and
\* a new object goes where the script keeps it.
ObjectRight == TypeOK /\ NullObjectRaises /\ TargetFound
=============================================================================
