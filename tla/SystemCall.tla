------------------------------ MODULE SystemCall ------------------------------
(***************************************************************************)
(* emit_system_call: how the arguments that AngelScript bytecode has pushed *)
(* are taken off the stack of the frame, one load after the other, and      *)
(* handed to a native function under its calling convention.                *)
(*                                                                          *)
(* The stack pointer is a compile-time value (StackFrame::m_stack_pointer): *)
(* a wrong number of dwords popped here makes every later instruction of    *)
(* the function use wrong offsets.                                          *)
(***************************************************************************)
EXTENDS Integers, Sequences

CONSTANTS
  Signatures,  \* the signatures of registered functions
  Belows       \* dwords an expression around the call may have pushed before

\* AS_PTR_SIZE, in dwords.
PointerSize == 2

This == <<"this", 0>>
Return == <<"return", 0>>   \* address the returned object is to be put at
Param(k) == <<"param", k>>
Unknown == <<"unknown", 0>>
None == <<"none", 0>>
Items == {"this", "return", "param", "unknown", "none"} \X Nat

Conventions == {"CDECL", "CDECL_OBJFIRST", "CDECL_OBJLAST", "THISCALL", "VIRTUAL_THISCALL"}

\* What asCScriptFunction and its asSSystemFunctionInterface say of a function.
Signature ==
  [convention : Conventions,
   sizes      : Seq({1, PointerSize}),     \* GetSizeOnStackDWords of the parameters
   returns    : {"void", "value", "handle", "object"},
   inMemory   : BOOLEAN,                   \* hostReturnInMemory
   start      : Seq(Nat)]                  \* where pushed items start, from the top

IsMethod(s) == s.convention # "CDECL"
ReturnsOnStack(s) == s.returns = "object"

\* The items the bytecode pushes for a call, from the top of the stack.
Pushed(s) ==
  (IF IsMethod(s) THEN <<This>> ELSE <<>>)
  \o (IF ReturnsOnStack(s) THEN <<Return>> ELSE <<>>)
  \o [k \in DOMAIN s.sizes |-> Param(k)]

SizeOf(s, item) == IF item[1] = "param" THEN s.sizes[item[2]] ELSE PointerSize

\* An item starts where the one above it ends; the last entry is the end of all.
IsLaidOut(s) ==
  /\ Len(s.start) = Len(Pushed(s)) + 1
  /\ s.start[1] = 0
  /\ \A k \in 1 .. Len(Pushed(s)) : s.start[k + 1] = s.start[k] + SizeOf(s, Pushed(s)[k])
  /\ \A k \in 1 .. Len(Pushed(s)) : s.start[k + 1] <= s.start[Len(s.start)]
  /\ \A j, k \in 1 .. Len(Pushed(s)) : s.start[j] = s.start[k] => j = k

ASSUME SignatureAssumption ==
  /\ Signatures \subseteq Signature
  /\ \A s \in Signatures : (s.inMemory => s.returns = "object") /\ IsLaidOut(s)
ASSUME BelowAssumption == Belows \subseteq Nat

VARIABLES
  sig,            \* the function called
  below,          \* m_stack_pointer - variable_space(), before its arguments
  phase,          \* "idle", "return pointer", "arguments" or "called"
  i,              \* turn of the argument loop
  insert,         \* insert_index
  script,         \* script_param_index
  sp,             \* m_stack_pointer - variable_space()
  args,           \* arguments of the native call
  object,         \* what is tested to be no null pointer
  returnPointer,  \* where the result is stored, None if in a register
  result          \* what has become of the result

vars == <<sig, below, phase, i, insert, script, sp, args, object, returnPointer, result>>

-----------------------------------------------------------------------------
Count(s) == Len(s.sizes) + (IF IsMethod(s) THEN 1 ELSE 0) + (IF s.inMemory THEN 1 ELSE 0)
PushedSize(s) == s.start[Len(s.start)]

\* The item a load from the current stack pointer yields.
Depth == below + PushedSize(sig) - sp
Loaded ==
  IF \E k \in 1 .. Len(Pushed(sig)) : sig.start[k] = Depth
  THEN Pushed(sig)[CHOOSE k \in 1 .. Len(Pushed(sig)) : sig.start[k] = Depth]
  ELSE Unknown

Init ==
  /\ sig \in Signatures /\ below \in Belows
  /\ phase = "idle"
  /\ i = 0 /\ insert = 0 /\ script = 0
  /\ sp = below
  /\ args = <<>>
  /\ object = None /\ returnPointer = None /\ result = None

\* The bytecode pushes the arguments of a call of s and calls it.
EmitSystemCall(s) ==
  /\ phase \in {"idle", "called"}
  /\ sig' = s
  /\ below' = sp
  /\ sp' = sp + PushedSize(s)
  /\ args' = [k \in 1 .. Count(s) |-> None]
  /\ phase' = "return pointer"
  /\ i' = 0 /\ insert' = 0 /\ script' = 0
  /\ object' = None /\ returnPointer' = None /\ result' = None

PopsReturnPointer_Never(s) == FALSE
PopsReturnPointer_Always(s) == ReturnsOnStack(s)
PopsReturnPointer(s) == ReturnsOnStack(s) /\ ~s.inMemory

PopReturnPointer ==
  /\ phase = "return pointer"
  /\ phase' = "arguments"
  /\ IF PopsReturnPointer(sig)
     THEN returnPointer' = Loaded /\ sp' = sp - PointerSize
     ELSE UNCHANGED <<returnPointer, sp>>
  /\ UNCHANGED <<sig, below, i, insert, script, args, object, result>>

\* Argument indices are those of the code, from 0.
Take(index, size) ==
  /\ args' = [args EXCEPT ![index + 1] = Loaded]
  /\ sp' = sp - size

ObjectIndex_First(s) == 0
ObjectIndex(s) ==
  IF s.convention = "CDECL_OBJLAST" THEN Count(s) - 1 ELSE IF s.inMemory THEN 1 ELSE 0

InLoop == phase = "arguments" /\ i < Count(sig) /\ i' = i + 1

PopObject ==
  /\ InLoop /\ IsMethod(sig) /\ i = 0
  /\ Take(ObjectIndex(sig), PointerSize)
  /\ object' = Loaded
  /\ insert' = IF sig.convention = "CDECL_OBJLAST" \/ sig.inMemory THEN 0 ELSE 1
  /\ UNCHANGED <<sig, below, phase, script, returnPointer, result>>

PopSretPointer ==
  /\ InLoop /\ IsMethod(sig) /\ i = 1 /\ sig.inMemory
  /\ Take(0, PointerSize)
  /\ insert' = IF sig.convention = "CDECL_OBJLAST" THEN 1 ELSE 2
  /\ UNCHANGED <<sig, below, phase, script, object, returnPointer, result>>

\* An index past the parameters reads whatever lies there.
ParamSizes ==
  IF script < Len(sig.sizes) THEN {sig.sizes[script + 1]} ELSE {1, PointerSize}

PopParam ==
  /\ InLoop
  /\ IsMethod(sig) => i > (IF sig.inMemory THEN 1 ELSE 0)
  /\ \E size \in ParamSizes : Take(insert, size)
  /\ insert' = insert + 1
  /\ script' = script + 1
  /\ UNCHANGED <<sig, below, phase, object, returnPointer, result>>

ResultOf(s) ==
  IF returnPointer # None THEN returnPointer
  ELSE IF s.inMemory THEN args[1]
  ELSE IF s.returns = "void" THEN <<"void", 0>>
  ELSE IF s.returns = "handle" THEN <<"object register", 0>>
  ELSE <<"register", 0>>

\* The call, the stores of its result, and ugly_hack_stack_pointer_within_bounds.
CallNative ==
  /\ phase = "arguments" /\ i = Count(sig)
  /\ result' = ResultOf(sig)
  /\ sp' = IF sp < 0 THEN 0 ELSE sp
  /\ phase' = "called"
  /\ UNCHANGED <<sig, below, i, insert, script, args, object, returnPointer>>

Next ==
  \/ \E s \in Signatures : EmitSystemCall(s)
  \/ PopReturnPointer \/ PopObject \/ PopSretPointer \/ PopParam
  \/ CallNative

Spec == Init /\ [][Next]_vars
-----------------------------------------------------------------------------
(* Properties.                                                               *)

\* The signatures emit_system_call hands over as they are: functions whose
\* result is not returned in memory, methods whose object is not returned in
\* registers.
Handled(s) == s.returns = "object" => (s.inMemory <=> IsMethod(s))

\* Every variable keeps a value of its kind; m_stack_pointer never leaves the
\* temporary stack (StackFrame::check_stack_pointer_bounds).
TypeOK ==
  /\ sig \in Signatures
  /\ below \in Nat /\ sp \in Nat
  /\ phase \in {"idle", "return pointer", "arguments", "called"}
  /\ i \in 0 .. Count(sig) /\ insert \in 0 .. Count(sig) /\ script \in 0 .. Count(sig)
  /\ phase # "idle" => args \in [1 .. Count(sig) -> Items]
  /\ object \in Items /\ returnPointer \in Items

\* What the native function takes, in order, by its convention (x86-64
\* System V: the address of a returned object comes first).
NativeArguments(s) ==
  LET params == [k \in DOMAIN s.sizes |-> Param(k)]
      memory == IF s.inMemory THEN <<Return>> ELSE <<>>
  IN  IF s.convention = "CDECL" THEN memory \o params
      ELSE IF s.convention = "CDECL_OBJLAST" THEN memory \o params \o <<This>>
      ELSE memory \o <<This>> \o params

NativeResult(s) ==
  IF s.returns = "object" THEN Return
  ELSE IF s.returns = "void" THEN <<"void", 0>>
  ELSE IF s.returns = "handle" THEN <<"object register", 0>> ELSE <<"register", 0>>

\* Every value the script pushed is the argument it was pushed for.
ArgumentsInOrder == phase = "called" => args = NativeArguments(sig)

\* The stack pointer is where it was before the arguments were pushed, also
\* inside an expression: nothing below is taken or left over.
StackBalanced == phase = "called" => sp = below

\* The result is where the bytecode that follows looks for it.
ResultInPlace == phase = "called" => result = NativeResult(sig)

\* The pointer that is tested before the call is the object's, not another.
ObjectTested == phase = "called" /\ IsMethod(sig) => object = This

\* Both pointers of a call that is not a plain one: of the result, and of the object.
PointersRight == ResultInPlace /\ ObjectTested

\* Not kept for the signatures that HandledSignatures leaves out (a known deviation).
\* doc/status.md:44: objects are returned by value from system functions.
ReturnsByValue ==
  phase = "called" /\ sig.returns = "object" =>
    args = NativeArguments(sig) /\ result = Return /\ sp = below
=============================================================================
