----------------------------- MODULE ScriptFrame -----------------------------
(***************************************************************************)
(* The memory of one activation of a generated function: the allocas that   *)
(* StackFrame::setup and emit_allocate_local_structures make, and what lies *)
(* outside (a global, an object, a list buffer).  Generated code reaches    *)
(* all of it through addresses, as bytes.                                   *)
(*                                                                          *)
(* Next to the memory stands what it means to the script: which value each  *)
(* variable, the value register and each entry of the stack hold, where a   *)
(* pointer is a place and not a number.  A value has a width: the bytes of  *)
(* it that are valid; those above, in its dword, are whatever they are.     *)
(***************************************************************************)
EXTENDS Words, Sequences, SequencesExt

CONSTANTS
  Slots,         \* variables and parameters
  Offset,        \* [Slots -> Int]: their offsets, in dwords; of parameters <= 0
  Bytes,         \* [Slots -> Nat]: what their types take
  VariableSpace, \* scriptData->variableSpace
  StackNeeded,   \* scriptData->stackNeeded, less the variables
  HeapBytes,     \* bytes of the global, of the object and of the list buffer
  Functions,     \* functions with this frame
  Ops,           \* [Functions -> SUBSET kinds]: the kinds of instructions each has
  Contents,      \* [Functions -> what parameters and places outside may hold at entry]
  MaxSteps       \* [Functions -> Nat]: bound: instructions

Params == {s \in Slots : Offset[s] <= 0}
Locals == Slots \ Params
PtrBytes == 8
PtrDwords == 2
Dwords(w) == IF w = 8 THEN 2 ELSE 1

\* What a script reaches outside its frame, and the places it knows by an address.
Heap == {"global", "object", "list"}
Cell(heap, k) == <<heap, k>>
Slot(s) == <<"slot", s>>
Nowhere == <<"nowhere", 0>>

VARIABLES
  function, \* the one that runs
  mem,     \* mem[region][k]: byte k of an alloca or of what is outside
  sp,      \* m_stack_pointer when the instruction is translated
  outside, \* whether an access left the region its address points into
  undefined, \* what of an instruction LLVM gives no result for: its "operands", or the "count" of a shift
  raised,  \* whether the frame returned ExceptionNullPointer
  branch,  \* the condition of the last branch, as the code and as the script has it
  held,    \* held[place]: the value of the variable, or of the cell
  reg,     \* the value of the value register
  stack,   \* the values of the stack
  null,    \* how a null pointer was used: "tested", "untested", or only "read" as a handle
  steps    \* instructions executed

vars == <<function, mem, sp, outside, undefined, raised, branch, held, reg, stack, null, steps>>

-----------------------------------------------------------------------------
(* Values, as the script has them.                                           *)

Num(w, x) == [w |-> w, x |-> x, to |-> Nowhere]
To(place) == [w |-> PtrBytes, x |-> 0, to |-> place]
Null == Num(PtrBytes, 0)
Plain(v) == v.to = Nowhere

-----------------------------------------------------------------------------
(* Regions are apart: the address of a byte is that of its page and its      *)
(* number in the page, and the first page is that of null.                   *)

\* StackFrame::stack_space, total_space: two pointers are reserved.
StackSpace == StackNeeded + 2 * PtrDwords
TotalSpace == VariableSpace + StackSpace

PageSize == 128
Regions == <<"storage", "value", "global", "object", "list">>
           \o SetToSortSeq(Params, LAMBDA s, u : Offset[s] > Offset[u])
RegionSize(r) ==
  CASE r = "storage" -> 4 * TotalSpace
    [] r = "value" -> 8
    [] r \in Heap -> HeapBytes
    [] OTHER -> Bytes[r]
Pages == DOMAIN Regions
Base(r) == PageSize * CHOOSE n \in Pages : Regions[n] = r
PageOf(a) == a \div PageSize
ByteOf(a) == a % PageSize

\* A load or a store of w bytes at an address.
Inside(a, w) == PageOf(a) \in Pages /\ ByteOf(a) + w <= RegionSize(Regions[PageOf(a)])
LoadFrom(m, a, w) ==
  LET sum[k \in 0 .. w] ==
        IF k = 0 THEN 0 ELSE sum[k - 1] + m[PageOf(a)][ByteOf(a) + k - 1] * Size(k - 1)
  IN  sum[w]
Load(a, w) == LoadFrom(mem, a, w)
StoredIn(m, a, w, x) ==
  [m EXCEPT ![PageOf(a)] =
     [k \in DOMAIN @ |-> IF k \in ByteOf(a) .. ByteOf(a) + w - 1
                         THEN (x \div Size(k - ByteOf(a))) % Size(1) ELSE @[k]]]
Stored(a, w, x) == StoredIn(mem, a, w, x)

ValueRegister == Base("value")

-----------------------------------------------------------------------------
(* StackFrame                                                                *)

ParamWith(offset) == CHOOSE s \in Params : Offset[s] = offset

\* A parameter is found by the offset of its first dword.
PointerTo(offset) ==
  IF offset <= 0 THEN Base(ParamWith(offset)) ELSE Base("storage") + 4 * (TotalSpace - offset)
Pointer(s) == PointerTo(Offset[s])

\* The code of an instruction: an access that leaves its region, or an operation
\* that has no result, makes what follows undefined, and the model stops there.
Operate(accesses, without, newMem, newSp) ==
  /\ ~outside /\ ~raised /\ null = "none" /\ undefined = "none"
  /\ outside' = \E access \in accesses : ~Inside(access[1], access[2])
  /\ undefined' = without
  /\ mem' = IF outside' \/ undefined' # "none" THEN mem ELSE newMem
  /\ sp' = newSp
Emit(accesses, newMem, newSp) == Operate(accesses, "none", newMem, newSp)

\* StackFrame::push, behind accesses that the pushed value needs.
Push(accesses, w, x) ==
  LET a == PointerTo(sp + Dwords(w))
  IN  Emit(accesses \cup {<<a, w>>}, Stored(a, w, x), sp + Dwords(w))

-----------------------------------------------------------------------------
(* What an instruction means to the script.                                  *)

Means(newHeld, newReg, newStack) == held' = newHeld /\ reg' = newReg /\ stack' = newStack
Assign(place, v) == [held EXCEPT ![place] = v]
Pushed(v) == Append(stack, v)
Top == Last(stack)
HasTopPointer == stack # <<>> /\ Top.w = PtrBytes

\* A dword, or the two of a long or a pointer.
Fits(place, w) ==
  IF place[1] = "slot" THEN w <= 4 * Dwords(Bytes[place[2]])
  ELSE w = held[place].w
Valid(place, w) == held[place].w >= w /\ (Plain(held[place]) \/ w = PtrBytes)
\* Its number, if it is one.
Value(place, w) == Wrap(w, held[place].x)

-----------------------------------------------------------------------------
(* The virtual machine has the frame at decreasing addresses below a frame   *)
(* pointer, from which offsets count: this is where a place is.              *)
FramePointer == Base("storage") + 4 * TotalSpace
AddressOf(place) ==
  CASE place[1] = "slot" -> IF place[2] \in Params THEN Base(place[2])
                            ELSE FramePointer - 4 * Offset[place[2]]
    [] place[1] = "index" -> Wrap(PtrBytes, Offset[place[2]])
    [] OTHER -> Base(place[1]) + place[2]
Number(v) == IF Plain(v) THEN v.x ELSE AddressOf(v.to)
Represents(a, v) == Load(a, v.w) = Wrap(v.w, Number(v))

-----------------------------------------------------------------------------
\* emit_allocate_local_structures: variables and registers are zero, parameters
\* are what the caller passed.
AtEntry(contents) ==
  [place \in DOMAIN contents \cup {Slot(s) : s \in Locals} |->
     IF place \in DOMAIN contents THEN contents[place] ELSE Num(4 * Dwords(Bytes[place[2]]), 0)]
Zeros == [n \in Pages |-> [k \in 0 .. RegionSize(Regions[n]) - 1 |-> 0]]
Init ==
  /\ function \in Functions
  /\ \E contents \in Contents[function] : held = AtEntry(contents)
  /\ mem = FoldSet(LAMBDA place, m : StoredIn(m, AddressOf(place), held[place].w, Number(held[place])),
                   Zeros, DOMAIN held)
  /\ sp = VariableSpace
  /\ reg = Num(8, 0) /\ stack = <<>>
  /\ outside = FALSE /\ undefined = "none" /\ raised = FALSE /\ null = "none" /\ branch = <<FALSE, FALSE>> /\ steps = 0

\* The next instruction is of this kind.
Kind(k) ==
  /\ k \in Ops[function] /\ steps < MaxSteps[function]
  /\ steps' = steps + 1 /\ UNCHANGED function
\* It raises no exception, and is no branch.
Straight == UNCHANGED <<raised, null, branch>>

-----------------------------------------------------------------------------
(* What the instructions have in common.                                     *)

Dword(s) == Dwords(Bytes[s]) = 1
Long(s) == ~Dword(s)
Of(s, w) == IF w = 8 THEN Long(s) ELSE Dword(s)
Has(s, w) == Of(s, w) /\ Valid(Slot(s), w)
In(s) == held[Slot(s)].x
LoadV(s, w) == Load(Pointer(s), w)

\* The code loads variables and stores x to one of them.
StoresV(reads, a, w, x) ==
  Emit({<<Pointer(a), w>>} \cup {<<Pointer(s), w>> : s \in reads}, Stored(Pointer(a), w, x), sp)
Sets(a, v) == Means(Assign(Slot(a), v), reg, stack)

\* The same with the value register.
StoresR(reads, w, x) ==
  Emit({<<ValueRegister, w>>} \cup reads, Stored(ValueRegister, w, x), sp)
SetsR(v) == Means(held, v, stack)

\* The stack the compiler asked for.
Room(n) == sp + n <= VariableSpace + StackNeeded

-----------------------------------------------------------------------------
Byte == 0 .. Size(1) - 1
TypeOK ==
  /\ DOMAIN mem = Pages
  /\ \A n \in Pages : mem[n] \in [0 .. RegionSize(Regions[n]) - 1 -> Byte]
  /\ sp \in VariableSpace .. TotalSpace
  /\ {outside, raised} \subseteq BOOLEAN /\ undefined \in {"none", "operands", "count"}
  /\ null \in {"none", "tested", "untested", "read"} /\ branch \in BOOLEAN \X BOOLEAN
  /\ function \in Functions /\ steps \in 0 .. MaxSteps[function]
  /\ \A place \in DOMAIN held : held[place].x \in Word(held[place].w)
  /\ reg.w \in {1, 2, 4, 8}

Stops == outside \/ raised \/ null # "none" \/ undefined # "none"

\* Every variable, parameter and cell holds the value it has for the script: no
\* store is too wide for its slot, aims at the wrong one or leaves a part of the
\* value behind (StackFrame::store, emit_cast, emit_binop).
VariablesFaithful ==
  Stops \/ \A place \in DOMAIN held : Represents(AddressOf(place), held[place])

\* The value register holds what was put into it, in every width it is read in.
RegisterFaithful == Stops \/ Represents(ValueRegister, reg)

\* Every entry of the stack lies where its depth says, with its value.
EntryAddress(n) ==
  FramePointer - 4 * (VariableSpace + FoldLeft(LAMBDA d, v : d + Dwords(v.w), 0, SubSeq(stack, 1, n)))
StackFaithful ==
  Stops \/ \A n \in DOMAIN stack : Represents(EntryAddress(n), stack[n])

\* "Ensure that offset is within alloca boundaries": no access, of any width,
\* leaves the alloca or the object its address was made for. Two do: RDSPtr reads
\* through a null pointer it does not test, and a shift of a long reads its count,
\* which is a dword, as a long.
AccessesStayInside == outside => null = "untested" \/ undefined = "count"

\* A branch goes where the script would.
BranchesRight == branch[1] = branch[2]

\* "Exception on null pointer dereference": one is raised when a null pointer is
\* used, and at no other time, but that ADDSi and RDSPtr use one untested and that
\* RDSPtr raises it for a null handle which it only reads.
NullRaises == raised <=> null \in {"tested", "read"}

\* Native code computes what the script does: in variables, in the value register,
\* on the stack and in the branches it takes.
Faithful ==
  TypeOK /\ VariablesFaithful /\ RegisterFaithful /\ StackFaithful /\ BranchesRight

\* Every access of a pointer goes to the memory it points to, or to none because
\* the pointer is null and an exception is raised (translate_instruction,
\* emit_check_null_pointer, StackFrame::pointer_to).
AccessesRight == AccessesStayInside /\ NullRaises

\* Not kept by shifts of 64-bit values (a known deviation).
\* "Ensure that offset is within alloca boundaries", for every access.
WithinAllocas == ~outside
=============================================================================
