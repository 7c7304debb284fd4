------------------------------ MODULE PointerOps ------------------------------
(***************************************************************************)
(* What the code emitted for the instructions on pointers does to memory,   *)
(* next to what they mean: the address of a variable, a global, a member or *)
(* an element of a list is made, pushed, kept in the value register, read   *)
(* and written through.                                                     *)
(***************************************************************************)
EXTENDS ScriptFrame

CONSTANTS
  RefSlots, \* variables that references to are passed on
  This      \* the parameter that holds the object of a method

Cells == DOMAIN held \ {Slot(s) : s \in Slots}
Members == {k \in 0 .. HeapBytes : Cell("object", k) \in Cells}
IsNull(v) == v.w = PtrBytes /\ Plain(v)
Pointing(v) == v.to \in DOMAIN held

\* emit_check_null_pointer, and what the script does: it uses a pointer.
Raises(emittedNull, use) == raised' = emittedNull /\ null' = use /\ UNCHANGED branch
Used(v) == IF IsNull(v) THEN "tested" ELSE "none"
UsedUntested(v) == IF IsNull(v) THEN "untested" ELSE "none"

PushPtr(accesses, x, v) ==
  /\ Room(PtrDwords) /\ Push(accesses, PtrBytes, x) /\ Means(held, reg, Pushed(v))
PopTo(newReg) == Means(held, newReg, Front(stack))
HasTopPtr == stack # <<>> /\ Last(stack).w = PtrBytes
TopAddress == PointerTo(sp)

-----------------------------------------------------------------------------
(* Addresses                                                                 *)

\* PSF: the address of a variable; VAR: its index, for a GETREF that follows.
PSF(a) ==
  /\ Kind("address") /\ Straight
  /\ PushPtr({}, Pointer(a), To(Slot(a)))

VAR(a) ==
  /\ Kind("reference") /\ Straight /\ a \in RefSlots
  /\ PushPtr({}, Wrap(PtrBytes, Offset[a]), To(<<"index", a>>))

\* PGA, OBJTYPE, FuncPtr: a constant address.
PGA ==
  /\ Kind("address") /\ Straight
  /\ PushPtr({}, Base("global"), To(Cell("global", 0)))

PshGPtr ==
  /\ Kind("address") /\ Straight /\ held[Cell("global", 0)].w = PtrBytes
  /\ PushPtr({<<Base("global"), PtrBytes>>}, Load(Base("global"), PtrBytes), held[Cell("global", 0)])

PshVPtr(a) ==
  /\ Kind("address") /\ Straight /\ Has(a, PtrBytes)
  /\ PushPtr({<<Pointer(a), PtrBytes>>}, LoadV(a, PtrBytes), held[Slot(a)])

PopPtr ==
  /\ Kind("address") /\ Straight /\ HasTopPtr
  /\ Emit({}, mem, sp - PtrDwords) /\ PopTo(reg)

PshRPtr ==
  /\ Kind("address") /\ Straight /\ reg.w = PtrBytes
  /\ PushPtr({<<ValueRegister, PtrBytes>>}, Load(ValueRegister, PtrBytes), reg)

PopRPtr ==
  /\ Kind("address") /\ Straight /\ HasTopPtr
  /\ Emit({<<TopAddress, PtrBytes>>},
          Stored(ValueRegister, PtrBytes, Load(TopAddress, PtrBytes)), sp - PtrDwords)
  /\ PopTo(Last(stack))

LDV(a) ==
  /\ Kind("address") /\ Straight
  /\ StoresR({}, PtrBytes, Pointer(a)) /\ SetsR(To(Slot(a)))

LDG ==
  /\ Kind("address") /\ Straight
  /\ StoresR({}, PtrBytes, Base("global")) /\ SetsR(To(Cell("global", 0)))

-----------------------------------------------------------------------------
(* Through the value register                                                *)

Target == Load(ValueRegister, PtrBytes)

WRTV(a, w) ==
  /\ Kind("access") /\ Straight /\ Pointing(reg) /\ Fits(reg.to, w) /\ Valid(Slot(a), w)
  /\ (w = 8 <=> Long(a))
  /\ Emit({<<ValueRegister, PtrBytes>>, <<Pointer(a), w>>, <<Target, w>>},
          Stored(Target, w, LoadV(a, w)), sp)
  /\ Means(Assign(reg.to, IF Plain(held[Slot(a)]) THEN Num(w, Wrap(w, In(a))) ELSE held[Slot(a)]),
           reg, stack)

\* Bytes and words are extended with zeros to a dword.
Widened(w) == IF w = 8 THEN 8 ELSE 4
RDR(a, w) ==
  /\ Kind("access") /\ Straight /\ Pointing(reg) /\ Valid(reg.to, w) /\ Of(a, w)
  /\ (w = 8 <=> held[reg.to].w = 8)
  /\ Emit({<<ValueRegister, PtrBytes>>, <<Target, w>>, <<Pointer(a), Widened(w)>>},
          Stored(Pointer(a), Widened(w), Load(Target, w)), sp)
  /\ Means(Assign(Slot(a), IF w = 8 THEN held[reg.to] ELSE Num(4, Wrap(w, held[reg.to].x))), reg, stack)

Increment(w, by) ==
  /\ Kind("access") /\ Straight /\ Pointing(reg) /\ Valid(reg.to, w) /\ held[reg.to].w < PtrBytes
  /\ Emit({<<ValueRegister, PtrBytes>>, <<Target, w>>},
          Stored(Target, w, BinaryResult("Add", w, Load(Target, w), Wrap(w, by))), sp)
  /\ Means(Assign(reg.to, Num(w, Wrap(w, held[reg.to].x + by))), reg, stack)

-----------------------------------------------------------------------------
(* Globals                                                                   *)

G == Cell("global", 0)
SmallGlobal == Kind("access") /\ Straight /\ held[G].w = 4

CpyVtoG4(a) ==
  /\ SmallGlobal /\ Has(a, 4)
  /\ Emit({<<Pointer(a), 4>>, <<Base("global"), 4>>}, Stored(Base("global"), 4, LoadV(a, 4)), sp)
  /\ Means(Assign(G, held[Slot(a)]), reg, stack)

CpyGtoV4(a) ==
  /\ SmallGlobal /\ Dword(a)
  /\ Emit({<<Pointer(a), 4>>, <<Base("global"), 4>>}, Stored(Pointer(a), 4, Load(Base("global"), 4)), sp)
  /\ Sets(a, held[G])

SetG4(x) ==
  /\ SmallGlobal
  /\ Emit({<<Base("global"), 4>>}, Stored(Base("global"), 4, x), sp)
  /\ Means(Assign(G, Num(4, x)), reg, stack)

PshG4 ==
  /\ SmallGlobal /\ Room(1)
  /\ Push({<<Base("global"), 4>>}, 4, Load(Base("global"), 4))
  /\ Means(held, reg, Pushed(held[G]))

-----------------------------------------------------------------------------
(* Objects: null pointers raise an exception                                 *)

\* CHKREF, ChkNullV
CHKREF ==
  /\ Kind("object") /\ HasTopPtr
  /\ Emit({<<TopAddress, PtrBytes>>}, mem, sp)
  /\ Raises(Load(TopAddress, PtrBytes) = 0, Used(Last(stack)))
  /\ Means(held, reg, stack)

ChkNullV(a) ==
  /\ Kind("object") /\ Has(a, PtrBytes)
  /\ Emit({<<Pointer(a), PtrBytes>>}, mem, sp)
  /\ Raises(LoadV(a, PtrBytes) = 0, Used(held[Slot(a)]))
  /\ Means(held, reg, stack)

NullTest(p) == p = 0

\* LoadThisR, LoadRObjR: the address of a member, in the value register.
LoadMember(a, k) ==
  /\ Kind("object") /\ Has(a, PtrBytes) /\ k \in Members
  /\ IsNull(held[Slot(a)]) \/ held[Slot(a)].to = Cell("object", 0)
  /\ LET object == LoadV(a, PtrBytes)
     IN  /\ StoresR({<<Pointer(a), PtrBytes>>}, PtrBytes,
                    IF NullTest(object) THEN Load(ValueRegister, PtrBytes) ELSE object + k)
         /\ Raises(NullTest(object), Used(held[Slot(a)]))
  /\ SetsR(IF IsNull(held[Slot(a)]) THEN reg ELSE To(Cell("object", k)))
LoadThisR(k) == This \in Slots /\ Offset[This] = 0 /\ LoadMember(This, k)
LoadRObjR(a, k) == LoadMember(a, k)

\* The same on the stack; nothing is tested.
ADDSi(k) ==
  /\ Kind("member") /\ HasTopPtr /\ k \in Members
  /\ IsNull(Last(stack)) \/ Last(stack).to = Cell("object", 0)
  /\ Emit({<<TopAddress, PtrBytes>>}, Stored(TopAddress, PtrBytes, Load(TopAddress, PtrBytes) + k), sp)
  /\ Raises(FALSE, UsedUntested(Last(stack)))
  /\ Means(held, reg, IF IsNull(Last(stack)) THEN stack
                      ELSE Append(Front(stack), To(Cell("object", k))))

\* The pointer read is tested, and not the address it is read from.
RDSPtr ==
  /\ Kind("dereference") /\ HasTopPtr
  /\ Pointing(Last(stack)) => held[Last(stack).to].w = PtrBytes
  /\ Pointing(Last(stack)) \/ IsNull(Last(stack))
  /\ LET address == Load(TopAddress, PtrBytes)
         value == IF Inside(address, PtrBytes) THEN Load(address, PtrBytes) ELSE 0
     IN  /\ Emit({<<TopAddress, PtrBytes>>, <<address, PtrBytes>>}, Stored(TopAddress, PtrBytes, value), sp)
         /\ IF IsNull(Last(stack)) THEN Raises(FALSE, "untested")
            ELSE Raises(NullTest(value), IF IsNull(held[Last(stack).to]) THEN "read" ELSE "none")
  /\ Means(held, reg, IF IsNull(Last(stack)) THEN stack
                      ELSE Append(Front(stack), held[Last(stack).to]))

-----------------------------------------------------------------------------
(* References to variables, by the index that VAR pushed                     *)

\* The entry that is so many dwords below the top.
Entry(n) == CHOOSE e \in DOMAIN stack : EntryAddress(e) = FramePointer - 4 * (sp - n)
Indexed(n) ==
  /\ \E e \in DOMAIN stack : EntryAddress(e) = FramePointer - 4 * (sp - n)
  /\ stack[Entry(n)].to[1] = "index"
IndexedSlot(n) == stack[Entry(n)].to[2]

\* The index is added to the end.
VariableAt_Added(index) == Base("storage") + 4 * (TotalSpace + index)
\* An index is one into storage, whatever variable it is of.
VariableAt(index) == Base("storage") + 4 * (TotalSpace - index)

GETREF(n) ==
  /\ Kind("reference") /\ Straight /\ Indexed(n)
  /\ LET a == PointerTo(sp - n)
     IN  Emit({<<a, 4>>, <<a, PtrBytes>>},
              Stored(a, PtrBytes, VariableAt(Signed(4, Load(a, 4)))), sp)
  /\ Means(held, reg, [stack EXCEPT ![Entry(n)] = To(Slot(IndexedSlot(n)))])

\* GETOBJREF: the handle in the variable; GETOBJ takes it out, too.
GetObject(n, taken) ==
  /\ Kind("reference") /\ Straight /\ Indexed(n) /\ Has(IndexedSlot(n), PtrBytes)
  /\ LET a == PointerTo(sp - n)
         v == VariableAt(Signed(PtrBytes, Load(a, PtrBytes)))
         filled == Stored(a, PtrBytes, Load(v, PtrBytes))
     IN  Emit({<<a, PtrBytes>>, <<v, PtrBytes>>},
              IF taken THEN StoredIn(filled, v, PtrBytes, 0) ELSE filled, sp)
  /\ Means(IF taken THEN Assign(Slot(IndexedSlot(n)), Null) ELSE held, reg,
           [stack EXCEPT ![Entry(n)] = held[Slot(IndexedSlot(n))]])
GETOBJREF(n) == GetObject(n, FALSE)
GETOBJ(n) == GetObject(n, TRUE)

-----------------------------------------------------------------------------
(* Lists of an initialization                                                *)

AllocMem(a) ==
  /\ Kind("list") /\ Straight /\ Long(a)
  /\ StoresV({}, a, PtrBytes, Base("list")) /\ Sets(a, To(Cell("list", 0)))

InList(a, k) == Kind("list") /\ Straight /\ Has(a, PtrBytes)
                /\ held[Slot(a)].to = Cell("list", 0) /\ Cell("list", k) \in Cells
SetListSize(a, k, n) ==
  /\ InList(a, k) /\ held[Cell("list", k)].w = 4
  /\ LET address == LoadV(a, PtrBytes) + k
     IN  Emit({<<Pointer(a), PtrBytes>>, <<address, 4>>}, Stored(address, 4, n), sp)
  /\ Means(Assign(Cell("list", k), Num(4, n)), reg, stack)

PshListElmnt(a, k) ==
  /\ InList(a, k)
  /\ PushPtr({<<Pointer(a), PtrBytes>>}, LoadV(a, PtrBytes) + k, To(Cell("list", k)))

-----------------------------------------------------------------------------
Depths == 0 .. StackNeeded
PointerNext ==
  \/ \E a \in Slots :
       \/ PSF(a) \/ VAR(a) \/ PshVPtr(a) \/ LDV(a)
       \/ \E w \in {1, 2, 4, 8} : WRTV(a, w) \/ RDR(a, w)
       \/ CpyVtoG4(a) \/ CpyGtoV4(a)
       \/ ChkNullV(a)
       \/ AllocMem(a)
       \/ \E k \in 0 .. HeapBytes :
            \/ LoadRObjR(a, k) \/ PshListElmnt(a, k)
            \/ \E n \in {1, 3} : SetListSize(a, k, n)
  \/ PGA \/ PshGPtr \/ PopPtr \/ PshRPtr \/ PopRPtr \/ LDG
  \/ \E w \in {1, 2, 4}, by \in {1, -1} : Increment(w, by)
  \/ SetG4(1) \/ PshG4
  \/ CHKREF \/ RDSPtr
  \/ \E k \in 0 .. HeapBytes : LoadThisR(k) \/ ADDSi(k)
  \/ \E n \in Depths : GETREF(n) \/ GETOBJREF(n) \/ GETOBJ(n)
=============================================================================
