------------------------------ MODULE NumberOps ------------------------------
(***************************************************************************)
(* What the code emitted for the instructions on numbers does to memory,    *)
(* next to what they mean (FunctionBuilder::translate_instruction and the   *)
(* emit functions).  Instructions whose operands suit them follow each      *)
(* other in any order.  Floating point is left out.                         *)
(***************************************************************************)
EXTENDS ScriptFrame

CONSTANT Samples \* numbers that occur as constants

-----------------------------------------------------------------------------
(* Moves                                                                     *)

SetV(a, w, x) ==
  /\ Kind("move") /\ Straight /\ Of(a, w)
  /\ StoresV({}, a, w, Wrap(w, x))
  /\ Sets(a, Num(w, Wrap(w, x)))

CpyVtoV(a, b, w) ==
  /\ Kind("move") /\ Straight /\ Of(a, w) /\ Of(b, w)
  /\ StoresV({b}, a, w, LoadV(b, w))
  /\ Sets(a, held[Slot(b)])

CpyVtoR(a, w) ==
  /\ Kind("register") /\ Straight /\ Of(a, w)
  /\ StoresR({<<Pointer(a), w>>}, w, LoadV(a, w))
  /\ SetsR(held[Slot(a)])

\* Of a register that holds less than is copied, only that much is the value.
Narrowed(v, w) == IF v.w > w THEN Num(w, Wrap(w, v.x)) ELSE v
CpyRtoV(a, w) ==
  /\ Kind("register") /\ Straight /\ Of(a, w) /\ Plain(reg) /\ (w = 8 => reg.w = 8)
  /\ StoresV({}, a, w, Load(ValueRegister, w))
  /\ Sets(a, Narrowed(reg, w))

\* A system function returned a value: it is stored as wide as its type is.
ReturnValue(w, x) ==
  /\ Kind("register") /\ Straight
  /\ StoresR({}, w, Wrap(w, x))
  /\ SetsR(Num(w, Wrap(w, x)))

ClrHi == 
  /\ Kind("register") /\ Straight /\ Plain(reg)
  /\ StoresR({}, 4, Load(ValueRegister, 1))
  /\ SetsR(Num(4, Wrap(1, reg.x)))

-----------------------------------------------------------------------------
(* Comparisons, tests and branches                                           *)

CompareEmitted(signed, w, x, y) ==
  IF Holds(IF signed THEN "SGT" ELSE "UGT", w, x, y) THEN 1
  ELSE IF Holds(IF signed THEN "SLT" ELSE "ULT", w, x, y) THEN Wrap(4, -1) ELSE 0

Order(signed, w, x, y) ==
  LET l == IF signed THEN Signed(w, x) ELSE x
      r == IF signed THEN Signed(w, y) ELSE y
  IN  Wrap(4, IF l = r THEN 0 ELSE IF l < r THEN -1 ELSE 1)

Compare(signed, w, a, b) ==
  /\ Kind("test") /\ Straight /\ Has(a, w) /\ Has(b, w)
  /\ Emit({<<Pointer(a), w>>, <<Pointer(b), w>>, <<ValueRegister, 4>>},
          Stored(ValueRegister, 4, CompareEmitted(signed, w, LoadV(a, w), LoadV(b, w))), sp)
  /\ SetsR(Num(4, Order(signed, w, In(a), In(b))))

CompareConstant(signed, a, x) ==
  /\ Kind("test") /\ Straight /\ Has(a, 4)
  /\ StoresR({<<Pointer(a), 4>>}, 4, CompareEmitted(signed, 4, LoadV(a, 4), Wrap(4, x)))
  /\ SetsR(Num(4, Order(signed, 4, In(a), Wrap(4, x))))

Conditions == {"Z", "NZ", "S", "NS", "P", "NP"}

Predicate(c) ==
  CASE c = "Z" -> "EQ" [] c = "NZ" -> "NE" [] c = "S" -> "SLT"
    [] c = "NS" -> "SGE" [] c = "P" -> "SGT" [] c = "NP" -> "SLE"

\* What a condition says of a number: it is zero, negative (S), positive (P) or not.
Meant(c, x) ==
  CASE c = "Z" -> x = 0 [] c = "NZ" -> x # 0 [] c = "S" -> x < 0
    [] c = "NS" -> ~(x < 0) [] c = "P" -> x > 0 [] c = "NP" -> ~(x > 0)
Tested == Signed(4, Wrap(4, reg.x))
Bool(b) == IF b THEN 1 ELSE 0

Test(c) ==
  /\ Kind("test") /\ Straight /\ Plain(reg) /\ reg.w >= 4
  /\ StoresR({}, 8, Bool(Holds(Predicate(c), 4, Load(ValueRegister, 4), 0)))
  /\ SetsR(Num(8, Bool(Meant(c, Tested))))

Looks == Emit({<<ValueRegister, 8>>}, mem, sp) /\ Means(held, reg, stack) /\ UNCHANGED <<raised, null>>
Branch(c) ==
  /\ Kind("branch") /\ Looks /\ Plain(reg) /\ reg.w >= 4
  /\ branch' = <<Holds(Predicate(c), 4, Load(ValueRegister, 4), 0), Meant(c, Tested)>>

\* JLowZ, JLowNZ: only the low byte, which is a bool.
BranchLow(c) ==
  /\ Kind("branch") /\ Looks /\ Plain(reg) /\ c \in {"Z", "NZ"}
  /\ branch' = <<Holds(Predicate(c), 1, Load(ValueRegister, 1), 0), Meant(c, Wrap(1, reg.x))>>

-----------------------------------------------------------------------------
(* Arithmetic                                                                *)

\* A bool, in its low bit.
NotV(a) ==
  /\ Kind("arithmetic") /\ Straight /\ Dword(a) /\ Wrap(1, In(a)) \in {0, 1}
  /\ Emit({<<Pointer(a), 4>>}, Stored(Pointer(a), 4, IF LoadV(a, 1) % 2 = 1 THEN 0 ELSE 1), sp)
  /\ Sets(a, Num(4, 1 - Wrap(1, In(a))))

Negate(a, w) ==
  /\ Kind("arithmetic") /\ Straight /\ Has(a, w)
  /\ StoresV({}, a, w, BinaryResult("Sub", w, 0, LoadV(a, w)))
  /\ Sets(a, Num(w, Wrap(w, -In(a))))

BitNot(a, w) ==
  /\ Kind("arithmetic") /\ Straight /\ Has(a, w)
  /\ StoresV({}, a, w, BinaryResult("Xor", w, Size(w) - 1, LoadV(a, w)))
  /\ Sets(a, Num(w, Size(w) - 1 - In(a)))

IncVi(a, by) ==
  /\ Kind("arithmetic") /\ Straight /\ Has(a, 4)
  /\ StoresV({}, a, 4, BinaryResult(IF by = 1 THEN "Add" ELSE "Sub", 4, LoadV(a, 4), 1))
  /\ Sets(a, Num(4, Wrap(4, In(a) + by)))

Operations ==
  {"ADDi", "SUBi", "MULi", "DIVi", "MODi", "DIVu", "MODu", "BAND", "BOR", "BXOR", "BSLL", "BSRL", "BSRA"}

Instruction(op) ==
  CASE op = "ADDi" -> "Add" [] op = "SUBi" -> "Sub" [] op = "MULi" -> "Mul"
    [] op = "DIVi" -> "SDiv" [] op = "MODi" -> "SRem" [] op = "DIVu" -> "UDiv" [] op = "MODu" -> "URem"
    [] op = "BAND" -> "And" [] op = "BOR" -> "Or" [] op = "BXOR" -> "Xor"
    [] op = "BSLL" -> "Shl" [] op = "BSRL" -> "LShr" [] op = "BSRA" -> "AShr"

\* Script arithmetic: int and int64 are signed, uint and uint64 are divided by
\* instructions of their own, >> shifts in zeros and >>> the sign.
Arithmetic(op, w, x, y) ==
  LET i == Signed(w, x)
      j == Signed(w, y)
  IN  CASE op = "ADDi" -> i + j [] op = "SUBi" -> i - j [] op = "MULi" -> i * j
        [] op = "DIVi" -> Quotient(i, j) [] op = "MODi" -> i - j * Quotient(i, j)
        [] op = "DIVu" -> x \div y [] op = "MODu" -> x - y * (x \div y)
        [] op = "BAND" -> x & y [] op = "BOR" -> x | y [] op = "BXOR" -> (x | y) - (x & y)
        [] op = "BSLL" -> x * 2 ^ y [] op = "BSRL" -> x \div 2 ^ y [] op = "BSRA" -> i \div 2 ^ y

\* The count of a shift is a dword; the code reads it as wide as the other operand.
Shifts == {"BSLL", "BSRL", "BSRA"}
Without(op, w, b, c) ==
  IF op \in Shifts /\ ~Inside(Pointer(c), w) THEN "count"
  ELSE IF BinaryDefined(Instruction(op), w, LoadV(b, w), LoadV(c, w)) THEN "none"
  ELSE IF op \in Shifts /\ w = 8 THEN "count" ELSE "operands"

Binary(op, w, a, b, c) ==
  /\ Kind("arithmetic") /\ Straight
  /\ Of(a, w) /\ Has(b, w) /\ Has(c, IF op \in Shifts THEN 4 ELSE w)
  /\ Operate({<<Pointer(s), w>> : s \in {a, b, c}}, Without(op, w, b, c),
             Stored(Pointer(a), w, BinaryResult(Instruction(op), w, LoadV(b, w), LoadV(c, w))), sp)
  /\ Sets(a, IF Without(op, w, b, c) = "none" THEN Num(w, Wrap(w, Arithmetic(op, w, In(b), In(c))))
             ELSE held[Slot(a)])

BinaryConstant(op, a, b, x) ==
  /\ Kind("arithmetic") /\ Straight /\ Dword(a) /\ Has(b, 4)
  /\ StoresV({b}, a, 4, BinaryResult(Instruction(op), 4, LoadV(b, 4), Wrap(4, x)))
  /\ Sets(a, Num(4, Wrap(4, Arithmetic(op, 4, In(b), Wrap(4, x)))))

-----------------------------------------------------------------------------
(* Casts                                                                     *)

Casts ==
  [sbTOi |-> <<"SExt", 1, 4>>, swTOi |-> <<"SExt", 2, 4>>, ubTOi |-> <<"ZExt", 1, 4>>,
   uwTOi |-> <<"ZExt", 2, 4>>, iTOb |-> <<"Trunc", 4, 1>>, iTOw |-> <<"Trunc", 4, 2>>,
   i64TOi |-> <<"Trunc", 8, 4>>, uTOi64 |-> <<"ZExt", 4, 8>>, iTOi64 |-> <<"SExt", 4, 8>>]
\* The instructions that name a source next to their destination.
Converting == {"i64TOi", "uTOi64", "iTOi64"}
FromSigned == {"sbTOi", "swTOi", "iTOi64"}

\* emit_cast, with every source in the place of its destination.
CastSource_InPlace(from, to, a, b) == a

CastSource(from, to, a, b) == IF (from = 8) # (to = 8) THEN b ELSE a

Cast(op, a, b) ==
  LET from == Casts[op][2]
      to == Casts[op][3]
      s == IF op \in Converting THEN b ELSE a
      r == CastSource(from, to, a, b)
      x == Wrap(from, In(s))
  IN  /\ Kind("cast") /\ Straight
      /\ Of(a, to) /\ Has(s, from)
      /\ Emit({<<Pointer(r), from>>, <<Pointer(a), to>>},
              Stored(Pointer(a), to, CastResult(Casts[op][1], from, to, LoadV(r, from))), sp)
      /\ Sets(a, Num(to, Wrap(to, IF op \in FromSigned THEN Signed(from, x) ELSE x)))

-----------------------------------------------------------------------------
(* The stack                                                                 *)

\* PshC4, PshC8
PushConstant(w, x) ==
  /\ Kind("stack") /\ Straight /\ Room(Dwords(w))
  /\ Push({}, w, Wrap(w, x))
  /\ Means(held, reg, Pushed(Num(w, Wrap(w, x))))

\* PshV4, PshV8
PushVariable(a, w) ==
  /\ Kind("stack") /\ Straight /\ Room(Dwords(w)) /\ Of(a, w)
  /\ Push({<<Pointer(a), w>>}, w, LoadV(a, w))
  /\ Means(held, reg, Pushed(held[Slot(a)]))

NumberNext ==
  \/ \E a \in Slots, w \in {4, 8} :
       \/ \E x \in Samples : SetV(a, w, x)
       \/ CpyVtoR(a, w) \/ CpyRtoV(a, w)
       \/ Negate(a, w) \/ BitNot(a, w)
       \/ PushVariable(a, w)
       \/ \E b \in Slots :
            \/ CpyVtoV(a, b, w)
            \/ \E signed \in BOOLEAN : Compare(signed, w, a, b)
            \/ \E c \in Slots, op \in Operations : Binary(op, w, a, b, c)
  \/ \E a \in Slots :
       \/ NotV(a)
       \/ \E by \in {1, -1} : IncVi(a, by)
       \/ \E x \in Samples :
            \/ \E signed \in BOOLEAN : CompareConstant(signed, a, x)
            \/ \E b \in Slots, op \in {"ADDi", "SUBi", "MULi"} : BinaryConstant(op, a, b, x)
       \/ \E b \in Slots, op \in DOMAIN Casts : Cast(op, a, b)
  \/ \E x \in Samples :
       \/ \E w \in {1, 4, 8} : ReturnValue(w, x)
       \/ \E w \in {4, 8} : PushConstant(w, x)
  \/ \E c \in Conditions : Test(c) \/ Branch(c) \/ BranchLow(c)
  \/ ClrHi
=============================================================================
