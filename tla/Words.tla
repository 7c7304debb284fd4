-------------------------------- MODULE Words --------------------------------
(***************************************************************************)
(* Words of w bytes as the numbers 0 .. Size(w)-1, and the LLVM             *)
(* instructions on them that FunctionBuilder emits.                         *)
(***************************************************************************)
EXTENDS Integers, Bitwise

CONSTANT Bits \* bits of a byte

ASSUME BitsAssumption == Bits \in Nat \ {0}

Size(w) == 2 ^ (Bits * w)
Word(w) == 0 .. Size(w) - 1
Wrap(w, x) == x % Size(w)
Signed(w, x) == IF 2 * x >= Size(w) THEN x - Size(w) ELSE x

\* C's division, which truncates.
Quotient(x, y) ==
  LET q == (IF x < 0 THEN -x ELSE x) \div (IF y < 0 THEN -y ELSE y)
  IN  IF (x < 0) = (y < 0) THEN q ELSE -q

\* llvm::BinaryOperator, where it is defined.
BinaryDefined(ins, w, x, y) ==
  CASE ins \in {"UDiv", "URem"} -> y # 0
    [] ins \in {"SDiv", "SRem"} -> y # 0 /\ ~(2 * x = Size(w) /\ y = Size(w) - 1)
    [] ins \in {"Shl", "LShr", "AShr"} -> y < Bits * w
    [] OTHER -> TRUE

BinaryResult(ins, w, x, y) ==
  LET sx == Signed(w, x)
      sy == Signed(w, y)
  IN  Wrap(w, CASE ins = "Add" -> x + y
                [] ins = "Sub" -> x - y
                [] ins = "Mul" -> sx * sy
                [] ins = "SDiv" -> Quotient(sx, sy)
                [] ins = "SRem" -> sx - Quotient(sx, sy) * sy
                [] ins = "UDiv" -> x \div y
                [] ins = "URem" -> x % y
                [] ins = "And" -> x & y
                [] ins = "Or" -> x | y
                [] ins = "Xor" -> x ^^ y
                [] ins = "Shl" -> x * 2 ^ y
                [] ins = "LShr" -> x \div 2 ^ y
                [] ins = "AShr" -> sx \div 2 ^ y)

\* llvm::CastInst
CastResult(ins, from, to, x) ==
  IF ins = "SExt" THEN Wrap(to, Signed(from, x)) ELSE Wrap(to, x)

\* llvm::ICmpInst
Holds(predicate, w, x, y) ==
  CASE predicate = "EQ" -> x = y
    [] predicate = "NE" -> x # y
    [] predicate = "SLT" -> Signed(w, x) < Signed(w, y)
    [] predicate = "SLE" -> Signed(w, x) <= Signed(w, y)
    [] predicate = "SGT" -> Signed(w, x) > Signed(w, y)
    [] predicate = "SGE" -> Signed(w, x) >= Signed(w, y)
    [] predicate = "ULT" -> x < y
    [] predicate = "UGT" -> x > y
=============================================================================
