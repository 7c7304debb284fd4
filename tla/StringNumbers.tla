---------------------------- MODULE StringNumbers ----------------------------
(***************************************************************************)
(* formatInt, formatUInt, parseInt and parseUInt of the string add-on        *)
(* (scriptstdstring.cpp), for integers of Bits bits instead of 64: a script  *)
(* formats a number and parses the text, with a loop turn per character.    *)
(***************************************************************************)
EXTENDS Integers, Sequences, SequencesExt

CONSTANTS
  Bits,           \* of an integer
  Widths,         \* minimal lengths a script asks for
  Bases           \* what scripts give as base, 10 and 16 among others

ASSUME WidthAssumption == Bits \in Nat \ {0} /\ Widths \subseteq Nat

Power(b, n) ==
  LET power[k \in 0 .. n] == IF k = 0 THEN 1 ELSE b * power[k - 1]
  IN power[n]

Size == Power(2, Bits)
Signed(x) == ((x + Size \div 2) % Size) - Size \div 2
Unsigned(x) == x % Size
Values(kind) == IF kind = "int" THEN -(Size \div 2) .. Size \div 2 - 1 ELSE 0 .. Size - 1

SmallDigits == <<"0", "1", "2", "3", "4", "5", "6", "7", "8", "9", "a", "b", "c", "d", "e", "f">>
LargeDigits == <<"0", "1", "2", "3", "4", "5", "6", "7", "8", "9", "A", "B", "C", "D", "E", "F">>

VARIABLES kind, value, options, text, base, end, sign, res, byteCount, stage
numberVars == <<kind, value, options, text, base, end, sign, res, byteCount, stage>>

-----------------------------------------------------------------------------
(* formatInt and formatUInt, by what sprintf does with the format they make.  *)
IsHex(o) == o \cap {"h", "H"} # {}
Digits(x, b) ==
  LET n == CHOOSE n \in 1 .. Bits : x < Power(b, n) /\ \A k \in 1 .. n - 1 : x >= Power(b, k)
  IN [i \in 1 .. n |-> (x \div Power(b, n - i)) % b]

Number(k, v, o) ==
  IF IsHex(o) THEN Digits(Unsigned(v), 16) ELSE Digits(IF v < 0 THEN -v ELSE v, 10)
Prefix(k, v, o) ==
  IF IsHex(o) \/ k = "uint" THEN <<>>
  ELSE IF v < 0 THEN <<"-">> ELSE IF "+" \in o THEN <<"+">> ELSE IF " " \in o THEN <<" ">> ELSE <<>>

\* The options of the left: "l" wins over "0", and "h" over "H".
Format(k, v, o, width) ==
  LET digits == Number(k, v, o)
      number == [i \in DOMAIN digits |-> (IF "h" \in o THEN SmallDigits ELSE LargeDigits)[digits[i] + 1]]
      length == Len(Prefix(k, v, o)) + Len(number)
      fill(c) == [i \in 1 .. (IF width > length THEN width - length ELSE 0) |-> c]
  IN IF "l" \in o THEN Prefix(k, v, o) \o number \o fill(" ")
     ELSE IF "0" \in o THEN Prefix(k, v, o) \o fill("0") \o number
     ELSE fill(" ") \o Prefix(k, v, o) \o number

-----------------------------------------------------------------------------
\* A script formats a number and parses the text.
Call(k, v, o, width, b) ==
  /\ kind = k /\ value = v /\ options = o /\ text = Format(k, v, o, width) /\ base = b
  /\ end = 0 /\ sign = FALSE /\ res = 0 /\ byteCount = 0 /\ stage = "called"

\* Other bases are not accepted; parseInt looks for a sign.
Enter ==
  /\ stage = "called"
  /\ stage' = IF base \notin {10, 16} THEN "parsed" ELSE IF kind = "int" THEN "sign" ELSE "digits"
  /\ UNCHANGED <<kind, value, options, text, base, end, sign, res, byteCount>>

\* The character at end, the one after the last is a NUL.
Char == IF end < Len(text) THEN text[end + 1] ELSE "NUL"

\* The sign is skipped.
Sign ==
  /\ stage = "sign"
  /\ sign' = (Char = "-")
  /\ end' = end + (IF Char \in {"-", "+"} THEN 1 ELSE 0)
  /\ stage' = "digits"
  /\ UNCHANGED <<kind, value, options, text, base, res, byteCount>>

\* The digits from A on count from zero.
DigitValue_Zero(c) ==
  IF \E i \in 1 .. 16 : SmallDigits[i] = c THEN (CHOOSE i \in 1 .. 16 : SmallDigits[i] = c) - 1
  ELSE (CHOOSE i \in 1 .. 16 : LargeDigits[i] = c) - 11

DigitValue(c) ==
  IF \E i \in 1 .. 16 : SmallDigits[i] = c THEN (CHOOSE i \in 1 .. 16 : SmallDigits[i] = c) - 1
  ELSE (CHOOSE i \in 1 .. 16 : LargeDigits[i] = c) - 1

IsDigit == \E i \in 1 .. base : Char \in {SmallDigits[i], LargeDigits[i]}
Wrapped(x) == IF kind = "int" THEN Signed(x) ELSE Unsigned(x)

\* Overflow wraps around.
Digit ==
  /\ stage = "digits" /\ IsDigit
  /\ res' = Wrapped(res * base + DigitValue(Char))
  /\ end' = end + 1
  /\ UNCHANGED <<kind, value, options, text, base, sign, byteCount, stage>>

Done ==
  /\ stage = "digits" /\ ~IsDigit
  /\ byteCount' = end /\ res' = (IF sign THEN Wrapped(-res) ELSE res)
  /\ stage' = "parsed"
  /\ UNCHANGED <<kind, value, options, text, base, end, sign>>

-----------------------------------------------------------------------------
NumberInit ==
  \E k \in {"int", "uint"}, o \in SUBSET {"l", "0", "+", " ", "h", "H"}, width \in Widths, b \in Bases :
    \E v \in Values(k) : Call(k, v, o, width, b)

NumberNext == Enter \/ Sign \/ Digit \/ Done
NumberSpec == NumberInit /\ [][NumberNext]_numberVars

-----------------------------------------------------------------------------
\* A number that is formatted is parsed again, the least integer too, whose negation
\* overflows, and a negative one in hexadecimal, which overflows on the way; and
\* byteCount says where in the text it ends.  (White space before it is not skipped.)
ReadsBack ==
  stage = "parsed" /\ base = (IF IsHex(options) THEN 16 ELSE 10) /\ text[1] # " " =>
    /\ res = value
    /\ \A i \in DOMAIN text : i > byteCount <=> text[i] = " "
=============================================================================
