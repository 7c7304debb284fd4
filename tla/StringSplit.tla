----------------------------- MODULE StringSplit -----------------------------
(***************************************************************************)
(* string::split and join of the string add-on (scriptstdstring_utils.cpp).  *)
(* Positions count from 0 as in the code; the loop of split is an action per *)
(* turn, with the array it fills.                                           *)
(***************************************************************************)
EXTENDS Integers, Sequences, SequencesExt

CONSTANTS
  Chars,          \* characters of strings
  NUL,            \* the character 0, in Chars or not
  MaxLength,      \* of a string, a bound
  Delimiters,     \* what strings are split by
  MaxSize         \* the most elements an array can have

ASSUME DelimitersAssumption == Delimiters \subseteq Seq(Chars)
ASSUME MaxLengthAssumption == MaxLength \in Nat

VARIABLES
  str, delim,     \* the arguments of split
  array, prev,    \* its variables; count is Len(array)
  phase           \* "idle", "splitting", "split", or "crashed" by a null pointer

splitVars == <<str, delim, array, prev, phase>>

Texts == UNION {[1 .. n -> Chars] : n \in 0 .. MaxLength}

-----------------------------------------------------------------------------
\* d is at position p of s.
IsAt(s, d, p) == SubSeq(s, p + 1, p + Len(d)) = d

\* std::string::find, with npos as the -1 it is cast to.
FindFrom(s, d, p) ==
  LET found == {q \in p .. Len(s) - Len(d) : IsAt(s, d, q)}
  IN IF found = {} THEN -1 ELSE Min(found)

\* std::string::assign(const char*) takes a string that ends at a NUL.
CString(s) == SelectInSeq(s, LAMBDA c : c = NUL)
UpToNul(s) == IF CString(s) = 0 THEN s ELSE SubSeq(s, 1, CString(s) - 1)

-----------------------------------------------------------------------------
StringSplit(s, d) ==
  /\ phase \in {"idle", "split"}
  /\ str' = s /\ delim' = d /\ array' = <<>> /\ prev' = 0 /\ phase' = "splitting"

\* Resize is refused, and At returns the null pointer of an index out of bounds.
Crash ==
  /\ phase = "splitting" /\ Len(array) = MaxSize
  /\ phase' = "crashed"
  /\ UNCHANGED <<str, delim, array, prev>>

pos == FindFrom(str, delim, prev)

\* The search goes on one character behind the delimiter's begin.
NextPart_One ==
  /\ phase = "splitting" /\ pos # -1 /\ Len(array) < MaxSize
  /\ array' = Append(array, SubSeq(str, prev + 1, pos))
  /\ prev' = pos + 1
  /\ UNCHANGED <<str, delim, phase>>

NextPart ==
  /\ phase = "splitting" /\ pos # -1 /\ Len(array) < MaxSize
  /\ array' = Append(array, SubSeq(str, prev + 1, pos))
  /\ prev' = pos + Len(delim)
  /\ UNCHANGED <<str, delim, phase>>

LastPart ==
  /\ phase = "splitting" /\ pos = -1 /\ Len(array) < MaxSize
  /\ array' = Append(array, UpToNul(SubSeq(str, prev + 1, Len(str))))
  /\ phase' = "split"
  /\ UNCHANGED <<str, delim, prev>>

\* join: every element but the last is followed by the delimiter.
StringJoin(parts, d) ==
  LET joined[n \in 0 .. Len(parts)] ==
        IF n = 0 THEN <<>>
        ELSE joined[n - 1] \o parts[n] \o (IF n < Len(parts) THEN d ELSE <<>>)
  IN joined[Len(parts)]

-----------------------------------------------------------------------------
SplitInit == str = <<>> /\ delim = <<>> /\ array = <<>> /\ prev = 0 /\ phase = "idle"

Turn == NextPart \/ LastPart \/ Crash
SplitNext == (\E s \in Texts, d \in Delimiters : StringSplit(s, d)) \/ Turn

\* The loop runs on.
SplitSpec == SplitInit /\ [][SplitNext]_splitVars /\ WF_splitVars(Turn)

-----------------------------------------------------------------------------
\* What split takes apart, join puts together again: nothing of the string is lost
\* between the parts, overlapping and adjacent delimiters included.
PartsJoin == phase = "split" => StringJoin(array, delim) = str

\* The string is split at every delimiter, from the left: none is left in a part.
PartsHaveNoDelimiter ==
  phase = "split" =>
    \A i \in DOMAIN array : \A p \in 0 .. Len(array[i]) - Len(delim) : ~IsAt(array[i], delim, p)

\* The parts are the string, taken apart at its delimiters and nowhere else.
SplitRight == PartsJoin /\ PartsHaveNoDelimiter

\* split returns its parts, if an array can have as many as there may be.
SplitReturns == (phase = "splitting" /\ Len(str) < MaxSize) ~> phase = "split"
=============================================================================
