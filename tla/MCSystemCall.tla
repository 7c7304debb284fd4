----------------------------- MODULE MCSystemCall -----------------------------
(***************************************************************************)
(* Every signature of up to two parameters, of one dword or a pointer.      *)
(***************************************************************************)
EXTENDS SystemCall, FiniteSetsExt

MCBelows == {0, 2}

MaxParams == 2

\* start, by adding up the sizes of the items above.
LaidOut(s) ==
  [s EXCEPT !.start = [k \in 1 .. Len(Pushed(s)) + 1 |->
     MapThenSumSet(LAMBDA j : SizeOf(s, Pushed(s)[j]), 1 .. k - 1)]]

AllSignatures ==
  {LaidOut(s) : s \in
     {s \in [convention : Conventions,
             sizes : UNION {[1 .. n -> {1, PointerSize}] : n \in 0 .. MaxParams},
             returns : {"void", "value", "handle", "object"},
             inMemory : BOOLEAN, start : {<<>>}] :
        s.inMemory => s.returns = "object"}}

HandledSignatures == {s \in AllSignatures : Handled(s)}
FunctionsInMemory == {s \in AllSignatures : s.convention = "CDECL" /\ s.inMemory}
MethodsInRegisters ==
  {s \in AllSignatures : IsMethod(s) /\ s.returns = "object" /\ ~s.inMemory}
=============================================================================
