--------------------------- MODULE SystemCallProofs ---------------------------
(***************************************************************************)
(* A call of a registered function, for every signature that               *)
(* emit_system_call handles: any number of parameters, any sizes.           *)
(*                                                                          *)
(* For those, the loads take the pushed items in the order they were        *)
(* pushed: the invariant says which item is next, and where the ones taken  *)
(* have been put.                                                           *)
(***************************************************************************)
EXTENDS SystemCall, SequenceTheorems, TLAPS

Objects(s) == IF IsMethod(s) THEN 1 ELSE 0
Memory(s) == IF s.inMemory THEN 1 ELSE 0
Results(s) == IF ReturnsOnStack(s) THEN 1 ELSE 0

\* Arguments that precede those made of parameters.
Lead(s) == Memory(s) + (IF s.convention = "CDECL_OBJLAST" THEN 0 ELSE Objects(s))

\* Turns of the loop that precede those for parameters, and items taken so far.
Special(s) == Objects(s) + Memory(s)
Taken(s, turn) == turn + Results(s) - Memory(s)

\* The counters of the loop agree on the item that is next.
Counters ==
  /\ i \in 0 .. Count(sig)
  /\ script = IF i <= Special(sig) THEN 0 ELSE i - Special(sig)
  /\ insert = IF i < Special(sig) THEN 0 ELSE Lead(sig) + script
  /\ sp = below + PushedSize(sig) - sig.start[Taken(sig, i) + 1]

\* What has been taken is where the native function expects it.
Placed ==
  /\ IsMethod(sig) /\ i >= 1 => object = This /\ args[ObjectIndex(sig) + 1] = This
  /\ sig.inMemory /\ i >= 2 => args[1] = Return
  /\ \A k \in 1 .. script : args[Lead(sig) + k] = Param(k)

IInv ==
  /\ sig \in Signatures /\ below \in Nat /\ sp \in Nat
  /\ phase \in {"idle", "return pointer", "arguments", "called"}
  /\ object \in Items /\ returnPointer \in Items
  /\ phase # "idle" => args \in [1 .. Count(sig) -> Items]
  /\ phase \in {"idle", "return pointer"} => i = 0 /\ insert = 0 /\ script = 0
  /\ phase = "return pointer" =>
       sp = below + PushedSize(sig) /\ returnPointer = None
  /\ phase \in {"arguments", "called"} =>
       /\ Counters /\ Placed
       /\ returnPointer = IF PopsReturnPointer(sig) THEN Return ELSE None
  /\ phase = "called" =>
       /\ i = Count(sig)
       /\ result = NativeResult(sig)

AllHandled == \A s \in Signatures : Handled(s)

LEMMA SignatureFacts ==
  ASSUME NEW s \in Signatures
  PROVE  /\ s.convention \in Conventions
         /\ s.sizes \in Seq({1, PointerSize}) /\ Len(s.sizes) \in Nat
         /\ DOMAIN s.sizes = 1 .. Len(s.sizes)
         /\ s.inMemory \in BOOLEAN /\ s.start \in Seq(Nat)
         /\ s.inMemory => s.returns = "object"
         /\ IsLaidOut(s)
         /\ Count(s) \in Nat /\ Count(s) = Len(s.sizes) + Objects(s) + Memory(s)
<1>1. s \in Signature /\ (s.inMemory => s.returns = "object") /\ IsLaidOut(s)
  BY SignatureAssumption
<1>2. /\ s.convention \in Conventions /\ s.sizes \in Seq({1, PointerSize})
      /\ s.inMemory \in BOOLEAN /\ s.start \in Seq(Nat)
  BY <1>1 DEF Signature
<1>3. Len(s.sizes) \in Nat /\ DOMAIN s.sizes = 1 .. Len(s.sizes)
  BY <1>2, LenProperties
<1>4. Count(s) \in Nat /\ Count(s) = Len(s.sizes) + Objects(s) + Memory(s)
  <2>1. Count(s) = Len(s.sizes) + Objects(s) + Memory(s)
    BY Zenon DEF Count, Objects, Memory
  <2>2. Objects(s) \in {0, 1} /\ Memory(s) \in {0, 1}
    BY DEF Objects, Memory
  <2> QED
    BY <1>3, <2>1, <2>2
<1> QED
  BY <1>1, <1>2, <1>3, <1>4

\* The elements of three sequences put together.
LEMMA ThreeParts ==
  ASSUME NEW S, NEW a \in Seq(S), NEW b \in Seq(S), NEW c \in Seq(S),
         NEW p, p = a \o b \o c
  PROVE  /\ p \in Seq(S)
         /\ Len(p) = Len(a) + Len(b) + Len(c)
         /\ \A k \in 1 .. Len(a) : p[k] = a[k]
         /\ \A k \in 1 .. Len(b) : p[Len(a) + k] = b[k]
         /\ \A k \in 1 .. Len(c) : p[Len(a) + Len(b) + k] = c[k]
<1>0. Len(a) \in Nat /\ Len(b) \in Nat /\ Len(c) \in Nat
  BY LenProperties
<1>1. PICK ab \in Seq(S) : ab = a \o b
  BY ConcatProperties
<1>2. /\ Len(ab) = Len(a) + Len(b)
      /\ \A k \in 1 .. Len(a) + Len(b) : ab[k] = IF k <= Len(a) THEN a[k] ELSE b[k - Len(a)]
  BY <1>1, ConcatProperties
<1>3. PICK abc \in Seq(S) : abc = ab \o c
  BY ConcatProperties
<1>4. /\ Len(abc) = Len(ab) + Len(c)
      /\ \A k \in 1 .. Len(ab) + Len(c) : abc[k] = IF k <= Len(ab) THEN ab[k] ELSE c[k - Len(ab)]
  BY <1>3, ConcatProperties
<1>5. \A k \in 1 .. Len(a) : abc[k] = a[k]
  BY <1>0, <1>2, <1>4
<1>6. ASSUME NEW k \in 1 .. Len(b) PROVE abc[Len(a) + k] = b[k]
  <2>1. PICK j : j = Len(a) + k
    OBVIOUS
  <2>2. j \in 1 .. Len(a) + Len(b) /\ ~(j <= Len(a)) /\ j - Len(a) = k
    BY <1>0, <2>1
  <2>3. j \in 1 .. Len(ab) + Len(c) /\ j <= Len(ab)
    BY <1>0, <1>2, <2>2
  <2> QED
    BY <1>2, <1>4, <2>1, <2>2, <2>3
<1>7. ASSUME NEW k \in 1 .. Len(c) PROVE abc[Len(a) + Len(b) + k] = c[k]
  <2>1. PICK j : j = Len(a) + Len(b) + k
    OBVIOUS
  <2>2. j \in 1 .. Len(ab) + Len(c) /\ ~(j <= Len(ab)) /\ j - Len(ab) = k
    BY <1>0, <1>2, <2>1
  <2> QED
    BY <1>4, <2>1, <2>2
<1>8. p = abc
  BY <1>1, <1>3
<1>9. Len(abc) = Len(a) + Len(b) + Len(c)
  BY <1>2, <1>4
<1> QED
  BY Zenon, <1>5, <1>6, <1>7, <1>8, <1>9

\* The items a call pushes, by their place.
LEMMA PushedItems ==
  ASSUME NEW s \in Signatures
  PROVE  /\ Len(Pushed(s)) = Objects(s) + Results(s) + Len(s.sizes)
         /\ IsMethod(s) => Pushed(s)[1] = This
         /\ ReturnsOnStack(s) => Pushed(s)[Objects(s) + 1] = Return
         /\ \A k \in 1 .. Len(s.sizes) : Pushed(s)[Objects(s) + Results(s) + k] = Param(k)
<1> PICK a : a = IF IsMethod(s) THEN <<This>> ELSE <<>>
  OBVIOUS
<1> PICK b : b = IF ReturnsOnStack(s) THEN <<Return>> ELSE <<>>
  OBVIOUS
<1> PICK c : c = [k \in DOMAIN s.sizes |-> Param(k)]
  OBVIOUS
<1>1. a \in Seq(Items) /\ Len(a) = Objects(s) /\ (IsMethod(s) => a[1] = This)
  BY DEF Objects, Items, This
<1>2. b \in Seq(Items) /\ Len(b) = Results(s) /\ (ReturnsOnStack(s) => b[1] = Return)
  BY DEF Results, Items, Return
<1>3. c \in Seq(Items) /\ Len(c) = Len(s.sizes) /\ \A k \in 1 .. Len(s.sizes) : c[k] = Param(k)
  BY SignatureFacts DEF Items, Param
<1>4. Pushed(s) = a \o b \o c
  BY DEF Pushed
<1>5. Objects(s) = (IF IsMethod(s) THEN 1 ELSE 0) /\ Results(s) = (IF ReturnsOnStack(s) THEN 1 ELSE 0)
  BY Zenon DEF Objects, Results
<1> PICK p : p = a \o b \o c
  OBVIOUS
<1>6. /\ p \in Seq(Items)
      /\ Len(p) = Len(a) + Len(b) + Len(c)
      /\ \A k \in 1 .. Len(a) : p[k] = a[k]
      /\ \A k \in 1 .. Len(b) : p[Len(a) + k] = b[k]
      /\ \A k \in 1 .. Len(c) : p[Len(a) + Len(b) + k] = c[k]
  BY <1>1, <1>2, <1>3, ThreeParts
<1>7. IsMethod(s) => p[1] = This
  BY <1>1, <1>5, <1>6
<1>8. ReturnsOnStack(s) => p[Objects(s) + 1] = Return
  BY <1>1, <1>2, <1>5, <1>6
<1>9. \A k \in 1 .. Len(s.sizes) : p[Objects(s) + Results(s) + k] = Param(k)
  BY <1>1, <1>2, <1>3, <1>6
<1> QED
  BY <1>1, <1>2, <1>3, <1>4, <1>6, <1>7, <1>8, <1>9

\* The arguments the native function takes, by their place.
LEMMA NativeItems ==
  ASSUME NEW s \in Signatures
  PROVE  /\ NativeArguments(s) \in [1 .. Count(s) -> Items]
         /\ s.inMemory => NativeArguments(s)[1] = Return
         /\ IsMethod(s) => NativeArguments(s)[ObjectIndex(s) + 1] = This
         /\ \A k \in 1 .. Len(s.sizes) : NativeArguments(s)[Lead(s) + k] = Param(k)
<1> PICK m : m = IF s.inMemory THEN <<Return>> ELSE <<>>
  OBVIOUS
<1> PICK t : t = <<This>>
  OBVIOUS
<1> PICK c : c = [k \in DOMAIN s.sizes |-> Param(k)]
  OBVIOUS
<1>1. m \in Seq(Items) /\ Len(m) = Memory(s) /\ (s.inMemory => m[1] = Return)
  <2>1. CASE s.inMemory
    BY <2>1 DEF Memory, Items, Return
  <2>2. CASE ~s.inMemory
    BY <2>2 DEF Memory
  <2> QED
    BY <2>1, <2>2
<1>2. t \in Seq(Items) /\ Len(t) = 1 /\ t[1] = This
  BY DEF Items, This
<1>3. c \in Seq(Items) /\ Len(c) = Len(s.sizes) /\ \A k \in 1 .. Len(s.sizes) : c[k] = Param(k)
  BY SignatureFacts DEF Items, Param
<1>8. Len(c) \in Nat
  BY <1>3, LenProperties
<1>4. /\ Count(s) = Len(s.sizes) + Objects(s) + Memory(s)
      /\ s.inMemory => Memory(s) = 1
      /\ Memory(s) \in Nat
  BY SignatureFacts DEF Memory
<1>5. CASE s.convention = "CDECL"
  <2>1. /\ NativeArguments(s) = m \o c
        /\ ~IsMethod(s) /\ Objects(s) = 0 /\ Lead(s) = Memory(s)
    BY <1>1, <1>3, <1>4, <1>5 DEF NativeArguments, IsMethod, Objects, Lead
  <2> PICK p : p = m \o c
    OBVIOUS
  <2>2. /\ p \in Seq(Items) /\ Len(p) = Len(m) + Len(c)
        /\ \A k \in 1 .. Len(m) + Len(c) : p[k] = IF k <= Len(m) THEN m[k] ELSE c[k - Len(m)]
    BY <1>1, <1>3, ConcatProperties
  <2>3. p \in [1 .. Count(s) -> Items]
    <3>1. Len(p) = Count(s)
      BY <1>1, <1>2, <1>3, <1>4, <1>8, <2>1, <2>2
    <3> QED
      BY <2>2, <3>1, LenProperties
  <2>4. s.inMemory => p[1] = Return
    BY <1>1, <1>3, <1>4, <2>2
  <2>5. \A k \in 1 .. Len(s.sizes) : p[Memory(s) + k] = Param(k)
    BY <1>1, <1>3, <1>4, <2>2
  <2> QED
    BY <2>1, <2>2, <2>3, <2>4, <2>5
<1>6. CASE s.convention = "CDECL_OBJLAST"
  <2>1. /\ NativeArguments(s) = m \o c \o t
        /\ IsMethod(s) /\ Objects(s) = 1 /\ Lead(s) = Memory(s)
        /\ ObjectIndex(s) = Count(s) - 1
    BY <1>1, <1>2, <1>3, <1>4, <1>6 DEF NativeArguments, IsMethod, Objects, Lead, ObjectIndex
  <2> PICK p : p = m \o c \o t
    OBVIOUS
  <2>2. /\ p \in Seq(Items) /\ Len(p) = Len(m) + Len(c) + Len(t)
        /\ \A k \in 1 .. Len(m) : p[k] = m[k]
        /\ \A k \in 1 .. Len(c) : p[Len(m) + k] = c[k]
        /\ \A k \in 1 .. Len(t) : p[Len(m) + Len(c) + k] = t[k]
    BY <1>1, <1>2, <1>3, ThreeParts
  <2>3. p \in [1 .. Count(s) -> Items]
    <3>1. Len(p) = Count(s)
      BY <1>1, <1>2, <1>3, <1>4, <1>8, <2>1, <2>2
    <3> QED
      BY <2>2, <3>1, LenProperties
  <2>4. s.inMemory => p[1] = Return
    BY <1>1, <1>4, <2>2
  <2>5. \A k \in 1 .. Len(s.sizes) : p[Memory(s) + k] = Param(k)
    BY <1>1, <1>3, <2>2
  <2>6. p[Len(m) + Len(c) + 1] = This
    <3>1. 1 \in 1 .. Len(t)
      BY <1>2
    <3> QED
      BY Zenon, <1>2, <2>2, <3>1
  <2>7. ObjectIndex(s) + 1 = Len(m) + Len(c) + 1
    BY <1>1, <1>3, <1>4, <1>8, <2>1
  <2> QED
    BY Zenon, <2>1, <2>3, <2>4, <2>5, <2>6, <2>7
<1>7. CASE s.convention \notin {"CDECL", "CDECL_OBJLAST"}
  <2>1. /\ NativeArguments(s) = m \o t \o c
        /\ IsMethod(s) /\ Objects(s) = 1 /\ Lead(s) = Memory(s) + 1
        /\ ObjectIndex(s) = Len(m)
    BY <1>1, <1>2, <1>3, <1>4, <1>7 DEF NativeArguments, IsMethod, Objects, Lead, ObjectIndex
  <2> PICK p : p = m \o t \o c
    OBVIOUS
  <2>2. /\ p \in Seq(Items) /\ Len(p) = Len(m) + Len(t) + Len(c)
        /\ \A k \in 1 .. Len(m) : p[k] = m[k]
        /\ \A k \in 1 .. Len(t) : p[Len(m) + k] = t[k]
        /\ \A k \in 1 .. Len(c) : p[Len(m) + Len(t) + k] = c[k]
    BY <1>1, <1>2, <1>3, ThreeParts
  <2>3. p \in [1 .. Count(s) -> Items]
    <3>1. Len(p) = Count(s)
      BY <1>1, <1>2, <1>3, <1>4, <1>8, <2>1, <2>2
    <3> QED
      BY <2>2, <3>1, LenProperties
  <2>4. s.inMemory => p[1] = Return
    BY <1>1, <1>4, <2>2
  <2>5. \A k \in 1 .. Len(s.sizes) : p[Memory(s) + 1 + k] = Param(k)
    BY <1>1, <1>2, <1>3, <2>2
  <2>6. p[Len(m) + 1] = This
    <3>1. 1 \in 1 .. Len(t)
      BY <1>2
    <3> QED
      BY Zenon, <1>2, <2>2, <3>1
  <2> QED
    BY Zenon, <2>1, <2>3, <2>4, <2>5, <2>6
<1> QED
  BY <1>5, <1>6, <1>7

-----------------------------------------------------------------------------
(* Arithmetic of signatures.                                                 *)

LEMMA Numbers ==
  ASSUME NEW s \in Signatures, Handled(s)
  PROVE  /\ Objects(s) \in {0, 1} /\ Memory(s) \in {0, 1} /\ Results(s) \in {0, 1}
         /\ IsMethod(s) <=> Objects(s) = 1
         /\ s.inMemory <=> Memory(s) = 1
         /\ ReturnsOnStack(s) <=> Results(s) = 1
         /\ Objects(s) = 0 => Memory(s) = 0
         /\ Objects(s) = 1 => Memory(s) = Results(s)
         /\ PopsReturnPointer(s) <=> (Results(s) = 1 /\ Memory(s) = 0)
         /\ Len(s.sizes) \in Nat
         /\ Count(s) = Len(s.sizes) + Objects(s) + Memory(s)
         /\ Len(Pushed(s)) = Objects(s) + Results(s) + Len(s.sizes)
         /\ Lead(s) \in Nat
<1>1. s.inMemory \in BOOLEAN /\ (s.inMemory => s.returns = "object")
  BY SignatureFacts
<1>2. Objects(s) \in {0, 1} /\ (IsMethod(s) <=> Objects(s) = 1)
  BY DEF Objects
<1>3. Memory(s) \in {0, 1} /\ (s.inMemory <=> Memory(s) = 1)
  BY <1>1 DEF Memory
<1>4. Results(s) \in {0, 1} /\ (ReturnsOnStack(s) <=> Results(s) = 1)
  BY DEF Results
<1>5. /\ ~IsMethod(s) => ~s.inMemory
      /\ IsMethod(s) => (s.inMemory <=> ReturnsOnStack(s))
      /\ PopsReturnPointer(s) <=> (ReturnsOnStack(s) /\ ~s.inMemory)
  BY <1>1 DEF Handled, ReturnsOnStack, PopsReturnPointer
<1>6. Lead(s) \in Nat
  BY <1>2, <1>3 DEF Lead
<1> QED
  BY <1>2, <1>3, <1>4, <1>5, <1>6, SignatureFacts, PushedItems

\* Where the object goes, and that it is no other argument's place.
LEMMA Places ==
  ASSUME NEW s \in Signatures, Handled(s), IsMethod(s)
  PROVE  /\ ObjectIndex(s) + 1 \in 1 .. Count(s)
         /\ s.inMemory => 1 \in 1 .. Count(s) /\ ObjectIndex(s) + 1 # 1
         /\ \A k \in 1 .. Len(s.sizes) : Lead(s) + k # ObjectIndex(s) + 1
<1>1. /\ s.convention = "CDECL_OBJLAST" => ObjectIndex(s) = Count(s) - 1 /\ Lead(s) = Memory(s)
      /\ s.convention # "CDECL_OBJLAST" => ObjectIndex(s) = Memory(s) /\ Lead(s) = Memory(s) + 1
  BY Numbers DEF ObjectIndex, Lead, Memory
<1> QED
  BY <1>1, Numbers

LEMMA ParamPlaces ==
  ASSUME NEW s \in Signatures, Handled(s), NEW k \in 1 .. Len(s.sizes)
  PROVE  /\ Lead(s) + k \in 1 .. Count(s)
         /\ s.inMemory => Lead(s) + k # 1
<1>1. Lead(s) = Memory(s) \/ Lead(s) = Memory(s) + Objects(s)
  BY Numbers DEF Lead
<1> QED
  BY <1>1, Numbers

\* Where pushed items start and end.
LEMMA Starts ==
  ASSUME NEW s \in Signatures, Handled(s)
  PROVE  /\ s.start[1] = 0
         /\ PushedSize(s) = s.start[Len(Pushed(s)) + 1] /\ PushedSize(s) \in Nat
         /\ \A k \in 1 .. Len(Pushed(s)) :
              /\ s.start[k] \in Nat /\ s.start[k + 1] \in Nat
              /\ s.start[k + 1] = s.start[k] + SizeOf(s, Pushed(s)[k])
              /\ s.start[k + 1] <= PushedSize(s)
<1>1. /\ s.start \in Seq(Nat) /\ Len(s.start) = Len(Pushed(s)) + 1
      /\ IsLaidOut(s) /\ Len(Pushed(s)) \in Nat
  BY SignatureFacts, Numbers DEF IsLaidOut
<1>2. \A k \in 1 .. Len(Pushed(s)) + 1 : s.start[k] \in Nat
  BY <1>1, LenProperties
<1>3. PushedSize(s) = s.start[Len(Pushed(s)) + 1] /\ PushedSize(s) \in Nat
  BY <1>1, <1>2 DEF PushedSize
<1>4. \A k \in 1 .. Len(Pushed(s)) :
        /\ s.start[k + 1] = s.start[k] + SizeOf(s, Pushed(s)[k])
        /\ s.start[k + 1] <= PushedSize(s)
  BY <1>1, <1>3 DEF IsLaidOut, PushedSize
<1> QED
  BY <1>1, <1>2, <1>3, <1>4 DEF IsLaidOut

\* A load yields the item that starts at the stack pointer.
LEMMA Loads ==
  ASSUME sig \in Signatures, Handled(sig), below \in Nat,
         NEW k \in 1 .. Len(Pushed(sig)),
         sp = below + PushedSize(sig) - sig.start[k]
  PROVE  Loaded = Pushed(sig)[k]
<1>1. Depth = sig.start[k]
  BY Starts DEF Depth
<1>2. \A j \in 1 .. Len(Pushed(sig)) : sig.start[j] = Depth => j = k
  BY <1>1, SignatureFacts DEF IsLaidOut
<1>3. (CHOOSE j \in 1 .. Len(Pushed(sig)) : sig.start[j] = Depth) = k
  BY <1>1, <1>2
<1> QED
  BY <1>1, <1>3 DEF Loaded

-----------------------------------------------------------------------------
(* The invariant.                                                            *)

LEMMA InitInvariant == Init => IInv
<1> SUFFICES ASSUME Init PROVE IInv
  OBVIOUS
<1>1. /\ sig \in Signatures /\ below \in Nat /\ sp = below
      /\ phase = "idle" /\ i = 0 /\ insert = 0 /\ script = 0
      /\ object = None /\ returnPointer = None
  BY BelowAssumption DEF Init
<1>2. None \in Items
  BY DEF Items, None
<1> QED
  BY <1>1, <1>2 DEF IInv

LEMMA EmitStep ==
  ASSUME IInv, AllHandled, NEW s \in Signatures, EmitSystemCall(s)
  PROVE  IInv'
<1>1. Handled(s) /\ PushedSize(s) \in Nat
  BY Starts DEF AllHandled
<1>2. [k \in 1 .. Count(s) |-> None] \in [1 .. Count(s) -> Items]
  BY DEF Items, None
<1>3. /\ sig' = s /\ below' = sp /\ sp' = sp + PushedSize(s)
      /\ args' \in [1 .. Count(s) -> Items]
      /\ phase' = "return pointer" /\ i' = 0 /\ insert' = 0 /\ script' = 0
      /\ object' = None /\ returnPointer' = None
  BY <1>2 DEF EmitSystemCall
<1>4. None \in Items
  BY DEF Items, None
<1>5. below' \in Nat /\ sp' \in Nat
  <2>1. sp \in Nat
    BY DEF IInv
  <2>2. below' = sp /\ sp' = sp + PushedSize(s)
    BY Zenon, <1>3
  <2> QED
    BY <1>1, <2>1, <2>2
<1> QED
  BY <1>3, <1>4, <1>5 DEF IInv

LEMMA PopReturnPointerStep ==
  ASSUME IInv, AllHandled, PopReturnPointer
  PROVE  IInv'
<1>1. /\ sig \in Signatures /\ Handled(sig) /\ below \in Nat
      /\ i = 0 /\ insert = 0 /\ script = 0
      /\ sp = below + PushedSize(sig) - sig.start[1]
      /\ args \in [1 .. Count(sig) -> Items] /\ object \in Items
      /\ returnPointer = None
  <2>1. /\ sig \in Signatures /\ Handled(sig) /\ below \in Nat
        /\ i = 0 /\ insert = 0 /\ script = 0
        /\ sp = below + PushedSize(sig) /\ returnPointer = None
        /\ args \in [1 .. Count(sig) -> Items] /\ object \in Items
    BY DEF IInv, AllHandled, PopReturnPointer
  <2> QED
    BY <2>1, Starts
<1>2. /\ phase' = "arguments"
      /\ sig' = sig /\ below' = below /\ i' = 0 /\ insert' = 0 /\ script' = 0
      /\ args' = args /\ object' = object
  BY <1>1 DEF PopReturnPointer
<1>3. sig.start[1] = 0 /\ PushedSize(sig) \in Nat /\ sp \in Nat
  BY <1>1, Starts DEF IInv
<1>4. /\ Special(sig) \in Nat /\ Count(sig) \in Nat /\ 0 \in 0 .. Count(sig)
      /\ Lead(sig) \in Nat /\ (Special(sig) = 0 => Lead(sig) = 0)
  <2>1. Special(sig) \in Nat /\ Count(sig) \in Nat
    BY <1>1, Numbers DEF Special
  <2>2. Special(sig) = 0 => Objects(sig) = 0 /\ Memory(sig) = 0
    BY <1>1, Numbers DEF Special
  <2> QED
    BY <1>1, <2>1, <2>2, Numbers DEF Lead
<1>5. ASSUME sp' = below + PushedSize(sig) - sig.start[Taken(sig, 0) + 1]
      PROVE  Counters'
  <2>1. i' \in 0 .. Count(sig')
    BY <1>2, <1>4
  <2>2. script' = IF i' <= Special(sig') THEN 0 ELSE i' - Special(sig')
    BY <1>2, <1>4
  <2>3. insert' = IF i' < Special(sig') THEN 0 ELSE Lead(sig') + script'
    BY <1>2, <1>4
  <2>4. sp' = below' + PushedSize(sig') - sig'.start[Taken(sig', i') + 1]
    BY Zenon, <1>2, <1>5
  <2> QED
    BY Zenon, <2>1, <2>2, <2>3, <2>4 DEF Counters
<1>6. Placed'
  BY <1>2 DEF Placed
<1>7. ASSUME sp' \in Nat, Counters', returnPointer' \in Items,
             returnPointer' = IF PopsReturnPointer(sig) THEN Return ELSE None
      PROVE  IInv'
  BY <1>1, <1>2, <1>6, <1>7 DEF IInv
<1>8. CASE PopsReturnPointer(sig)
  <2>1. /\ Objects(sig) = 0 /\ Memory(sig) = 0 /\ Results(sig) = 1
        /\ 1 \in 1 .. Len(Pushed(sig)) /\ Pushed(sig)[1] = Return
    BY <1>1, <1>8, Numbers, PushedItems
  <2>2. Loaded = Return
    BY <1>1, <2>1, Loads
  <2>3. returnPointer' = Return /\ sp' = sp - PointerSize
    BY <1>8, <2>2 DEF PopReturnPointer
  <2>4. /\ sig.start[2] = sig.start[1] + PointerSize /\ sig.start[2] <= PushedSize(sig)
        /\ sig.start[2] \in Nat
    BY <1>1, <2>1, Starts DEF SizeOf, Return
  <2>5. sp' = below + PushedSize(sig) - sig.start[2] /\ sp' \in Nat
    BY <1>1, <1>3, <2>3, <2>4 DEF PointerSize
  <2>6. Taken(sig, 0) + 1 = 2
    BY <2>1 DEF Taken
  <2>7. Counters'
    BY <1>5, <2>5, <2>6
  <2> QED
    BY <1>7, <1>8, <2>3, <2>5, <2>7 DEF Items, Return
<1>9. CASE ~PopsReturnPointer(sig)
  <2>1. Results(sig) = Memory(sig) /\ Results(sig) \in {0, 1}
    BY <1>1, <1>9, Numbers
  <2>2. returnPointer' = None /\ sp' = sp
    BY <1>1, <1>9 DEF PopReturnPointer
  <2>3. Taken(sig, 0) + 1 = 1
    BY <2>1 DEF Taken
  <2>4. Counters'
    BY <1>1, <1>5, <2>2, <2>3
  <2> QED
    BY <1>3, <1>7, <1>9, <2>2, <2>4 DEF Items, None
<1> QED
  BY <1>8, <1>9

\* The state of the loop, as the steps of the loop use it.
LEMMA LoopFacts ==
  ASSUME IInv, AllHandled, phase = "arguments"
  PROVE  /\ sig \in Signatures /\ Handled(sig) /\ below \in Nat /\ sp \in Nat
         /\ Counters /\ Placed
         /\ args \in [1 .. Count(sig) -> Items] /\ object \in Items
         /\ returnPointer \in Items
         /\ returnPointer = IF PopsReturnPointer(sig) THEN Return ELSE None
BY DEF IInv, AllHandled

LEMMA PopObjectStep ==
  ASSUME IInv, AllHandled, PopObject
  PROVE  IInv'
<1>1. /\ phase = "arguments" /\ IsMethod(sig) /\ i = 0
      /\ sig' = sig /\ below' = below /\ phase' = phase /\ script' = script
      /\ returnPointer' = returnPointer
      /\ i' = i + 1 /\ i < Count(sig)
      /\ insert' = IF sig.convention = "CDECL_OBJLAST" \/ sig.inMemory THEN 0 ELSE 1
      /\ args' = [args EXCEPT ![ObjectIndex(sig) + 1] = Loaded]
      /\ sp' = sp - PointerSize /\ object' = Loaded
  BY DEF PopObject, InLoop, Take
<1>2. /\ Objects(sig) = 1 /\ Results(sig) = Memory(sig) /\ Memory(sig) \in {0, 1}
      /\ 1 \in 1 .. Len(Pushed(sig)) /\ Pushed(sig)[1] = This
  BY <1>1, LoopFacts, Numbers, PushedItems
<1>3. /\ script = 0 /\ sp = below + PushedSize(sig) - sig.start[1]
  BY <1>1, <1>2, LoopFacts DEF Counters, Special, Taken
<1>4. Loaded = This
  BY <1>1, <1>2, <1>3, LoopFacts, Loads
<1>5. /\ sig.start[2] = sig.start[1] + PointerSize /\ sig.start[2] <= PushedSize(sig)
      /\ sig.start[2] \in Nat /\ sig.start[1] = 0 /\ PushedSize(sig) \in Nat
  BY <1>1, <1>2, LoopFacts, Starts DEF SizeOf, This
<1>6. sp' = below + PushedSize(sig) - sig.start[2] /\ sp' \in Nat
  BY <1>1, <1>3, <1>5, LoopFacts DEF PointerSize
<1>7. Counters'
  <2>1. insert' = IF 1 < 1 + Memory(sig) THEN 0 ELSE Lead(sig)
    BY <1>1, <1>2, LoopFacts, Numbers DEF Lead
  <2>2. i' = 1 /\ i' \in 0 .. Count(sig)
    BY <1>1, LoopFacts, Numbers
  <2>3. (Taken(sig', i') + 1) = 2 /\ Special(sig') = 1 + Memory(sig)
    BY <1>1, <1>2, <2>2 DEF Taken, Special
  <2> QED
    BY <1>1, <1>2, <1>3, <1>6, <2>1, <2>2, <2>3, LoopFacts, Numbers DEF Counters
<1>8. /\ args' \in [1 .. Count(sig) -> Items] /\ args'[ObjectIndex(sig) + 1] = This
  BY <1>1, <1>4, LoopFacts, Places DEF Items, This
<1>9. Placed'
  BY <1>1, <1>3, <1>4, <1>8 DEF Placed
<1> QED
  BY <1>1, <1>4, <1>6, <1>7, <1>8, <1>9, LoopFacts DEF IInv, Items, This

LEMMA PopSretPointerStep ==
  ASSUME IInv, AllHandled, PopSretPointer
  PROVE  IInv'
<1>1. /\ phase = "arguments" /\ IsMethod(sig) /\ i = 1 /\ sig.inMemory
      /\ sig' = sig /\ below' = below /\ phase' = phase /\ script' = script
      /\ returnPointer' = returnPointer /\ object' = object
      /\ i' = i + 1 /\ i < Count(sig)
      /\ insert' = IF sig.convention = "CDECL_OBJLAST" THEN 1 ELSE 2
      /\ args' = [args EXCEPT ![1] = Loaded]
      /\ sp' = sp - PointerSize
  BY DEF PopSretPointer, InLoop, Take
<1>2. /\ Objects(sig) = 1 /\ Results(sig) = 1 /\ Memory(sig) = 1
      /\ 2 \in 1 .. Len(Pushed(sig)) /\ Pushed(sig)[2] = Return
  BY <1>1, LoopFacts, Numbers, PushedItems
<1>3. /\ script = 0 /\ sp = below + PushedSize(sig) - sig.start[2]
  BY <1>1, <1>2, LoopFacts DEF Counters, Special, Taken
<1>4. Loaded = Return
  BY <1>1, <1>2, <1>3, LoopFacts, Loads
<1>5. /\ sig.start[3] = sig.start[2] + PointerSize /\ sig.start[3] <= PushedSize(sig)
      /\ sig.start[3] \in Nat /\ sig.start[2] \in Nat /\ PushedSize(sig) \in Nat
  BY <1>1, <1>2, LoopFacts, Starts DEF SizeOf, Return
<1>6. sp' = below + PushedSize(sig) - sig.start[3] /\ sp' \in Nat
  <2>1. sp' = sp - 2 /\ sp = below + PushedSize(sig) - sig.start[2] /\ below \in Nat
    BY <1>1, <1>3, LoopFacts DEF PointerSize
  <2> QED
    BY <1>5, <2>1 DEF PointerSize
<1>7. Counters'
  <2>1. insert' = Lead(sig)
    BY <1>1, <1>2 DEF Lead
  <2>2. i' = 2 /\ i' \in 0 .. Count(sig)
    BY <1>1, LoopFacts, Numbers
  <2>3. (Taken(sig', i') + 1) = 3 /\ Special(sig') = 2
    BY <1>1, <1>2, <2>2 DEF Taken, Special
  <2> QED
    BY <1>1, <1>2, <1>3, <1>6, <2>1, <2>2, <2>3, LoopFacts, Numbers DEF Counters
<1>8. /\ args' \in [1 .. Count(sig) -> Items] /\ args'[1] = Return
      /\ args'[ObjectIndex(sig) + 1] = args[ObjectIndex(sig) + 1]
  BY <1>1, <1>4, LoopFacts, Places DEF Items, Return
<1>9. Placed'
  BY <1>1, <1>3, <1>8, LoopFacts DEF Placed
<1> QED
  BY <1>1, <1>6, <1>7, <1>8, <1>9, LoopFacts DEF IInv

LEMMA PopParamStep ==
  ASSUME IInv, AllHandled, PopParam
  PROVE  IInv'
<1> PICK size \in ParamSizes : Take(insert, size)
  BY DEF PopParam
<1>1. /\ phase = "arguments" /\ (IsMethod(sig) => i > (IF sig.inMemory THEN 1 ELSE 0))
      /\ sig' = sig /\ below' = below /\ phase' = phase /\ script' = script + 1
      /\ returnPointer' = returnPointer /\ object' = object
      /\ i' = i + 1 /\ i < Count(sig) /\ insert' = insert + 1
      /\ args' = [args EXCEPT ![insert + 1] = Loaded]
      /\ sp' = sp - size
  BY DEF PopParam, InLoop, Take
<1>2. /\ Objects(sig) \in {0, 1} /\ Results(sig) \in {0, 1} /\ Memory(sig) \in {0, 1}
      /\ IsMethod(sig) <=> Objects(sig) = 1
      /\ sig.inMemory <=> Memory(sig) = 1
      /\ Objects(sig) = 0 => Memory(sig) = 0
      /\ Lead(sig) \in Nat /\ Len(sig.sizes) \in Nat /\ Count(sig) \in Nat
      /\ Count(sig) = Len(sig.sizes) + Objects(sig) + Memory(sig)
  BY LoopFacts, <1>1, Numbers, SignatureFacts
<1>20. i \in Nat /\ i + 1 \in 0 .. Count(sig)
  <2>1. i \in 0 .. Count(sig)
    BY <1>1, LoopFacts DEF Counters
  <2> QED
    BY <1>1, <1>2, <2>1
<1>21. /\ i >= Special(sig) /\ Special(sig) \in Nat
       /\ Special(sig) = Objects(sig) + Memory(sig)
       /\ Count(sig) = Len(sig.sizes) + Special(sig)
  BY <1>1, <1>2, <1>20 DEF Special
<1>3. /\ script = i - Special(sig) /\ insert = Lead(sig) + script
      /\ sp = below + PushedSize(sig) - sig.start[Taken(sig, i) + 1]
  <2>1. /\ script = IF i <= Special(sig) THEN 0 ELSE i - Special(sig)
        /\ insert = IF i < Special(sig) THEN 0 ELSE Lead(sig) + script
        /\ sp = below + PushedSize(sig) - sig.start[Taken(sig, i) + 1]
    BY <1>1, LoopFacts DEF Counters
  <2> QED
    BY <1>20, <1>21, <2>1
<1> PICK k : k = script + 1
  OBVIOUS
<1> PICK t : t = Objects(sig) + Results(sig) + k
  OBVIOUS
<1>4. /\ k \in 1 .. Len(sig.sizes) /\ script < Len(sig.sizes) /\ script \in Nat
      /\ Taken(sig, i) + 1 = t /\ t \in Nat
  <2>1. script = i - Special(sig) /\ i < Count(sig)
    BY Zenon, <1>1, <1>3
  <2>2. Len(sig.sizes) \in Nat
    BY <1>2
  <2>3. k \in 1 .. Len(sig.sizes) /\ script < Len(sig.sizes) /\ script \in Nat
    BY <1>20, <1>21, <2>1, <2>2
  <2>4. Taken(sig, i) + 1 = t /\ t \in Nat
    BY <1>2, <1>20, <1>21, <2>1, <2>3 DEF Taken
  <2> QED
    BY <2>3, <2>4
<1>5. t \in 1 .. Len(Pushed(sig)) /\ Pushed(sig)[t] = Param(k)
  <2>1. /\ Len(Pushed(sig)) = Objects(sig) + Results(sig) + Len(sig.sizes)
        /\ Pushed(sig)[Objects(sig) + Results(sig) + k] = Param(k)
    BY <1>1, <1>4, LoopFacts, PushedItems
  <2> QED
    BY <1>2, <1>4, <2>1
<1>6. Loaded = Param(k)
  <2>1. sp = below + PushedSize(sig) - sig.start[t]
    BY Zenon, <1>3, <1>4
  <2> QED
    BY <1>1, <1>5, <2>1, LoopFacts, Loads
<1>7. size = sig.sizes[k] /\ sig.sizes[k] \in {1, 2}
  <2>1. size \in {sig.sizes[script + 1]}
    BY <1>4 DEF ParamSizes
  <2>2. sig.sizes \in Seq({1, 2})
    BY <1>1, LoopFacts, SignatureFacts DEF PointerSize
  <2> QED
    BY <1>4, <2>1, <2>2
<1>8. /\ sig.start[t + 1] = sig.start[t] + size /\ sig.start[t + 1] <= PushedSize(sig)
      /\ sig.start[t] \in Nat /\ sig.start[t + 1] \in Nat /\ PushedSize(sig) \in Nat
  <2>1. SizeOf(sig, Pushed(sig)[t]) = size
    BY <1>5, <1>7 DEF SizeOf, Param
  <2> QED
    BY <1>1, <1>5, <2>1, LoopFacts, Starts
<1>9. sp' = below + PushedSize(sig) - sig.start[t + 1] /\ sp' \in Nat
  <2>1. sp' = sp - size /\ sp = below + PushedSize(sig) - sig.start[t] /\ below \in Nat
    BY Zenon, <1>1, <1>3, <1>4, LoopFacts
  <2>2. size \in Nat
    BY <1>7
  <2> QED
    BY <1>8, <2>1, <2>2
<1>10. Counters'
  <2>1. i' \in 0 .. Count(sig')
    BY <1>1, <1>20
  <2>2. script' = IF i' <= Special(sig') THEN 0 ELSE i' - Special(sig')
    BY <1>1, <1>20, <1>21, <1>3
  <2>3. insert' = IF i' < Special(sig') THEN 0 ELSE Lead(sig') + script'
    <3>1. /\ insert = Lead(sig) + script /\ insert' = insert + 1 /\ script' = script + 1
          /\ sig' = sig /\ i' = i + 1
      BY Zenon, <1>1, <1>3
    <3>2. Lead(sig) \in Nat /\ script \in Nat /\ insert' = Lead(sig) + script'
      BY <1>2, <1>4, <3>1
    <3>3. ~(i' < Special(sig'))
      BY <1>20, <1>21, <3>1
    <3> QED
      BY Zenon, <3>1, <3>2, <3>3
  <2>4. sp' = below' + PushedSize(sig') - sig'.start[Taken(sig', i') + 1]
    <3>1. Taken(sig, i + 1) + 1 = t + 1
      BY <1>2, <1>20, <1>4 DEF Taken
    <3> QED
      BY Zenon, <1>1, <1>9, <3>1
  <2> QED
    BY Zenon, <2>1, <2>2, <2>3, <2>4 DEF Counters
<1>11. insert + 1 = Lead(sig) + k /\ Lead(sig) + k \in 1 .. Count(sig)
  <2>1. Lead(sig) + k \in 1 .. Count(sig)
    BY <1>1, <1>4, LoopFacts, ParamPlaces
  <2> QED
    BY <1>2, <1>3, <1>4, <2>1
<1>12. /\ args' \in [1 .. Count(sig) -> Items]
       /\ args'[Lead(sig) + k] = Param(k)
       /\ \A j \in 1 .. Count(sig) : j # Lead(sig) + k => args'[j] = args[j]
  <2>1. Param(k) \in Items
    BY <1>4 DEF Items, Param
  <2> QED
    BY <1>1, <1>6, <1>11, <2>1, LoopFacts
<1>13. IsMethod(sig) => args'[ObjectIndex(sig) + 1] = This /\ object' = This
  <2>1. IsMethod(sig) => /\ ObjectIndex(sig) + 1 \in 1 .. Count(sig)
                         /\ ObjectIndex(sig) + 1 # Lead(sig) + k
    BY <1>1, <1>4, LoopFacts, Places
  <2>2. IsMethod(sig) => i >= 1
    BY <1>2, <1>20, <1>21
  <2> QED
    BY <1>1, <1>12, <2>1, <2>2, LoopFacts DEF Placed
<1>14. sig.inMemory => args'[1] = Return
  <2>1. sig.inMemory => 1 \in 1 .. Count(sig) /\ 1 # Lead(sig) + k
    <3>1. Lead(sig) + k \in 1 .. Count(sig) /\ (sig.inMemory => Lead(sig) + k # 1)
      BY <1>1, <1>4, LoopFacts, ParamPlaces
    <3> QED
      BY <1>2, <3>1
  <2>2. sig.inMemory => i >= 2
    BY <1>2, <1>20, <1>21
  <2>3. sig.inMemory => args[1] = Return
    BY <1>1, <2>2, LoopFacts DEF Placed
  <2> QED
    BY <1>12, <2>1, <2>3
<1>15. \A j \in 1 .. script' : args'[Lead(sig) + j] = Param(j)
  <2> TAKE j \in 1 .. script'
  <2>1. CASE j = k
    BY <1>12, <2>1
  <2>2. CASE j # k
    <3>1. j \in 1 .. script /\ j \in 1 .. Len(sig.sizes) /\ Lead(sig) + j # Lead(sig) + k
      BY <1>1, <1>2, <1>4, <2>2
    <3>2. Lead(sig) + j \in 1 .. Count(sig)
      BY <1>1, <3>1, LoopFacts, ParamPlaces
    <3>3. args[Lead(sig) + j] = Param(j)
      BY <1>1, <3>1, LoopFacts DEF Placed
    <3> QED
      BY <1>12, <3>1, <3>2, <3>3
  <2> QED
    BY <2>1, <2>2
<1>16. Placed'
  BY <1>1, <1>13, <1>14, <1>15 DEF Placed
<1> QED
  BY <1>1, <1>9, <1>10, <1>12, <1>16, LoopFacts DEF IInv

LEMMA CallNativeStep ==
  ASSUME IInv, AllHandled, CallNative
  PROVE  IInv'
<1>1. /\ phase = "arguments" /\ i = Count(sig) /\ phase' = "called"
      /\ sig' = sig /\ below' = below /\ i' = i /\ insert' = insert /\ script' = script
      /\ args' = args /\ object' = object /\ returnPointer' = returnPointer
      /\ result' = ResultOf(sig) /\ sp' = sp
  BY LoopFacts DEF CallNative
<1>2. result' = NativeResult(sig)
  <2>1. CASE PopsReturnPointer(sig)
    BY <1>1, <2>1, LoopFacts DEF ResultOf, NativeResult, Return, None, PopsReturnPointer, ReturnsOnStack
  <2>2. CASE ~PopsReturnPointer(sig) /\ sig.inMemory
    <3>1. args[1] = Return
      BY <1>1, <2>2, LoopFacts, Numbers DEF Placed
    <3> QED
      BY <1>1, <2>2, <3>1, LoopFacts, SignatureFacts DEF ResultOf, NativeResult
  <2>3. CASE ~PopsReturnPointer(sig) /\ ~sig.inMemory
    BY <1>1, <2>3, LoopFacts DEF ResultOf, NativeResult, PopsReturnPointer, ReturnsOnStack
  <2> QED
    BY <2>1, <2>2, <2>3
<1>3. Counters' /\ Placed'
  BY <1>1, LoopFacts DEF Counters, Placed, Special, Taken
<1> QED
  BY <1>1, <1>2, <1>3, LoopFacts DEF IInv

\* Every reachable state of a call satisfies the invariant.
THEOREM MarshallingInvariant == ASSUME AllHandled PROVE Spec => []IInv
<1>1. Init => IInv
  BY InitInvariant
<1>2. IInv /\ [Next]_vars => IInv'
  <2> SUFFICES ASSUME IInv, [Next]_vars PROVE IInv'
    OBVIOUS
  <2>1. CASE UNCHANGED vars
    BY <2>1 DEF vars, IInv, Counters, Placed, Special, Taken
  <2>2. CASE Next
    BY <2>2, EmitStep, PopReturnPointerStep, PopObjectStep, PopSretPointerStep,
       PopParamStep, CallNativeStep DEF Next
  <2> QED
    BY <2>1, <2>2
<1> QED
  BY <1>1, <1>2, PTL DEF Spec
-----------------------------------------------------------------------------
(* What the invariant implies.                                               *)

\* Every argument is the returned object's address, the object, or a parameter.
LEMMA Coverage ==
  ASSUME NEW s \in Signatures, Handled(s), NEW j \in 1 .. Count(s)
  PROVE  \/ s.inMemory /\ j = 1
         \/ IsMethod(s) /\ j = ObjectIndex(s) + 1
         \/ \E k \in 1 .. Len(s.sizes) : j = Lead(s) + k
<1>1. /\ Objects(s) \in {0, 1} /\ Memory(s) \in {0, 1}
      /\ IsMethod(s) <=> Objects(s) = 1
      /\ s.inMemory <=> Memory(s) = 1
      /\ Len(s.sizes) \in Nat /\ Lead(s) \in Nat
      /\ Count(s) = Len(s.sizes) + Objects(s) + Memory(s)
  BY Numbers
<1>2. CASE j - Lead(s) \in 1 .. Len(s.sizes)
  <2> PICK k : k = j - Lead(s)
    OBVIOUS
  <2>1. k \in 1 .. Len(s.sizes) /\ j = Lead(s) + k
    BY <1>1, <1>2
  <2> QED
    BY <2>1
<1>3. CASE j - Lead(s) \notin 1 .. Len(s.sizes)
  <2>1. CASE s.convention = "CDECL_OBJLAST"
    <3>1. Lead(s) = Memory(s) /\ ObjectIndex(s) = Count(s) - 1 /\ IsMethod(s)
      BY <1>1, <2>1 DEF Lead, ObjectIndex, IsMethod
    <3> QED
      BY <1>1, <1>3, <3>1
  <2>2. CASE s.convention # "CDECL_OBJLAST"
    <3>1. Lead(s) = Memory(s) + Objects(s) /\ ObjectIndex(s) = Memory(s)
      BY <1>1, <2>2 DEF Lead, ObjectIndex
    <3> QED
      BY <1>1, <1>3, <3>1
  <2> QED
    BY <2>1, <2>2
<1> QED
  BY <1>2, <1>3

LEMMA AfterCall ==
  ASSUME IInv, AllHandled, phase = "called"
  PROVE  /\ sig \in Signatures /\ Handled(sig) /\ below \in Nat /\ sp \in Nat
         /\ Counters /\ Placed /\ i = Count(sig)
         /\ args \in [1 .. Count(sig) -> Items]
         /\ result = NativeResult(sig)
         /\ Count(sig) >= Special(sig) /\ Special(sig) \in Nat
         /\ IsMethod(sig) => i >= 1
         /\ sig.inMemory => i >= 2
         /\ script = Len(sig.sizes)
<1>1. /\ sig \in Signatures /\ Handled(sig) /\ below \in Nat /\ sp \in Nat
      /\ Counters /\ Placed /\ i = Count(sig)
      /\ args \in [1 .. Count(sig) -> Items]
      /\ result = NativeResult(sig)
  BY DEF IInv, AllHandled
<1>2. /\ Objects(sig) \in {0, 1} /\ Memory(sig) \in {0, 1}
      /\ IsMethod(sig) <=> Objects(sig) = 1
      /\ sig.inMemory <=> Memory(sig) = 1
      /\ Objects(sig) = 0 => Memory(sig) = 0
      /\ Len(sig.sizes) \in Nat
      /\ Count(sig) = Len(sig.sizes) + Objects(sig) + Memory(sig)
      /\ Special(sig) = Objects(sig) + Memory(sig)
  BY <1>1, Numbers DEF Special
<1>3. script = IF i <= Special(sig) THEN 0 ELSE i - Special(sig)
  BY <1>1 DEF Counters
<1>4. script = Len(sig.sizes)
  <2>1. i = Count(sig)
    BY Zenon, <1>1
  <2> QED
    BY <1>2, <1>3, <2>1
<1>5. i = Count(sig)
  BY Zenon, <1>1
<1>6. Special(sig) \in Nat /\ Count(sig) >= Special(sig)
  BY <1>2
<1>7. (IsMethod(sig) => i >= 1) /\ (sig.inMemory => i >= 2)
  BY <1>2, <1>5
<1> QED
  BY <1>1, <1>4, <1>6, <1>7

LEMMA ArgumentsMatch ==
  ASSUME IInv, AllHandled, phase = "called"
  PROVE  args = NativeArguments(sig)
<1>1. /\ args \in [1 .. Count(sig) -> Items]
      /\ NativeArguments(sig) \in [1 .. Count(sig) -> Items]
  BY AfterCall, NativeItems
<1>2. ASSUME NEW j \in 1 .. Count(sig)
      PROVE  args[j] = NativeArguments(sig)[j]
  <2>1. CASE sig.inMemory /\ j = 1
    BY <2>1, AfterCall, NativeItems DEF Placed
  <2>2. CASE IsMethod(sig) /\ j = ObjectIndex(sig) + 1
    BY <2>2, AfterCall, NativeItems DEF Placed
  <2>3. CASE \E k \in 1 .. Len(sig.sizes) : j = Lead(sig) + k
    BY <2>3, AfterCall, NativeItems DEF Placed
  <2> QED
    BY <2>1, <2>2, <2>3, AfterCall, Coverage
<1>3. PICK native : native = NativeArguments(sig)
  OBVIOUS
<1>4. PICK places : places = 1 .. Count(sig)
  OBVIOUS
<1>5. /\ args \in [places -> Items] /\ native \in [places -> Items]
      /\ \A j \in places : args[j] = native[j]
  BY Zenon, <1>1, <1>2, <1>3, <1>4
<1>6. args = native
  BY <1>5
<1> QED
  BY <1>3, <1>6

LEMMA BalanceAtCall ==
  ASSUME IInv, AllHandled, phase = "called"
  PROVE  sp = below
<1>1. sp = below + PushedSize(sig) - sig.start[Taken(sig, Count(sig)) + 1]
  BY AfterCall DEF Counters
<1>2. Taken(sig, Count(sig)) = Len(Pushed(sig))
  BY AfterCall, Numbers DEF Taken
<1>3. PushedSize(sig) = sig.start[Len(Pushed(sig)) + 1] /\ PushedSize(sig) \in Nat
  BY AfterCall, Starts
<1>4. below \in Nat
  BY AfterCall
<1> QED
  BY <1>1, <1>2, <1>3, <1>4

LEMMA TypesFollow ==
  ASSUME IInv, AllHandled
  PROVE  TypeOK
<1>1. /\ sig \in Signatures /\ Handled(sig) /\ below \in Nat /\ sp \in Nat
      /\ phase \in {"idle", "return pointer", "arguments", "called"}
      /\ object \in Items /\ returnPointer \in Items
      /\ phase # "idle" => args \in [1 .. Count(sig) -> Items]
      /\ phase \in {"idle", "return pointer"} => i = 0 /\ insert = 0 /\ script = 0
      /\ phase \in {"arguments", "called"} => Counters
  BY DEF IInv, AllHandled
<1>2. /\ Objects(sig) \in {0, 1} /\ Memory(sig) \in {0, 1}
      /\ Count(sig) \in Nat /\ Lead(sig) \in Nat /\ Special(sig) \in Nat
      /\ Special(sig) = Objects(sig) + Memory(sig)
      /\ Lead(sig) <= Special(sig)
  <2>1. /\ Objects(sig) \in {0, 1} /\ Memory(sig) \in {0, 1}
        /\ Count(sig) \in Nat /\ Lead(sig) \in Nat
    BY <1>1, Numbers, SignatureFacts
  <2>2. Special(sig) = Objects(sig) + Memory(sig)
    BY DEF Special
  <2>3. Lead(sig) = Memory(sig) \/ Lead(sig) = Memory(sig) + Objects(sig)
    BY <2>1 DEF Lead
  <2> QED
    BY <2>1, <2>2, <2>3
<1>3. CASE phase \in {"idle", "return pointer"}
  <2>1. 0 \in 0 .. Count(sig)
    BY <1>2
  <2> QED
    BY Zenon, <1>1, <1>3, <2>1 DEF TypeOK
<1>4. CASE phase \in {"arguments", "called"}
  <2>1. /\ i \in 0 .. Count(sig)
        /\ script = IF i <= Special(sig) THEN 0 ELSE i - Special(sig)
        /\ insert = IF i < Special(sig) THEN 0 ELSE Lead(sig) + script
    BY <1>1, <1>4 DEF Counters
  <2>2. script \in 0 .. Count(sig) /\ insert \in 0 .. Count(sig)
    BY <1>2, <2>1
  <2> QED
    BY <1>1, <2>1, <2>2 DEF TypeOK
<1> QED
  BY <1>1, <1>3, <1>4

\* The compile-time stack pointer and the counters of the argument loop stay
\* in range for every signature that is handled.
THEOREM TypeCorrect == ASSUME AllHandled PROVE Spec => []TypeOK
<1>1. IInv => TypeOK
  BY TypesFollow
<1> QED
  BY <1>1, MarshallingInvariant, PTL

\* Every pushed value reaches the native function as the argument it was
\* pushed for, for any number of parameters and under every convention.
THEOREM ArgumentsArrive == ASSUME AllHandled PROVE Spec => []ArgumentsInOrder
<1>1. IInv => ArgumentsInOrder
  BY ArgumentsMatch DEF ArgumentsInOrder
<1> QED
  BY <1>1, MarshallingInvariant, PTL

\* A call leaves the stack of the frame as it was before its arguments were
\* pushed, whatever expression it is part of.
THEOREM StackRestored == ASSUME AllHandled PROVE Spec => []StackBalanced
<1>1. IInv => StackBalanced
  BY BalanceAtCall DEF StackBalanced
<1> QED
  BY <1>1, MarshallingInvariant, PTL

\* The result is where the bytecode after the call looks for it, and what is
\* tested before the call is the object of the call.
THEOREM ResultAndObject ==
  ASSUME AllHandled PROVE Spec => []PointersRight
<1>1. IInv => PointersRight
  BY AfterCall DEF PointersRight, ResultInPlace, ObjectTested, Placed
<1> QED
  BY <1>1, MarshallingInvariant, PTL
=============================================================================
