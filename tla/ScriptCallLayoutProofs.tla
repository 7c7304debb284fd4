------------------------ MODULE ScriptCallLayoutProofs ------------------------
(***************************************************************************)
(* Whatever the widths and the number of parameters, the offsets at which   *)
(* the callee keeps its arguments are those at which its bytecode looks for *)
(* them.  The argument follows the calls: a value lies as many dwords below *)
(* the top as there are before it (Lies), so popping it and counting its    *)
(* dwords leads to the next.  Start, the sums of widths, is a constant with *)
(* the property of sums as an assumption.                                   *)
(*                                                                          *)
(* And calls reach the overriding function for any hierarchy of classes: a   *)
(* class keeps the methods of its line at their places.                     *)
(***************************************************************************)
EXTENDS ScriptCallLayout, Devirtualization, FiniteSetTheorems, TLAPS

\* The n-th value of g, in a frame whose stack has its top at an offset.
WidthOf(g, n) == Width(g, ScriptValue(g, n))
Lies(m, g, top, n) ==
  \A k \in 0 .. WidthOf(g, n) - 1 : m[top - Start[g][n] - k] = Dword(ScriptValue(g, n), k)
Top == depth + Space(f)

\* The thunk finds the first value only.
OneEntered == \A g \in Entered : Count(g) <= 1

\* Where the dwords are that a call concerns.
Placed ==
  /\ via \in Vias /\ f \in Functions /\ f \in Allowed(via) /\ null \in BOOLEAN
  /\ null => f.virtual
  /\ via = "entry" => f \in Entered /\ Count(f) <= 1 /\ depth = -Space(f)
  /\ via = "alloc" => f \in Built
  /\ depth \in Int /\ -Below <= depth /\ Top <= Above
  /\ frame \in [Offsets -> Dwords]

TargetKept ==
  via = "alloc" =>
    /\ 0 <= depth - PtrDwords
    /\ \A k \in 0 .. PtrDwords - 1 : frame[depth - k] = Dword(Target, k)

Pushing ==
  pc = "push" =>
    /\ next \in Given .. Count(f) /\ sp = Top - Start[f][next + 1]
    /\ \A n \in next + 1 .. Count(f) : Lies(frame, f, Top, n)
    /\ args = <<>> /\ params = <<>> /\ offset = 0 /\ read = 0

Pushed ==
  pc \in {"resolve", "pop"} =>
    /\ next \in 1 .. Count(f) + 1
    /\ \A n \in 1 .. Count(f) : Lies(frame, f, Top, n)
    /\ sp = IF via = "entry" THEN 0 ELSE Top - Start[f][next]
    /\ read = Start[f][next]
    /\ params = <<>> /\ offset = 0
Resolving == pc = "resolve" => next = 1 /\ args = <<>>

\* The first arguments are the first values.
ArgumentAt(g, n) == IF InRegister(g) THEN n + 1 ELSE n
Blocks == UNION {[0 .. w - 1 -> Dwords] : w \in Nat}
Values == Blocks \cup {Register}
Taken(g, a, n) ==
  /\ a \in Seq(Values)
  /\ Len(a) + 1 = ArgumentAt(g, n)
  /\ \A m \in 1 .. n - 1 : a[ArgumentAt(g, m)] = Whole(ScriptValue(g, m), WidthOf(g, m))
Popping == pc = "pop" => Taken(f, args, next)

\* The first parameters are the first values, each at its distance.
Kept(g, p, n) ==
  /\ p \in Seq([at : Int, holds : Values])
  /\ Len(p) + 1 = n
  /\ \A m \in 1 .. n - 1 : p[m] = [at |-> -Start[g][m], holds |-> Whole(ScriptValue(g, m), WidthOf(g, m))]
Entering ==
  pc \in {"enter", "run", "returned"} =>
    /\ next \in 1 .. Count(f) + 1
    /\ Taken(f, args, Count(f) + 1)
    /\ read = Space(f)
    /\ Kept(f, params, next)
    /\ offset = -Start[f][next]
    /\ via = "entry" => sp = 0
Balanced ==
  via # "entry" =>
    /\ pc \in {"enter", "run"} => sp = depth
    /\ pc = "returned" => sp = IF via = "alloc" THEN depth - PtrDwords ELSE depth

Layout ==
  /\ pc \in {"push", "resolve", "pop", "enter", "run", "returned", "raised"}
  /\ Placed /\ TargetKept
  /\ Pushing /\ Pushed /\ Resolving /\ Popping /\ Entering /\ Balanced
  /\ pc \in {"run", "returned"} => next = Count(f) + 1
  /\ pc = "raised" => TypeOK
  /\ NullObjectRaises /\ (pc = "pop" => ~null)
  /\ TargetFound

-----------------------------------------------------------------------------
(* Values and their widths                                                   *)

\* The values of a call, in either order, and the sums of their widths.
LEMMA Sums ==
  ASSUME NEW g \in Functions
  PROVE  /\ Count(g) \in Nat /\ Space(g) \in Nat /\ Start[g][1] = 0 /\ Space(g) <= Below
         /\ \A n \in 1 .. Count(g) + 1 : Start[g][n] \in Nat /\ Start[g][n] <= Space(g)
         /\ \A m, n \in 1 .. Count(g) + 1 : m <= n => Start[g][m] <= Start[g][n]
         /\ \A n \in 1 .. Count(g) :
              /\ WidthOf(g, n) \in Nat /\ WidthOf(g, n) > 0
              /\ Start[g][n + 1] = Start[g][n] + WidthOf(g, n)
              /\ ScriptValue(g, n) \in {"object", "address", "parameter"} \X Nat
<1>1. /\ g.widths \in Seq(Nat \ {0}) /\ Start[g] \in [1 .. Count(g) + 1 -> Nat] /\ Start[g][1] = 0
      /\ Space(g) <= Below
      /\ \A n \in 1 .. Count(g) : Start[g][n + 1] = Start[g][n] + Width(g, ScriptValue(g, n))
      /\ \A m, n \in 1 .. Count(g) + 1 : m <= n => Start[g][m] <= Start[g][n]
  BY FunctionsAssumption DEF FunctionsAssumption
<1>2. Leading(g) \in Nat /\ Count(g) \in Nat /\ Count(g) = Leading(g) + Len(g.widths)
  <2>1. (IF g.method THEN 1 ELSE 0) \in Nat /\ (IF OnStack(g) THEN 1 ELSE 0) \in Nat
    OBVIOUS
  <2>2. Leading(g) \in Nat
    BY <2>1 DEF Leading
  <2>3. Len(g.widths) \in Nat
    BY <1>1
  <2> QED
    BY <2>2, <2>3 DEF Count
<1>3. \A n \in 1 .. Count(g) + 1 : Start[g][n] \in Nat /\ Start[g][n] <= Space(g)
  <2>1. Count(g) + 1 \in 1 .. Count(g) + 1
    BY <1>2
  <2> QED
    BY <1>1, <2>1 DEF Space
<1>4. ASSUME NEW n \in 1 .. Count(g)
      PROVE  /\ WidthOf(g, n) \in Nat /\ WidthOf(g, n) > 0
             /\ ScriptValue(g, n) \in {"object", "address", "parameter"} \X Nat
  <2>1. CASE n > Leading(g)
    <3>1. n - Leading(g) \in 1 .. Len(g.widths)
      BY <2>1, <1>2
    <3>2. g.widths[n - Leading(g)] \in Nat \ {0}
      BY <1>1, <3>1
    <3>3. ScriptValue(g, n) = <<"parameter", n - Leading(g)>>
      BY <2>1 DEF ScriptValue, Parameter
    <3> QED
      BY <3>1, <3>2, <3>3 DEF WidthOf, Width
  <2>2. CASE ~(n > Leading(g))
    <3>1. ScriptValue(g, n) \in {<<"object", 0>>, <<"address", 0>>}
      BY <2>2 DEF ScriptValue
    <3> QED
      BY <3>1 DEF WidthOf, Width, PtrDwords
  <2> QED
    BY <2>1, <2>2
<1>5. Space(g) \in Nat
  <2>1. Count(g) + 1 \in 1 .. Count(g) + 1
    BY <1>2
  <2> QED
    BY <1>1, <2>1 DEF Space
<1>6. \A n \in 1 .. Count(g) : Start[g][n + 1] = Start[g][n] + WidthOf(g, n)
  BY <1>1 DEF WidthOf
<1> QED
  BY <1>1, <1>2, <1>3, <1>4, <1>5, <1>6

\* The generated code takes the object and the address in the other order; they
\* are equally wide.
LEMMA WidthsAgree ==
  ASSUME NEW g \in Functions, NEW n \in 1 .. Count(g)
  PROVE  Width(g, CodeValue(g, n)) = WidthOf(g, n)
<1>1. CASE n > Leading(g)
  BY <1>1 DEF WidthOf, ScriptValue, CodeValue
<1>2. CASE ~(n > Leading(g))
  <2>1. ScriptValue(g, n) \in {<<"object", 0>>, <<"address", 0>>}
    BY <1>2 DEF ScriptValue
  <2>2. CodeValue(g, n) \in {<<"object", 0>>, <<"address", 0>>}
    BY <1>2 DEF CodeValue
  <2> QED
    BY <2>1, <2>2 DEF WidthOf, Width
<1> QED
  BY <1>1, <1>2

\* A value that is stored lies where it belongs, and disturbs none before it.
LEMMA Storing ==
  ASSUME NEW g \in Functions, NEW m \in [Offsets -> Dwords], NEW top \in Int,
         -Below <= top - Space(g), top <= Above, NEW n \in 1 .. Count(g)
  PROVE  LET to == Stored(m, top - Start[g][n], ScriptValue(g, n), WidthOf(g, n))
         IN  /\ to \in [Offsets -> Dwords]
             /\ Lies(to, g, top, n)
             /\ \A i \in n + 1 .. Count(g) : Lies(m, g, top, i) => Lies(to, g, top, i)
             /\ \A o \in Offsets : o <= top - Start[g][n + 1] => to[o] = m[o]
<1> DEFINE to == Stored(m, top - Start[g][n], ScriptValue(g, n), WidthOf(g, n))
<1>0. Below \in Nat /\ Above \in Nat
  BY FunctionsAssumption DEF FunctionsAssumption
<1>1. PICK w : w = WidthOf(g, n)
  OBVIOUS
<1>2. PICK v : v = ScriptValue(g, n)
  OBVIOUS
<1>3. PICK at : at = top - Start[g][n]
  OBVIOUS
<1>4. /\ w \in Nat /\ w > 0 /\ at \in Int /\ at <= Above /\ at - w = top - Start[g][n + 1]
      /\ at - w >= top - Space(g) /\ at - w >= -Below
      /\ v \in {"object", "address", "parameter"} \X Nat
  BY Sums, <1>0, <1>1, <1>2, <1>3
<1>5. to = [o \in Offsets |-> IF o \in at - w + 1 .. at THEN <<v, at - o>> ELSE m[o]]
  BY <1>1, <1>2, <1>3 DEF Stored, Dword
<1>6. to \in [Offsets -> Dwords]
  <2>1. ASSUME NEW o \in Offsets, o \in at - w + 1 .. at  PROVE <<v, at - o>> \in Dwords
    BY <2>1, <1>4 DEF Dwords
  <2> QED
    BY <2>1, <1>5
<1>7. Lies(to, g, top, n)
  <2>1. ASSUME NEW k \in 0 .. w - 1  PROVE to[at - k] = <<v, k>>
    <3>1. at - k \in Offsets /\ at - k \in at - w + 1 .. at /\ at - (at - k) = k
      BY <1>0, <1>4 DEF Offsets
    <3> QED
      BY <3>1, <1>5
  <2> QED
    BY <2>1, <1>1, <1>2, <1>3 DEF Lies, Dword
<1>8. \A o \in Offsets : o <= top - Start[g][n + 1] => to[o] = m[o]
  <2>1. ASSUME NEW o \in Offsets, o <= at - w  PROVE o \notin at - w + 1 .. at
    BY <2>1, <1>0, <1>4 DEF Offsets
  <2> QED
    BY <2>1, <1>4, <1>5
<1>9. ASSUME NEW i \in n + 1 .. Count(g), Lies(m, g, top, i)  PROVE Lies(to, g, top, i)
  <2>1. ASSUME NEW k \in 0 .. WidthOf(g, i) - 1
        PROVE  to[top - Start[g][i] - k] = Dword(ScriptValue(g, i), k)
    <3>1. /\ Start[g][i] \in Nat /\ Start[g][n + 1] \in Nat /\ Start[g][n + 1] <= Start[g][i]
          /\ WidthOf(g, i) \in Nat /\ Start[g][i + 1] = Start[g][i] + WidthOf(g, i)
          /\ Start[g][i + 1] <= Space(g) /\ Space(g) \in Nat
      BY Sums
    <3>2. /\ top - Start[g][i] - k \in Offsets
          /\ top - Start[g][i] - k <= top - Start[g][n + 1]
      <4>1. PICK s : s = Start[g][i]
        OBVIOUS
      <4>2. PICK z : z = Space(g)
        OBVIOUS
      <4>3. PICK u : u = WidthOf(g, i)
        OBVIOUS
      <4>4. /\ s \in Nat /\ z \in Nat /\ u \in Nat /\ s + u <= z /\ k \in 0 .. u - 1
            /\ -Below <= top - z
        BY <3>1, <4>1, <4>2, <4>3
      <4>5. top - s - k \in Offsets
        BY <4>4, <1>0 DEF Offsets
      <4>6. top - s - k <= top - Start[g][n + 1]
        BY <3>1, <4>1, <4>4
      <4> QED
        BY <4>1, <4>5, <4>6
    <3> QED
      BY <3>2, <1>8, <1>9 DEF Lies
  <2> QED
    BY <2>1 DEF Lies
<1> QED
  BY <1>6, <1>7, <1>8, <1>9

\* Its dwords are loaded from there as the value.
LEMMA Loading ==
  ASSUME NEW g \in Functions, NEW m \in [Offsets -> Dwords], NEW top \in Int, NEW n \in 1 .. Count(g),
         Lies(m, g, top, n)
  PROVE  /\ [k \in 0 .. WidthOf(g, n) - 1 |-> m[top - Start[g][n] - k]]
                = Whole(ScriptValue(g, n), WidthOf(g, n))
         /\ Whole(ScriptValue(g, n), WidthOf(g, n)) \in Values
<1>1. [k \in 0 .. WidthOf(g, n) - 1 |-> m[top - Start[g][n] - k]]
         = Whole(ScriptValue(g, n), WidthOf(g, n))
  BY DEF Lies, Whole
<1>2. WidthOf(g, n) \in Nat /\ ScriptValue(g, n) \in {"object", "address", "parameter"} \X Nat
  BY Sums
<1>3. \A k \in 0 .. WidthOf(g, n) - 1 : Dword(ScriptValue(g, n), k) \in Dwords
  BY <1>2 DEF Dword, Dwords
<1>4. Whole(ScriptValue(g, n), WidthOf(g, n)) \in [0 .. WidthOf(g, n) - 1 -> Dwords]
  BY <1>3 DEF Whole
<1> QED
  BY <1>1, <1>2, <1>4 DEF Values, Blocks

-----------------------------------------------------------------------------
(* The invariant                                                             *)

LEMMA LayoutInit == ASSUME OneEntered PROVE Init => Layout
<1> SUFFICES ASSUME Init PROVE Layout
  OBVIOUS
<1>1. /\ pc = "push" /\ via \in Vias /\ f \in Allowed(via) /\ sp = depth /\ next = Count(f)
      /\ read = 0 /\ args = <<>> /\ offset = 0 /\ params = <<>> /\ target = <<>>
      /\ null \in (IF f.virtual THEN BOOLEAN ELSE {FALSE})
  BY DEF Init
<1>2. /\ Below \in Nat /\ Above \in Nat /\ Depths \subseteq Nat
      /\ Entered \subseteq {g \in Functions : ~g.virtual}
      /\ Built \subseteq {g \in Functions : g.method /\ ~g.virtual /\ g.returns = "nothing"}
      /\ \A g \in Functions, d \in Depths : d + PtrDwords + Space(g) <= Above
  BY FunctionsAssumption DEF FunctionsAssumption
<1>3. /\ f \in Functions
      /\ via = "entry" => f \in Entered /\ Count(f) <= 1
      /\ via = "alloc" => f \in Built /\ 1 <= Count(f)
  <2>1. CASE via = "call"
    BY <1>1, <2>1 DEF Allowed
  <2>2. CASE via = "entry"
    BY <1>1, <1>2, <2>2 DEF Allowed, OneEntered
  <2>3. CASE via = "alloc"
    <3>1. f \in Built /\ f \in Functions /\ f.method
      BY <1>1, <1>2, <2>3 DEF Allowed
    <3>2. Leading(f) >= 1 /\ Leading(f) \in Nat
      <4>1. (IF f.method THEN 1 ELSE 0) = 1 /\ (IF OnStack(f) THEN 1 ELSE 0) \in Nat
        BY <3>1
      <4> QED
        BY <4>1 DEF Leading
    <3>3. Len(f.widths) \in Nat
      BY <3>1, FunctionsAssumption DEF FunctionsAssumption
    <3> QED
      BY <2>3, <3>1, <3>2, <3>3 DEF Count
  <2> QED
    BY <1>1, <2>1, <2>2, <2>3 DEF Vias
<1>4. null \in BOOLEAN /\ (null => f.virtual)
  BY <1>1
<1>5. /\ Count(f) \in Nat /\ Space(f) \in Nat /\ Space(f) <= Below
      /\ Start[f][Count(f) + 1] = Space(f)
  BY <1>3, Sums DEF Space
<1>6. Empty \in [Offsets -> Dwords]
  BY DEF Empty, Other, Dwords
<1>7. PICK d \in Depths :
        CASE via = "call" -> depth = d /\ frame = Empty
          [] via = "entry" -> depth = -Space(f) /\ frame = Empty
          [] via = "alloc" ->
               /\ depth = d + PtrDwords
               /\ frame = Stored(Empty, d + PtrDwords, Target, PtrDwords)
  BY DEF Init
<1>8. d \in Nat /\ d + 2 + Space(f) <= Above
  BY <1>2, <1>3 DEF PtrDwords
<1>9. /\ depth \in Int /\ -Below <= depth /\ Top <= Above /\ sp = Top - Start[f][Count(f) + 1]
      /\ via = "entry" => depth = -Space(f)
      /\ frame \in [Offsets -> Dwords] /\ TargetKept
  <2>1. CASE via = "call"
    <3>1. depth = d /\ frame = Empty
      BY <1>7, <2>1
    <3> QED
      BY <1>1, <1>2, <1>5, <1>6, <1>8, <2>1, <3>1 DEF Top, TargetKept
  <2>2. CASE via = "entry"
    <3>1. depth = -Space(f) /\ frame = Empty
      BY <1>7, <2>2
    <3> QED
      BY <1>1, <1>2, <1>5, <1>6, <1>8, <2>2, <3>1 DEF Top, TargetKept
  <2>3. CASE via = "alloc"
    <3>1. depth = d + 2 /\ frame = Stored(Empty, d + 2, Target, 2)
      BY <1>7, <2>3 DEF PtrDwords
    <3>2. frame = [o \in Offsets |-> IF o \in d + 1 .. d + 2 THEN <<Target, d + 2 - o>> ELSE Other]
      BY <1>8, <3>1 DEF Stored, Empty, Dword
    <3>3. \A o \in d + 1 .. d + 2 : <<Target, d + 2 - o>> \in Dwords
      BY <1>8 DEF Target, Dwords
    <3>4. frame \in [Offsets -> Dwords]
      BY <3>2, <3>3 DEF Other, Dwords
    <3>5. d + 1 \in Offsets /\ d + 2 \in Offsets
      BY <1>2, <1>5, <1>8 DEF Offsets
    <3>6. \A k \in 0 .. 1 : frame[depth - k] = <<Target, k>>
      BY <1>8, <3>1, <3>2, <3>5
    <3>7. TargetKept
      BY <1>8, <3>1, <3>6 DEF TargetKept, PtrDwords, Dword
    <3> QED
      BY <1>1, <1>2, <1>5, <1>8, <2>3, <3>1, <3>4, <3>7 DEF Top
  <2> QED
    BY <1>1, <2>1, <2>2, <2>3 DEF Vias
<1>10. Placed
  BY <1>1, <1>3, <1>4, <1>9 DEF Placed
<1>11. Pushing
  <2>1. Given \in 0 .. 1 /\ Given <= Count(f)
    BY <1>3, <1>5 DEF Given
  <2> QED
    BY <1>1, <1>5, <1>9, <2>1 DEF Pushing
<1> QED
  BY <1>1, <1>9, <1>10, <1>11
     DEF Layout, Pushed, Resolving, Popping, Entering, Balanced, NullObjectRaises, TargetFound

\* What a step that leaves the frame alone keeps.
LEMMA StillPlaced ==
  ASSUME Placed, TargetKept, UNCHANGED <<via, f, null, depth, frame>>
  PROVE  Placed' /\ TargetKept'
BY DEF Placed, TargetKept, Top, Allowed

LEMMA PushKeeps == ASSUME Layout, Push PROVE Layout'
<1>1. /\ pc = "push" /\ next > Given
      /\ sp' = sp + WidthOf(f, next)
      /\ frame' = Stored(frame, sp + WidthOf(f, next), ScriptValue(f, next), WidthOf(f, next))
      /\ next' = next - 1
      /\ UNCHANGED <<pc, via, f, null, depth, read, args, offset, params, target>>
  BY DEF Push, WidthOf
<1>2. Placed /\ TargetKept /\ Pushing /\ TargetFound
  BY DEF Layout
<1>3. /\ f \in Functions /\ depth \in Int /\ -Below <= depth /\ Top <= Above
      /\ frame \in [Offsets -> Dwords]
  BY <1>2 DEF Placed
<1>4. /\ next \in Given .. Count(f) /\ sp = Top - Start[f][next + 1]
      /\ \A n \in next + 1 .. Count(f) : Lies(frame, f, Top, n)
      /\ args = <<>> /\ params = <<>> /\ offset = 0 /\ read = 0
  BY <1>1, <1>2 DEF Pushing
<1>5. Given \in 0 .. 1 /\ Given' = Given /\ Top' = Top
  BY <1>1 DEF Given, Top
<1>6. /\ Count(f) \in Nat /\ next \in 1 .. Count(f) /\ next + 1 \in 1 .. Count(f) + 1
      /\ Space(f) \in Nat /\ Start[f][next] \in Nat /\ Start[f][next + 1] \in Nat
      /\ WidthOf(f, next) \in Nat /\ Start[f][next + 1] = Start[f][next] + WidthOf(f, next)
      /\ Start[f][next + 1] <= Space(f)
  <2>1. Count(f) \in Nat
    BY <1>3, Sums
  <2>2. next \in 1 .. Count(f) /\ next \in 1 .. Count(f) + 1 /\ next + 1 \in 1 .. Count(f) + 1
    BY <1>1, <1>4, <1>5, <2>1
  <2> QED
    BY <1>3, <2>1, <2>2, Sums
<1>7. Top \in Int /\ depth = Top - Space(f)
  BY <1>3, <1>6 DEF Top
<1>8. sp' = Top - Start[f][next]
  <2>1. PICK s, u, w : s = Start[f][next] /\ u = Start[f][next + 1] /\ w = WidthOf(f, next)
    OBVIOUS
  <2>2. s \in Nat /\ u \in Nat /\ w \in Nat /\ u = s + w /\ sp = Top - u /\ sp' = sp + w
    BY <1>1, <1>4, <1>6, <2>1
  <2>3. sp' = Top - s
    BY <1>7, <2>2
  <2> QED
    BY <2>1, <2>3
<1>9. frame' = Stored(frame, Top - Start[f][next], ScriptValue(f, next), WidthOf(f, next))
  BY <1>1, <1>8
<1>10. /\ frame' \in [Offsets -> Dwords]
       /\ Lies(frame', f, Top, next)
       /\ \A i \in next + 1 .. Count(f) : Lies(frame, f, Top, i) => Lies(frame', f, Top, i)
       /\ \A o \in Offsets : o <= Top - Start[f][next + 1] => frame'[o] = frame[o]
  BY <1>3, <1>6, <1>7, <1>9, Storing
<1>11. Placed'
  BY <1>1, <1>2, <1>5, <1>10 DEF Placed, Allowed
<1>12. TargetKept'
  <2>1. Below \in Nat /\ Above \in Nat
    BY FunctionsAssumption DEF FunctionsAssumption
  <2>2. ASSUME via = "alloc", NEW k \in 0 .. 1
        PROVE  0 <= depth - 2 /\ frame'[depth - k] = Dword(Target, k)
    <3>1. 0 <= depth - 2 /\ frame[depth - k] = Dword(Target, k)
      BY <1>2, <2>2 DEF TargetKept, PtrDwords
    <3>2. PICK u, z : u = Start[f][next + 1] /\ z = Space(f)
      OBVIOUS
    <3>3. u \in Nat /\ z \in Nat /\ u <= z /\ depth = Top - z /\ Top <= Above
      BY <1>3, <1>6, <1>7, <3>2
    <3>4. depth - k \in Offsets /\ depth - k <= Top - u
      BY <1>3, <1>7, <2>1, <3>1, <3>3 DEF Offsets
    <3> QED
      BY <1>10, <3>1, <3>2, <3>4
  <2>3. via = "alloc" => /\ 0 <= depth - 2
                         /\ \A k \in 0 .. 1 : frame'[depth - k] = Dword(Target, k)
    BY <2>2
  <2>4. via' = via /\ depth' = depth
    BY <1>1
  <2> QED
    BY <2>3, <2>4 DEF TargetKept, PtrDwords
<1>13. Pushing'
  <2>1. \A n \in next .. Count(f) : Lies(frame', f, Top, n)
    BY <1>4, <1>6, <1>10
  <2>2. next' \in Given .. Count(f) /\ next' + 1 = next
    BY <1>1, <1>5, <1>6
  <2> QED
    BY <1>1, <1>4, <1>5, <1>8, <2>1, <2>2 DEF Pushing
<1> QED
  BY <1>1, <1>2, <1>11, <1>12, <1>13
     DEF Layout, Pushed, Resolving, Popping, Entering, Balanced, NullObjectRaises, TargetFound

LEMMA ALLOCKeeps == ASSUME Layout, ALLOC PROVE Layout'
<1>1. /\ pc = "push" /\ via = "alloc" /\ next = 1
      /\ target' = Loaded(sp - (Space(f) - 2), 2)
      /\ sp' = sp + 2
      /\ frame' = Stored(frame, sp + 2, <<"object", 0>>, 2)
      /\ pc' = "resolve" /\ next' = 1
      /\ UNCHANGED <<via, f, null, depth, read, args, offset, params>>
  BY DEF ALLOC, Given, SpaceForArguments, PtrDwords
<1>2. Placed /\ TargetKept /\ Pushing
  BY DEF Layout
<1>3. /\ f \in Functions /\ f \in Built /\ depth \in Int /\ -Below <= depth /\ Top <= Above
      /\ frame \in [Offsets -> Dwords] /\ (null => f.virtual)
  BY <1>1, <1>2 DEF Placed
<1>4. /\ 1 \in 1 .. Count(f) /\ sp = Top - Start[f][2]
      /\ \A n \in 2 .. Count(f) : Lies(frame, f, Top, n)
      /\ args = <<>> /\ params = <<>> /\ offset = 0 /\ read = 0
  BY <1>1, <1>2 DEF Pushing, Given
<1>5. f.method /\ ~f.virtual /\ f.returns = "nothing"
  BY <1>3, FunctionsAssumption DEF FunctionsAssumption
<1>6. ScriptValue(f, 1) = <<"object", 0>> /\ WidthOf(f, 1) = 2
  <2>1. Leading(f) = 1
    BY <1>5 DEF Leading, OnStack
  <2>2. ScriptValue(f, 1) = <<"object", 0>>
    BY <1>5, <2>1 DEF ScriptValue
  <2> QED
    BY <2>2 DEF WidthOf, Width, PtrDwords
<1>7. /\ Count(f) \in Nat /\ Space(f) \in Nat /\ Start[f][1] = 0 /\ Start[f][2] = 2 /\ 2 <= Space(f)
  <2>1. Count(f) \in Nat
    BY <1>3, Sums
  <2>2. 1 \in 1 .. Count(f) /\ 2 \in 1 .. Count(f) + 1
    BY <1>4, <2>1
  <2>3. Start[f][1] = 0 /\ Start[f][1 + 1] = Start[f][1] + WidthOf(f, 1) /\ Start[f][2] <= Space(f)
        /\ Space(f) \in Nat
    BY <1>3, <2>2, Sums
  <2> QED
    BY <1>6, <2>1, <2>3
<1>8. Top \in Int /\ depth = Top - Space(f) /\ Top' = Top
  BY <1>1, <1>3, <1>7 DEF Top
<1>9. sp = Top - 2 /\ sp' = Top
  BY <1>1, <1>4, <1>7, <1>8
<1>10. frame' = Stored(frame, Top - Start[f][1], ScriptValue(f, 1), WidthOf(f, 1))
  <2>1. Top - Start[f][1] = sp + 2
    BY <1>7, <1>8, <1>9
  <2> QED
    BY <1>1, <1>6, <2>1
<1>11. /\ frame' \in [Offsets -> Dwords]
       /\ Lies(frame', f, Top, 1)
       /\ \A i \in 2 .. Count(f) : Lies(frame, f, Top, i) => Lies(frame', f, Top, i)
       /\ \A o \in Offsets : o <= Top - 2 => frame'[o] = frame[o]
  <2>1. /\ frame' \in [Offsets -> Dwords]
        /\ Lies(frame', f, Top, 1)
        /\ \A i \in 1 + 1 .. Count(f) : Lies(frame, f, Top, i) => Lies(frame', f, Top, i)
        /\ \A o \in Offsets : o <= Top - Start[f][1 + 1] => frame'[o] = frame[o]
    BY <1>3, <1>4, <1>8, <1>10, Storing
  <2> QED
    BY <1>7, <2>1
<1>12. Placed'
  BY <1>1, <1>2, <1>8, <1>11 DEF Placed, Allowed
<1>13. 0 <= depth - 2 /\ \A k \in 0 .. 1 : frame[depth - k] = Dword(Target, k)
  BY <1>1, <1>2 DEF TargetKept, PtrDwords
<1>14. TargetKept'
  <2>1. Below \in Nat /\ Above \in Nat
    BY FunctionsAssumption DEF FunctionsAssumption
  <2>2. ASSUME NEW k \in 0 .. 1  PROVE frame'[depth - k] = Dword(Target, k)
    <3>1. depth - k \in Offsets /\ depth - k <= Top - 2
      BY <1>3, <1>7, <1>8, <1>13, <2>1 DEF Offsets
    <3> QED
      BY <1>11, <1>13, <3>1
  <2> QED
    BY <1>1, <1>13, <2>2 DEF TargetKept, PtrDwords
<1>15. target' = Whole(Target, PtrDwords)
  <2>1. sp - (Space(f) - 2) = depth
    BY <1>7, <1>8, <1>9
  <2>2. target' = [k \in 0 .. 1 |-> frame[depth - k]]
    BY <1>1, <2>1 DEF Loaded
  <2> QED
    BY <1>13, <2>2 DEF Whole, PtrDwords
<1>16. Pushed'
  <2>1. \A n \in 1 .. Count(f) : Lies(frame', f, Top, n)
    BY <1>4, <1>7, <1>11
  <2>2. sp' = Top - Start[f][1]
    BY <1>7, <1>8, <1>9
  <2> QED
    BY <1>1, <1>4, <1>7, <1>8, <2>1, <2>2 DEF Pushed
<1>17. Resolving' /\ TargetFound'
  BY <1>1, <1>4, <1>15 DEF Resolving, TargetFound
<1> QED
  BY <1>1, <1>12, <1>14, <1>16, <1>17
     DEF Layout, Pushing, Popping, Entering, Balanced, NullObjectRaises

LEMMA CALLKeeps == ASSUME Layout, CALL PROVE Layout'
<1>1. /\ pc = "push" /\ via # "alloc" /\ next = 0
      /\ pc' = "resolve" /\ next' = 1
      /\ UNCHANGED <<via, f, null, frame, depth, sp, read, args, offset, params, target>>
  BY DEF CALL
<1>2. Placed /\ TargetKept /\ Pushing /\ TargetFound
  BY DEF Layout
<1>3. Placed' /\ TargetKept' /\ TargetFound'
  BY <1>1, <1>2, StillPlaced DEF TargetFound
<1>4. /\ sp = Top - Start[f][1] /\ \A n \in 1 .. Count(f) : Lies(frame, f, Top, n)
      /\ args = <<>> /\ params = <<>> /\ offset = 0 /\ read = 0
  BY <1>1, <1>2 DEF Pushing
<1>5. f \in Functions /\ depth \in Int /\ (via = "entry" => depth = -Space(f)) /\ Top' = Top
  BY <1>1, <1>2 DEF Placed, Top
<1>6. Count(f) \in Nat /\ Space(f) \in Nat /\ Start[f][1] = 0
  BY <1>5, Sums
<1>7. sp = IF via = "entry" THEN 0 ELSE Top - Start[f][1]
  <2>1. CASE via = "entry"
    BY <1>4, <1>5, <1>6, <2>1 DEF Top
  <2> QED
    BY <1>4, <2>1
<1>8. Pushed'
  BY <1>1, <1>4, <1>5, <1>6, <1>7 DEF Pushed
<1> QED
  BY <1>1, <1>3, <1>4, <1>8
     DEF Layout, Pushing, Resolving, Popping, Entering, Balanced, NullObjectRaises

LEMMA ResolveKeeps == ASSUME Layout, Resolve PROVE Layout'
<1>1. /\ pc = "resolve"
      /\ pc' = IF NullOnTop THEN "raised" ELSE "pop"
      /\ args' = IF InRegister(f) THEN <<Register>> ELSE <<>>
      /\ UNCHANGED <<via, f, null, frame, depth, sp, next, read, offset, params, target>>
  BY DEF Resolve
<1>2. Placed /\ TargetKept /\ TargetFound
  BY DEF Layout
<1>3. Placed' /\ TargetKept' /\ TargetFound'
  BY <1>1, <1>2, StillPlaced DEF TargetFound
<1>4. /\ next = 1 /\ 1 \in 1 .. Count(f) + 1
      /\ \A n \in 1 .. Count(f) : Lies(frame, f, Top, n)
      /\ sp = IF via = "entry" THEN 0 ELSE Top - Start[f][1]
      /\ read = Start[f][1]
      /\ params = <<>> /\ offset = 0
  BY <1>1 DEF Layout, Pushed, Resolving
<1>5. /\ f \in Functions /\ via \in Vias /\ f \in Allowed(via) /\ depth \in Int /\ -Below <= depth /\ Top <= Above
      /\ frame \in [Offsets -> Dwords] /\ null \in BOOLEAN
      /\ (null => f.virtual) /\ (via = "entry" => f \in Entered /\ depth = -Space(f))
      /\ Top' = Top
  BY <1>1, <1>2 DEF Placed, Top
<1>6. Count(f) \in Nat /\ Space(f) \in Nat /\ Start[f][1] = 0 /\ Space(f) <= Below
  BY <1>5, Sums
<1>7. Below \in Nat /\ Above \in Nat /\ (f.virtual => f.method) /\ (f \in Entered => ~f.virtual)
  BY <1>5, FunctionsAssumption DEF FunctionsAssumption
<1>8. Top \in Int /\ depth = Top - Space(f) /\ sp = Top
  <2>1. CASE via = "entry"
    BY <1>4, <1>5, <1>6, <2>1 DEF Top
  <2>2. CASE via # "entry"
    BY <1>4, <1>5, <1>6, <2>2 DEF Top
  <2> QED
    BY <2>1, <2>2
<1>9. null => NullOnTop
  <2>1. SUFFICES ASSUME null PROVE NullOnTop
    OBVIOUS
  <2>2. f.virtual /\ f.method
    BY <1>5, <1>7, <2>1
  <2>3. Leading(f) \in {1, 2}
    <3>1. (IF f.method THEN 1 ELSE 0) = 1 /\ (IF OnStack(f) THEN 1 ELSE 0) \in {0, 1}
      BY <2>2
    <3> QED
      BY <3>1 DEF Leading
  <2>4. ScriptValue(f, 1) = <<"object", 0>>
    BY <2>2, <2>3 DEF ScriptValue
  <2>5. WidthOf(f, 1) = 2
    BY <2>4 DEF WidthOf, Width, PtrDwords
  <2>6. 1 \in 1 .. Count(f)
    <3>1. Len(f.widths) \in Nat
      BY <1>5, FunctionsAssumption DEF FunctionsAssumption
    <3> QED
      BY <2>3, <3>1, <1>6 DEF Count
  <2>7. \A k \in 0 .. 1 : frame[sp - k] = <<<<"object", 0>>, k>>
    <3>1. Lies(frame, f, Top, 1)
      BY <1>4, <2>6
    <3>2. \A k \in 0 .. 1 : frame[Top - 0 - k] = <<<<"object", 0>>, k>>
      BY <1>6, <2>4, <2>5, <3>1 DEF Lies, Dword
    <3>3. \A k \in 0 .. 1 : Top - 0 - k = sp - k
      BY <1>8
    <3> QED
      BY <3>2, <3>3
  <2>8. Loaded(sp, 2) = Whole(<<"object", 0>>, 2)
    BY <2>7 DEF Loaded, Whole, Dword
  <2> QED
    BY <2>1, <2>2, <2>8 DEF NullOnTop, IsNull, PtrDwords
<1>10. NullOnTop => null
  BY DEF NullOnTop, IsNull
<1>11. Taken(f, args', 1)
  <2>1. CASE InRegister(f)
    <3>1. Register \in Values
      BY DEF Values
    <3>2. args' = <<Register>>
      BY <1>1, <2>1
    <3>3. args' \in Seq(Values) /\ Len(args') = 1
      BY <3>1, <3>2
    <3>4. ArgumentAt(f, 1) = 2
      BY <2>1 DEF ArgumentAt
    <3> QED
      BY <3>3, <3>4 DEF Taken
  <2>2. CASE ~InRegister(f)
    BY <1>1, <2>2 DEF Taken, ArgumentAt, Values
  <2> QED
    BY <2>1, <2>2
<1>12. pc' = "pop" => Pushed' /\ Popping' /\ ~null'
  BY <1>1, <1>4, <1>5, <1>9, <1>11 DEF Pushed, Popping
<1>13. pc' = "raised" => TypeOK'
  <2>1. SUFFICES ASSUME pc' = "raised" PROVE TypeOK'
    OBVIOUS
  <2>2. /\ via' \in Vias /\ f' \in Allowed(via)' /\ null' \in BOOLEAN /\ frame' \in [Offsets -> Dwords]
    BY <1>1, <1>5 DEF Allowed
  <2>3. depth \in Offsets /\ sp \in Offsets
    BY <1>5, <1>6, <1>7, <1>8 DEF Offsets
  <2>4. next' \in 0 .. Count(f) + 1 /\ read' \in 0 .. Space(f) /\ offset' \in -Space(f) .. 0
    BY <1>1, <1>4, <1>6
  <2>5. Len(args') <= Count(f) + 1 /\ Len(params') <= Count(f)
    BY <1>1, <1>4, <1>6
  <2> QED
    BY <1>1, <2>1, <2>2, <2>3, <2>4, <2>5 DEF TypeOK
<1>14. pc' \in {"raised", "pop"}
  BY <1>1
<1> QED
  BY <1>1, <1>3, <1>10, <1>12, <1>13, <1>14
     DEF Layout, Pushing, Pushed, Resolving, Popping, Entering, Balanced, NullObjectRaises

LEMMA PopKeeps == ASSUME Layout, Pop PROVE Layout'
<1> DEFINE w == WidthOf(f, next)
           dwords == Loaded(IF via = "entry" THEN EntryOffset(read) ELSE sp, w)
<1>1. /\ pc = "pop" /\ next <= Count(f) /\ next \in 1 .. Count(f) + 1
      /\ \A n \in 1 .. Count(f) : Lies(frame, f, Top, n)
      /\ sp = IF via = "entry" THEN 0 ELSE Top - Start[f][next]
      /\ read = Start[f][next]
      /\ params = <<>> /\ offset = 0 /\ ~null
      /\ Taken(f, args, next)
  BY DEF Pop, Layout, Pushed, Popping
<1>2. Placed /\ TargetKept /\ TargetFound
  BY DEF Layout
<1>3. /\ f \in Functions /\ depth \in Int /\ frame \in [Offsets -> Dwords]
      /\ (via = "entry" => Count(f) <= 1 /\ depth = -Space(f))
  BY <1>2 DEF Placed
<1>4. /\ next \in 1 .. Count(f) /\ Width(f, CodeValue(f, next)) = w
  <2>1. Count(f) \in Nat
    BY <1>3, Sums
  <2>2. next \in 1 .. Count(f)
    BY <1>1, <2>1
  <2> QED
    BY <1>3, <2>2, WidthsAgree
<1>5. /\ args' = Append(args, dwords)
      /\ read' = read + w
      /\ sp' = IF via = "entry" THEN sp ELSE sp - w
      /\ pc' = "pop"
      /\ next' = next + 1
      /\ UNCHANGED <<via, f, null, frame, depth, offset, params, target>>
  BY <1>1, <1>4 DEF Pop, Popped, IsNull
<1>6. Placed' /\ TargetKept' /\ TargetFound' /\ Top' = Top
  BY <1>2, <1>5, StillPlaced DEF TargetFound, Top
<1>7. /\ Count(f) \in Nat /\ Space(f) \in Nat /\ Start[f][1] = 0 /\ Start[f][next] \in Nat
      /\ w \in Nat /\ Start[f][next + 1] = Start[f][next] + w /\ Start[f][next + 1] \in Nat
  <2>1. Count(f) \in Nat
    BY <1>3, Sums
  <2>2. next \in 1 .. Count(f) + 1 /\ next + 1 \in 1 .. Count(f) + 1
    BY <1>1, <1>4, <2>1
  <2> QED
    BY <1>3, <1>4, <2>1, <2>2, Sums
<1>8. Top \in Int /\ (via = "entry" => Top = 0 /\ next = 1)
  BY <1>1, <1>3, <1>4, <1>7 DEF Top
<1>9. (IF via = "entry" THEN EntryOffset(read) ELSE sp) = Top - Start[f][next]
  <2>1. CASE via = "entry"
    BY <1>1, <1>7, <1>8, <2>1 DEF EntryOffset
  <2>2. CASE via # "entry"
    BY <1>1, <2>2
  <2> QED
    BY <2>1, <2>2
<1>10. dwords = [k \in 0 .. w - 1 |-> frame[Top - Start[f][next] - k]]
  BY <1>9 DEF Loaded
<1>11. Lies(frame, f, Top, next)
  BY <1>1, <1>4
<1>12. dwords = Whole(ScriptValue(f, next), w) /\ dwords \in Values
  <2>1. /\ [k \in 0 .. WidthOf(f, next) - 1 |-> frame[Top - Start[f][next] - k]]
              = Whole(ScriptValue(f, next), WidthOf(f, next))
        /\ Whole(ScriptValue(f, next), WidthOf(f, next)) \in Values
    BY <1>3, <1>4, <1>8, <1>11, Loading
  <2> QED
    BY <1>10, <2>1
<1>13. Taken(f, args', next + 1)
  <2>1. /\ args \in Seq(Values) /\ Len(args) + 1 = ArgumentAt(f, next)
        /\ \A m \in 1 .. next - 1 : args[ArgumentAt(f, m)] = Whole(ScriptValue(f, m), WidthOf(f, m))
    BY <1>1 DEF Taken
  <2>2. ArgumentAt(f, next) \in Nat /\ ArgumentAt(f, next + 1) = ArgumentAt(f, next) + 1
    BY <1>4, <1>7 DEF ArgumentAt
  <2>3. PICK x : x = dwords
    OBVIOUS
  <2>4. /\ args' = Append(args, x) /\ x \in Values
    BY <1>5, <1>12, <2>3
  <2>5. /\ args' \in Seq(Values) /\ Len(args') = Len(args) + 1 /\ args'[Len(args) + 1] = x
        /\ \A i \in 1 .. Len(args) : args'[i] = args[i]
    BY <2>1, <2>4
  <2>6. ASSUME NEW m \in 1 .. next  PROVE args'[ArgumentAt(f, m)] = Whole(ScriptValue(f, m), WidthOf(f, m))
    <3>1. CASE m = next
      BY <1>12, <2>1, <2>3, <2>5, <3>1
    <3>2. CASE m # next
      <4>1. m \in 1 .. next - 1
        BY <1>4, <3>2
      <4>2. ArgumentAt(f, m) \in 1 .. Len(args)
        BY <1>4, <2>1, <4>1 DEF ArgumentAt
      <4> QED
        BY <2>1, <2>5, <4>1, <4>2
    <3> QED
      BY <3>1, <3>2
  <2>7. Len(args') + 1 = ArgumentAt(f, next + 1)
    BY <2>1, <2>2, <2>5
  <2>8. 1 .. (next + 1) - 1 = 1 .. next
    BY <1>4, <1>7
  <2>9. \A m \in 1 .. (next + 1) - 1 : args'[ArgumentAt(f, m)] = Whole(ScriptValue(f, m), WidthOf(f, m))
    BY <2>6, <2>8
  <2> QED
    BY <2>5, <2>7, <2>9 DEF Taken
<1>14. Pushed'
  <2>1. PICK s, u, v : s = Start[f][next] /\ u = Start[f][next + 1] /\ v = w
    OBVIOUS
  <2>2. s \in Nat /\ v \in Nat /\ u = s + v /\ read = s /\ read' = read + v
    BY <1>1, <1>5, <1>7, <2>1
  <2>3. read' = u
    BY <2>2
  <2>4. sp' = IF via = "entry" THEN 0 ELSE Top - u
    <3>1. CASE via = "entry"
      BY <1>1, <1>5, <3>1
    <3>2. CASE via # "entry"
      <4>1. sp = Top - s /\ sp' = sp - v
        BY <1>1, <1>5, <2>1, <3>2
      <4>2. sp' = Top - (s + v)
        BY <1>8, <2>2, <4>1
      <4> QED
        BY <2>2, <3>2, <4>2
    <3> QED
      BY <3>1, <3>2
  <2>5. next' \in 1 .. Count(f) + 1
    BY <1>4, <1>5, <1>7
  <2>6. \A n \in 1 .. Count(f) : Lies(frame, f, Top, n)
    BY <1>1
  <2>7. params' = <<>> /\ offset' = 0 /\ read' = Start[f][next + 1] /\ next' = next + 1
        /\ sp' = IF via = "entry" THEN 0 ELSE Top - Start[f][next + 1]
    BY <1>1, <1>5, <2>1, <2>3, <2>4
  <2> QED
    BY <1>5, <1>6, <2>5, <2>6, <2>7 DEF Pushed
<1>15. Popping'
  BY <1>5, <1>13 DEF Popping
<1>16. ~null'
  BY <1>1, <1>5
<1> QED
  BY <1>5, <1>6, <1>14, <1>15, <1>16
     DEF Layout, Pushing, Resolving, Entering, Balanced, NullObjectRaises

LEMMA CallFunctionKeeps == ASSUME Layout, CallFunction PROVE Layout'
<1>1. /\ pc = "pop" /\ next = Count(f) + 1
      /\ pc' = "enter" /\ next' = 1
      /\ UNCHANGED <<via, f, null, frame, depth, sp, read, args, offset, params, target>>
  BY DEF CallFunction
<1>2. /\ sp = IF via = "entry" THEN 0 ELSE Top - Start[f][next]
      /\ read = Start[f][next] /\ params = <<>> /\ offset = 0 /\ ~null
      /\ Taken(f, args, next)
  BY <1>1 DEF Layout, Pushed, Popping
<1>3. Placed /\ TargetKept /\ TargetFound
  BY DEF Layout
<1>4. Placed' /\ TargetKept' /\ TargetFound'
  BY <1>1, <1>3, StillPlaced DEF TargetFound
<1>5. f \in Functions /\ depth \in Int
  BY <1>3 DEF Placed
<1>6. Count(f) \in Nat /\ Space(f) \in Nat /\ Start[f][1] = 0 /\ Start[f][Count(f) + 1] = Space(f)
  BY <1>5, Sums DEF Space
<1>7. via # "entry" => sp = depth
  BY <1>1, <1>2, <1>5, <1>6 DEF Top
<1>8. Kept(f, params, 1)
  BY <1>2 DEF Kept
<1>9. Entering'
  <2>1. Taken(f, args, Count(f) + 1) /\ read = Space(f)
    BY <1>1, <1>2, <1>6
  <2>2. offset = -Start[f][1]
    <3>1. PICK s, t : s = Start[f][1] /\ t = -Start[f][1]
      OBVIOUS
    <3>2. s \in Int /\ t = -s
      BY <1>6, <3>1
    <3>3. t + s = 0 /\ t \in Int
      BY <3>2
    <3>4. s = 0
      BY <1>6, <3>1
    <3>5. t = 0
      BY <3>3, <3>4
    <3> QED
      BY <1>2, <3>1, <3>5
  <2>3. 1 \in 1 .. Count(f) + 1
    BY <1>6
  <2> QED
    BY <1>1, <1>2, <1>8, <2>1, <2>2, <2>3 DEF Entering
<1>10. Balanced'
  BY <1>1, <1>7 DEF Balanced
<1> QED
  BY <1>1, <1>2, <1>4, <1>9, <1>10
     DEF Layout, Pushing, Pushed, Resolving, Popping, NullObjectRaises

LEMMA AllocateKeeps == ASSUME Layout, AllocateParameter PROVE Layout'
<1> DEFINE w == WidthOf(f, next)
           kept == [at |-> offset, holds |-> args[ArgumentAt(f, next)]]
<1>1. /\ pc = "enter" /\ next <= Count(f) /\ next \in 1 .. Count(f) + 1
      /\ Taken(f, args, Count(f) + 1)
      /\ read = Space(f)
      /\ Kept(f, params, next)
      /\ offset = -Start[f][next]
      /\ (via = "entry" => sp = 0) /\ (via # "entry" => sp = depth) /\ ~null
  BY DEF AllocateParameter, Layout, Entering, Balanced, NullObjectRaises
<1>2. Placed /\ TargetKept /\ TargetFound
  BY DEF Layout
<1>3. f \in Functions
  BY <1>2 DEF Placed
<1>4. /\ Count(f) \in Nat /\ next \in 1 .. Count(f) /\ Start[f][next] \in Nat
      /\ w \in Nat /\ Start[f][next + 1] = Start[f][next] + w
      /\ Width(f, CodeValue(f, next)) = w
  <2>1. Count(f) \in Nat
    BY <1>3, Sums
  <2>2. next \in 1 .. Count(f) /\ next \in 1 .. Count(f) + 1
    BY <1>1, <2>1
  <2> QED
    BY <1>3, <2>1, <2>2, Sums, WidthsAgree
<1>5. /\ pc' = "enter" /\ next' = next + 1
      /\ params' = Append(params, kept)
      /\ offset' = offset - w
      /\ UNCHANGED <<via, f, null, frame, depth, sp, read, args, target>>
  BY <1>1, <1>4 DEF AllocateParameter, NextOffset, ArgumentIndex, ArgumentAt
<1>6. Placed' /\ TargetKept' /\ TargetFound'
  BY <1>2, <1>5, StillPlaced DEF TargetFound
<1>7. args[ArgumentAt(f, next)] = Whole(ScriptValue(f, next), w)
  <2>1. next \in 1 .. (Count(f) + 1) - 1
    BY <1>4
  <2> QED
    BY <1>1, <2>1 DEF Taken
<1>8. Whole(ScriptValue(f, next), w) \in Values
  <2>1. WidthOf(f, next) \in Nat /\ ScriptValue(f, next) \in {"object", "address", "parameter"} \X Nat
    BY <1>3, <1>4, Sums
  <2>2. \A k \in 0 .. w - 1 : Dword(ScriptValue(f, next), k) \in Dwords
    BY <2>1 DEF Dword, Dwords
  <2>3. Whole(ScriptValue(f, next), w) \in [0 .. w - 1 -> Dwords]
    BY <2>2 DEF Whole
  <2> QED
    BY <2>1, <2>3 DEF Values, Blocks
<1>9. Kept(f, params', next + 1)
  <2>1. /\ params \in Seq([at : Int, holds : Values]) /\ Len(params) + 1 = next
        /\ \A m \in 1 .. next - 1 :
             params[m] = [at |-> -Start[f][m], holds |-> Whole(ScriptValue(f, m), WidthOf(f, m))]
    BY <1>1 DEF Kept
  <2>2. PICK x : x = kept
    OBVIOUS
  <2>3. /\ x = [at |-> -Start[f][next], holds |-> Whole(ScriptValue(f, next), WidthOf(f, next))]
        /\ x \in [at : Int, holds : Values]
    BY <1>1, <1>4, <1>7, <1>8, <2>2
  <2>4. /\ params' \in Seq([at : Int, holds : Values]) /\ Len(params') = Len(params) + 1
        /\ params'[Len(params) + 1] = x
        /\ \A i \in 1 .. Len(params) : params'[i] = params[i]
    BY <1>5, <2>1, <2>2, <2>3
  <2>5. ASSUME NEW m \in 1 .. (next + 1) - 1
        PROVE  params'[m] = [at |-> -Start[f][m], holds |-> Whole(ScriptValue(f, m), WidthOf(f, m))]
    <3>1. CASE m = next
      BY <2>1, <2>3, <2>4, <3>1
    <3>2. CASE m # next
      <4>1. m \in 1 .. next - 1 /\ m \in 1 .. Len(params)
        BY <1>4, <2>1, <3>2
      <4> QED
        BY <2>1, <2>4, <4>1
    <3> QED
      BY <3>1, <3>2
  <2>6. Len(params') + 1 = next + 1
    BY <2>1, <2>4
  <2> QED
    BY <2>4, <2>5, <2>6 DEF Kept
<1>10. Entering'
  <2>1. offset' = -Start[f][next + 1]
    <3>1. PICK s, v : s = Start[f][next] /\ v = w
      OBVIOUS
    <3>2. s \in Nat /\ v \in Nat /\ offset = -s /\ offset' = offset - v /\ Start[f][next + 1] = s + v
      BY <1>1, <1>4, <1>5, <3>1
    <3> QED
      BY <3>2
  <2>2. next + 1 \in 1 .. Count(f) + 1
    BY <1>4
  <2> QED
    BY <1>1, <1>5, <1>9, <2>1, <2>2 DEF Entering
<1>11. Balanced'
  BY <1>1, <1>5 DEF Balanced
<1> QED
  BY <1>1, <1>5, <1>6, <1>10, <1>11
     DEF Layout, Pushing, Pushed, Resolving, Popping, NullObjectRaises

LEMMA RunKeeps == ASSUME Layout, Run PROVE Layout'
<1>1. /\ pc = "enter" /\ next = Count(f) + 1 /\ pc' = "run"
      /\ UNCHANGED <<via, f, null, frame, depth, sp, next, read, args, offset, params, target>>
  BY DEF Run
<1>2. /\ Placed /\ TargetKept /\ TargetFound /\ Entering /\ Balanced /\ ~null
  BY <1>1 DEF Layout, NullObjectRaises
<1>3. Placed' /\ TargetKept' /\ TargetFound'
  BY <1>1, <1>2, StillPlaced DEF TargetFound
<1>4. Entering' /\ Balanced'
  BY <1>1, <1>2 DEF Entering, Balanced
<1> QED
  BY <1>1, <1>2, <1>3, <1>4 DEF Layout, Pushing, Pushed, Resolving, Popping, NullObjectRaises

LEMMA ReturnKeeps == ASSUME Layout, Return PROVE Layout'
<1>1. /\ pc = "run" /\ pc' = "returned"
      /\ sp' = IF via = "alloc" THEN sp - PtrDwords ELSE sp
      /\ UNCHANGED <<via, f, null, frame, depth, next, read, args, offset, params, target>>
  BY DEF Return
<1>2. /\ Placed /\ TargetKept /\ TargetFound /\ Entering /\ Balanced /\ ~null /\ next = Count(f) + 1
  BY <1>1 DEF Layout, NullObjectRaises
<1>3. Placed' /\ TargetKept' /\ TargetFound'
  BY <1>1, <1>2, StillPlaced DEF TargetFound
<1>4. Entering' /\ Balanced'
  BY <1>1, <1>2 DEF Entering, Balanced
<1> QED
  BY <1>1, <1>2, <1>3, <1>4 DEF Layout, Pushing, Pushed, Resolving, Popping, NullObjectRaises

LEMMA StutterKeeps == ASSUME Layout, UNCHANGED vars PROVE Layout'
<1>1. UNCHANGED <<pc, via, f, null, frame, depth, sp, next, read, args, offset, params, target>>
  BY DEF vars
<1>2. Placed /\ TargetKept
  BY DEF Layout
<1>3. Placed' /\ TargetKept'
  BY <1>1, <1>2, StillPlaced
<1>4. pc = "raised" => TypeOK'
  BY <1>1 DEF Layout, TypeOK, Allowed
<1> QED
  BY <1>1, <1>3, <1>4
     DEF Layout, Pushing, Pushed, Resolving, Popping, Entering, Balanced, NullObjectRaises, TargetFound,
         Top, Given

-----------------------------------------------------------------------------
(* The theorems                                                              *)

\* At every step of a call, values lie, and have been taken, kept and counted,
\* as their widths say.
THEOREM LayoutInvariant == ASSUME OneEntered PROVE Spec => []Layout
<1>1. Init => Layout
  BY LayoutInit
<1>2. Layout /\ [Next]_vars => Layout'
  BY PushKeeps, ALLOCKeeps, CALLKeeps, ResolveKeeps, PopKeeps, CallFunctionKeeps, AllocateKeeps,
     RunKeeps, ReturnKeeps, StutterKeeps DEF Next
<1> QED
  BY <1>1, <1>2, PTL DEF Spec

\* Types of all variables, for any functions, widths and depths.
THEOREM TypeCorrect == ASSUME OneEntered PROVE Spec => []TypeOK
<1>1. Layout => TypeOK
  <2> SUFFICES ASSUME Layout PROVE TypeOK
    OBVIOUS
  <2>1. CASE pc = "raised"
    BY <2>1 DEF Layout
  <2>2. CASE pc # "raised"
    <3>1. /\ via \in Vias /\ f \in Functions /\ f \in Allowed(via) /\ null \in BOOLEAN
          /\ depth \in Int /\ -Below <= depth /\ Top <= Above
          /\ frame \in [Offsets -> Dwords]
          /\ (via = "entry" => depth = -Space(f))
      BY DEF Layout, Placed
    <3>2. Below \in Nat /\ Above \in Nat
      BY FunctionsAssumption DEF FunctionsAssumption
    <3>3. /\ Count(f) \in Nat /\ Space(f) \in Nat /\ Space(f) <= Below
          /\ \A n \in 1 .. Count(f) + 1 : Start[f][n] \in Nat /\ Start[f][n] <= Space(f)
      BY <3>1, Sums
    <3>4. depth \in Offsets /\ \A x \in Int : x \in depth .. Top => x \in Offsets
      BY <3>1, <3>2, <3>3 DEF Offsets, Top
    <3>5. \A n \in 1 .. Count(f) + 1 : Top - Start[f][n] \in depth .. Top /\ Top - Start[f][n] \in Int
      BY <3>1, <3>3 DEF Top
    <3>6. 0 \in Offsets
      BY <3>2 DEF Offsets
    <3>7. \A n : ArgumentAt(f, n) \in {n, n + 1}
      BY DEF ArgumentAt
    <3>8. CASE pc = "push"
      <4>1. /\ next \in Given .. Count(f) /\ sp = Top - Start[f][next + 1]
            /\ args = <<>> /\ params = <<>> /\ offset = 0 /\ read = 0
        BY <3>8 DEF Layout, Pushing
      <4>2. next \in 0 .. Count(f) /\ next + 1 \in 1 .. Count(f) + 1
        BY <3>3, <4>1 DEF Given
      <4>3. sp \in Offsets
        BY <3>4, <3>5, <4>1, <4>2
      <4> QED
        BY <3>1, <3>3, <3>4, <3>8, <4>1, <4>2, <4>3 DEF TypeOK
    <3>9. CASE pc \in {"resolve", "pop"}
      <4>1. /\ next \in 1 .. Count(f) + 1
            /\ sp = IF via = "entry" THEN 0 ELSE Top - Start[f][next]
            /\ read = Start[f][next] /\ params = <<>> /\ offset = 0
        BY <3>9 DEF Layout, Pushed
      <4>2. sp \in Offsets
        BY <3>4, <3>5, <3>6, <4>1
      <4>3. Len(args) <= Count(f) + 1
        <5>1. CASE pc = "resolve"
          BY <3>3, <5>1 DEF Layout, Resolving
        <5>2. CASE pc = "pop"
          <6>1. args \in Seq(Values) /\ Len(args) + 1 = ArgumentAt(f, next)
            BY <5>2 DEF Layout, Popping, Taken
          <6> QED
            BY <3>3, <3>7, <4>1, <6>1
        <5> QED
          BY <3>9, <5>1, <5>2
      <4>4. read \in 0 .. Space(f) /\ next \in 0 .. Count(f) + 1 /\ offset \in -Space(f) .. 0
        BY <3>3, <4>1
      <4> QED
        BY <3>1, <3>3, <3>4, <3>9, <4>1, <4>2, <4>3, <4>4 DEF TypeOK
    <3>10. CASE pc \in {"enter", "run", "returned"}
      <4>1. /\ next \in 1 .. Count(f) + 1 /\ Taken(f, args, Count(f) + 1) /\ read = Space(f)
            /\ Kept(f, params, next) /\ offset = -Start[f][next] /\ (via = "entry" => sp = 0)
        BY <3>10 DEF Layout, Entering
      <4>2. sp \in Offsets \cup {depth - PtrDwords}
        BY <3>4, <3>6, <3>10, <4>1 DEF Layout, Balanced
      <4>3. Len(args) <= Count(f) + 1
        <5>1. args \in Seq(Values) /\ Len(args) + 1 = ArgumentAt(f, Count(f) + 1)
          BY <4>1 DEF Taken
        <5> QED
          BY <3>3, <3>7, <5>1
      <4>4. Len(params) <= Count(f)
        BY <3>3, <4>1 DEF Kept
      <4>5. read \in 0 .. Space(f) /\ next \in 0 .. Count(f) + 1 /\ offset \in -Space(f) .. 0
        BY <3>3, <4>1
      <4> QED
        BY <3>1, <3>4, <3>10, <4>2, <4>3, <4>4, <4>5 DEF TypeOK
    <3> QED
      BY <2>2, <3>8, <3>9, <3>10 DEF Layout
  <2> QED
    BY <2>1, <2>2
<1> QED
  BY <1>1, LayoutInvariant, PTL

\* For any number of parameters of any widths: the callee finds every value the
\* caller passed at the offset its bytecode uses, though the object and the
\* address change places on the way.
THEOREM ArgumentsAreFound == ASSUME OneEntered PROVE Spec => []ArgumentsArrive
<1>1. Layout => ArgumentsArrive
  <2> SUFFICES ASSUME Layout, pc = "run", NEW n \in 1 .. Count(f)
               PROVE  params[n] = [at |-> -Start[f][n],
                                   holds |-> Whole(ScriptValue(f, n), Width(f, ScriptValue(f, n)))]
    BY DEF ArgumentsArrive
  <2>1. next = Count(f) + 1 /\ Kept(f, params, next) /\ f \in Functions
    BY DEF Layout, Entering, Placed
  <2>2. n \in 1 .. next - 1
    BY <2>1, Sums
  <2> QED
    BY <2>1, <2>2 DEF Kept, WidthOf
<1> QED
  BY <1>1, LayoutInvariant, PTL

\* A call takes what was pushed for it from the stack of the caller, no more and
\* no less.
THEOREM StackRestored == ASSUME OneEntered PROVE Spec => []StackBalanced
<1>1. Layout => StackBalanced
  BY DEF Layout, Balanced, StackBalanced
<1> QED
  BY <1>1, LayoutInvariant, PTL

\* A virtual method never runs on null, and its exception means null.
THEOREM NullNeverRuns == ASSUME OneEntered PROVE Spec => []NullObjectRaises
<1>1. Layout => NullObjectRaises
  BY DEF Layout
<1> QED
  BY <1>1, LayoutInvariant, PTL

\* ALLOC finds the address of the variable below the arguments of any
\* constructor.
THEOREM VariableOfALLOC == ASSUME OneEntered PROVE Spec => []TargetFound
<1>1. Layout => TargetFound
  BY DEF Layout
<1> QED
  BY <1>1, LayoutInvariant, PTL

\* Together: the object of a call is the right one.
THEOREM ObjectFound == ASSUME OneEntered PROVE Spec => []ObjectRight
<1>1. TypeOK /\ NullObjectRaises /\ TargetFound => ObjectRight
  BY DEF ObjectRight
<1> QED
  BY <1>1, TypeCorrect, NullNeverRuns, VariableOfALLOC, PTL

-----------------------------------------------------------------------------
(* Which function the calls of a hierarchy of classes reach.                  *)

\* A class has as many functions as methods, at their places, and one of a name.
Shaped(cs, c) ==
  /\ DOMAIN cs[c].table = DOMAIN cs[c].methods
  /\ \A i \in DOMAIN cs[c].methods : cs[c].methods[i].vfTableIdx = i
  /\ \A i, j \in DOMAIN cs[c].methods : cs[c].methods[i].name = cs[c].methods[j].name => i = j

\* A class comes after those it derives from, none of which is final.
Lined(cs, c) ==
  /\ c \in cs[c].line /\ cs[c].line \subseteq 1 .. c
  /\ \A o \in cs[c].line : cs[o].line \subseteq cs[c].line /\ (cs[o].final => o = c)

\* It keeps their methods.
Inherited(cs, c) ==
  \A o \in cs[c].line : \A i \in DOMAIN cs[o].methods :
    i \in DOMAIN cs[c].methods /\ cs[c].methods[i] = cs[o].methods[i]

\* A method is one of the class that declared it.
Introduced(cs, c) ==
  \A i \in DOMAIN cs[c].methods :
    LET o == cs[c].methods[i].class
    IN  o \in cs[c].line /\ i \in DOMAIN cs[o].methods

\* The table has the overriding functions, and those of final methods.
Best(fs, g, name, line) ==
  /\ g \in fs /\ g.name = name /\ g.class \in line
  /\ \A h \in fs : h.name = name /\ h.class \in line => h.class <= g.class
Implemented(cs, fs, c) ==
  \A i \in DOMAIN cs[c].methods :
    LET m == cs[c].methods[i]
    IN  /\ Best(fs, cs[c].table[i], m.name, cs[c].line)
        /\ (m.final \/ cs[m.class].final) => cs[c].table[i].class = m.class

\* A class has one function of a name, and a method for it.
Functional(cs, fs) ==
  /\ IsFiniteSet(fs)
  /\ \A g, h \in fs : g.class = h.class /\ g.name = h.name => g = h
  /\ \A g \in fs :
       g.class \in 1 .. Len(cs) /\ \E i \in DOMAIN cs[g.class].methods : cs[g.class].methods[i].name = g.name

Classes == \A c \in 1 .. Len(classes) :
  /\ Shaped(classes, c) /\ Lined(classes, c) /\ Inherited(classes, c) /\ Introduced(classes, c)
  /\ Implemented(classes, functions, c)

\* A call is of a method of a class that is complete; a direct one is bound to its
\* function.
Bound(cs, call) ==
  LET o == call.callee.class
      i == call.callee.vfTableIdx
  IN  /\ o \in 1 .. Len(cs) /\ (open => o # Len(cs))
      /\ i \in DOMAIN cs[o].methods /\ cs[o].methods[i] = call.callee
      /\ call.direct => (call.callee.final \/ cs[o].final) /\ call.function = cs[o].table[i]
Calls == \A call \in calls : Bound(classes, call)

ClassesInv ==
  /\ ClassesTyped /\ Classes /\ Functional(classes, functions) /\ Calls
  /\ (open => Len(classes) > 0)

USE NamesAssumption

ClassRecords == [final : BOOLEAN, line : SUBSET Nat, methods : Seq(Methods), table : Seq(FunctionsOf)]

-----------------------------------------------------------------------------
LEMMA ClassesInitially == ClassesInit => ClassesInv
<1> SUFFICES ASSUME ClassesInit PROVE ClassesInv
  OBVIOUS
<1>1. classes = <<>> /\ Len(classes) = 0 /\ open = FALSE /\ functions = {} /\ calls = {}
  BY DEF ClassesInit
<1>2. ClassesTyped
  <2>1. <<>> \in Seq(ClassRecords)
    OBVIOUS
  <2>2. classes \in Seq(ClassRecords)
    BY <1>1, <2>1
  <2> QED
    BY <1>1, <2>2 DEF ClassesTyped, ClassRecords
<1>3. Functional(classes, functions)
  BY <1>1, FS_EmptySet DEF Functional
<1>4. Classes /\ Calls
  BY <1>1 DEF Classes, Calls
<1> QED
  BY <1>1, <1>2, <1>3, <1>4 DEF ClassesInv

-----------------------------------------------------------------------------
\* A derived class starts as its base.
LEMMA DeclareClassKeeps ==
  ASSUME ClassesInv, NEW base \in 0 .. Len(classes), NEW final \in BOOLEAN, DeclareClass(base, final)
  PROVE  ClassesInv'
<1> DEFINE b == IF base = 0 THEN Root ELSE classes[base]
           n == Len(classes) + 1
<1>1. /\ ~open /\ ~b.final
      /\ classes' = Append(classes, [final |-> final, line |-> b.line \cup {n},
                                     methods |-> b.methods, table |-> b.table])
      /\ open' = TRUE /\ UNCHANGED <<functions, calls>>
  BY DEF DeclareClass, Last
<1>2. /\ ClassesTyped /\ classes \in Seq(ClassRecords) /\ Len(classes) \in Nat
      /\ Classes /\ Functional(classes, functions) /\ Calls
  BY DEF ClassesInv, ClassesTyped, ClassRecords
<1>3. b \in ClassRecords
  <2>1. <<>> \in Seq(Methods) /\ <<>> \in Seq(FunctionsOf) /\ {} \in SUBSET Nat
    OBVIOUS
  <2>2. Root \in ClassRecords
    BY <2>1 DEF Root, ClassRecords
  <2>3. base # 0 => classes[base] \in ClassRecords
    BY <1>2
  <2> QED
    BY <2>2, <2>3
<1>5. /\ classes' \in Seq(ClassRecords) /\ Len(classes') = n
      /\ \A c \in 1 .. Len(classes) : classes'[c] = classes[c]
      /\ classes'[n].final = final /\ classes'[n].line = b.line \cup {n}
      /\ classes'[n].methods = b.methods /\ classes'[n].table = b.table
  <2>1. PICK r : r = [final |-> final, line |-> b.line \cup {n}, methods |-> b.methods, table |-> b.table]
    OBVIOUS
  <2>2. b.line \cup {n} \in SUBSET Nat
    BY <1>2, <1>3 DEF ClassRecords
  <2>3. r \in ClassRecords
    BY <1>3, <2>1, <2>2 DEF ClassRecords
  <2>4. classes' = Append(classes, r)
    BY <1>1, <2>1
  <2>5. /\ classes' \in Seq(ClassRecords) /\ Len(classes') = n
        /\ \A c \in 1 .. Len(classes) : classes'[c] = classes[c]
        /\ classes'[n] = r
    BY <1>2, <2>3, <2>4
  <2> QED
    BY <2>1, <2>5
<1>6. ClassesTyped'
  BY <1>1, <1>2, <1>5 DEF ClassesTyped, ClassRecords
<1>7. \A o \in b.line : o \in 1 .. Len(classes) /\ o # n
  BY <1>2 DEF Root, Classes, Lined
<1>8. \A c \in 1 .. Len(classes) : classes[c].line \subseteq 1 .. Len(classes)
  BY <1>2 DEF Classes, Lined
<1>9. \A c \in 1 .. Len(classes) :
        /\ Shaped(classes', c) /\ Lined(classes', c) /\ Inherited(classes', c) /\ Introduced(classes', c)
        /\ Implemented(classes', functions', c)
  <2> SUFFICES ASSUME NEW c \in 1 .. Len(classes)
               PROVE  /\ Shaped(classes', c) /\ Lined(classes', c) /\ Inherited(classes', c)
                      /\ Introduced(classes', c) /\ Implemented(classes', functions', c)
    OBVIOUS
  <2>1. /\ Shaped(classes, c) /\ Lined(classes, c) /\ Inherited(classes, c) /\ Introduced(classes, c)
        /\ Implemented(classes, functions, c)
    BY <1>2 DEF Classes
  <2>2. classes'[c] = classes[c] /\ \A o \in classes[c].line : classes'[o] = classes[o]
    BY <1>5, <1>8
  <2>3. Shaped(classes', c)
    BY <2>1, <2>2 DEF Shaped
  <2>4. Lined(classes', c)
    BY <2>1, <2>2 DEF Lined
  <2>5. Inherited(classes', c)
    BY <2>1, <2>2 DEF Inherited
  <2>6. Introduced(classes', c)
    BY <2>1, <2>2 DEF Introduced
  <2>7. Implemented(classes', functions', c)
    <3> SUFFICES ASSUME NEW i \in DOMAIN classes[c].methods
                 PROVE  LET m == classes[c].methods[i]
                        IN  /\ Best(functions, classes[c].table[i], m.name, classes[c].line)
                            /\ (m.final \/ classes'[m.class].final) => classes[c].table[i].class = m.class
      <4>1. functions' = functions
        BY <1>1
      <4> QED
        BY <4>1, <2>2 DEF Implemented
    <3>1. classes'[classes[c].methods[i].class] = classes[classes[c].methods[i].class]
      BY <2>1, <2>2 DEF Introduced
    <3> QED
      BY <2>1, <3>1 DEF Implemented
  <2> QED
    BY <2>3, <2>4, <2>5, <2>6, <2>7
<1>10. Shaped(classes', n)
  BY <1>2, <1>5 DEF Root, Classes, Shaped
<1>11. Lined(classes', n)
  <2>1. n \in b.line \cup {n} /\ b.line \cup {n} \subseteq 1 .. n
    BY <1>2, <1>7
  <2>2. \A o \in b.line : classes[o].line \subseteq b.line /\ ~classes[o].final
    BY <1>1, <1>2 DEF Root, Classes, Lined
  <2> QED
    BY <1>5, <1>7, <2>1, <2>2 DEF Lined
<1>12. Inherited(classes', n)
  <2>1. \A o \in b.line : \A i \in DOMAIN classes[o].methods :
          i \in DOMAIN b.methods /\ b.methods[i] = classes[o].methods[i]
    BY <1>2 DEF Root, Classes, Inherited
  <2> QED
    BY <1>5, <1>7, <2>1 DEF Inherited
<1>13. Introduced(classes', n)
  <2>1. \A i \in DOMAIN b.methods :
          b.methods[i].class \in b.line /\ i \in DOMAIN classes[b.methods[i].class].methods
    BY <1>2 DEF Root, Classes, Introduced
  <2> QED
    BY <1>5, <1>7, <2>1 DEF Introduced
<1>14. Implemented(classes', functions', n)
  <2> SUFFICES ASSUME NEW i \in DOMAIN b.methods
               PROVE  LET m == b.methods[i]
                      IN  /\ Best(functions, b.table[i], m.name, b.line \cup {n})
                          /\ (m.final \/ classes'[m.class].final) => b.table[i].class = m.class
    <3> HIDE DEF b, n
    <3> QED
      BY <1>1, <1>5 DEF Implemented
  <2> DEFINE m == b.methods[i]
  <2>1. base # 0 /\ base \in 1 .. Len(classes) /\ b = classes[base]
    BY DEF Root
  <2>2. /\ Best(functions, b.table[i], m.name, b.line)
        /\ (m.final \/ classes[m.class].final) => b.table[i].class = m.class
        /\ m.class \in b.line
    BY <1>2, <2>1 DEF Classes, Implemented, Introduced
  <2>3. classes'[m.class] = classes[m.class]
    BY <1>5, <1>7, <2>2
  <2>4. \A h \in functions : h.class # n
    BY <1>2 DEF Functional
  <2>5. Best(functions, b.table[i], m.name, b.line \cup {n})
    BY <2>2, <2>4 DEF Best
  <2> QED
    BY <2>2, <2>3, <2>5
<1>15. Classes'
  BY <1>5, <1>9, <1>10, <1>11, <1>12, <1>13, <1>14, <1>2 DEF Classes
<1>16. Functional(classes', functions')
  BY <1>1, <1>2, <1>5 DEF Functional
<1>17. Calls'
  BY <1>1, <1>2, <1>5 DEF Calls, Bound
<1> QED
  BY <1>2, <1>5, <1>6, <1>15, <1>16, <1>17 DEF ClassesInv

-----------------------------------------------------------------------------
LEMMA FunctionIds ==
  ASSUME ClassesInv, open, NEW name \in Names
  PROVE  Function(name) \in FunctionsOf /\ Function(name).class = Len(classes) /\ Function(name).name = name
<1>1. Cardinality(functions) \in Nat /\ Len(classes) \in Nat
  BY FS_CardinalityType DEF ClassesInv, Functional, ClassesTyped
<1> QED
  BY <1>1 DEF Function, FunctionsOf, Last

\* Another function of the same name in the last class would have been there.
LEMMA FunctionalGrows ==
  ASSUME NEW cs, NEW fs, Functional(cs, fs), NEW g,
         \A h \in fs : ~(h.class = g.class /\ h.name = g.name),
         g.class \in 1 .. Len(cs),
         \E i \in DOMAIN cs[g.class].methods : cs[g.class].methods[i].name = g.name
  PROVE  Functional(cs, fs \cup {g})
<1>1. IsFiniteSet(fs \cup {g})
  BY FS_AddElement DEF Functional
<1> QED
  BY <1>1 DEF Functional

\* A method of the base gets its function of this class.
LEMMA OverrideKeeps ==
  ASSUME ClassesInv, NEW i \in DOMAIN classes[Last].methods, Override(i)
  PROVE  ClassesInv'
<1> DEFINE n == Len(classes)
           m == classes[n].methods[i]
           g == Function(m.name)
<1>1. /\ open /\ ~m.final /\ ~Declares(n, m.name)
      /\ classes' = [classes EXCEPT ![n].table[i] = g]
      /\ functions' = functions \cup {g}
      /\ UNCHANGED <<open, calls>>
  BY DEF Override, Last
<1>2. /\ ClassesTyped /\ classes \in Seq(ClassRecords) /\ n \in 1 .. Len(classes)
      /\ Classes /\ Functional(classes, functions) /\ Calls
  BY <1>1 DEF ClassesInv, ClassesTyped, ClassRecords
<1>3. classes[n] \in ClassRecords /\ i \in DOMAIN classes[n].methods /\ m \in Methods
  <2>1. classes[n] \in ClassRecords
    BY <1>2
  <2>2. classes[n].methods \in Seq(Methods)
    BY <2>1 DEF ClassRecords
  <2>3. i \in DOMAIN classes[n].methods
    BY DEF Last
  <2> QED
    BY <2>1, <2>2, <2>3
<1>4. g \in FunctionsOf /\ g.class = n /\ g.name = m.name
  BY <1>1, <1>3, FunctionIds DEF Methods
<1>5. i \in DOMAIN classes[n].table
  BY <1>2, <1>3 DEF Classes, Shaped
<1>6. /\ classes' \in Seq(ClassRecords) /\ Len(classes') = n
      /\ \A c \in 1 .. n : /\ classes'[c].final = classes[c].final /\ classes'[c].line = classes[c].line
                           /\ classes'[c].methods = classes[c].methods
                           /\ c # n => classes'[c].table = classes[c].table
      /\ classes'[n].table = [classes[n].table EXCEPT ![i] = g]
  <2>1. PICK r, t : r = [classes[n] EXCEPT !.table = t] /\ t = [classes[n].table EXCEPT ![i] = g]
    OBVIOUS
  <2>2. classes' = [classes EXCEPT ![n] = r]
    BY <1>1, <2>1
  <2>3. t \in Seq(FunctionsOf)
    BY <1>3, <1>4, <1>5, <2>1 DEF ClassRecords
  <2>4. /\ r \in ClassRecords /\ r.final = classes[n].final /\ r.line = classes[n].line
        /\ r.methods = classes[n].methods /\ r.table = t
    BY <1>3, <2>1, <2>3 DEF ClassRecords
  <2>5. /\ classes' \in Seq(ClassRecords) /\ Len(classes') = n
        /\ classes'[n] = r /\ \A c \in 1 .. n : c # n => classes'[c] = classes[c]
    BY <1>2, <2>2, <2>4
  <2>6. classes'[n].table = [classes[n].table EXCEPT ![i] = g]
    BY <2>1, <2>4, <2>5
  <2> QED
    BY <2>4, <2>5, <2>6
<1>7. ClassesTyped'
  BY <1>1, <1>2, <1>4, <1>6 DEF ClassesTyped, ClassRecords
<1>8. \A c \in 1 .. n : classes[c].line \subseteq 1 .. c /\ c \in classes[c].line
  BY <1>2 DEF Classes, Lined
<1>9. \A c \in 1 .. n : \A j \in DOMAIN classes[c].methods : classes[c].methods[j].class \in 1 .. n
  BY <1>2, <1>8 DEF Classes, Introduced
<1>10. ASSUME NEW c \in 1 .. n
       PROVE  Shaped(classes', c) /\ Lined(classes', c) /\ Inherited(classes', c) /\ Introduced(classes', c)
  <2>1. Shaped(classes, c) /\ Lined(classes, c) /\ Inherited(classes, c) /\ Introduced(classes, c)
    BY <1>2 DEF Classes
  <2>2. DOMAIN classes'[c].table = DOMAIN classes[c].table
    BY <1>6
  <2>3. Shaped(classes', c)
    BY <1>6, <2>1, <2>2 DEF Shaped
  <2>4. \A o \in classes[c].line : o \in 1 .. n
    BY <1>8
  <2>5. Lined(classes', c)
    BY <1>6, <2>1, <2>4 DEF Lined
  <2>6. Inherited(classes', c)
    BY <1>6, <2>1, <2>4 DEF Inherited
  <2>7. Introduced(classes', c)
    BY <1>6, <2>1, <2>4 DEF Introduced
  <2> QED
    BY <2>3, <2>5, <2>6, <2>7
<1>11. ASSUME NEW c \in 1 .. n
       PROVE  Implemented(classes', functions', c)
  <2> SUFFICES ASSUME NEW j \in DOMAIN classes[c].methods
               PROVE  LET k == classes[c].methods[j]
                      IN  /\ Best(functions', classes'[c].table[j], k.name, classes[c].line)
                          /\ (k.final \/ classes[k.class].final) => classes'[c].table[j].class = k.class
    BY <1>6, <1>9 DEF Implemented
  <2> DEFINE k == classes[c].methods[j]
  <2>1. /\ Best(functions, classes[c].table[j], k.name, classes[c].line)
        /\ (k.final \/ classes[k.class].final) => classes[c].table[j].class = k.class
        /\ k.class \in classes[c].line
    BY <1>2 DEF Classes, Implemented, Introduced
  <2>2. j \in DOMAIN classes[c].table
    BY <1>2 DEF Classes, Shaped
  <2>3. CASE c = n /\ j = i
    <3>1. classes'[c].table[j] = g
      BY <1>6, <2>2, <2>3
    <3>2. \A h \in functions : h.class \in 1 .. n
      BY <1>2 DEF Functional
    <3>3. Best(functions', g, k.name, classes[c].line)
      BY <1>1, <1>2, <1>4, <1>8, <2>3, <3>2 DEF Best
    <3>4. ~k.final /\ (classes[k.class].final => k.class = n)
      BY <1>1, <1>2, <2>1, <2>3 DEF Classes, Lined
    <3> QED
      BY <1>4, <3>1, <3>3, <3>4
  <2>4. CASE ~(c = n /\ j = i)
    <3>1. classes'[c].table[j] = classes[c].table[j]
      BY <1>6, <2>2, <2>4
    <3>2. g.name # k.name \/ g.class \notin classes[c].line
      <4>1. CASE c = n
        BY <1>2, <1>3, <1>4, <2>4, <4>1 DEF Classes, Shaped
      <4>2. CASE c # n
        BY <1>2, <1>4, <1>8, <4>2
      <4> QED
        BY <4>1, <4>2
    <3>3. Best(functions', classes[c].table[j], k.name, classes[c].line)
      BY <1>1, <2>1, <3>2 DEF Best
    <3> QED
      BY <2>1, <3>1, <3>3
  <2> QED
    BY <2>3, <2>4
<1>12. Classes'
  BY <1>6, <1>10, <1>11 DEF Classes
<1>13. Functional(classes', functions')
  <2>1. \A h \in functions : ~(h.class = g.class /\ h.name = g.name)
    BY <1>1, <1>4 DEF Declares
  <2>2. Functional(classes', functions)
    BY <1>2, <1>6 DEF Functional
  <2>3. \E j \in DOMAIN classes'[g.class].methods : classes'[g.class].methods[j].name = g.name
    BY <1>2, <1>3, <1>4, <1>6
  <2>4. g.class \in 1 .. Len(classes')
    BY <1>2, <1>4, <1>6
  <2> QED
    BY <1>1, <2>1, <2>2, <2>3, <2>4, FunctionalGrows
<1>14. Calls'
  <2> SUFFICES ASSUME NEW call \in calls PROVE Bound(classes, call)'
    BY <1>1 DEF Calls
  <2>1. Bound(classes, call) /\ call.callee.class \in 1 .. n /\ call.callee.class # n
    BY <1>1, <1>2 DEF Calls, Bound
  <2> QED
    BY <1>1, <1>6, <2>1 DEF Bound
<1> QED
  BY <1>2, <1>6, <1>7, <1>12, <1>13, <1>14 DEF ClassesInv

-----------------------------------------------------------------------------
LEMMA SameLength == ASSUME NEW a \in Nat, NEW b \in Nat, 1 .. a = 1 .. b PROVE a = b
<1>1. a > b => a \in 1 .. a /\ a \notin 1 .. b
  OBVIOUS
<1>2. b > a => b \in 1 .. b /\ b \notin 1 .. a
  OBVIOUS
<1> QED
  BY <1>1, <1>2

\* A new method and its function take the next place.
LEMMA DeclareMethodKeeps ==
  ASSUME ClassesInv, NEW name \in Names, NEW final \in BOOLEAN, DeclareMethod(name, final)
  PROVE  ClassesInv'
<1> DEFINE n == Len(classes)
           k == Len(classes[n].table) + 1
           m == [class |-> n, name |-> name, final |-> final, vfTableIdx |-> k]
           g == Function(name)
<1>1. /\ open /\ \A i \in DOMAIN classes[n].methods : classes[n].methods[i].name # name
      /\ classes' = [classes EXCEPT ![n].methods = Append(@, m), ![n].table = Append(@, g)]
      /\ functions' = functions \cup {g}
      /\ UNCHANGED <<open, calls>>
  BY DEF DeclareMethod, Last
<1>2. /\ ClassesTyped /\ classes \in Seq(ClassRecords) /\ n \in 1 .. Len(classes) /\ n \in Nat
      /\ Classes /\ Functional(classes, functions) /\ Calls
  BY <1>1 DEF ClassesInv, ClassesTyped, ClassRecords
<1>3. classes[n] \in ClassRecords /\ classes[n].methods \in Seq(Methods) /\ classes[n].table \in Seq(FunctionsOf)
  <2>1. classes[n] \in ClassRecords
    BY <1>2
  <2> QED
    BY <2>1 DEF ClassRecords
<1>4. g \in FunctionsOf /\ g.class = n /\ g.name = name
  BY <1>1, FunctionIds
<1>5. /\ k \in Nat /\ k \notin DOMAIN classes[n].methods /\ k = Len(classes[n].methods) + 1
      /\ DOMAIN classes[n].table = DOMAIN classes[n].methods
  <2>1. DOMAIN classes[n].table = DOMAIN classes[n].methods
    BY <1>2 DEF Classes, Shaped
  <2>2. /\ Len(classes[n].table) \in Nat /\ DOMAIN classes[n].table = 1 .. Len(classes[n].table)
        /\ Len(classes[n].methods) \in Nat /\ DOMAIN classes[n].methods = 1 .. Len(classes[n].methods)
    BY <1>3
  <2>3. Len(classes[n].table) = Len(classes[n].methods)
    <3>1. 1 .. Len(classes[n].table) = 1 .. Len(classes[n].methods)
      BY <2>1, <2>2
    <3> QED
      BY <2>2, <3>1, SameLength
  <2> QED
    BY <2>1, <2>2, <2>3
<1>6. m \in Methods
  BY <1>2, <1>5 DEF Methods
<1>7. /\ classes' \in Seq(ClassRecords) /\ Len(classes') = n
      /\ \A c \in 1 .. n : /\ classes'[c].final = classes[c].final /\ classes'[c].line = classes[c].line
                           /\ c # n => classes'[c] = classes[c]
      /\ DOMAIN classes'[n].methods = DOMAIN classes[n].methods \cup {k}
      /\ DOMAIN classes'[n].table = DOMAIN classes[n].table \cup {k}
      /\ \A i \in DOMAIN classes[n].methods : /\ classes'[n].methods[i] = classes[n].methods[i]
                                              /\ classes'[n].table[i] = classes[n].table[i]
      /\ classes'[n].methods[k] = m /\ classes'[n].table[k] = g
  <2>1. PICK r, t, l : r = [classes[n] EXCEPT !.methods = l, !.table = t]
                       /\ t = Append(classes[n].table, g) /\ l = Append(classes[n].methods, m)
    OBVIOUS
  <2>2. classes' = [classes EXCEPT ![n] = r]
    BY <1>1, <2>1
  <2>3. t \in Seq(FunctionsOf) /\ l \in Seq(Methods)
    BY <1>3, <1>4, <1>6, <2>1
  <2>4. /\ r \in ClassRecords /\ r.final = classes[n].final /\ r.line = classes[n].line
        /\ r.methods = l /\ r.table = t
    BY <1>3, <2>1, <2>3 DEF ClassRecords
  <2>5. /\ classes' \in Seq(ClassRecords) /\ Len(classes') = n
        /\ classes'[n] = r /\ \A c \in 1 .. n : c # n => classes'[c] = classes[c]
    BY <1>2, <2>2, <2>4
  <2>6. /\ DOMAIN l = DOMAIN classes[n].methods \cup {k} /\ l[k] = m
        /\ \A i \in DOMAIN classes[n].methods : l[i] = classes[n].methods[i]
    BY <1>3, <1>5, <2>1
  <2>7. /\ DOMAIN t = DOMAIN classes[n].table \cup {k} /\ t[k] = g
        /\ \A i \in DOMAIN classes[n].table : t[i] = classes[n].table[i]
    <3>1. PICK tt \in Seq(FunctionsOf) : tt = classes[n].table
      BY <1>3
    <3>2. /\ DOMAIN Append(tt, g) = DOMAIN tt \cup {Len(tt) + 1} /\ Append(tt, g)[Len(tt) + 1] = g
          /\ \A i \in DOMAIN tt : Append(tt, g)[i] = tt[i]
      BY <1>4
    <3> QED
      BY <2>1, <3>1, <3>2
  <2> QED
    BY <1>5, <2>4, <2>5, <2>6, <2>7
<1>8. ClassesTyped'
  BY <1>1, <1>2, <1>4, <1>7 DEF ClassesTyped, ClassRecords
<1>9. \A c \in 1 .. n : classes[c].line \subseteq 1 .. c /\ c \in classes[c].line
  BY <1>2 DEF Classes, Lined
<1>10. \A h \in functions : h.class \in 1 .. n /\ ~(h.class = n /\ h.name = name)
  BY <1>1, <1>2 DEF Functional
<1>11. ASSUME NEW c \in 1 .. n, c # n
       PROVE  /\ Shaped(classes', c) /\ Lined(classes', c) /\ Inherited(classes', c) /\ Introduced(classes', c)
              /\ Implemented(classes', functions', c)
  <2>1. /\ Shaped(classes, c) /\ Lined(classes, c) /\ Inherited(classes, c) /\ Introduced(classes, c)
        /\ Implemented(classes, functions, c)
    BY <1>2 DEF Classes
  <2>2. classes'[c] = classes[c] /\ \A o \in classes[c].line : classes'[o] = classes[o]
    BY <1>2, <1>7, <1>9, <1>11
  <2>3. Shaped(classes', c) /\ Lined(classes', c)
    BY <2>1, <2>2 DEF Shaped, Lined
  <2>4. Inherited(classes', c)
    BY <2>1, <2>2 DEF Inherited
  <2>5. Introduced(classes', c)
    BY <2>1, <2>2 DEF Introduced
  <2>6. Implemented(classes', functions', c)
    <3> SUFFICES ASSUME NEW i \in DOMAIN classes[c].methods
                 PROVE  LET p == classes[c].methods[i]
                        IN  /\ Best(functions', classes[c].table[i], p.name, classes[c].line)
                            /\ (p.final \/ classes'[p.class].final) => classes[c].table[i].class = p.class
      BY <2>2 DEF Implemented
    <3>1. classes'[classes[c].methods[i].class] = classes[classes[c].methods[i].class]
      BY <2>1, <2>2 DEF Introduced
    <3>2. g.class \notin classes[c].line
      BY <1>2, <1>4, <1>9, <1>11
    <3>3. Best(functions, classes[c].table[i], classes[c].methods[i].name, classes[c].line)
      BY <2>1 DEF Implemented
    <3>4. Best(functions', classes[c].table[i], classes[c].methods[i].name, classes[c].line)
      BY <1>1, <3>2, <3>3 DEF Best
    <3> QED
      BY <2>1, <3>1, <3>4 DEF Implemented
  <2> QED
    BY <2>3, <2>4, <2>5, <2>6
<1>12. /\ Shaped(classes, n) /\ Lined(classes, n) /\ Inherited(classes, n) /\ Introduced(classes, n)
       /\ Implemented(classes, functions, n)
  BY <1>2 DEF Classes
<1>13. Shaped(classes', n)
  <2>1. \A i \in DOMAIN classes'[n].methods : classes'[n].methods[i].vfTableIdx = i
    BY <1>7, <1>12 DEF Shaped
  <2>2. ASSUME NEW i \in DOMAIN classes'[n].methods, NEW j \in DOMAIN classes'[n].methods,
               classes'[n].methods[i].name = classes'[n].methods[j].name
        PROVE  i = j
    BY <1>1, <1>7, <1>12, <2>2 DEF Shaped
  <2> QED
    BY <1>5, <1>7, <2>1, <2>2 DEF Shaped
<1>14. Lined(classes', n)
  BY <1>2, <1>7, <1>9, <1>12 DEF Lined
<1>15. Inherited(classes', n)
  <2> SUFFICES ASSUME NEW o \in classes[n].line, NEW i \in DOMAIN classes'[o].methods
               PROVE  i \in DOMAIN classes'[n].methods /\ classes'[n].methods[i] = classes'[o].methods[i]
    BY <1>2, <1>7 DEF Inherited
  <2>1. CASE o = n
    BY <2>1
  <2>2. CASE o # n
    <3>1. classes'[o] = classes[o]
      BY <1>2, <1>7, <1>9, <2>2
    <3>2. i \in DOMAIN classes[n].methods /\ classes[n].methods[i] = classes[o].methods[i]
      BY <1>12, <3>1 DEF Inherited
    <3> QED
      BY <1>7, <3>1, <3>2
  <2> QED
    BY <2>1, <2>2
<1>16. Introduced(classes', n)
  <2> SUFFICES ASSUME NEW i \in DOMAIN classes'[n].methods
               PROVE  LET o == classes'[n].methods[i].class
                      IN  o \in classes[n].line /\ i \in DOMAIN classes'[o].methods
    BY <1>2, <1>7 DEF Introduced
  <2>1. CASE i = k
    BY <1>2, <1>7, <1>9, <2>1
  <2>2. CASE i # k
    <3>1. i \in DOMAIN classes[n].methods /\ classes'[n].methods[i] = classes[n].methods[i]
      BY <1>7, <2>2
    <3>2. classes[n].methods[i].class \in classes[n].line /\ i \in DOMAIN classes[classes[n].methods[i].class].methods
      BY <1>12, <3>1 DEF Introduced
    <3> QED
      BY <1>2, <1>7, <1>9, <3>1, <3>2
  <2> QED
    BY <2>1, <2>2
<1>17. Implemented(classes', functions', n)
  <2> SUFFICES ASSUME NEW i \in DOMAIN classes'[n].methods
               PROVE  LET p == classes'[n].methods[i]
                      IN  /\ Best(functions', classes'[n].table[i], p.name, classes[n].line)
                          /\ (p.final \/ classes'[p.class].final) => classes'[n].table[i].class = p.class
    BY <1>2, <1>7 DEF Implemented
  <2>1. CASE i = k
    <3>1. classes'[n].methods[i] = m /\ classes'[n].table[i] = g
      BY <1>7, <2>1
    <3>2. Best(functions', g, name, classes[n].line)
      BY <1>1, <1>2, <1>4, <1>9, <1>10 DEF Best
    <3> QED
      BY <1>4, <3>1, <3>2
  <2>2. CASE i # k
    <3> DEFINE p == classes[n].methods[i]
    <3>1. /\ i \in DOMAIN classes[n].methods /\ classes'[n].methods[i] = p
          /\ classes'[n].table[i] = classes[n].table[i]
      BY <1>7, <2>2
    <3>2. /\ Best(functions, classes[n].table[i], p.name, classes[n].line)
          /\ (p.final \/ classes[p.class].final) => classes[n].table[i].class = p.class
          /\ p.class \in 1 .. n
      BY <1>2, <1>9, <1>12, <3>1 DEF Implemented, Introduced
    <3>3. Best(functions', classes[n].table[i], p.name, classes[n].line)
      BY <1>1, <1>4, <3>1, <3>2 DEF Best
    <3> QED
      BY <1>7, <3>1, <3>2, <3>3
  <2> QED
    BY <2>1, <2>2
<1>18. Classes'
  BY <1>7, <1>11, <1>13, <1>14, <1>15, <1>16, <1>17 DEF Classes
<1>19. Functional(classes', functions')
  <2>1. \A h \in functions : ~(h.class = g.class /\ h.name = g.name)
    BY <1>4, <1>10
  <2>2. Functional(classes', functions)
    <3>1. ASSUME NEW h \in functions
          PROVE  \E i \in DOMAIN classes'[h.class].methods : classes'[h.class].methods[i].name = h.name
      <4>1. h.class \in 1 .. n
        BY <1>10
      <4>2. PICK i \in DOMAIN classes[h.class].methods : classes[h.class].methods[i].name = h.name
        BY <1>2 DEF Functional
      <4>3. i \in DOMAIN classes'[h.class].methods /\ classes'[h.class].methods[i] = classes[h.class].methods[i]
        BY <1>7, <4>1, <4>2
      <4> QED
        BY <4>2, <4>3
    <3> QED
      BY <1>2, <1>7, <3>1 DEF Functional
  <2>3. \E j \in DOMAIN classes'[g.class].methods : classes'[g.class].methods[j].name = g.name
    BY <1>4, <1>7
  <2>4. g.class \in 1 .. Len(classes')
    BY <1>2, <1>4, <1>7
  <2> HIDE DEF g
  <2>5. Functional(classes', functions \cup {g})
    BY <2>1, <2>2, <2>3, <2>4, FunctionalGrows
  <2> QED
    BY <1>1, <2>5
<1>20. Calls'
  <2> SUFFICES ASSUME NEW call \in calls PROVE Bound(classes, call)'
    BY <1>1 DEF Calls
  <2>1. Bound(classes, call) /\ call.callee.class \in 1 .. n /\ call.callee.class # n
    BY <1>1, <1>2 DEF Calls, Bound
  <2> QED
    BY <1>1, <1>7, <2>1 DEF Bound
<1> QED
  BY <1>2, <1>7, <1>8, <1>18, <1>19, <1>20 DEF ClassesInv

-----------------------------------------------------------------------------
LEMMA EndClassKeeps == ASSUME ClassesInv, EndClass PROVE ClassesInv'
<1>1. open' = FALSE /\ UNCHANGED <<classes, functions, calls>>
  BY DEF EndClass
<1>2. ClassesTyped'
  BY <1>1 DEF ClassesInv, ClassesTyped
<1>3. Calls'
  BY <1>1 DEF ClassesInv, Calls, Bound
<1> QED
  BY <1>1, <1>2, <1>3 DEF ClassesInv, Classes

\* The function of a final method is found, and it is the one in the table.
LEMMA Matched ==
  ASSUME ClassesInv, NEW o \in 1 .. Len(classes), NEW i \in DOMAIN classes[o].methods,
         classes[o].methods[i].class = o, classes[o].methods[i].final \/ classes[o].final
  PROVE  get_nonvirtual_match(classes[o].methods[i]) = classes[o].table[i]
<1> DEFINE m == classes[o].methods[i]
           fun == classes[o].table[i]
           found == {g \in Candidates(m) : SameDeclaration(m, g)}
<1>1. Shaped(classes, o) /\ Implemented(classes, functions, o) /\ Functional(classes, functions)
  BY DEF ClassesInv, Classes
<1>2. fun \in functions /\ fun.class = o /\ fun.name = m.name
  BY <1>1 DEF Implemented, Best
<1>3. Candidates(m) = {classes[o].table[j] : j \in DOMAIN classes[o].methods}
  BY <1>1 DEF Candidates, Shaped
<1>4. fun \in found
  BY <1>2, <1>3 DEF SameDeclaration
<1>5. \A g \in found : g = fun
  <2> SUFFICES ASSUME NEW j \in DOMAIN classes[o].methods,
                      classes[o].table[j].class = o, classes[o].table[j].name = m.name
               PROVE  classes[o].table[j] = fun
    BY <1>3 DEF SameDeclaration
  <2>1. classes[o].table[j] \in functions
    BY <1>1 DEF Implemented, Best
  <2> QED
    BY <1>1, <1>2, <2>1 DEF Functional
<1>6. found # {} /\ (CHOOSE g \in found : TRUE) = fun
  BY <1>4, <1>5
<1> QED
  BY <1>6 DEF get_nonvirtual_match

LEMMA EmitCallKeeps ==
  ASSUME ClassesInv, NEW c \in 1 .. Len(classes), NEW i \in DOMAIN classes[c].methods, NEW allow \in BOOLEAN,
         EmitCall(c, i, allow)
  PROVE  ClassesInv'
<1> DEFINE m == classes[c].methods[i]
           o == m.class
           direct == allow /\ IsFinal(m, c)
           fun == IF direct THEN get_nonvirtual_match(m) ELSE None
           call == [callee |-> m, direct |-> direct, function |-> fun]
<1>1. ~open /\ calls' = calls \cup {call} /\ UNCHANGED <<classes, open, functions>>
  BY DEF EmitCall
<1>2. /\ ClassesTyped /\ Classes /\ Calls /\ classes \in Seq(ClassRecords)
      /\ Shaped(classes, c) /\ Lined(classes, c) /\ Inherited(classes, c) /\ Introduced(classes, c)
  BY DEF ClassesInv, ClassesTyped, ClassRecords, Classes
<1>3. /\ o \in classes[c].line /\ o \in 1 .. Len(classes)
      /\ i \in DOMAIN classes[o].methods /\ classes[o].methods[i] = m
  BY <1>2 DEF Introduced, Inherited, Lined
<1>4. direct => fun = classes[o].table[i]
  BY <1>3, Matched DEF IsFinal
<1>5. i \in DOMAIN classes[o].table /\ m.vfTableIdx = i
  BY <1>2, <1>3 DEF Classes, Shaped
<1>6. classes[o] \in ClassRecords /\ classes[o].table \in Seq(FunctionsOf)
  <2>1. classes[o] \in ClassRecords
    BY <1>2, <1>3
  <2> QED
    BY <2>1 DEF ClassRecords
<1>7. m \in Methods
  <2>1. classes[c] \in ClassRecords
    BY <1>2
  <2>2. classes[c].methods \in Seq(Methods)
    BY <2>1 DEF ClassRecords
  <2> QED
    BY <2>2
<1>8. fun \in FunctionsOf \cup {None}
  BY <1>4, <1>5, <1>6
<1>9. direct \in BOOLEAN
  <2>1. m.final \in BOOLEAN /\ classes[o].final \in BOOLEAN
    BY <1>6, <1>7 DEF Methods, ClassRecords
  <2> QED
    BY <2>1 DEF IsFinal
<1>10. ClassesTyped'
  <2> HIDE DEF direct, fun, m
  <2>1. call \in [callee : Methods, direct : BOOLEAN, function : FunctionsOf \cup {None}]
    BY <1>7, <1>8, <1>9
  <2> HIDE DEF call
  <2> QED
    BY <1>1, <1>2, <2>1 DEF ClassesTyped
<1>11. Bound(classes, call)
  <2>1. direct => m.final \/ classes[o].final
    BY DEF IsFinal
  <2> QED
    BY <1>1, <1>3, <1>4, <1>5, <2>1 DEF Bound
<1>12. Calls'
  <2> HIDE DEF call
  <2> QED
    BY <1>1, <1>2, <1>11 DEF Calls, Bound
<1> QED
  BY <1>1, <1>10, <1>12 DEF ClassesInv, Classes

-----------------------------------------------------------------------------
\* The classes agree with the calls bound to them, however many are declared.
THEOREM TablesAgree == ClassesSpec => []ClassesInv
<1>1. ASSUME ClassesInv, [ClassesNext]_classVars PROVE ClassesInv'
  <2>1. ASSUME NEW base \in 0 .. Last, NEW final \in BOOLEAN, DeclareClass(base, final) PROVE ClassesInv'
    BY <1>1, <2>1, DeclareClassKeeps DEF Last
  <2>2. ASSUME NEW i \in DOMAIN classes[Last].methods, Override(i) PROVE ClassesInv'
    BY <1>1, <2>2, OverrideKeeps
  <2>3. ASSUME NEW name \in Names, NEW final \in BOOLEAN, DeclareMethod(name, final) PROVE ClassesInv'
    BY <1>1, <2>3, DeclareMethodKeeps
  <2>4. CASE EndClass
    BY <1>1, <2>4, EndClassKeeps
  <2>5. ASSUME NEW c \in 1 .. Last, NEW allow \in BOOLEAN, NEW i \in DOMAIN classes[c].methods,
               EmitCall(c, i, allow)
        PROVE  ClassesInv'
    BY <1>1, <2>5, EmitCallKeeps DEF Last
  <2>6. CASE UNCHANGED classVars
    BY <1>1, <2>6 DEF classVars, ClassesInv, ClassesTyped, Classes, Calls, Bound
  <2> QED
    BY <1>1, <2>1, <2>2, <2>3, <2>4, <2>5, <2>6 DEF ClassesNext
<1> QED
  BY <1>1, ClassesInitially, PTL DEF ClassesSpec

\* Every variable keeps its type, for any classes, methods and calls.
THEOREM ClassesTypeCorrect == ClassesSpec => []ClassesTyped
<1>1. ClassesInv => ClassesTyped
  BY DEF ClassesInv
<1> QED
  BY <1>1, TablesAgree, PTL

\* What resolve_virtual_script_function binds a call to, or looks up when it is
\* made, is the function of the class of the object.
THEOREM DirectIsVirtual == ClassesSpec => []CallsReachOverride
<1>1. ClassesInv => CallsReachOverride
  <2> SUFFICES ASSUME ClassesInv, NEW call \in calls, NEW c \in 1 .. Len(classes),
                      call.callee.class \in classes[c].line
               PROVE  Overrides(Called(call, c), call.callee.name, c)
    BY DEF CallsReachOverride, Last
  <2> DEFINE m == call.callee
             o == m.class
             i == m.vfTableIdx
  <2>1. Bound(classes, call) /\ Classes /\ Functional(classes, functions)
    BY DEF ClassesInv, Calls
  <2>2. o \in 1 .. Len(classes) /\ i \in DOMAIN classes[o].methods /\ classes[o].methods[i] = m
    BY <2>1 DEF Bound
  <2>3. i \in DOMAIN classes[c].methods /\ classes[c].methods[i] = m
    BY <2>1, <2>2 DEF Classes, Inherited
  <2>4. /\ Best(functions, classes[c].table[i], m.name, classes[c].line)
        /\ (m.final \/ classes[o].final) => classes[c].table[i].class = o
    BY <2>1, <2>3 DEF Classes, Implemented
  <2>5. Overrides(classes[c].table[i], m.name, c)
    BY <2>4 DEF Best, Overrides
  <2>6. CASE call.direct
    <3>1. (m.final \/ classes[o].final) /\ call.function = classes[o].table[i]
      BY <2>1, <2>6 DEF Bound
    <3>2. /\ Best(functions, classes[o].table[i], m.name, classes[o].line)
          /\ classes[o].table[i].class = o
      BY <2>1, <2>2, <3>1 DEF Classes, Implemented
    <3>3. classes[o].table[i] = classes[c].table[i]
      BY <2>1, <2>4, <3>1, <3>2 DEF Best, Functional
    <3> QED
      BY <2>5, <2>6, <3>1, <3>3 DEF Called
  <2>7. CASE ~call.direct
    BY <2>5, <2>7 DEF Called, script_vtable_lookup
  <2> QED
    BY <2>6, <2>7
<1> QED
  BY <1>1, TablesAgree, PTL

\* The assertion after get_nonvirtual_match holds.
THEOREM AlwaysMatched == ClassesSpec => []MatchFound
<1>1. ClassesInv => MatchFound
  <2> SUFFICES ASSUME ClassesInv, NEW call \in calls, call.direct PROVE call.function # None
    BY DEF MatchFound
  <2> DEFINE o == call.callee.class
             i == call.callee.vfTableIdx
  <2>1. Bound(classes, call) /\ Classes /\ functions \subseteq FunctionsOf
    BY DEF ClassesInv, Calls, ClassesTyped
  <2>2. o \in 1 .. Len(classes) /\ i \in DOMAIN classes[o].methods /\ call.function = classes[o].table[i]
    BY <2>1 DEF Bound
  <2>3. classes[o].table[i] \in functions
    BY <2>1, <2>2 DEF Classes, Implemented, Best
  <2> QED
    BY <2>1, <2>2, <2>3 DEF NamesAssumption
<1> QED
  BY <1>1, TablesAgree, PTL

\* Together: a call that is bound early does what a lookup would do later.
THEOREM BindingSafe == ClassesSpec => []BindingRight
<1>1. ClassesTyped /\ CallsReachOverride /\ MatchFound => BindingRight
  BY DEF BindingRight
<1> QED
  BY <1>1, ClassesTypeCorrect, DirectIsVirtual, AlwaysMatched, PTL
=============================================================================
