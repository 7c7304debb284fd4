------------------------- MODULE FunctionBuilderProofs -------------------------
(***************************************************************************)
(* What FunctionBuilder makes of a function.                                *)
(*                                                                          *)
(* RefCounting: counts are references and what was lost, and nothing        *)
(* dangles, for any objects and places, of scripts that set every handle    *)
(* they leave and copy no null: elsewhere the code does not keep it.        *)
(*                                                                          *)
(* Translator: for every program the compiler of AngelScript may emit,      *)
(* blocks are complete and native code takes the paths of the bytecode.     *)
(***************************************************************************)
EXTENDS RefCounting, Translator, FiniteSetTheorems, TLAPS

-----------------------------------------------------------------------------
(* Objects and reference counts.                                             *)

Alive(p) == meant[p] # Null => meant[p] \in born \ gone
TopAlive == top # "none" => top \in born \ gone /\ Kind[top] # "value"
UnbornLostNothing == \A o \in Objects \ born : lost[o] = 0
Disciplined == ~FreesNull /\ ~CopiesNull

\* What the script holds is alive, and nothing was called on null.
ReferencesIInv ==
  /\ TypeOK /\ PointersAgree /\ CountsExplained /\ NoneDangles
  /\ \A p \in Places : Alive(p)
  /\ UnbornLostNothing /\ TopAlive /\ ~onNull

USE PlacesAssumption

-----------------------------------------------------------------------------
(* References before and after                                               *)

Pointers == [Places -> Objects \cup {Null}]

LEMMA PlacesFinite ==
  /\ IsFiniteSet(Places)
  /\ "register" \in Places /\ "argument" \in Places /\ "register" # "argument"
  /\ Variables \subseteq Places /\ Globals \subseteq Places
  /\ "register" \notin Variables /\ "argument" \notin Variables
<1>1. IsFiniteSet({"register", "argument"})
  <2>1. IsFiniteSet({"register"}) /\ IsFiniteSet({"argument"})
    BY FS_Singleton
  <2>2. {"register", "argument"} = {"register"} \cup {"argument"}
    OBVIOUS
  <2> QED
    BY <2>1, <2>2, FS_Union
<1>2. IsFiniteSet(Variables \cup Globals)
  BY FS_Union DEF PlacesAssumption
<1>3. Places = (Variables \cup Globals) \cup {"register", "argument"}
  BY DEF Places
<1>4. IsFiniteSet(Places)
  BY <1>1, <1>2, <1>3, FS_Union
<1> QED
  BY <1>4 DEF Places, PlacesAssumption

LEMMA ReferencesFinite ==
  ASSUME NEW m, NEW o
  PROVE  IsFiniteSet(References(m, o)) /\ Cardinality(References(m, o)) \in Nat
<1>1. References(m, o) \in SUBSET Places
  BY DEF References
<1>2. IsFiniteSet(References(m, o))
  BY <1>1, PlacesFinite, FS_Subset
<1> QED
  BY <1>2, FS_CardinalityType

\* A place gets another pointer: the old object loses a reference, the new one
\* gains it.
LEMMA Assigned ==
  ASSUME NEW m \in Pointers, NEW p \in Places, NEW q \in Objects \cup {Null}, NEW o \in Objects
  PROVE  Cardinality(References([m EXCEPT ![p] = q], o)) =
           Cardinality(References(m, o))
             + (IF q = o /\ m[p] # o THEN 1 ELSE 0) - (IF m[p] = o /\ q # o THEN 1 ELSE 0)
<1> DEFINE n == [m EXCEPT ![p] = q]
<1>1. n[p] = q /\ \A x \in Places : x # p => n[x] = m[x]
  BY DEF Pointers
<1>2. IsFiniteSet(References(m, o)) /\ Cardinality(References(m, o)) \in Nat
  BY ReferencesFinite
<1>3. CASE q = o /\ m[p] # o
  <2>1. References(n, o) = References(m, o) \cup {p} /\ p \notin References(m, o)
    BY <1>1, <1>3 DEF References
  <2>2. Cardinality(References(n, o)) = Cardinality(References(m, o)) + 1
    BY <1>2, <2>1, FS_AddElement
  <2> QED
    BY <1>2, <1>3, <2>2
<1>4. CASE m[p] = o /\ q # o
  <2>1. References(n, o) = References(m, o) \ {p} /\ p \in References(m, o)
    BY <1>1, <1>4 DEF References
  <2>2. Cardinality(References(n, o)) = Cardinality(References(m, o)) - 1
    BY <1>2, <2>1, FS_RemoveElement
  <2> QED
    BY <1>2, <1>4, <2>2
<1>5. CASE (q = o) = (m[p] = o)
  <2>1. References(n, o) = References(m, o)
    BY <1>1, <1>5 DEF References
  <2> QED
    BY <1>2, <1>5, <2>1
<1> QED
  BY <1>3, <1>4, <1>5

\* The references of an object at some places.
LEMMA ReferenceAt ==
  ASSUME NEW m \in Pointers, NEW p \in Places, NEW o \in Objects
  PROVE  Cardinality(References(m, o) \cap {p}) = IF m[p] = o THEN 1 ELSE 0
<1>1. CASE m[p] = o
  <2>1. References(m, o) \cap {p} = {p}
    BY <1>1 DEF References
  <2> QED
    BY <1>1, <2>1, FS_Singleton
<1>2. CASE m[p] # o
  <2>1. References(m, o) \cap {p} = {}
    BY <1>2 DEF References
  <2> QED
    BY <1>2, <2>1, FS_EmptySet
<1> QED
  BY <1>1, <1>2

LEMMA OnlyReference ==
  ASSUME NEW m \in Pointers, NEW p \in Places, NEW o \in Objects,
         m[p] = o, Cardinality(References(m, o)) = 1
  PROVE  \A x \in Places : m[x] = o => x = p
<1>1. IsFiniteSet(References(m, o))
  BY ReferencesFinite
<1>2. PICK y : References(m, o) = {y}
  BY <1>1, FS_Singleton
<1> QED
  BY <1>2 DEF References

LEMMA Referenced ==
  ASSUME NEW m \in Pointers, NEW p \in Places, NEW o \in Objects, m[p] = o
  PROVE  Cardinality(References(m, o)) >= 1
<1>1. IsFiniteSet(References(m, o)) /\ Cardinality(References(m, o)) \in Nat
  BY ReferencesFinite
<1>2. p \in References(m, o)
  BY DEF References
<1>3. Cardinality(References(m, o)) # 0
  BY <1>1, <1>2, FS_EmptySet
<1> QED
  BY <1>1, <1>3

LEMMA NothingDangles ==
  ASSUME NEW m \in Pointers, NEW g \in SUBSET Objects,
         \A p \in Places : m[p] # Null => m[p] \notin g
  PROVE  \A o \in g : References(m, o) = {}
<1>1. Null \notin g
  BY DEF PlacesAssumption
<1> QED
  BY <1>1 DEF References

-----------------------------------------------------------------------------
LEMMA Initially == Init => ReferencesIInv
<1> SUFFICES ASSUME Init PROVE ReferencesIInv
  OBVIOUS
<1>1. TypeOK
  <2>1. 0 \in 0 .. MaxCount /\ 0 \in Nat
    BY DEF PlacesAssumption
  <2>2. native \in [Places -> Objects \cup {Null}] /\ meant \in [Places -> Objects \cup {Null}]
    BY DEF Init
  <2>3. count \in [Objects -> 0 .. MaxCount] /\ lost \in [Objects -> Nat]
    BY <2>1 DEF Init
  <2>4. gone \subseteq born /\ born \subseteq Objects /\ onNull \in BOOLEAN /\ top = "none"
    BY DEF Init
  <2> QED
    BY <2>2, <2>3, <2>4 DEF TypeOK
<1> QED
  BY <1>1 DEF Init, ReferencesIInv, PointersAgree, CountsExplained, NoneDangles, Alive, UnbornLostNothing, TopAlive

\* A reference moves.
LEMMA MoveKeeps ==
  ASSUME ReferencesIInv, NEW from \in Places, NEW to \in Places, from # to, Move(from, to)
  PROVE  ReferencesIInv'
<1>1. /\ meant[from] # Null /\ meant[to] = Null
      /\ native' = Moved(native, from, to)
      /\ meant' = [meant EXCEPT ![to] = meant[from], ![from] = Null]
      /\ UNCHANGED <<top, count, born, gone, lost, onNull>>
  BY DEF Move
<1>2. TypeOK /\ native \in Pointers /\ meant \in Pointers
  BY DEF ReferencesIInv, TypeOK, Pointers
<1>3. native[from] = meant[from] /\ meant[from] \in Objects
  BY <1>1, <1>2 DEF ReferencesIInv, PointersAgree, Pointers
<1>4. /\ meant'[to] = meant[from] /\ meant'[from] = Null
      /\ native'[to] = native[from] /\ native'[from] = Null
      /\ \A x \in Places : x # from /\ x # to => meant'[x] = meant[x] /\ native'[x] = native[x]
      /\ native' \in Pointers /\ meant' \in Pointers
  BY <1>1, <1>2, <1>3 DEF Moved, Pointers
<1>5. TypeOK'
  BY <1>1, <1>2, <1>4 DEF TypeOK, Pointers
<1>6. PointersAgree'
  BY <1>3, <1>4 DEF ReferencesIInv, PointersAgree
<1>7. \A o \in Objects : Cardinality(References(meant', o)) = Cardinality(References(meant, o))
  <2> SUFFICES ASSUME NEW o \in Objects
               PROVE  Cardinality(References(meant', o)) = Cardinality(References(meant, o))
    OBVIOUS
  <2> DEFINE m == [meant EXCEPT ![to] = meant[from]]
  <2>1. m \in Pointers /\ meant' = [m EXCEPT ![from] = Null] /\ m[from] = meant[from]
    BY <1>1, <1>2, <1>3 DEF Pointers
  <2>2. Cardinality(References(m, o)) =
          Cardinality(References(meant, o)) + (IF meant[from] = o THEN 1 ELSE 0)
    <3>1. meant[to] # o
      BY <1>1 DEF PlacesAssumption
    <3>2. Cardinality(References(meant, o)) \in Nat
      BY ReferencesFinite
    <3>3. Cardinality(References(m, o)) =
            Cardinality(References(meant, o))
              + (IF meant[from] = o /\ meant[to] # o THEN 1 ELSE 0)
              - (IF meant[to] = o /\ meant[from] # o THEN 1 ELSE 0)
      BY <1>2, <1>3, Assigned
    <3> QED
      BY <3>1, <3>2, <3>3
  <2>3. Cardinality(References(meant', o)) =
          Cardinality(References(m, o)) - (IF meant[from] = o THEN 1 ELSE 0)
    <3>1. Null # o
      BY DEF PlacesAssumption
    <3>2. Cardinality(References(m, o)) \in Nat
      BY ReferencesFinite
    <3>3. Cardinality(References([m EXCEPT ![from] = Null], o)) =
            Cardinality(References(m, o))
              + (IF Null = o /\ m[from] # o THEN 1 ELSE 0)
              - (IF m[from] = o /\ Null # o THEN 1 ELSE 0)
      <4>1. m \in Pointers /\ Null \in Objects \cup {Null}
        BY <2>1
      <4> HIDE DEF m
      <4> QED
        BY <4>1, Assigned
    <3> QED
      BY <2>1, <3>1, <3>2, <3>3
  <2>4. Cardinality(References(meant, o)) \in Nat
    BY ReferencesFinite
  <2> QED
    BY <2>2, <2>3, <2>4
<1>8. CountsExplained'
  BY <1>1, <1>2, <1>7 DEF ReferencesIInv, CountsExplained, TypeOK
<1>9. \A p \in Places : Alive(p)'
  BY <1>1, <1>4 DEF ReferencesIInv, Alive
<1>10. NoneDangles'
  <2>1. \A p \in Places : meant'[p] # Null => meant'[p] \notin gone
    BY <1>1, <1>9 DEF Alive
  <2> QED
    BY <1>1, <1>2, <1>4, <2>1, NothingDangles DEF NoneDangles, TypeOK
<1>11. UnbornLostNothing' /\ TopAlive' /\ ~onNull'
  BY <1>1 DEF ReferencesIInv, UnbornLostNothing, TopAlive
<1> QED
  BY <1>5, <1>6, <1>8, <1>9, <1>10, <1>11 DEF ReferencesIInv

-----------------------------------------------------------------------------
\* A new object counts one reference.
LEMMA ALLOCKeeps ==
  ASSUME ReferencesIInv, NEW v \in Variables, NEW o \in Objects, ALLOC(v, o)
  PROVE  ReferencesIInv'
<1>1. /\ Running /\ o \notin born /\ meant[v] = Null
      /\ native' = [native EXCEPT ![v] = o] /\ meant' = [meant EXCEPT ![v] = o]
      /\ born' = born \cup {o}
      /\ count' = [count EXCEPT ![o] = 1]
      /\ UNCHANGED <<top, gone, lost, onNull>>
  BY DEF ALLOC
<1>2. TypeOK /\ native \in Pointers /\ meant \in Pointers /\ v \in Places
  BY PlacesFinite DEF ReferencesIInv, TypeOK, Pointers
<1>3. o # Null /\ 1 \in 0 .. MaxCount /\ o \notin gone
  BY <1>1, <1>2 DEF PlacesAssumption, TypeOK
<1>4. /\ native' \in Pointers /\ meant' \in Pointers
      /\ meant'[v] = o /\ native'[v] = o
      /\ \A p \in Places : p # v => meant'[p] = meant[p] /\ native'[p] = native[p]
  BY <1>1, <1>2 DEF Pointers
<1>5. count' \in [Objects -> 0 .. MaxCount] /\ count'[o] = 1 /\ \A x \in Objects : x # o => count'[x] = count[x]
  BY <1>1, <1>2, <1>3 DEF TypeOK
<1>6. TypeOK'
  BY <1>1, <1>2, <1>4, <1>5 DEF TypeOK, Pointers
<1>7. PointersAgree'
  BY <1>4 DEF ReferencesIInv, PointersAgree
<1>8. \A p \in Places : Alive(p)'
  BY <1>1, <1>3, <1>4 DEF ReferencesIInv, Alive
<1>9. NoneDangles'
  <2>1. \A p \in Places : meant'[p] # Null => meant'[p] \notin gone
    BY <1>1, <1>8 DEF Alive
  <2> QED
    BY <1>1, <1>2, <1>4, <2>1, NothingDangles DEF NoneDangles, TypeOK
<1>10. CountsExplained'
  <2> SUFFICES ASSUME NEW x \in born' \ gone', Kind[x] # "uncounted"
               PROVE  count'[x] = Cardinality(References(meant', x)) + lost'[x]
    BY DEF CountsExplained
  <2>1. x \in Objects
    BY <1>6 DEF TypeOK
  <2>2. Cardinality(References(meant', x)) =
          Cardinality(References(meant, x))
            + (IF o = x /\ meant[v] # x THEN 1 ELSE 0) - (IF meant[v] = x /\ o # x THEN 1 ELSE 0)
    <3>1. Cardinality(References([meant EXCEPT ![v] = o], x)) =
            Cardinality(References(meant, x))
              + (IF o = x /\ meant[v] # x THEN 1 ELSE 0) - (IF meant[v] = x /\ o # x THEN 1 ELSE 0)
      BY <1>2, <2>1, Assigned
    <3> QED
      BY <1>1, <3>1
  <2>3. meant[v] # x /\ Cardinality(References(meant, x)) \in Nat
    BY <1>1, <2>1, ReferencesFinite DEF PlacesAssumption
  <2>4. CASE x = o
    <3>1. References(meant, o) = {}
      BY <1>1, <1>3 DEF References, ReferencesIInv, Alive
    <3>2. Cardinality(References(meant, o)) = 0
      BY <3>1, FS_EmptySet
    <3>3. lost'[o] = 0
      BY <1>1 DEF ReferencesIInv, UnbornLostNothing
    <3> QED
      BY <1>5, <2>2, <2>3, <2>4, <3>2, <3>3
  <2>5. CASE x # o
    <3>1. Cardinality(References(meant', x)) = Cardinality(References(meant, x))
      BY <2>2, <2>3, <2>5
    <3>2. x \in born \ gone
      BY <1>1, <2>5
    <3> QED
      BY <1>1, <1>5, <2>1, <2>5, <3>1, <3>2 DEF ReferencesIInv, CountsExplained
  <2> QED
    BY <2>4, <2>5
<1>11. UnbornLostNothing' /\ TopAlive' /\ ~onNull'
  BY <1>1 DEF ReferencesIInv, UnbornLostNothing, TopAlive
<1> QED
  BY <1>6, <1>7, <1>8, <1>9, <1>10, <1>11 DEF ReferencesIInv

\* A variable gives up its reference, and its object goes with the last one.
LEMMA FREEKeeps ==
  ASSUME ReferencesIInv, Disciplined, NEW v \in Variables, FREE(v)
  PROVE  ReferencesIInv'
<1> DEFINE o == meant[v]
<1>1. v \in Places /\ TypeOK /\ native \in Pointers /\ meant \in Pointers
  BY PlacesFinite DEF ReferencesIInv, TypeOK, Pointers
<1>2. o # Null /\ native[v] = o /\ o \in Objects /\ o \in born \ gone
  BY <1>1 DEF FREE, Disciplined, ReferencesIInv, PointersAgree, Pointers, Alive
<1>3. /\ meant' = [meant EXCEPT ![v] = Null]
      /\ Released(o)
      /\ UNCHANGED <<native, top, born, lost, onNull>>
  BY <1>2 DEF FREE
<1>4. /\ meant' \in Pointers /\ meant'[v] = Null
      /\ \A p \in Places : p # v => meant'[p] = meant[p]
  BY <1>1, <1>3 DEF Pointers
<1>5. \A x \in Objects :
        Cardinality(References(meant', x)) =
          Cardinality(References(meant, x)) - (IF o = x THEN 1 ELSE 0)
  <2> SUFFICES ASSUME NEW x \in Objects
               PROVE  Cardinality(References(meant', x)) =
                        Cardinality(References(meant, x)) - (IF o = x THEN 1 ELSE 0)
    OBVIOUS
  <2>1. Cardinality(References(meant', x)) =
          Cardinality(References(meant, x))
            + (IF Null = x /\ meant[v] # x THEN 1 ELSE 0) - (IF meant[v] = x /\ Null # x THEN 1 ELSE 0)
    <3>1. Cardinality(References([meant EXCEPT ![v] = Null], x)) =
            Cardinality(References(meant, x))
              + (IF Null = x /\ meant[v] # x THEN 1 ELSE 0) - (IF meant[v] = x /\ Null # x THEN 1 ELSE 0)
      BY <1>1, Assigned
    <3> QED
      BY <1>3, <3>1
  <2>2. Null # x /\ Cardinality(References(meant, x)) \in Nat
    BY ReferencesFinite DEF PlacesAssumption
  <2> QED
    BY <2>1, <2>2
<1>6. Kind[o] # "uncounted" => count[o] = Cardinality(References(meant, o)) + lost[o]
  BY <1>2 DEF ReferencesIInv, CountsExplained
<1>7. /\ Cardinality(References(meant, o)) >= 1 /\ Cardinality(References(meant, o)) \in Nat
      /\ lost[o] \in Nat /\ count[o] \in 0 .. MaxCount /\ MaxCount \in Nat
  BY <1>1, <1>2, Referenced, ReferencesFinite DEF TypeOK, PlacesAssumption
<1>8. /\ count' \in [Objects -> 0 .. MaxCount]
      /\ Kind[o] # "uncounted" => count'[o] = count[o] - 1
      /\ \A x \in Objects : x # o => count'[x] = count[x]
  <2>1. CASE Kind[o] = "uncounted"
    <3>1. count' = [count EXCEPT ![o] = count[o]]
      BY <1>3, <2>1 DEF Released
    <3> QED
      BY <1>1, <2>1, <3>1 DEF TypeOK
  <2>2. CASE Kind[o] # "uncounted"
    <3>1. count' = [count EXCEPT ![o] = count[o] - 1]
      BY <1>3, <2>2 DEF Released
    <3>2. count[o] - 1 \in 0 .. MaxCount
      BY <1>6, <1>7, <2>2
    <3> QED
      BY <1>1, <1>2, <3>1, <3>2 DEF TypeOK
  <2> QED
    BY <2>1, <2>2
<1>9. gone' = IF Kind[o] # "uncounted" /\ count[o] = 1 THEN gone \cup {o} ELSE gone
  BY <1>3 DEF Released
<1>10. TypeOK'
  BY <1>1, <1>2, <1>3, <1>4, <1>8, <1>9 DEF TypeOK, Pointers
<1>11. PointersAgree'
  BY <1>3, <1>4 DEF ReferencesIInv, PointersAgree
<1>12. gone' # gone => \A p \in Places : meant'[p] # o
  <2> SUFFICES ASSUME gone' # gone PROVE \A p \in Places : meant'[p] # o
    OBVIOUS
  <2>1. Kind[o] # "uncounted" /\ count[o] = 1
    BY <1>9
  <2>2. Cardinality(References(meant, o)) = 1
    BY <1>6, <1>7, <2>1
  <2>3. \A p \in Places : meant[p] = o => p = v
    BY <1>1, <1>2, <2>2, OnlyReference
  <2> QED
    BY <1>2, <1>4, <2>3
<1>13. \A p \in Places : Alive(p)'
  BY <1>3, <1>4, <1>9, <1>12 DEF ReferencesIInv, Alive
<1>14. NoneDangles'
  <2>1. \A p \in Places : meant'[p] # Null => meant'[p] \notin gone'
    BY <1>13 DEF Alive
  <2>2. gone' \in SUBSET Objects
    BY <1>10 DEF TypeOK
  <2> QED
    BY <1>4, <2>1, <2>2, NothingDangles DEF NoneDangles
<1>15. CountsExplained'
  <2> SUFFICES ASSUME NEW x \in born' \ gone', Kind[x] # "uncounted"
               PROVE  count'[x] = Cardinality(References(meant', x)) + lost'[x]
    BY DEF CountsExplained
  <2>1. x \in Objects /\ x \in born \ gone
    BY <1>1, <1>3, <1>9 DEF TypeOK
  <2>2. count[x] = Cardinality(References(meant, x)) + lost[x]
    BY <2>1 DEF ReferencesIInv, CountsExplained
  <2>3. Cardinality(References(meant, x)) \in Nat /\ lost[x] \in Nat
    BY <1>1, <2>1, ReferencesFinite DEF TypeOK
  <2>4. CASE x = o
    <3>1. count'[o] = count[o] - 1
      BY <1>8, <2>4
    <3>2. Cardinality(References(meant', x)) = Cardinality(References(meant, x)) - 1
      BY <1>5, <2>1, <2>4
    <3> QED
      BY <1>3, <2>2, <2>3, <2>4, <3>1, <3>2
  <2>5. CASE x # o
    <3>1. Cardinality(References(meant', x)) = Cardinality(References(meant, x)) - 0
      BY <1>5, <2>1, <2>5
    <3> QED
      BY <1>3, <1>8, <2>1, <2>2, <2>3, <2>5, <3>1
  <2> QED
    BY <2>4, <2>5
<1>16. UnbornLostNothing' /\ ~onNull'
  BY <1>3 DEF ReferencesIInv, UnbornLostNothing
<1>17. TopAlive'
  BY <1>3 DEF FREE, Running, TopAlive
<1> QED
  BY <1>10, <1>11, <1>13, <1>14, <1>15, <1>16, <1>17 DEF ReferencesIInv

-----------------------------------------------------------------------------
(* A pointer is pushed, copied and popped                                    *)

LEMMA PushPointerKeeps ==
  ASSUME ReferencesIInv, Disciplined, NEW p \in Variables \cup Globals, PushPointer(p)
  PROVE  ReferencesIInv'
<1>1. /\ meant[p] # Null /\ Kind[meant[p]] # "value"
      /\ top' = native[p]
      /\ UNCHANGED <<native, meant, count, born, gone, lost, onNull>>
  BY DEF PushPointer, Disciplined
<1>2. p \in Places
  BY PlacesFinite
<1>3. top' = meant[p] /\ meant[p] \in born \ gone
  BY <1>1, <1>2 DEF ReferencesIInv, PointersAgree, Alive
<1>4. TopAlive'
  BY <1>1, <1>3 DEF TopAlive
<1>5. TypeOK'
  BY <1>1, <1>3 DEF ReferencesIInv, TypeOK
<1> QED
  BY <1>1, <1>4, <1>5
     DEF ReferencesIInv, PointersAgree, CountsExplained, NoneDangles, References, Alive, UnbornLostNothing

LEMMA PopPtrKeeps == ASSUME ReferencesIInv, PopPtr PROVE ReferencesIInv'
<1>1. top' = "none" /\ UNCHANGED <<native, meant, count, born, gone, lost, onNull>>
  BY DEF PopPtr
<1>2. TopAlive'
  BY <1>1 DEF TopAlive
<1>3. TypeOK'
  BY <1>1 DEF ReferencesIInv, TypeOK
<1> QED
  BY <1>1, <1>2, <1>3
     DEF ReferencesIInv, PointersAgree, CountsExplained, NoneDangles, References, Alive, UnbornLostNothing

\* The object on the stack gains a reference, the one overwritten loses its own
\* and is not told.
LEMMA CopyKeeps ==
  ASSUME ReferencesIInv, NEW p \in Variables \cup Globals, Bounded, Copy(p)
  PROVE  ReferencesIInv'
<1> DEFINE old == meant[p]
<1>1. p \in Places /\ TypeOK /\ native \in Pointers /\ meant \in Pointers
  BY PlacesFinite DEF ReferencesIInv, TypeOK, Pointers
<1>2. /\ top \in born \ gone /\ top \in Objects /\ top # Null /\ Kind[top] # "value"
  BY <1>1 DEF Copy, ReferencesIInv, TopAlive, TypeOK, PlacesAssumption
<1>3. /\ native' = [native EXCEPT ![p] = top] /\ meant' = [meant EXCEPT ![p] = top]
      /\ count' = Addref(top)
      /\ lost' = Lost({p})
      /\ UNCHANGED <<top, born, gone, onNull>>
  BY <1>2 DEF Copy, Counted
<1>4. /\ native' \in Pointers /\ meant' \in Pointers /\ meant'[p] = top /\ native'[p] = top
      /\ \A x \in Places : x # p => meant'[x] = meant[x] /\ native'[x] = native[x]
  BY <1>1, <1>2, <1>3 DEF Pointers
<1>5. /\ count' \in [Objects -> 0 .. MaxCount]
      /\ Kind[top] # "uncounted" => count'[top] = count[top] + 1
      /\ \A x \in Objects : x # top => count'[x] = count[x]
  <2>1. CASE Kind[top] = "uncounted"
    <3>1. count' = [count EXCEPT ![top] = count[top]]
      BY <1>3, <2>1 DEF Addref
    <3> QED
      BY <1>1, <2>1, <3>1 DEF TypeOK
  <2>2. CASE Kind[top] # "uncounted"
    <3>1. count' = [count EXCEPT ![top] = count[top] + 1]
      BY <1>3, <2>2 DEF Addref
    <3>2. count[top] \in 0 .. MaxCount /\ MaxCount \in Nat /\ count[top] < MaxCount
      BY <1>1, <1>2 DEF TypeOK, Bounded, PlacesAssumption
    <3>3. count[top] + 1 \in 0 .. MaxCount
      BY <3>2
    <3> QED
      BY <1>1, <1>2, <3>1, <3>3 DEF TypeOK
  <2> QED
    BY <2>1, <2>2
<1>6. /\ lost' \in [Objects -> Nat]
      /\ \A x \in Objects :
           Kind[x] # "uncounted" => lost'[x] = lost[x] + (IF old = x THEN 1 ELSE 0)
      /\ \A x \in Objects : old # x => lost'[x] = lost[x]
  <2>1. \A x \in Objects :
          lost'[x] = IF Kind[x] = "uncounted" THEN lost[x]
                     ELSE lost[x] + Cardinality(References(meant, x) \cap {p})
    BY <1>3 DEF Lost
  <2>2. \A x \in Objects : Cardinality(References(meant, x) \cap {p}) = IF old = x THEN 1 ELSE 0
    BY <1>1, ReferenceAt
  <2>3. \A x \in Objects : lost[x] \in Nat
    BY <1>1 DEF TypeOK
  <2>4. ASSUME NEW x \in Objects
        PROVE  /\ lost'[x] \in Nat
               /\ Kind[x] # "uncounted" => lost'[x] = lost[x] + (IF old = x THEN 1 ELSE 0)
               /\ old # x => lost'[x] = lost[x]
    <3>1. PICK c : c = Cardinality(References(meant, x) \cap {p})
      OBVIOUS
    <3>2. c = IF old = x THEN 1 ELSE 0
      BY <2>2, <3>1
    <3>3. lost'[x] = (IF Kind[x] = "uncounted" THEN lost[x] ELSE lost[x] + c) /\ lost[x] \in Nat
      BY <2>1, <2>3, <3>1
    <3> QED
      BY <3>2, <3>3
  <2>5. lost' \in [Objects -> Nat]
    BY <1>3, <2>4 DEF Lost
  <2> QED
    BY <2>4, <2>5
<1>7. TypeOK'
  BY <1>1, <1>3, <1>4, <1>5, <1>6 DEF TypeOK, Pointers
<1>8. PointersAgree'
  BY <1>4 DEF ReferencesIInv, PointersAgree
<1>9. \A x \in Places : Alive(x)'
  BY <1>2, <1>3, <1>4 DEF ReferencesIInv, Alive
<1>10. NoneDangles'
  <2>1. \A x \in Places : meant'[x] # Null => meant'[x] \notin gone
    BY <1>3, <1>9 DEF Alive
  <2> QED
    BY <1>1, <1>3, <1>4, <2>1, NothingDangles DEF NoneDangles, TypeOK
<1>11. CountsExplained'
  <2> SUFFICES ASSUME NEW x \in born' \ gone', Kind[x] # "uncounted"
               PROVE  count'[x] = Cardinality(References(meant', x)) + lost'[x]
    BY DEF CountsExplained
  <2>1. x \in Objects /\ x \in born \ gone
    BY <1>1, <1>3 DEF TypeOK
  <2>2. count[x] = Cardinality(References(meant, x)) + lost[x]
    BY <2>1 DEF ReferencesIInv, CountsExplained
  <2>3. Cardinality(References(meant, x)) \in Nat /\ lost[x] \in Nat
    BY <1>1, <2>1, ReferencesFinite DEF TypeOK
  <2>4. Cardinality(References(meant', x)) =
          Cardinality(References(meant, x))
            + (IF top = x /\ old # x THEN 1 ELSE 0) - (IF old = x /\ top # x THEN 1 ELSE 0)
    <3>1. Cardinality(References([meant EXCEPT ![p] = top], x)) =
            Cardinality(References(meant, x))
              + (IF top = x /\ meant[p] # x THEN 1 ELSE 0) - (IF meant[p] = x /\ top # x THEN 1 ELSE 0)
      BY <1>1, <1>2, <2>1, Assigned
    <3> QED
      BY <1>3, <3>1
  <2>5. lost'[x] = lost[x] + (IF old = x THEN 1 ELSE 0)
    BY <1>6, <2>1
  <2>6. count'[x] = count[x] + (IF top = x THEN 1 ELSE 0)
    <3>1. CASE top = x
      BY <1>5, <3>1
    <3>2. CASE top # x
      BY <1>5, <2>1, <2>2, <2>3, <3>2
    <3> QED
      BY <3>1, <3>2
  <2> QED
    BY <2>2, <2>3, <2>4, <2>5, <2>6
<1>12. UnbornLostNothing'
  <2>1. \A x \in Objects \ born : old # x
    BY <1>1 DEF ReferencesIInv, Alive, PlacesAssumption
  <2> QED
    BY <1>3, <1>6, <2>1 DEF ReferencesIInv, UnbornLostNothing
<1>13. TopAlive' /\ ~onNull'
  BY <1>3 DEF ReferencesIInv, TopAlive
<1> QED
  BY <1>7, <1>8, <1>9, <1>10, <1>11, <1>12, <1>13 DEF ReferencesIInv

-----------------------------------------------------------------------------
\* The variables of the frames are gone and their references lost.
LEMMA RaiseKeeps == ASSUME ReferencesIInv, Raise PROVE ReferencesIInv'
<1>1. /\ Running
      /\ native' = [p \in Places |-> IF p \in Globals THEN native[p] ELSE Null]
      /\ meant' = [p \in Places |-> IF p \in Globals THEN meant[p] ELSE Null]
      /\ lost' = Lost(Places \ Globals)
      /\ UNCHANGED <<top, count, born, gone, onNull>>
  BY DEF Raise
<1>2. TypeOK /\ native \in Pointers /\ meant \in Pointers
  BY DEF ReferencesIInv, TypeOK, Pointers
<1>3. /\ native' \in Pointers /\ meant' \in Pointers
      /\ \A p \in Places : p \in Globals => meant'[p] = meant[p] /\ native'[p] = native[p]
      /\ \A p \in Places : p \notin Globals => meant'[p] = Null
  BY <1>1, <1>2 DEF Pointers
<1>4. \A x \in Objects :
        /\ Cardinality(References(meant, x) \cap (Places \ Globals)) \in Nat
        /\ Cardinality(References(meant', x)) + Cardinality(References(meant, x) \cap (Places \ Globals))
             = Cardinality(References(meant, x))
  <2> SUFFICES ASSUME NEW x \in Objects
               PROVE  /\ Cardinality(References(meant, x) \cap (Places \ Globals)) \in Nat
                      /\ Cardinality(References(meant', x))
                           + Cardinality(References(meant, x) \cap (Places \ Globals))
                           = Cardinality(References(meant, x))
    OBVIOUS
  <2> DEFINE R == References(meant, x)
             L == Places \ Globals
  <2>1. IsFiniteSet(R) /\ Cardinality(R) \in Nat
    BY ReferencesFinite
  <2>2. References(meant', x) = R \ L
    BY <1>3 DEF References, PlacesAssumption
  <2>3. IsFiniteSet(R \cap L) /\ Cardinality(R \ L) = Cardinality(R) - Cardinality(R \cap L)
    BY <2>1, FS_Difference, FS_Intersection
  <2>4. Cardinality(R \cap L) \in Nat
    BY <2>3, FS_CardinalityType
  <2> HIDE DEF R, L
  <2>5. Cardinality(References(meant', x)) + Cardinality(R \cap L) = Cardinality(R)
    BY <2>1, <2>2, <2>3, <2>4
  <2> QED
    BY <2>4, <2>5 DEF R, L
<1>5. \A x \in Objects :
        /\ lost'[x] \in Nat
        /\ Kind[x] # "uncounted" =>
             lost'[x] = lost[x] + Cardinality(References(meant, x) \cap (Places \ Globals))
        /\ References(meant, x) = {} => lost'[x] = lost[x]
  <2> SUFFICES ASSUME NEW x \in Objects
               PROVE  /\ lost'[x] \in Nat
                      /\ Kind[x] # "uncounted" =>
                           lost'[x] = lost[x] + Cardinality(References(meant, x) \cap (Places \ Globals))
                      /\ References(meant, x) = {} => lost'[x] = lost[x]
    OBVIOUS
  <2>1. lost'[x] = IF Kind[x] = "uncounted" THEN lost[x]
                   ELSE lost[x] + Cardinality(References(meant, x) \cap (Places \ Globals))
    BY <1>1 DEF Lost
  <2>2. lost[x] \in Nat /\ Cardinality(References(meant, x) \cap (Places \ Globals)) \in Nat
    BY <1>2, <1>4 DEF TypeOK
  <2>3. ASSUME References(meant, x) = {}
        PROVE  Cardinality(References(meant, x) \cap (Places \ Globals)) = 0
    <3>1. References(meant, x) \cap (Places \ Globals) = {}
      BY <2>3
    <3> QED
      BY <3>1, FS_EmptySet
  <2> QED
    BY <2>1, <2>2, <2>3
<1>6. lost' \in [Objects -> Nat]
  BY <1>1, <1>5 DEF Lost
<1>7. TypeOK'
  BY <1>1, <1>2, <1>3, <1>6 DEF TypeOK, Pointers
<1>8. PointersAgree'
  BY <1>3 DEF ReferencesIInv, PointersAgree
<1>9. \A p \in Places : Alive(p)'
  BY <1>1, <1>3 DEF ReferencesIInv, Alive
<1>10. NoneDangles'
  <2>1. \A p \in Places : meant'[p] # Null => meant'[p] \notin gone
    BY <1>1, <1>9 DEF Alive
  <2> QED
    BY <1>1, <1>2, <1>3, <2>1, NothingDangles DEF NoneDangles, TypeOK
<1>11. CountsExplained'
  <2> SUFFICES ASSUME NEW x \in born' \ gone', Kind[x] # "uncounted"
               PROVE  count'[x] = Cardinality(References(meant', x)) + lost'[x]
    BY DEF CountsExplained
  <2>1. x \in Objects /\ x \in born \ gone /\ count'[x] = count[x]
    BY <1>1, <1>2 DEF TypeOK
  <2>2. count[x] = Cardinality(References(meant, x)) + lost[x]
    BY <2>1 DEF ReferencesIInv, CountsExplained
  <2>3. /\ Cardinality(References(meant, x)) \in Nat /\ Cardinality(References(meant', x)) \in Nat
        /\ lost[x] \in Nat
    BY <1>2, <2>1, ReferencesFinite DEF TypeOK
  <2>4. lost'[x] = lost[x] + Cardinality(References(meant, x) \cap (Places \ Globals))
    BY <1>5, <2>1
  <2> QED
    BY <1>4, <2>1, <2>2, <2>3, <2>4
<1>12. UnbornLostNothing'
  <2>1. \A x \in Objects \ born : References(meant, x) = {}
    BY DEF ReferencesIInv, Alive, References, PlacesAssumption
  <2> QED
    BY <1>1, <1>5, <2>1 DEF ReferencesIInv, UnbornLostNothing
<1>13. TopAlive' /\ ~onNull'
  BY <1>1 DEF ReferencesIInv, TopAlive
<1> QED
  BY <1>7, <1>8, <1>9, <1>10, <1>11, <1>12, <1>13 DEF ReferencesIInv

-----------------------------------------------------------------------------
\* For scripts that set every handle before they leave its scope and assign no
\* null, the inductive invariant of the counts.
THEOREM CountsKept == ASSUME Disciplined PROVE Spec => []ReferencesIInv
<1>1. ASSUME ReferencesIInv, [Next]_vars PROVE ReferencesIInv'
  <2>1. \A v \in Variables :
          v \in Places /\ v # "register" /\ v # "argument" /\ "register" \in Places /\ "argument" \in Places
    BY PlacesFinite
  <2>2. ASSUME NEW v \in Variables, LOADOBJ(v) \/ STOREOBJ(v) \/ GETOBJ(v) \/ Pass(v) PROVE ReferencesIInv'
    <3>1. CASE LOADOBJ(v)
      BY <1>1, <2>1, <3>1, MoveKeeps DEF LOADOBJ
    <3>2. CASE STOREOBJ(v)
      BY <1>1, <2>1, <3>2, MoveKeeps DEF STOREOBJ
    <3>3. CASE GETOBJ(v)
      BY <1>1, <2>1, <3>3, MoveKeeps DEF GETOBJ
    <3>4. CASE Pass(v)
      BY <1>1, <2>1, <3>4, MoveKeeps DEF Pass
    <3> QED
      BY <2>2, <3>1, <3>2, <3>3, <3>4
  <2>3. ASSUME NEW v \in Variables, FREE(v) PROVE ReferencesIInv'
    BY <1>1, <2>3, FREEKeeps
  <2>4. ASSUME NEW v \in Variables, NEW o \in Objects, ALLOC(v, o) PROVE ReferencesIInv'
    BY <1>1, <2>4, ALLOCKeeps
  <2>5. ASSUME NEW v \in Variables, Bounded, RefCpyV(v) PROVE ReferencesIInv'
    BY <1>1, <2>5, CopyKeeps DEF RefCpyV
  <2>6. ASSUME NEW g \in Globals, Bounded, REFCPY(g) PROVE ReferencesIInv'
    BY <1>1, <2>6, CopyKeeps DEF REFCPY
  <2>7. ASSUME NEW p \in Variables \cup Globals, PushPointer(p) PROVE ReferencesIInv'
    BY <1>1, <2>7, PushPointerKeeps
  <2>8. CASE PopPtr
    BY <1>1, <2>8, PopPtrKeeps
  <2>9. CASE Raise
    BY <1>1, <2>9, RaiseKeeps
  <2>10. CASE UNCHANGED vars
    BY <1>1, <2>10
       DEF vars, ReferencesIInv, TypeOK, PointersAgree, CountsExplained, NoneDangles, References, Alive,
           UnbornLostNothing, TopAlive
  <2> QED
    BY <1>1, <2>2, <2>3, <2>4, <2>5, <2>6, <2>7, <2>8, <2>9, <2>10 DEF Next
<1> QED
  BY <1>1, Initially, PTL DEF Spec

\* All variables have their types, however long the script runs.
THEOREM TypeCorrect == ASSUME Disciplined PROVE Spec => []TypeOK
<1>1. ReferencesIInv => TypeOK
  BY DEF ReferencesIInv
<1> QED
  BY <1>1, CountsKept, PTL

\* Moves through the object register and the stack lose no pointer.
THEOREM MovesKeepPointers == ASSUME Disciplined PROVE Spec => []PointersAgree
<1>1. ReferencesIInv => PointersAgree
  BY DEF ReferencesIInv
<1> QED
  BY <1>1, CountsKept, PTL

\* The counts that ALLOC, FREE, RefCpyV and REFCPY keep are the references and
\* what the stubs and exceptions left out.
THEOREM LeaksAreTheStubs == ASSUME Disciplined PROVE Spec => []CountsExplained
<1>1. ReferencesIInv => CountsExplained
  BY DEF ReferencesIInv
<1> QED
  BY <1>1, CountsKept, PTL

\* FREE destroys no object that is still referenced.
THEOREM ReachableLive == ASSUME Disciplined PROVE Spec => []NoneDangles
<1>1. ReferencesIInv => NoneDangles
  BY DEF ReferencesIInv
<1> QED
  BY <1>1, CountsKept, PTL

\* Together: references are where the script has them, and counted.
THEOREM ReferencesKept == ASSUME Disciplined PROVE Spec => []ReferencesRight
<1>1. TypeOK /\ PointersAgree /\ CountsExplained => ReferencesRight
  BY DEF ReferencesRight
<1> QED
  BY <1>1, TypeCorrect, MovesKeepPointers, LeaksAreTheStubs, PTL

-----------------------------------------------------------------------------
(* Translation of the bytecode: names for what is in it.                     *)

D == DOMAIN program.code
Op(o) == program.code[o].op
Beyond(o) == o + program.code[o].size
Target(o) == o + 2 + program.code[o].arg
Labels == {Label(l) : l \in jumpMap}

-----------------------------------------------------------------------------
(* What the first walk has found out.                                        *)

\* The first n entries of the table behind t.
EntryAt(t, k) == t - 1 + 2 * k
Entries(t, n) == [k \in 1 .. n |-> Label(EntryAt(t, k))]

Walked(o) == o \in D /\ (phase = "preprocess" => o < offset)
InTable(t) == phase = "preprocess" /\ current.handling /\ current.at = t

JumpsHaveLabels ==
  \A o \in D : Walked(o) =>
    /\ Op(o) = "jmp" => Target(o) \in jumpMap
    /\ Op(o) = "cond" => Target(o) \in jumpMap /\ o + 2 \in jumpMap

TableKnown(t) ==
  \E n \in Nat :
    /\ Targets(t) = Entries(t, n)
    /\ \A k \in 1 .. n : EntryAt(t, k) \in jumpMap
    /\ IF InTable(t) THEN offset = t + 1 + 2 * n ELSE n >= program.code[t].arg

TablesKnown ==
  /\ \A t \in D : Walked(t) /\ Op(t) = "jmpp" => TableKnown(t)
  /\ phase = "preprocess" /\ current.handling => Walked(current.at) /\ Op(current.at) = "jmpp"
  /\ \A t \in DOMAIN switchMap : Walked(t) /\ Op(t) = "jmpp"

\* No block is filled before the second walk.
NothingEmitted ==
  /\ offset \in D \cup {program.length}
  /\ sp = 0 /\ block = Entry
  /\ blocks = [b \in {Entry} \cup Labels |-> <<>>]

-----------------------------------------------------------------------------
(* What the second walk has made, with the stack at s and c the block it     *)
(* inserts into when it is at o.                                             *)
Kinds == Terminators \cup {"work"}
Ids == {"entry", "branch_to", "setVmException", "doNotSetVmException"} \X Int
Instr == [kind : Kinds, to : Seq(Ids), offset : D, sp : Int]
After(e) == e.sp + program.code[e.offset].delta

Starts(o, s, c, B, b, at, with) ==
  IF B[b] = <<>> THEN b = c /\ at = o /\ with = s
  ELSE B[b][1].offset = at /\ B[b][1].sp = with

FallsInto(e) == e.to = <<Label(e.offset)>> /\ e.offset \in jumpMap /\ e.sp = 0

\* An instruction is what the bytecode it is made of says.
Faithful(e) ==
  /\ e.kind = "work" => Op(e.offset) = "plain" /\ e.to = <<>>
  /\ e.kind = "br" => FallsInto(e) \/ (Op(e.offset) = "jmp" /\ e.to = <<Label(Target(e.offset))>>)
  /\ e.kind = "condbr" =>
       \/ Op(e.offset) = "cond" /\ e.to = <<Label(Target(e.offset)), Label(e.offset + 2)>>
       \/ Op(e.offset) = "check" /\ e.to = <<OnTrue(e.offset), OnFalse(e.offset)>>
  /\ e.kind = "switch" => Op(e.offset) = "jmpp" /\ e.to = Targets(e.offset)
  /\ e.kind = "ret" => Op(e.offset) = "ret" /\ e.to = <<>>
  /\ e.kind = "fail" => Op(e.offset) = "check" /\ e.to = <<>>

\* The stack is empty where it leads to a label.
Emptied(s, c, b, e) == After(e) = 0 \/ (b = c /\ After(e) = s)

\* What follows the k-th instruction of block b.
Continued(o, s, c, B, b, k) ==
  LET e == B[b][k] IN
  /\ e.kind \in Terminators => k = Len(B[b])
  /\ e.kind = "work" =>
       IF k = Len(B[b]) THEN b = c /\ o = Beyond(e.offset) /\ s = After(e)
       ELSE B[b][k + 1].offset = Beyond(e.offset) /\ B[b][k + 1].sp = After(e)
  /\ e.kind = "br" => FallsInto(e) \/ Emptied(s, c, b, e)
  /\ e.kind = "switch" => Emptied(s, c, b, e)
  /\ e.kind = "condbr" =>
       IF Op(e.offset) = "cond" THEN Emptied(s, c, b, e)
       ELSE /\ {OnTrue(e.offset), OnFalse(e.offset)} \subseteq DOMAIN B
            /\ Starts(o, s, c, B, OnTrue(e.offset), e.offset, e.sp)
            /\ Starts(o, s, c, B, OnFalse(e.offset), Beyond(e.offset), After(e))

\* The blocks of the checks before o.
Forks(o) == UNION {{OnTrue(q), OnFalse(q)} : q \in {d \in D : d < o /\ Op(d) = "check"}}

Made(o, s, c, B) ==
  /\ o \in D \cup {program.length} /\ s \in Int
  /\ DOMAIN B = {Entry} \cup Labels \cup Forks(o)
  /\ c \in DOMAIN B
  /\ \A b \in DOMAIN B :
       /\ B[b] \in Seq(Instr)
       /\ \A k \in DOMAIN B[b] : B[b][k].offset <= o /\ Faithful(B[b][k]) /\ Continued(o, s, c, B, b, k)
       /\ b = c \/ HasTerminator(B[b]) \/ \E l \in jumpMap : b = Label(l) /\ o <= l
  /\ Starts(o, s, c, B, Entry, 0, 0)
  /\ \A l \in jumpMap :
       IF l < o \/ c = Label(l) THEN Starts(o, s, c, B, Label(l), l, 0) ELSE B[Label(l)] = <<>>
  /\ \A l \in jumpMap : c = Label(l) => l <= o

StacksMeetEmpty == \A l \in jumpMap : program.depth[l] = 0

\* ... and the instruction before o says whether its block is open.
Before(o, s, c, B) ==
  \/ o = 0 /\ s = 0 /\ c = Entry /\ B[c] = <<>>
  \/ \E p \in D :
       /\ Beyond(p) = o
       /\ HasTerminator(B[c]) <=> Op(p) \in Jumps \cup {"ret"}
       /\ StacksMeetEmpty => s = program.depth[p] + program.code[p].delta

Emitting ==
  /\ Made(offset, sp, block, blocks) /\ Before(offset, sp, block, blocks)
  /\ \A l \in jumpMap : block = Label(l) => l < offset

InNative ==
  /\ Made(offset, sp, block, blocks) /\ sp = 0 /\ offset = program.length
  /\ \A b \in DOMAIN blocks : HasTerminator(blocks[b])
  /\ place[1] \in DOMAIN blocks /\ place[2] \in 1 .. Len(blocks[place[1]])

TranslatorIInv ==
  /\ program \in Programs
  /\ jumpMap \subseteq D
  /\ current.handling \in BOOLEAN
  /\ JumpsHaveLabels /\ TablesKnown
  /\ phase # "native" => place = <<Entry, 1>>
  /\ status \in {"running", "returned", "exception"}
  /\ phase # "native" => status = "running"
  /\ \/ phase = "preprocess" /\ NothingEmitted
     \/ phase = "translate" /\ Emitting
     \/ phase = "rejected" /\ Emitting /\ \E l \in jumpMap : program.depth[l] # 0
     \/ phase = "native" /\ InNative
-----------------------------------------------------------------------------
(* Bytecode                                                                  *)

USE ProgramsAssumption

LEMMA InOnePiece ==
  ASSUME program \in Programs
  PROVE  /\ program.length \in Nat /\ program.length \notin D
         /\ 0 \in D /\ program.depth[0] = 0
         /\ \A o \in D :
              /\ o \in Nat /\ o < program.length
              /\ Op(o) \in {"plain", "check", "ret", "jmp", "cond", "jmpp"}
              /\ program.code[o].arg \in Int /\ program.code[o].delta \in Int
              /\ program.depth[o] \in Int
              /\ Beyond(o) \in Nat /\ Beyond(o) > o
              /\ Beyond(o) \in D \cup {program.length}
              /\ Op(o) \in {"jmp", "cond"} => Beyond(o) = o + 2
              /\ Op(o) = "jmpp" => Beyond(o) = o + 1
         /\ \A o, q \in D : o < q => Beyond(o) <= q
<1>1. IsBytecode(program) /\ IsFlow(program) /\ IsBalanced(program)
  BY DEF ProgramsAssumption
<1>2. program.length \in Nat /\ D \subseteq 0 .. program.length - 1
  BY <1>1 DEF IsBytecode, D
<1>3. 0 \in D /\ program.depth[0] = 0 /\ program.depth \in [D -> Int]
  BY <1>1 DEF IsFlow, IsBalanced, D
<1>4. ASSUME NEW o \in D
      PROVE  /\ Op(o) \in {"plain", "check", "ret", "jmp", "cond", "jmpp"}
             /\ program.code[o].arg \in Int /\ program.code[o].delta \in Int
             /\ program.code[o].size \in Nat \ {0}
             /\ Op(o) \in {"jmp", "cond"} => program.code[o].size = 2
             /\ Op(o) = "jmpp" => program.code[o].size = 1
             /\ \A q \in D : o < q => Beyond(o) <= q
             /\ Beyond(o) \in D \cup {program.length}
  BY <1>1 DEF IsBytecode, IsFlow, D, Op, Jumps, Beyond
<1>5. ASSUME NEW o \in D
      PROVE  /\ o \in Nat /\ o < program.length /\ program.depth[o] \in Int
             /\ Beyond(o) \in Nat /\ Beyond(o) > o
             /\ Op(o) \in {"jmp", "cond"} => Beyond(o) = o + 2
             /\ Op(o) = "jmpp" => Beyond(o) = o + 1
  <2>1. o \in 0 .. program.length - 1 /\ program.depth[o] \in Int
    BY <1>2, <1>3
  <2>2. o \in Nat /\ o < program.length
    BY <1>2, <2>1
  <2> QED
    BY <1>4, <2>1, <2>2 DEF Beyond
<1>6. program.length \notin D
  BY <1>2
<1> QED
  BY <1>2, <1>3, <1>4, <1>5, <1>6

\* What an instruction is followed by.
LEMMA Followed ==
  ASSUME program \in Programs, NEW o \in D
  PROVE  /\ Op(o) = "jmp" =>
              Target(o) \in D /\ program.depth[Target(o)] = program.depth[o] + program.code[o].delta
         /\ Op(o) = "cond" => \A n \in {Target(o), o + 2} :
              n \in D /\ program.depth[n] = program.depth[o] + program.code[o].delta
         /\ Op(o) = "jmpp" =>
              /\ program.code[o].arg > 0
              /\ \A k \in 1 .. program.code[o].arg :
                   /\ EntryAt(o, k) \in D /\ Op(EntryAt(o, k)) = "jmp"
                   /\ program.depth[EntryAt(o, k)] = program.depth[o] + program.code[o].delta
         /\ Op(o) \in {"plain", "check"} =>
              Beyond(o) \in D /\ program.depth[Beyond(o)] = program.depth[o] + program.code[o].delta
         /\ Op(o) = "ret" => program.depth[o] = 0 /\ program.code[o].delta = 0
         /\ Op(o) = "ret" <=> Beyond(o) = program.length
<1>1. IsFlow(program) /\ IsBalanced(program)
  BY DEF ProgramsAssumption
<1>2. /\ Following(program, o) \subseteq D
      /\ Op(o) = "ret" <=> Beyond(o) = program.length
      /\ Op(o) = "jmpp" =>
           program.code[o].arg > 0 /\ \A n \in Following(program, o) : Op(n) = "jmp"
  BY <1>1 DEF IsFlow, D, Op, Beyond
<1>3. /\ \A n \in Following(program, o) : program.depth[n] = program.depth[o] + program.code[o].delta
      /\ Op(o) = "ret" => program.depth[o] = 0 /\ program.code[o].delta = 0
  BY <1>1 DEF IsBalanced, D, Op
<1>4. o \in Nat /\ program.code[o].arg \in Int
  BY InOnePiece
<1>5. ASSUME Op(o) = "jmp" PROVE Target(o) \in Following(program, o)
  BY <1>5, <1>4 DEF Following, Op, Target
<1>6. ASSUME Op(o) = "cond" PROVE {Target(o), o + 2} \subseteq Following(program, o)
  BY <1>6, <1>4 DEF Following, Op, Target
<1>7. ASSUME Op(o) = "jmpp", NEW k \in 1 .. program.code[o].arg
      PROVE  EntryAt(o, k) \in Following(program, o)
  <2>1. Following(program, o) = {o + 1 + 2 * case : case \in 0 .. program.code[o].arg - 1}
    BY <1>7 DEF Following, Op
  <2>2. k - 1 \in 0 .. program.code[o].arg - 1 /\ EntryAt(o, k) = o + 1 + 2 * (k - 1)
    BY <1>4 DEF EntryAt
  <2> QED
    BY <2>1, <2>2
<1>8. ASSUME Op(o) \in {"plain", "check"} PROVE Beyond(o) \in Following(program, o)
  BY <1>8, <1>4 DEF Following, Op, Beyond
<1> QED
  BY <1>2, <1>3, <1>5, <1>6, <1>7, <1>8

\* Every instruction is on a path.
LEMMA Reached ==
  ASSUME program \in Programs, NEW n \in D, n # 0
  PROVE  \E o \in D :
           \/ Op(o) = "jmp" /\ n = Target(o)
           \/ Op(o) = "cond" /\ n \in {Target(o), o + 2}
           \/ Op(o) = "jmpp" /\ \E k \in 1 .. program.code[o].arg : n = EntryAt(o, k)
           \/ Op(o) \in {"plain", "check"} /\ n = Beyond(o)
<1>1. IsFlow(program)
  BY DEF ProgramsAssumption
<1>2. PICK o \in D : n \in Following(program, o)
  BY <1>1 DEF IsFlow, D
<1>3. o \in Nat /\ program.code[o].arg \in Int
      /\ Op(o) \in {"plain", "check", "ret", "jmp", "cond", "jmpp"}
  BY InOnePiece
<1>4. CASE Op(o) = "jmp"
  BY <1>2, <1>4 DEF Following, Op, Target
<1>5. CASE Op(o) = "cond"
  BY <1>2, <1>5 DEF Following, Op, Target
<1>6. CASE Op(o) = "jmpp"
  <2>1. PICK case \in 0 .. program.code[o].arg - 1 : n = o + 1 + 2 * case
    BY <1>2, <1>6 DEF Following, Op
  <2>2. case + 1 \in 1 .. program.code[o].arg /\ n = EntryAt(o, case + 1)
    BY <2>1, <1>3 DEF EntryAt
  <2> QED
    BY <2>2, <1>6
<1>7. CASE Op(o) \in {"plain", "check"}
  BY <1>2, <1>7 DEF Following, Op, Beyond
<1>8. CASE Op(o) = "ret"
  BY <1>2, <1>8 DEF Following, Op
<1> QED
  BY <1>3, <1>4, <1>5, <1>6, <1>7, <1>8

-----------------------------------------------------------------------------
(* Blocks                                                                    *)

LEMMA DifferentBlocks ==
  /\ \A l, m : Label(l) = Label(m) => l = m
  /\ \A l, m : OnTrue(l) = OnTrue(m) => l = m
  /\ \A l, m : OnFalse(l) = OnFalse(m) => l = m
  /\ \A l, m : Label(l) # OnTrue(m) /\ Label(l) # OnFalse(m) /\ OnTrue(l) # OnFalse(m)
  /\ \A l : Entry \notin {Label(l), OnTrue(l), OnFalse(l)}
  BY DEF Label, OnTrue, OnFalse, Entry

LEMMA BlockIds ==
  /\ Entry \in Ids
  /\ \A l \in Int : Label(l) \in Ids /\ OnTrue(l) \in Ids /\ OnFalse(l) \in Ids
  BY DEF Label, OnTrue, OnFalse, Entry, Ids

\* C is B with e put at the end of c.
IsInserted(C, B, c, e) ==
  /\ DOMAIN C = DOMAIN B
  /\ \A b \in DOMAIN B : b # c => C[b] = B[b]
  /\ C[c] \in Seq(Instr) /\ C[c] # <<>>
  /\ \E n \in Nat :
       /\ Len(B[c]) = n /\ DOMAIN B[c] = 1 .. n
       /\ Len(C[c]) = n + 1 /\ DOMAIN C[c] = 1 .. n + 1
       /\ C[c][n + 1] = e
       /\ \A k \in 1 .. n : C[c][k] = B[c][k]
  /\ C[c][1] = IF B[c] = <<>> THEN e ELSE B[c][1]

LEMMA Inserted ==
  ASSUME NEW B, NEW c \in DOMAIN B, NEW e \in Instr, B[c] \in Seq(Instr)
  PROVE  IsInserted(Insert(B, c, e), B, c, e)
<1> DEFINE C == Insert(B, c, e)
<1>1. DOMAIN C = DOMAIN B /\ C[c] = Append(B[c], e) /\ \A b \in DOMAIN B : b # c => C[b] = B[b]
  BY DEF Insert
<1>2. \A s \in Seq(Instr) :
        /\ Append(s, e) \in Seq(Instr) /\ Append(s, e) # <<>>
        /\ \E n \in Nat :
              /\ Len(s) = n /\ DOMAIN s = 1 .. n
              /\ Len(Append(s, e)) = n + 1 /\ DOMAIN Append(s, e) = 1 .. n + 1
              /\ Append(s, e)[n + 1] = e
              /\ \A k \in 1 .. n : Append(s, e)[k] = s[k]
        /\ Append(s, e)[1] = IF s = <<>> THEN e ELSE s[1]
  <2> TAKE s \in Seq(Instr)
  <2>1. PICK n \in Nat : Len(s) = n /\ DOMAIN s = 1 .. n /\ (s = <<>> <=> n = 0)
    OBVIOUS
  <2>2. /\ Len(Append(s, e)) = n + 1 /\ DOMAIN Append(s, e) = 1 .. n + 1
        /\ Append(s, e)[n + 1] = e
        /\ \A k \in 1 .. n : Append(s, e)[k] = s[k]
    BY <2>1
  <2>3. Append(s, e) \in Seq(Instr) /\ Append(s, e) # <<>>
    OBVIOUS
  <2>4. Append(s, e)[1] = IF s = <<>> THEN e ELSE s[1]
    BY <2>1, <2>2
  <2> QED
    BY <2>1, <2>2, <2>3, <2>4
<1> HIDE DEF C
<1> QED
  BY <1>1, <1>2 DEF IsInserted, C

-----------------------------------------------------------------------------
(* The first walk                                                            *)

FirstWalk ==
  /\ program \in Programs
  /\ jumpMap \subseteq D
  /\ current.handling \in BOOLEAN
  /\ JumpsHaveLabels /\ TablesKnown

\* Of a step of the first walk, what the others are about is left alone.
Advance ==
  /\ phase = "preprocess" /\ phase' = phase
  /\ offset \in D /\ offset' = Beyond(offset)
  /\ UNCHANGED <<program, sp, block, place, status>>

LEMMA Advances ==
  ASSUME TranslatorIInv, NEW ops, Preprocess(ops)
  PROVE  Advance /\ Op(offset) \in ops /\ FirstWalk /\ NothingEmitted
<1>1. phase = "preprocess" /\ offset < program.length /\ Op(offset) \in ops /\ NothingEmitted
  BY DEF TranslatorIInv, Preprocess, AtOffset, Ins, Op
<1>2. offset \in D
  BY <1>1, InOnePiece DEF TranslatorIInv, NothingEmitted
<1> QED
  BY <1>1, <1>2 DEF Preprocess, Advance, Beyond, Ins, FirstWalk, TranslatorIInv

LEMMA WalkedNext ==
  ASSUME FirstWalk, Advance
  PROVE  /\ \A o : Walked(o)' <=> Walked(o) \/ o = offset
         /\ ~Walked(offset) /\ D' = D
         /\ \A o : Op(o)' = Op(o) /\ Target(o)' = Target(o) /\ Beyond(o)' = Beyond(o)
<1>1. D' = D /\ program' = program
  BY DEF Advance, D
<1>2. ASSUME NEW o \in D PROVE o < offset' <=> o < offset \/ o = offset
  BY InOnePiece DEF Advance, FirstWalk
<1> QED
  BY <1>1, <1>2, InOnePiece DEF Walked, Advance, Op, Target, Beyond, FirstWalk

\* A block for every label, all of them empty.
LEMMA LabelsEmpty ==
  ASSUME NothingEmitted, NEW offsets, InsertLabels(offsets)
  PROVE  blocks' = [b \in {Entry} \cup Labels' |-> <<>>]
<1>1. DOMAIN blocks = {Entry} \cup Labels /\ \A b \in DOMAIN blocks : blocks[b] = <<>>
  BY DEF NothingEmitted
<1>2. Labels' = Labels \cup {Label(o) : o \in offsets}
  BY DEF InsertLabels, Labels
<1> QED
  BY <1>1, <1>2 DEF InsertLabels, WithBlocks

\* A table that is not handled any more has all its entries: they are JMPs.
LEMMA TableComplete ==
  ASSUME FirstWalk, NEW t \in D, Op(t) = "jmpp", Walked(t),
         phase = "preprocess" => offset \notin D \/ Op(offset) # "jmp"
  PROVE  \E n \in Nat :
           /\ Targets(t) = Entries(t, n)
           /\ \A k \in 1 .. n : EntryAt(t, k) \in jumpMap
           /\ n >= program.code[t].arg
<1>1. PICK n \in Nat :
        /\ Targets(t) = Entries(t, n)
        /\ \A k \in 1 .. n : EntryAt(t, k) \in jumpMap
        /\ IF InTable(t) THEN offset = t + 1 + 2 * n ELSE n >= program.code[t].arg
  BY DEF FirstWalk, TablesKnown, TableKnown
<1>2. t \in Nat /\ program.code[t].arg \in Int
  BY InOnePiece DEF FirstWalk
<1>3. ASSUME InTable(t), n < program.code[t].arg PROVE FALSE
  <2>1. offset = EntryAt(t, n + 1) /\ n + 1 \in 1 .. program.code[t].arg
    BY <1>1, <1>2, <1>3 DEF EntryAt
  <2>2. offset \in D /\ Op(offset) = "jmp"
    BY <2>1, Followed DEF FirstWalk
  <2> QED
    BY <2>2, <1>3 DEF InTable
<1> QED
  BY <1>1, <1>2, <1>3

LEMMA EntriesGrow ==
  ASSUME NEW t, NEW n \in Nat
  PROVE  Entries(t, n + 1) = Append(Entries(t, n), Label(EntryAt(t, n + 1)))
<1>1. DOMAIN Entries(t, n) = 1 .. n
  BY DEF Entries
<1>2. Entries(t, n) \in Seq({Label(EntryAt(t, k)) : k \in 1 .. n}) /\ Len(Entries(t, n)) = n
  BY DEF Entries
<1> QED
  BY <1>2 DEF Entries

LEMMA NoTargets ==
  ASSUME FirstWalk, NEW t, ~Walked(t)
  PROVE  Targets(t) = Entries(t, 0)
<1>1. Targets(t) = <<>>
  BY DEF FirstWalk, TablesKnown, Targets
<1>2. Entries(t, 0) = <<>>
  BY DEF Entries
<1> QED
  BY <1>1, <1>2

\* The rest of the invariant, when the first walk goes on.
LEMMA FirstWalkGoesOn ==
  ASSUME TranslatorIInv, Advance, FirstWalk', NothingEmitted'
  PROVE  TranslatorIInv'
  BY Zenon DEF TranslatorIInv, Advance, FirstWalk

LEMMA PreprocessTableKeeps ==
  ASSUME TranslatorIInv, PreprocessTable
  PROVE  TranslatorIInv'
<1>1. Advance /\ Op(offset) = "jmpp" /\ FirstWalk /\ NothingEmitted
  BY Advances DEF PreprocessTable
<1>2. UNCHANGED <<jumpMap, switchMap, blocks>> /\ current' = [at |-> offset, handling |-> TRUE]
  BY DEF PreprocessTable
<1>3. /\ \A o : Walked(o)' <=> Walked(o) \/ o = offset
      /\ ~Walked(offset) /\ D' = D
      /\ \A o : Op(o)' = Op(o) /\ Target(o)' = Target(o) /\ Beyond(o)' = Beyond(o)
  BY <1>1, WalkedNext
<1>4. \A t : Targets(t)' = Targets(t)
  BY <1>2 DEF Targets
<1>5. JumpsHaveLabels'
  BY <1>1, <1>2, <1>3 DEF JumpsHaveLabels, FirstWalk
<1>6. ASSUME NEW t \in D, Walked(t)', Op(t) = "jmpp" PROVE TableKnown(t)'
  <2>1. CASE t = offset
    <3>1. Targets(t)' = Entries(t, 0)
      BY <1>1, <1>3, <1>4, <2>1, NoTargets
    <3>2. offset' = t + 1 + 2 * 0 /\ InTable(t)'
      BY <1>1, <1>2, <2>1, InOnePiece DEF Advance, InTable, FirstWalk
    <3>3. Entries(t, 0)' = Entries(t, 0)
      BY DEF Entries
    <3> QED
      BY <3>1, <3>2, <3>3 DEF TableKnown
  <2>2. CASE t # offset
    <3>1. Walked(t)
      BY <1>3, <1>6, <2>2
    <3>2. PICK n \in Nat :
            /\ Targets(t) = Entries(t, n)
            /\ \A k \in 1 .. n : EntryAt(t, k) \in jumpMap
            /\ n >= program.code[t].arg
      BY <1>1, <1>6, <3>1, TableComplete
    <3>3. ~InTable(t)'
      BY <1>2, <2>2 DEF InTable
    <3> QED
      BY <1>1, <1>2, <1>4, <3>2, <3>3 DEF TableKnown, EntryAt, Entries, Advance
  <2> QED
    BY <2>1, <2>2
<1>7. TablesKnown'
  BY <1>1, <1>2, <1>3, <1>6 DEF TablesKnown, FirstWalk
<1>8. NothingEmitted'
  BY <1>1, <1>2, <1>3, InOnePiece DEF NothingEmitted, Labels, Advance, FirstWalk
<1>9. FirstWalk'
  BY <1>1, <1>2, <1>3, <1>5, <1>7 DEF FirstWalk, Advance
<1> QED
  BY <1>1, <1>8, <1>9, FirstWalkGoesOn

\* Neither a table nor a JMP: tables are complete, and labels may be more.
LEMMA TablesClosed ==
  ASSUME Advance, FirstWalk, Op(offset) \notin {"jmp", "jmpp"},
         ~current'.handling, UNCHANGED switchMap, jumpMap \subseteq jumpMap'
  PROVE  TablesKnown'
<1>1. /\ \A o : Walked(o)' <=> Walked(o) \/ o = offset
      /\ D' = D /\ program' = program
      /\ \A o : Op(o)' = Op(o)
  BY WalkedNext DEF Advance
<1>2. ASSUME NEW t \in D, Walked(t)', Op(t) = "jmpp" PROVE TableKnown(t)'
  <2>1. Walked(t)
    BY <1>1, <1>2
  <2>2. PICK n \in Nat :
            /\ Targets(t) = Entries(t, n)
            /\ \A k \in 1 .. n : EntryAt(t, k) \in jumpMap
            /\ n >= program.code[t].arg
    BY <2>1, <1>2, TableComplete
  <2>3. ~InTable(t)' /\ Targets(t)' = Targets(t)
    BY DEF InTable, Targets
  <2> QED
    BY <1>1, <2>2, <2>3 DEF TableKnown, EntryAt, Entries
<1> QED
  BY <1>1, <1>2 DEF TablesKnown, FirstWalk

LEMMA PreprocessBranchKeeps ==
  ASSUME TranslatorIInv, PreprocessBranch
  PROVE  TranslatorIInv'
<1>1. Advance /\ Op(offset) = "cond" /\ FirstWalk /\ NothingEmitted
  BY Advances DEF PreprocessBranch
<1>2. UNCHANGED switchMap /\ ~current'.handling /\ current'.handling \in BOOLEAN
  BY DEF PreprocessBranch
<1>3. jumpMap' = jumpMap \cup {offset + 2, Target(offset)}
  BY DEF PreprocessBranch, InsertLabels, FailTarget, BranchTarget, Target, Ins
<1>4. /\ \A o : Walked(o)' <=> Walked(o) \/ o = offset
      /\ D' = D
      /\ \A o : Op(o)' = Op(o) /\ Target(o)' = Target(o) /\ Beyond(o)' = Beyond(o)
  BY <1>1, WalkedNext
<1>5. JumpsHaveLabels'
  BY <1>1, <1>3, <1>4 DEF JumpsHaveLabels, FirstWalk
<1>6. TablesKnown'
  BY <1>1, <1>2, <1>3, TablesClosed
<1>7. jumpMap' \subseteq D'
  BY <1>1, <1>3, <1>4, Followed DEF FirstWalk, Advance
<1>8. NothingEmitted'
  <2>1. blocks' = [b \in {Entry} \cup Labels' |-> <<>>]
    BY <1>1, LabelsEmpty DEF PreprocessBranch
  <2> QED
    BY <1>1, <1>4, <2>1, InOnePiece DEF NothingEmitted, Advance, FirstWalk
<1>9. FirstWalk'
  BY <1>1, <1>2, <1>5, <1>6, <1>7 DEF FirstWalk, Advance
<1> QED
  BY <1>1, <1>8, <1>9, FirstWalkGoesOn

LEMMA PreprocessOtherKeeps ==
  ASSUME TranslatorIInv, PreprocessOther
  PROVE  TranslatorIInv'
<1>1. Advance /\ Op(offset) \in {"plain", "check", "ret"} /\ FirstWalk /\ NothingEmitted
  BY Advances DEF PreprocessOther
<1>2. UNCHANGED <<jumpMap, switchMap, blocks>> /\ ~current'.handling /\ current'.handling \in BOOLEAN
  BY DEF PreprocessOther
<1>3. /\ \A o : Walked(o)' <=> Walked(o) \/ o = offset
      /\ D' = D
      /\ \A o : Op(o)' = Op(o) /\ Target(o)' = Target(o) /\ Beyond(o)' = Beyond(o)
  BY <1>1, WalkedNext
<1>4. JumpsHaveLabels'
  BY <1>1, <1>2, <1>3 DEF JumpsHaveLabels, FirstWalk
<1>5. TablesKnown'
  BY <1>1, <1>2, TablesClosed
<1>6. NothingEmitted'
  BY <1>1, <1>2, <1>3, InOnePiece DEF NothingEmitted, Labels, Advance, FirstWalk
<1>7. FirstWalk'
  BY <1>1, <1>2, <1>3, <1>4, <1>5 DEF FirstWalk, Advance
<1> QED
  BY <1>1, <1>6, <1>7, FirstWalkGoesOn

LEMMA PreprocessJumpKeeps ==
  ASSUME TranslatorIInv, PreprocessJump
  PROVE  TranslatorIInv'
<1>1. Advance /\ Op(offset) = "jmp" /\ FirstWalk /\ NothingEmitted
  BY Advances DEF PreprocessJump
<1>2. UNCHANGED current
  BY DEF PreprocessJump
<1>3. /\ jumpMap' = jumpMap \cup {Target(offset)} \cup (IF current.handling THEN {offset} ELSE {})
      /\ jumpMap \subseteq jumpMap'
  BY DEF PreprocessJump, InsertLabels, BranchTarget, Target, Ins
<1>4. /\ \A o : Walked(o)' <=> Walked(o) \/ o = offset
      /\ ~Walked(offset) /\ D' = D
      /\ \A o : Op(o)' = Op(o) /\ Target(o)' = Target(o) /\ Beyond(o)' = Beyond(o)
  BY <1>1, WalkedNext
<1>5. JumpsHaveLabels'
  BY <1>1, <1>3, <1>4 DEF JumpsHaveLabels, FirstWalk
<1>6. jumpMap' \subseteq D'
  BY <1>1, <1>3, <1>4, Followed DEF FirstWalk, Advance
<1>7. NothingEmitted'
  <2>1. blocks' = [b \in {Entry} \cup Labels' |-> <<>>]
    BY <1>1, LabelsEmpty DEF PreprocessJump
  <2> QED
    BY <1>1, <1>4, <2>1, InOnePiece DEF NothingEmitted, Advance, FirstWalk
<1>8. TablesKnown'
  <2>1. CASE ~current.handling
    <3>1. UNCHANGED switchMap
      BY <2>1 DEF PreprocessJump
    <3>2. \A t : ~InTable(t) /\ ~InTable(t)' /\ Targets(t)' = Targets(t)
      BY <1>2, <2>1, <3>1 DEF InTable, Targets
    <3>3. ASSUME NEW t \in D, Walked(t), Op(t) = "jmpp" PROVE TableKnown(t)'
      BY <1>1, <1>3, <3>2, <3>3 DEF TablesKnown, TableKnown, EntryAt, Entries, Advance, FirstWalk
    <3> QED
      BY <1>1, <1>2, <1>4, <2>1, <3>1, <3>3 DEF TablesKnown, FirstWalk
  <2>2. CASE current.handling
    <3>0. current.at \in D /\ Walked(current.at) /\ Op(current.at) = "jmpp"
      BY <1>1, <2>2 DEF FirstWalk, TablesKnown, Advance, Walked
    <3>1. PICK a \in D : a = current.at /\ Walked(a) /\ Op(a) = "jmpp" /\ InTable(a)
      BY <1>1, <2>2, <3>0 DEF Advance, InTable
    <3>2. switchMap' = [o \in DOMAIN switchMap \cup {a} |->
                         IF o = a THEN Append(Targets(a), Label(offset)) ELSE switchMap[o]]
      BY <2>2, <3>1 DEF PreprocessJump
    <3>3. Targets(a)' = Append(Targets(a), Label(offset)) /\ \A t : t # a => Targets(t)' = Targets(t)
      BY <3>2 DEF Targets
    <3>4. TableKnown(a)'
      <4>1. PICK n \in Nat :
              /\ Targets(a) = Entries(a, n)
              /\ \A k \in 1 .. n : EntryAt(a, k) \in jumpMap
              /\ offset = a + 1 + 2 * n
        BY <1>1, <3>1 DEF FirstWalk, TablesKnown, TableKnown
      <4>2. a \in Nat /\ EntryAt(a, n + 1) = offset /\ offset' = a + 1 + 2 * (n + 1)
        <5>1. a \in Nat /\ offset' = offset + 2
          BY <1>1, <3>1, InOnePiece DEF Advance, FirstWalk
        <5> QED
          BY <4>1, <5>1 DEF EntryAt
      <4>3. Targets(a)' = Entries(a, n + 1)
        BY <3>3, <4>1, <4>2, EntriesGrow
      <4>4. \A k \in 1 .. n + 1 : EntryAt(a, k) \in jumpMap'
        BY <1>3, <2>2, <4>1, <4>2
      <4>5. InTable(a)'
        BY <1>1, <1>2, <3>1 DEF InTable, Advance
      <4> QED
        BY <4>2, <4>3, <4>4, <4>5 DEF TableKnown, Entries, EntryAt
    <3>5. ASSUME NEW t \in D, Walked(t), Op(t) = "jmpp", t # a PROVE TableKnown(t)'
      <4>1. ~InTable(t) /\ ~InTable(t)'
        BY <1>2, <3>1, <3>5 DEF InTable
      <4> QED
        BY <1>1, <1>3, <3>3, <3>5, <4>1
        DEF TablesKnown, TableKnown, EntryAt, Entries, Advance, FirstWalk
    <3>6. \A t \in D : Walked(t) /\ Op(t) = "jmpp" => TableKnown(t)'
      <4> SUFFICES ASSUME NEW t \in D, Walked(t), Op(t) = "jmpp" PROVE TableKnown(t)'
        OBVIOUS
      <4>1. CASE t = a
        BY <4>1, <3>4, <1>2
      <4> QED
        BY <4>1, <3>5
    <3> QED
      BY <1>1, <1>2, <1>4, <3>1, <3>2, <3>6 DEF TablesKnown, FirstWalk
  <2> QED
    BY <2>1, <2>2, <1>1 DEF FirstWalk
<1>9. FirstWalk'
  BY <1>1, <1>2, <1>5, <1>6, <1>8 DEF FirstWalk, Advance
<1> QED
  BY <1>1, <1>7, <1>9, FirstWalkGoesOn

-----------------------------------------------------------------------------
(* Between the walks                                                         *)

\* Labels are known once the first walk is over.
LEMMA LabelsKnown ==
  ASSUME FirstWalk, phase # "preprocess", NEW o \in D
  PROVE  /\ Op(o) = "jmp" => Target(o) \in jumpMap
         /\ Op(o) = "cond" => Target(o) \in jumpMap /\ o + 2 \in jumpMap
         /\ Op(o) = "jmpp" => \E n \in Nat :
              /\ Targets(o) = Entries(o, n)
              /\ \A k \in 1 .. n : EntryAt(o, k) \in jumpMap
              /\ n >= program.code[o].arg
<1>1. Walked(o)
  BY DEF Walked
<1> QED
  BY <1>1, TableComplete DEF FirstWalk, JumpsHaveLabels

LEMMA SwitchKnown ==
  ASSUME FirstWalk, phase # "preprocess", NEW o \in D, Op(o) = "jmpp"
  PROVE  /\ Targets(o) \in Seq(Ids)
         /\ \A k \in DOMAIN Targets(o) : Targets(o)[k] \in Labels
         /\ \A k \in 1 .. program.code[o].arg :
              k \in DOMAIN Targets(o) /\ Targets(o)[k] = Label(EntryAt(o, k)) /\ EntryAt(o, k) \in jumpMap
         /\ Targets(o) = switchMap[o] /\ o \in DOMAIN switchMap
<1>1. PICK n \in Nat :
        /\ Targets(o) = Entries(o, n)
        /\ \A k \in 1 .. n : EntryAt(o, k) \in jumpMap
        /\ n >= program.code[o].arg
  BY LabelsKnown
<1>2. program.code[o].arg > 0 /\ program.code[o].arg \in Int
  BY Followed, InOnePiece DEF FirstWalk
<1>3. \A k \in 1 .. n : EntryAt(o, k) \in Int
  BY <1>1, InOnePiece DEF FirstWalk
<1>4. Entries(o, n) \in Seq(Ids)
  BY <1>3, BlockIds DEF Entries
<1>5. Entries(o, n) # <<>>
  BY <1>1, <1>2 DEF Entries
<1>6. o \in DOMAIN switchMap
  BY <1>1, <1>5 DEF Targets
<1>7. DOMAIN Entries(o, n) = 1 .. n /\ \A k \in 1 .. n : Entries(o, n)[k] = Label(EntryAt(o, k))
  BY DEF Entries
<1> QED
  BY <1>1, <1>2, <1>4, <1>6, <1>7 DEF Targets, Labels

\* What is not a label is behind an instruction that runs on to it.
LEMMA RunsOnTo ==
  ASSUME FirstWalk, phase # "preprocess", NEW o \in D \ jumpMap, o # 0
  PROVE  \E p \in D : Op(p) \in {"plain", "check"} /\ Beyond(p) = o
<1>1. PICK p \in D :
         \/ Op(p) = "jmp" /\ o = Target(p)
         \/ Op(p) = "cond" /\ o \in {Target(p), p + 2}
         \/ Op(p) = "jmpp" /\ \E k \in 1 .. program.code[p].arg : o = EntryAt(p, k)
         \/ Op(p) \in {"plain", "check"} /\ o = Beyond(p)
  BY Reached DEF FirstWalk
<1>2. Op(p) = "jmpp" => \A k \in 1 .. program.code[p].arg : EntryAt(p, k) \in jumpMap
  BY SwitchKnown
<1> QED
  BY <1>1, <1>2, LabelsKnown

LEMMA OneBefore ==
  ASSUME program \in Programs, NEW p \in D, NEW q \in D, Beyond(p) = Beyond(q)
  PROVE  p = q
  BY InOnePiece

\* What has been made does not depend on what the walks do next.
LEMMA MadeStays ==
  ASSUME UNCHANGED <<program, jumpMap, switchMap>>, Made(offset', sp', block', blocks')
  PROVE  Made(offset, sp, block, blocks)'
<1>1. /\ D' = D /\ Labels' = Labels /\ Instr' = Instr
      /\ \A o : Op(o)' = Op(o) /\ Beyond(o)' = Beyond(o) /\ Target(o)' = Target(o)
                /\ Targets(o)' = Targets(o) /\ Forks(o)' = Forks(o)
  BY DEF Forks, D, Labels, Instr, Op, Beyond, Target, Targets
<1>2. \A e : After(e)' = After(e) /\ (FallsInto(e)' <=> FallsInto(e))
  BY DEF After, FallsInto
<1>3. \A e : Faithful(e)' <=> Faithful(e)
  BY <1>1, <1>2 DEF Faithful
<1>4. \A o, s, c, B, b, k : Continued(o, s, c, B, b, k)' <=> Continued(o, s, c, B, b, k)
  BY <1>1, <1>2 DEF Continued, Emptied, Starts
<1>5. \A o, s, c, B, b, at, with : Starts(o, s, c, B, b, at, with)' <=> Starts(o, s, c, B, b, at, with)
  BY DEF Starts
<1> QED
  BY <1>1, <1>3, <1>4, <1>5, Zenon DEF Made

LEMMA StartTranslationKeeps ==
  ASSUME TranslatorIInv, StartTranslation
  PROVE  TranslatorIInv'
<1>1. FirstWalk /\ NothingEmitted /\ phase = "preprocess" /\ phase' = "translate"
      /\ offset = program.length /\ offset' = 0 /\ sp' = 0 /\ block' = Entry
      /\ UNCHANGED <<program, jumpMap, switchMap, current, blocks, place, status>>
  BY DEF TranslatorIInv, StartTranslation, FirstWalk, NothingEmitted
<1>2. D' = D /\ \A o : (Walked(o)' <=> Walked(o)) /\ Op(o)' = Op(o) /\ Target(o)' = Target(o)
  BY <1>1, InOnePiece DEF Walked, D, Op, Target, FirstWalk
<1>3. ASSUME NEW t \in D, Walked(t), Op(t) = "jmpp" PROVE TableKnown(t)'
  <2>1. offset \notin D
    BY <1>1, InOnePiece DEF FirstWalk
  <2>2. PICK n \in Nat :
           /\ Targets(t) = Entries(t, n)
           /\ \A k \in 1 .. n : EntryAt(t, k) \in jumpMap
           /\ n >= program.code[t].arg
    BY <1>1, <1>3, <2>1, TableComplete
  <2>3. ~InTable(t)' /\ Targets(t)' = Targets(t)
    BY <1>1 DEF InTable, Targets
  <2> QED
    BY <1>1, <2>2, <2>3 DEF TableKnown, EntryAt, Entries
<1>4. FirstWalk'
  BY <1>1, <1>2, <1>3 DEF FirstWalk, JumpsHaveLabels, TablesKnown
<1>5. DOMAIN blocks = {Entry} \cup Labels /\ \A b \in DOMAIN blocks : blocks[b] = <<>>
  BY <1>1 DEF NothingEmitted
<1>6. \A q \in D : ~(q < 0)
  BY <1>1, InOnePiece DEF FirstWalk
<1>7. \A l \in jumpMap : 0 <= l /\ ~(l < 0) /\ l \in D
  BY <1>1, InOnePiece DEF FirstWalk
<1>8. Made(0, 0, Entry, blocks)
  <2>1. DOMAIN blocks = {Entry} \cup Labels \cup Forks(0)
    BY <1>5, <1>6 DEF Forks
  <2>2. ASSUME NEW b \in DOMAIN blocks
        PROVE  /\ blocks[b] \in Seq(Instr)
               /\ \A k \in DOMAIN blocks[b] :
                    blocks[b][k].offset <= 0 /\ Faithful(blocks[b][k]) /\ Continued(0, 0, Entry, blocks, b, k)
               /\ b = Entry \/ HasTerminator(blocks[b]) \/ \E l \in jumpMap : b = Label(l) /\ 0 <= l
    <3>1. blocks[b] = <<>> /\ DOMAIN <<>> = {} /\ <<>> \in Seq(Instr)
      BY <1>5
    <3>2. b = Entry \/ \E l \in jumpMap : b = Label(l) /\ 0 <= l
      BY <1>5, <1>7 DEF Labels
    <3> QED
      BY <3>1, <3>2
  <2>3. 0 \in D
    BY <1>1, InOnePiece DEF FirstWalk
  <2>4. \A l \in jumpMap : Entry # Label(l) /\ Label(l) \in DOMAIN blocks
    BY <1>5, DifferentBlocks DEF Labels
  <2>5. Starts(0, 0, Entry, blocks, Entry, 0, 0) /\ Entry \in DOMAIN blocks
    BY <1>5 DEF Starts
  <2>6. ASSUME NEW l \in jumpMap
        PROVE  /\ IF l < 0 \/ Entry = Label(l) THEN Starts(0, 0, Entry, blocks, Label(l), l, 0)
                  ELSE blocks[Label(l)] = <<>>
               /\ Entry = Label(l) => l <= 0
    BY <1>5, <1>7, <2>4
  <2>7. 0 \in D \cup {program.length} /\ 0 \in Int
    BY <2>3
  <2> QED
    BY <2>1, <2>2, <2>5, <2>6, <2>7, Zenon DEF Made
<1>9. Made(offset, sp, block, blocks)'
  BY <1>1, <1>8, MadeStays
<1>10. Before(offset, sp, block, blocks)' /\ \A l \in jumpMap' : block' = Label(l) => l < offset'
  BY <1>1, <1>5, DifferentBlocks DEF Before
<1>11. Emitting'
  BY <1>9, <1>10 DEF Emitting
<1>12. place' = <<Entry, 1>> /\ status' = "running"
  BY <1>1 DEF TranslatorIInv
<1> QED
  BY <1>1, <1>4, <1>11, <1>12, Zenon DEF TranslatorIInv, FirstWalk

-----------------------------------------------------------------------------
(* Inserting an instruction                                                  *)

\* The instruction that is inserted is the one the block is to go on with.
LEMMA StartsInserted ==
  ASSUME NEW o, NEW s, NEW B, NEW c \in DOMAIN B, NEW e \in Instr, B[c] \in Seq(Instr),
         e.offset = o, e.sp = s,
         NEW o2, NEW s2, NEW c2, NEW b \in DOMAIN B, NEW at, NEW with,
         Starts(o, s, c, B, b, at, with)
  PROVE  Starts(o2, s2, c2, Insert(B, c, e), b, at, with)
<1> DEFINE C == Insert(B, c, e)
<1>1. /\ \A d \in DOMAIN B : d # c => C[d] = B[d]
      /\ C[c] # <<>>
      /\ B[c] = <<>> => C[c][1] = e
      /\ B[c] # <<>> => C[c][1] = B[c][1]
  <2>1. IsInserted(C, B, c, e)
    BY Inserted
  <2> QED
    BY <2>1 DEF IsInserted
<1> HIDE DEF C
<1> QED
  BY <1>1 DEF Starts, C

\* Insertion into the open block c.
Open(o, s, c, B) == Made(o, s, c, B) /\ ~HasTerminator(B[c])

LEMMA OpenBlock ==
  ASSUME NEW o, NEW s, NEW c, NEW B, Open(o, s, c, B)
  PROVE  /\ c \in DOMAIN B /\ B[c] \in Seq(Instr)
         /\ Len(B[c]) \in Nat /\ DOMAIN B[c] = 1 .. Len(B[c])
         /\ \A k \in 1 .. Len(B[c]) :
              /\ B[c][k].kind = "work" /\ B[c][k] \in Instr
              /\ IF k = Len(B[c]) THEN o = Beyond(B[c][k].offset) /\ s = After(B[c][k])
                 ELSE B[c][k + 1].offset = Beyond(B[c][k].offset) /\ B[c][k + 1].sp = After(B[c][k])
<1>1. c \in DOMAIN B /\ B[c] \in Seq(Instr) /\ ~HasTerminator(B[c])
  BY DEF Open, Made
<1>2. Len(B[c]) \in Nat /\ DOMAIN B[c] = 1 .. Len(B[c]) /\ \A k \in 1 .. Len(B[c]) : B[c][k] \in Instr
  BY <1>1
<1>3. ASSUME NEW k \in 1 .. Len(B[c])
      PROVE  Continued(o, s, c, B, c, k)
  BY <1>1, <1>2 DEF Open, Made
<1>4. ASSUME NEW k \in 1 .. Len(B[c])
      PROVE  B[c][k].kind = "work"
  <2>1. B[c][k].kind \in Kinds
    BY <1>2 DEF Instr
  <2>2. B[c][k].kind \in Terminators => k = Len(B[c])
    BY <1>3 DEF Continued
  <2>3. B[c] # <<>>
    BY <1>2
  <2> QED
    BY <1>1, <2>1, <2>2, <2>3 DEF HasTerminator, Kinds
<1> QED
  BY <1>1, <1>2, <1>3, <1>4, Zenon DEF Continued

\* The blocks that were there go on as they did, whichever comes next.
LEMMA ElementsInserted ==
  ASSUME NEW o, NEW s, NEW c, NEW B, Open(o, s, c, B),
         NEW e \in Instr, e.offset = o, e.sp = s,
         NEW o2, NEW s2, NEW c2, NEW b \in DOMAIN B, NEW k \in DOMAIN B[b]
  PROVE  LET C == Insert(B, c, e) IN
         /\ C[b][k] = B[b][k] /\ Continued(o2, s2, c2, C, b, k)
<1> DEFINE C == Insert(B, c, e)
<1>1. PICK n \in Nat :
        /\ c \in DOMAIN B /\ B[c] \in Seq(Instr) /\ Len(B[c]) = n /\ DOMAIN B[c] = 1 .. n
        /\ \A j \in 1 .. n :
              /\ B[c][j].kind = "work"
              /\ IF j = n THEN o = Beyond(B[c][j].offset) /\ s = After(B[c][j])
                 ELSE B[c][j + 1].offset = Beyond(B[c][j].offset) /\ B[c][j + 1].sp = After(B[c][j])
  BY OpenBlock
<1>2. c \in DOMAIN B /\ B[c] \in Seq(Instr)
  BY <1>1
<1>3. /\ \A d \in DOMAIN B : d # c => C[d] = B[d]
      /\ Len(C[c]) = n + 1 /\ C[c][n + 1] = e
      /\ \A j \in 1 .. n : C[c][j] = B[c][j]
      /\ DOMAIN C = DOMAIN B
  <2>1. IsInserted(C, B, c, e)
    BY <1>2, Inserted
  <2> HIDE DEF C
  <2> QED
    BY <1>1, <2>1 DEF IsInserted
<1>4. Continued(o, s, c, B, b, k)
  BY DEF Open, Made
<1>5. \A d \in DOMAIN B : \A at, with : Starts(o, s, c, B, d, at, with) => Starts(o2, s2, c2, C, d, at, with)
  BY <1>2, StartsInserted
<1> HIDE DEF C
<1>6. CASE b = c
  <2>1. k \in 1 .. n /\ C[c][k] = B[c][k] /\ B[c][k].kind = "work" /\ k # n + 1
    BY <1>1, <1>3, <1>6
  <2>2. C[c][k + 1].offset = Beyond(B[c][k].offset) /\ C[c][k + 1].sp = After(B[c][k])
    BY <1>1, <1>3, <2>1
  <2> QED
    BY <1>3, <1>6, <2>1, <2>2 DEF Continued, Terminators, C
<1>7. CASE b # c
  <2>1. C[b] = B[b]
    BY <1>3, <1>7
  <2>2. \A x : Emptied(s, c, b, x) => Emptied(s2, c2, b, x)
    BY <1>7 DEF Emptied
  <2>3. Continued(o2, s2, c2, C, b, k)
    BY <1>3, <1>4, <1>5, <1>7, <2>1, <2>2, Zenon DEF Continued
  <2> QED
    BY <2>1, <2>3 DEF C
<1> QED
  BY <1>6, <1>7

\* A block that is not the one that is inserted into has its instructions already.
LEMMA MadeElsewhere ==
  ASSUME NEW o, NEW s, NEW c, NEW B, Made(o, s, c, B), NEW c2, NEW o2, NEW s2,
         B[c] # <<>>, HasTerminator(B[c]), s = 0,
         NEW b \in DOMAIN B, NEW k \in DOMAIN B[b]
  PROVE  Continued(o2, s2, c2, B, b, k)
<1>1. Continued(o, s, c, B, b, k) /\ B[c] \in Seq(Instr) /\ B[b] \in Seq(Instr)
  BY DEF Made
<1>2. \A d, at, with : Starts(o, s, c, B, d, at, with) => Starts(o2, s2, c2, B, d, at, with)
  BY DEF Starts
<1>3. \A x : Emptied(s, c, b, x) => Emptied(s2, c2, b, x)
  BY DEF Emptied
<1>4. B[b][k].kind = "work" => ~(b = c /\ k = Len(B[b]))
  BY DEF HasTerminator, Terminators
<1> QED
  BY <1>1, <1>2, <1>3, <1>4, Zenon DEF Continued

SecondWalk ==
  /\ FirstWalk /\ Emitting /\ phase = "translate"
  /\ offset \in D /\ (IsLabel => sp = 0)

LEMMA OpenUnlessLabel ==
  ASSUME SecondWalk, ~IsLabel
  PROVE  ~HasTerminator(blocks[block])
<1>1. CASE offset = 0
  <2>1. \A p \in D : Beyond(p) # 0
    BY InOnePiece DEF SecondWalk, FirstWalk
  <2> QED
    BY <1>1, <2>1 DEF SecondWalk, Emitting, Before, HasTerminator
<1>2. CASE offset # 0
  <2>1. PICK p \in D : Op(p) \in {"plain", "check"} /\ Beyond(p) = offset
    BY <1>2, RunsOnTo DEF SecondWalk, IsLabel
  <2>2. PICK q \in D :
          Beyond(q) = offset /\ (HasTerminator(blocks[block]) <=> Op(q) \in Jumps \cup {"ret"})
    BY <1>2 DEF SecondWalk, Emitting, Before
  <2>3. p = q
    BY <2>1, <2>2, OneBefore DEF SecondWalk, FirstWalk
  <2> QED
    BY <2>1, <2>2, <2>3 DEF Jumps
<1> QED
  BY <1>1, <1>2

\* switch_to_block: what comes next is inserted into an open block.
LEMMA SwitchedOpen ==
  ASSUME SecondWalk
  PROVE  /\ Open(offset, sp, InsertBlock, Switched)
         /\ offset \in jumpMap => InsertBlock = Label(offset)
<1>0. Made(offset, sp, block, blocks)
  BY DEF SecondWalk, Emitting
<1>1. CASE ~IsLabel
  BY <1>0, <1>1, OpenUnlessLabel DEF InsertBlock, Switched, Open, IsLabel
<1>2. CASE IsLabel
  <2> DEFINE c == Label(offset)
  <2>1. sp = 0 /\ offset \in jumpMap /\ InsertBlock = c /\ offset \in Int
    BY <1>2, InOnePiece DEF SecondWalk, IsLabel, InsertBlock, FirstWalk
  <2>2. /\ DOMAIN blocks = {Entry} \cup Labels \cup Forks(offset)
        /\ block \in DOMAIN blocks
        /\ \A b \in DOMAIN blocks :
             /\ blocks[b] \in Seq(Instr)
             /\ \A k \in DOMAIN blocks[b] : blocks[b][k].offset <= offset /\ Faithful(blocks[b][k])
             /\ b = block \/ HasTerminator(blocks[b]) \/ \E l \in jumpMap : b = Label(l) /\ offset <= l
        /\ Starts(offset, sp, block, blocks, Entry, 0, 0)
        /\ \A l \in jumpMap :
             IF l < offset \/ block = Label(l) THEN Starts(offset, sp, block, blocks, Label(l), l, 0)
             ELSE blocks[Label(l)] = <<>>
    BY <1>0, Zenon DEF Made
  <2>3. c \in DOMAIN blocks /\ c # block /\ blocks[c] = <<>>
    <3>1. c \in DOMAIN blocks /\ c # block
      BY <2>1, <2>2 DEF Labels, SecondWalk, Emitting
    <3> QED
      BY <2>1, <2>2, <3>1
  <2>4. \A l \in jumpMap : c = Label(l) => l = offset
    BY DifferentBlocks
  <2> HIDE DEF c
  <2>5. CASE HasTerminator(blocks[block])
    <3>1. Switched = blocks /\ blocks[block] # <<>>
      BY <2>5 DEF Switched, FallsThrough, HasTerminator
    <3>2. \A b \in DOMAIN blocks : \A k \in DOMAIN blocks[b] : Continued(offset, sp, c, blocks, b, k)
      BY <1>0, <2>1, <2>5, <3>1, MadeElsewhere
    <3>3. \A b \in DOMAIN blocks :
            b = c \/ HasTerminator(blocks[b]) \/ \E l \in jumpMap : b = Label(l) /\ offset <= l
      BY <2>2, <2>5
    <3>4. \A b, at, with : Starts(offset, sp, block, blocks, b, at, with)
                             => Starts(offset, sp, c, blocks, b, at, with)
      BY <3>1 DEF Starts
    <3>5. ASSUME NEW l \in jumpMap
          PROVE  /\ IF l < offset \/ c = Label(l) THEN Starts(offset, sp, c, blocks, Label(l), l, 0)
                    ELSE blocks[Label(l)] = <<>>
                 /\ c = Label(l) => l <= offset
      <4>1. CASE c = Label(l)
        <5>1. l = offset
          BY <2>4, <4>1
        <5> QED
          BY <2>1, <2>3, <4>1, <5>1 DEF Starts
      <4>2. CASE c # Label(l) /\ l < offset
        BY <2>2, <3>4, <4>2
      <4>3. CASE c # Label(l) /\ ~(l < offset)
        <5>1. block # Label(l)
          BY <4>3 DEF SecondWalk, Emitting
        <5> QED
          BY <2>2, <4>3, <5>1
      <4> QED
        BY <4>1, <4>2, <4>3
    <3>6. offset \in D \cup {program.length} /\ sp \in Int
      BY <1>0 DEF Made
    <3>7. Made(offset, sp, c, blocks)
      BY <2>2, <2>3, <3>2, <3>3, <3>4, <3>5, <3>6, Zenon DEF Made
    <3>8. ~HasTerminator(blocks[c])
      BY <2>3 DEF HasTerminator
    <3> QED
      BY <2>1, <3>1, <3>7, <3>8 DEF Open, c
  <2>6. CASE ~HasTerminator(blocks[block])
    <3> DEFINE e == Emitted("br", <<Label(offset)>>)
               C == Insert(blocks, block, e)
    <3>1. Switched = C
      BY <1>2, <2>6 DEF Switched, FallsThrough
    <3>2. e \in Instr /\ e.offset = offset /\ e.sp = sp /\ e.kind = "br" /\ FallsInto(e)
      <4>1. Label(offset) \in Ids
        BY <2>1, BlockIds
      <4> QED
        BY <2>1, <4>1 DEF Emitted, Instr, Kinds, Terminators, FallsInto, SecondWalk
    <3>3. Open(offset, sp, block, blocks)
      BY <1>0, <2>6 DEF Open
    <3>4. IsInserted(C, blocks, block, e)
      BY <2>2, <3>2, Inserted
    <3> HIDE DEF e, C
    <3>5. /\ DOMAIN C = DOMAIN blocks
          /\ \A b \in DOMAIN blocks : b # block => C[b] = blocks[b]
          /\ C[block] \in Seq(Instr)
          /\ HasTerminator(C[block])
      <4>1. C[block] # <<>> /\ C[block][Len(C[block])] = e
        BY <3>4 DEF IsInserted
      <4> QED
        BY <3>2, <3>4, <4>1 DEF IsInserted, HasTerminator, Terminators
    <3>6. ASSUME NEW b \in DOMAIN C, NEW k \in DOMAIN C[b]
          PROVE  C[b][k].offset <= offset /\ Faithful(C[b][k]) /\ Continued(offset, sp, c, C, b, k)
      <4>1. CASE k \in DOMAIN blocks[b]
        <5>1. C[b][k] = blocks[b][k] /\ Continued(offset, sp, c, C, b, k)
          BY <3>2, <3>3, <3>5, <4>1, ElementsInserted DEF C
        <5> QED
          BY <2>2, <3>5, <4>1, <5>1
      <4>2. CASE k \notin DOMAIN blocks[b]
        <5>1. b = block
          BY <3>5, <4>2
        <5>2. k = Len(C[b]) /\ C[b][k] = e
          BY <3>4, <4>2, <5>1 DEF IsInserted
        <5>3. Faithful(e)
          BY <3>2 DEF Faithful
        <5>4. Continued(offset, sp, c, C, b, k)
          BY <3>2, <5>2 DEF Continued
        <5> QED
          BY <2>1, <3>2, <5>2, <5>3, <5>4
      <4> QED
        BY <4>1, <4>2
    <3>7. \A b \in DOMAIN C : C[b] \in Seq(Instr) /\
            (b = c \/ HasTerminator(C[b]) \/ \E l \in jumpMap : b = Label(l) /\ offset <= l)
      BY <2>2, <3>5
    <3>8. \A b \in DOMAIN blocks : \A at, with : Starts(offset, sp, block, blocks, b, at, with)
                             => Starts(offset, sp, c, C, b, at, with)
      BY <2>2, <3>2, StartsInserted DEF C
    <3>9. C[c] = <<>>
      BY <2>3, <3>5
    <3>10. ASSUME NEW l \in jumpMap
          PROVE  /\ IF l < offset \/ c = Label(l) THEN Starts(offset, sp, c, C, Label(l), l, 0)
                    ELSE C[Label(l)] = <<>>
                 /\ c = Label(l) => l <= offset
      <4>0. Label(l) \in DOMAIN blocks
        BY <2>2 DEF Labels
      <4>1. CASE c = Label(l)
        <5>1. l = offset
          BY <2>4, <4>1
        <5> QED
          BY <2>1, <3>9, <4>1, <5>1 DEF Starts
      <4>2. CASE c # Label(l) /\ l < offset
        BY <2>2, <3>8, <4>0, <4>2
      <4>3. CASE c # Label(l) /\ ~(l < offset)
        <5>1. block # Label(l)
          BY <4>3 DEF SecondWalk, Emitting
        <5> QED
          BY <2>2, <3>5, <4>0, <4>3, <5>1
      <4> QED
        BY <4>1, <4>2, <4>3
    <3>11. offset \in D \cup {program.length} /\ sp \in Int
      BY <1>0 DEF Made
    <3>12. Entry \in DOMAIN blocks
      BY <2>2
    <3>13. Starts(offset, sp, c, C, Entry, 0, 0) /\ c \in DOMAIN C
      BY <2>2, <2>3, <3>5, <3>8, <3>12
    <3>14. Made(offset, sp, c, C)
      BY <2>2, <3>5, <3>6, <3>7, <3>10, <3>11, <3>13, Zenon DEF Made
    <3>15. ~HasTerminator(C[c])
      BY <3>9 DEF HasTerminator
    <3> QED
      BY <2>1, <3>1, <3>14, <3>15 DEF Open, c
  <2> QED
    BY <2>5, <2>6
<1> QED
  BY <1>1, <1>2

-----------------------------------------------------------------------------
(* The second walk                                                           *)

\* A label o' is behind o or further on.
LEMMA LabelsBehind ==
  ASSUME FirstWalk, NEW o \in D, NEW l \in jumpMap
  PROVE  /\ l < Beyond(o) <=> l < o \/ l = o
         /\ o <= l => l = o \/ Beyond(o) <= l
         /\ l \in Int /\ o \in Int /\ Beyond(o) \in Int
  BY InOnePiece DEF FirstWalk

\* The block an instruction is inserted into goes on behind it.
LEMMA Extended ==
  ASSUME FirstWalk, NEW s, NEW c, NEW B, NEW o \in D,
         Open(o, s, c, B), o \in jumpMap => c = Label(o),
         NEW e \in Instr, e.offset = o, e.sp = s, Faithful(e), Op(o) # "check"
  PROVE  LET C == Insert(B, c, e) IN
         /\ Made(Beyond(o), After(e), c, C)
         /\ HasTerminator(C[c]) <=> e.kind \in Terminators
         /\ \A l \in jumpMap : c = Label(l) => l < Beyond(o)
<1> DEFINE C == Insert(B, c, e)
           o2 == Beyond(o)
           s2 == After(e)
<1>1. /\ DOMAIN B = {Entry} \cup Labels \cup Forks(o)
      /\ c \in DOMAIN B
      /\ \A b \in DOMAIN B :
           /\ B[b] \in Seq(Instr)
           /\ \A k \in DOMAIN B[b] : B[b][k].offset <= o /\ Faithful(B[b][k])
           /\ b = c \/ HasTerminator(B[b]) \/ \E l \in jumpMap : b = Label(l) /\ o <= l
      /\ Starts(o, s, c, B, Entry, 0, 0)
      /\ \A l \in jumpMap :
           IF l < o \/ c = Label(l) THEN Starts(o, s, c, B, Label(l), l, 0)
           ELSE B[Label(l)] = <<>>
      /\ \A l \in jumpMap : c = Label(l) => l <= o
  BY Zenon DEF Open, Made
<1>2. IsInserted(C, B, c, e)
  BY <1>1, Inserted
<1>3. o \in Nat /\ o2 \in Nat /\ o < o2 /\ o2 \in D \cup {program.length} /\ s2 \in Int
  BY InOnePiece DEF FirstWalk, After, Instr
<1>4. ASSUME NEW b \in DOMAIN B, NEW k \in DOMAIN B[b]
      PROVE  C[b][k] = B[b][k] /\ Continued(o2, s2, c, C, b, k)
  BY ElementsInserted
<1>5. ASSUME NEW b \in DOMAIN B, NEW at, NEW with, Starts(o, s, c, B, b, at, with)
      PROVE  Starts(o2, s2, c, C, b, at, with)
  BY <1>1, <1>5, StartsInserted
<1>6. /\ \A l \in jumpMap : l < o2 <=> l < o \/ l = o
      /\ \A l \in jumpMap : o <= l => l = o \/ o2 <= l
      /\ \A l \in jumpMap : l \in Int
      /\ \A d \in D : d \in Int /\ (Op(d) = "check" => (d < o2 <=> d < o))
  BY LabelsBehind, InOnePiece DEF FirstWalk
<1>7. s2 = After(e) /\ o2 = Beyond(e.offset)
  OBVIOUS
<1> HIDE DEF C, o2, s2
<1>8. /\ DOMAIN C = DOMAIN B
      /\ \A b \in DOMAIN B : b # c => C[b] = B[b]
      /\ C[c] \in Seq(Instr)
      /\ C[c] # <<>> /\ C[c][Len(C[c])] = e
  BY <1>2 DEF IsInserted
<1>9. HasTerminator(C[c]) <=> e.kind \in Terminators
  BY <1>8 DEF HasTerminator
<1>10. ASSUME NEW b \in DOMAIN C, NEW k \in DOMAIN C[b]
       PROVE  C[b][k].offset <= o2 /\ Faithful(C[b][k]) /\ Continued(o2, s2, c, C, b, k)
  <2>1. CASE k \in DOMAIN B[b]
    <3>1. C[b][k] = B[b][k] /\ Continued(o2, s2, c, C, b, k)
      BY <1>4, <1>8, <2>1
    <3>2. B[b][k].offset <= o /\ Faithful(B[b][k]) /\ B[b][k].offset \in Int
      <4>1. B[b] \in Seq(Instr)
        BY <1>1, <1>8
      <4>2. B[b][k] \in Instr
        BY <2>1, <4>1
      <4> QED
        BY <1>1, <1>6, <1>8, <2>1, <4>2 DEF Instr
    <3> QED
      BY <1>3, <3>1, <3>2
  <2>2. CASE k \notin DOMAIN B[b]
    <3>1. b = c
      BY <1>8, <2>2
    <3>2. k = Len(C[b]) /\ C[b][k] = e
      BY <1>2, <2>2, <3>1 DEF IsInserted
    <3>3. Continued(o2, s2, c, C, b, k)
      BY <1>7, <3>1, <3>2 DEF Continued, Emptied, Faithful
    <3> QED
      BY <1>3, <3>2, <3>3
  <2> QED
    BY <2>1, <2>2
<1>11. \A b \in DOMAIN C : C[b] \in Seq(Instr) /\
         (b = c \/ HasTerminator(C[b]) \/ \E l \in jumpMap : b = Label(l) /\ o2 <= l)
  BY <1>1, <1>6, <1>8
<1>12. ASSUME NEW l \in jumpMap
       PROVE  /\ IF l < o2 \/ c = Label(l) THEN Starts(o2, s2, c, C, Label(l), l, 0)
                 ELSE C[Label(l)] = <<>>
              /\ c = Label(l) => l < o2
  <2>1. Label(l) \in DOMAIN B
    BY <1>1 DEF Labels
  <2>2. CASE l < o2
    <3>1. l < o \/ c = Label(l)
      BY <1>6, <2>2
    <3> QED
      BY <1>1, <1>5, <2>1, <2>2, <3>1
  <2>3. CASE ~(l < o2)
    <3>1. c # Label(l) /\ ~(l < o)
      BY <1>1, <1>3, <1>6, <2>3
    <3> QED
      BY <1>1, <1>8, <2>1, <2>3, <3>1
  <2> QED
    BY <2>2, <2>3
<1>13. DOMAIN C = {Entry} \cup Labels \cup Forks(o2)
  <2>1. Forks(o2) = Forks(o)
    BY <1>6 DEF Forks
  <2> QED
    BY <1>1, <1>8, <2>1
<1>14. Starts(o2, s2, c, C, Entry, 0, 0) /\ c \in DOMAIN C
  BY <1>1, <1>5, <1>8
<1>15. \A l \in jumpMap : c = Label(l) => l <= o2
  BY <1>3, <1>6, <1>12
<1>16. Made(o2, s2, c, C)
  BY <1>3, <1>10, <1>11, <1>12, <1>13, <1>14, <1>15, Zenon DEF Made
<1> QED
  BY <1>9, <1>12, <1>16 DEF C, o2, s2

\* A check ends its block: one that fails, and one that goes on behind it.
Checked(B, o, c, e, fail) ==
  Insert(Insert(WithBlocks(B, {OnTrue(o), OnFalse(o)}), c, e), OnTrue(o), fail)

LEMMA ExtendedCheck ==
  ASSUME FirstWalk, NEW s, NEW c, NEW B, NEW o \in D,
         Open(o, s, c, B), o \in jumpMap => c = Label(o), Op(o) = "check",
         NEW e \in Instr, e.offset = o, e.sp = s,
         e.kind = "condbr", e.to = <<OnTrue(o), OnFalse(o)>>,
         NEW fail \in Instr, fail.offset = o, fail.sp = s, fail.kind = "fail", fail.to = <<>>
  PROVE  LET C == Checked(B, o, c, e, fail) IN
         /\ Made(Beyond(o), After(e), OnFalse(o), C)
         /\ C[OnFalse(o)] = <<>>
<1> DEFINE B1 == WithBlocks(B, {OnTrue(o), OnFalse(o)})
           B2 == Insert(B1, c, e)
           C  == Insert(B2, OnTrue(o), fail)
           o2 == Beyond(o)
           s2 == After(e)
           t  == OnTrue(o)
           f  == OnFalse(o)
<1>1. /\ DOMAIN B = {Entry} \cup Labels \cup Forks(o)
      /\ c \in DOMAIN B
      /\ \A b \in DOMAIN B :
           /\ B[b] \in Seq(Instr)
           /\ \A k \in DOMAIN B[b] : B[b][k].offset <= o /\ Faithful(B[b][k])
           /\ b = c \/ HasTerminator(B[b]) \/ \E l \in jumpMap : b = Label(l) /\ o <= l
      /\ Starts(o, s, c, B, Entry, 0, 0)
      /\ \A l \in jumpMap :
           IF l < o \/ c = Label(l) THEN Starts(o, s, c, B, Label(l), l, 0)
           ELSE B[Label(l)] = <<>>
      /\ \A l \in jumpMap : c = Label(l) => l <= o
  BY Zenon DEF Open, Made
<1>2. t \notin DOMAIN B /\ f \notin DOMAIN B /\ t # f
      /\ (\A l \in jumpMap : Label(l) \notin {t, f}) /\ Entry \notin {t, f}
  <2>1. \A d \in D : d < o => d # o
    BY InOnePiece DEF FirstWalk
  <2> QED
    BY <1>1, <2>1, DifferentBlocks DEF Labels, Forks
<1>3. o \in Nat /\ o2 \in Nat /\ o < o2 /\ o2 \in D \cup {program.length} /\ s2 \in Int
  BY InOnePiece DEF FirstWalk, After, Instr
<1>4. /\ \A l \in jumpMap : l < o2 <=> l < o \/ l = o
      /\ \A l \in jumpMap : o <= l => l = o \/ o2 <= l
      /\ \A l \in jumpMap : l \in Int
      /\ \A d \in D : d \in Int /\ (d < o2 <=> d < o \/ d = o)
  BY LabelsBehind, InOnePiece DEF FirstWalk
<1>5. s2 = After(e) /\ o2 = Beyond(e.offset)
  OBVIOUS
<1>6. /\ DOMAIN B1 = DOMAIN B \cup {t, f}
      /\ \A b \in DOMAIN B : B1[b] = B[b]
      /\ B1[t] = <<>> /\ B1[f] = <<>>
  BY <1>2 DEF WithBlocks
<1>7. /\ Insert(B, c, e)[c] = Append(B[c], e)
      /\ \A b \in DOMAIN B : b # c => Insert(B, c, e)[b] = B[b]
      /\ B2[c] = Append(B1[c], e)
      /\ \A b \in DOMAIN B1 : b # c => B2[b] = B1[b]
      /\ DOMAIN B2 = DOMAIN B1
      /\ C[t] = Append(B2[t], fail)
      /\ \A b \in DOMAIN B2 : b # t => C[b] = B2[b]
      /\ DOMAIN C = DOMAIN B2
  BY <1>1, <1>6 DEF Insert
<1>8. ASSUME NEW b \in DOMAIN B, NEW k \in DOMAIN B[b]
      PROVE  /\ Insert(B, c, e)[b][k] = B[b][k]
             /\ Continued(o2, s2, f, Insert(B, c, e), b, k)
  BY ElementsInserted
<1>9. ASSUME NEW b \in DOMAIN B, NEW at, NEW with, Starts(o, s, c, B, b, at, with)
      PROVE  Starts(o2, s2, f, Insert(B, c, e), b, at, with)
  BY <1>1, <1>9, StartsInserted
<1>10. IsInserted(Insert(B, c, e), B, c, e)
  BY <1>1, Inserted
<1> HIDE DEF B1, B2, C, o2, s2, t, f
<1>11. /\ \A b \in DOMAIN B : C[b] = Insert(B, c, e)[b]
       /\ DOMAIN C = DOMAIN B \cup {t, f}
       /\ C[f] = <<>> /\ C[t] = <<fail>>
  <2>1. t # c /\ f # c
    BY <1>1, <1>2
  <2>2. C[f] = <<>> /\ C[t] = Append(<<>>, fail)
    BY <1>1, <1>2, <1>6, <1>7, <2>1
  <2>3. Append(<<>>, fail) = <<fail>>
    OBVIOUS
  <2>4. ASSUME NEW b \in DOMAIN B PROVE C[b] = Insert(B, c, e)[b]
    <3>1. b # t /\ b \in DOMAIN B1 /\ b \in DOMAIN B2 /\ B1[b] = B[b]
      BY <1>2, <1>6, <1>7
    <3>2. C[b] = B2[b]
      BY <1>7, <3>1
    <3> QED
      BY <1>7, <3>1, <3>2
  <2> QED
    BY <1>6, <1>7, <2>2, <2>3, <2>4
<1> DEFINE I == Insert(B, c, e)
<1>12. /\ DOMAIN I = DOMAIN B
       /\ \A b \in DOMAIN B : b # c => I[b] = B[b]
       /\ I[c] \in Seq(Instr)
       /\ I[c] # <<>> /\ I[c][Len(I[c])] = e
  BY <1>10 DEF IsInserted
<1>13. ASSUME NEW b \in DOMAIN B, NEW at, NEW with, Starts(o, s, c, B, b, at, with)
      PROVE  Starts(o2, s2, f, C, b, at, with)
  <2>1. Starts(o2, s2, f, I, b, at, with) /\ C[b] = I[b]
    BY <1>9, <1>11, <1>13
  <2> QED
    BY <2>1 DEF Starts
<1>14. Starts(o2, s2, f, C, t, o, s) /\ Starts(o2, s2, f, C, f, o2, s2)
  BY <1>11 DEF Starts
<1>15. ASSUME NEW b \in DOMAIN B, NEW k, Continued(o2, s2, f, I, b, k)
       PROVE  Continued(o2, s2, f, C, b, k)
  <2>1. C[b] = I[b]
    BY <1>11
  <2>2. \A d \in DOMAIN I : \A at, with : Starts(o2, s2, f, I, d, at, with) => Starts(o2, s2, f, C, d, at, with)
    BY <1>11, <1>12 DEF Starts
  <2>3. DOMAIN I \subseteq DOMAIN C
    BY <1>11, <1>12
  <2> HIDE DEF I
  <2>4. Op(I[b][k].offset) # "cond" /\ I[b][k].kind = "condbr" =>
           /\ {OnTrue(I[b][k].offset), OnFalse(I[b][k].offset)} \subseteq DOMAIN C
           /\ Starts(o2, s2, f, C, OnTrue(I[b][k].offset), I[b][k].offset, I[b][k].sp)
           /\ Starts(o2, s2, f, C, OnFalse(I[b][k].offset), Beyond(I[b][k].offset), After(I[b][k]))
    BY <1>15, <2>2, <2>3 DEF Continued
  <2> QED
    BY <1>15, <2>1, <2>4, Zenon DEF Continued
<1>16. ASSUME NEW b \in DOMAIN C, NEW k \in DOMAIN C[b]
       PROVE  C[b][k].offset <= o2 /\ Faithful(C[b][k]) /\ Continued(o2, s2, f, C, b, k)
  <2>1. CASE b \in DOMAIN B /\ k \in DOMAIN B[b]
    <3>1. C[b][k] = B[b][k] /\ Continued(o2, s2, f, C, b, k)
      BY <1>8, <1>11, <1>15, <2>1
    <3>2. B[b][k].offset <= o /\ Faithful(B[b][k]) /\ B[b][k].offset \in Int
      <4>1. B[b] \in Seq(Instr)
        BY <1>1, <2>1
      <4>2. B[b][k] \in Instr
        BY <2>1, <4>1
      <4> QED
        BY <1>1, <1>4, <2>1, <4>2 DEF Instr
    <3> QED
      BY <1>3, <3>1, <3>2
  <2>2. CASE b \in DOMAIN B /\ k \notin DOMAIN B[b]
    <3>1. C[b] = I[b]
      BY <1>11, <2>2
    <3>2. b = c
      BY <1>12, <2>2, <3>1
    <3>3. k = Len(C[b]) /\ C[b][k] = e
      BY <1>10, <2>2, <3>1, <3>2 DEF IsInserted
    <3>4. Continued(o2, s2, f, C, b, k)
      BY <1>5, <1>11, <1>14, <3>3 DEF Continued, t, f
    <3>5. Faithful(e)
      BY DEF Faithful
    <3> QED
      BY <1>3, <3>3, <3>4, <3>5
  <2>3. CASE b = t
    <3>1. k = 1 /\ C[b][k] = fail /\ Len(C[b]) = 1
      <4>1. Len(<<fail>>) = 1 /\ DOMAIN <<fail>> = {1} /\ <<fail>>[1] = fail
        OBVIOUS
      <4> QED
        BY <1>11, <2>3, <4>1
    <3>2. Continued(o2, s2, f, C, b, k)
      BY <3>1 DEF Continued
    <3>3. Faithful(fail)
      BY DEF Faithful
    <3> QED
      BY <1>3, <3>1, <3>2, <3>3
  <2>4. CASE b = f
    BY <1>11, <2>4
  <2> QED
    BY <1>11, <2>1, <2>2, <2>3, <2>4
<1>17. \A b \in DOMAIN C : C[b] \in Seq(Instr) /\
         (b = f \/ HasTerminator(C[b]) \/ \E l \in jumpMap : b = Label(l) /\ o2 <= l)
  <2>1. HasTerminator(I[c])
    BY <1>12 DEF HasTerminator, Terminators
  <2>2. HasTerminator(<<fail>>) /\ <<fail>> \in Seq(Instr) /\ <<>> \in Seq(Instr)
    BY DEF HasTerminator, Terminators
  <2>3. ASSUME NEW b \in DOMAIN B, b # c
        PROVE  b = f \/ HasTerminator(C[b]) \/ \E l \in jumpMap : b = Label(l) /\ o2 <= l
    <3>1. C[b] = B[b]
      BY <1>11, <1>12, <2>3
    <3> QED
      BY <1>1, <1>4, <2>3, <3>1
  <2>4. \A b \in DOMAIN B : C[b] \in Seq(Instr)
    BY <1>1, <1>11, <1>12
  <2> QED
    BY <1>11, <2>1, <2>2, <2>3, <2>4
<1>18. ASSUME NEW l \in jumpMap
       PROVE  /\ IF l < o2 \/ f = Label(l) THEN Starts(o2, s2, f, C, Label(l), l, 0)
                 ELSE C[Label(l)] = <<>>
              /\ f = Label(l) => l <= o2
  <2>1. Label(l) \in DOMAIN B /\ f # Label(l)
    BY <1>1, <1>2 DEF Labels
  <2>2. CASE l < o2
    <3>1. l < o \/ c = Label(l)
      BY <1>4, <2>2
    <3> QED
      BY <1>1, <1>13, <2>1, <2>2, <3>1
  <2>3. CASE ~(l < o2)
    <3>1. c # Label(l) /\ ~(l < o)
      BY <1>1, <1>3, <1>4, <2>3
    <3>2. C[Label(l)] = B[Label(l)]
      BY <1>11, <1>12, <2>1, <3>1
    <3> QED
      BY <1>1, <2>1, <2>3, <3>1, <3>2
  <2> QED
    BY <2>2, <2>3
<1>19. DOMAIN C = {Entry} \cup Labels \cup Forks(o2)
  <2>1. Forks(o2) = Forks(o) \cup {t, f}
    <3>1. \A b : b \in Forks(o2) <=> \E q \in D : q < o2 /\ Op(q) = "check" /\ b \in {OnTrue(q), OnFalse(q)}
      BY DEF Forks
    <3>2. \A b : b \in Forks(o) <=> \E q \in D : q < o /\ Op(q) = "check" /\ b \in {OnTrue(q), OnFalse(q)}
      BY DEF Forks
    <3> QED
      BY <1>4, <3>1, <3>2 DEF t, f
  <2> QED
    BY <1>1, <1>11, <2>1
<1>20. Starts(o2, s2, f, C, Entry, 0, 0) /\ f \in DOMAIN C
  BY <1>1, <1>11, <1>13
<1>21. Made(o2, s2, f, C)
  BY <1>3, <1>16, <1>17, <1>18, <1>19, <1>20, Zenon DEF Made
<1>22. C = Checked(B, o, c, e, fail)
  BY DEF C, Checked, B2, B1, t
<1> QED
  BY <1>11, <1>21, <1>22 DEF o2, s2, f

LEMMA FirstWalkStays ==
  ASSUME FirstWalk, phase # "preprocess", phase' # "preprocess",
         UNCHANGED <<program, jumpMap, switchMap, current>>
  PROVE  FirstWalk'
<1>1. /\ D' = D /\ \A o : (Walked(o)' <=> Walked(o)) /\ Op(o)' = Op(o) /\ Target(o)' = Target(o)
      /\ \A t : ~InTable(t) /\ ~InTable(t)' /\ Targets(t)' = Targets(t)
  BY DEF Walked, D, Op, Target, InTable, Targets
<1>2. \A t : TableKnown(t)' <=> TableKnown(t)
  BY <1>1 DEF TableKnown, EntryAt, Entries
<1> QED
  BY <1>1, <1>2, Zenon DEF FirstWalk, JumpsHaveLabels, TablesKnown

LEMMA Translates ==
  ASSUME TranslatorIInv, NEW ops, Translate(ops)
  PROVE  /\ SecondWalk /\ Op(offset) \in ops
         /\ offset' = Beyond(offset) /\ sp' = sp + program.code[offset].delta
         /\ UNCHANGED <<program, phase, jumpMap, switchMap, current, place, status>>
         /\ Open(offset, sp, InsertBlock, Switched)
         /\ offset \in jumpMap => InsertBlock = Label(offset)
         /\ offset \in Int /\ sp \in Int
<1>1. /\ phase = "translate" /\ offset < program.length /\ Op(offset) \in ops
      /\ IsLabel => sp = 0
      /\ offset' = Beyond(offset) /\ sp' = sp + program.code[offset].delta
      /\ UNCHANGED <<program, phase, jumpMap, switchMap, current, place, status>>
  BY DEF Translate, AtOffset, Ins, Op, Beyond, StackAfter
<1>2. FirstWalk /\ Emitting
  BY <1>1 DEF TranslatorIInv, FirstWalk
<1>3. offset \in D /\ sp \in Int /\ offset \in Int
  BY <1>1, <1>2, InOnePiece DEF Emitting, Made, FirstWalk
<1>4. SecondWalk
  BY <1>1, <1>2, <1>3 DEF SecondWalk
<1> QED
  BY <1>1, <1>3, <1>4, SwitchedOpen

\* The stack pointer is what the paths say, if those that meet have none in use.
LEMMA StackIsDepth ==
  ASSUME SecondWalk, StacksMeetEmpty
  PROVE  sp = program.depth[offset]
<1>1. CASE IsLabel
  BY <1>1 DEF IsLabel, SecondWalk, StacksMeetEmpty
<1>2. CASE ~IsLabel /\ offset = 0
  <2>1. \A p \in D : Beyond(p) # 0
    BY InOnePiece DEF SecondWalk, FirstWalk
  <2> QED
    BY <1>2, <2>1, InOnePiece DEF SecondWalk, Emitting, Before, FirstWalk
<1>3. CASE ~IsLabel /\ offset # 0
  <2>1. PICK p \in D : Op(p) \in {"plain", "check"} /\ Beyond(p) = offset
    BY <1>3, RunsOnTo DEF SecondWalk, IsLabel
  <2>2. PICK q \in D :
          Beyond(q) = offset /\ sp = program.depth[q] + program.code[q].delta
    BY <1>3 DEF SecondWalk, Emitting, Before
  <2>3. p = q
    BY <2>1, <2>2, OneBefore DEF SecondWalk, FirstWalk
  <2> QED
    BY <2>1, <2>2, <2>3, Followed DEF SecondWalk, FirstWalk
<1> QED
  BY <1>1, <1>2, <1>3

LEMMA SecondWalkGoesOn ==
  ASSUME TranslatorIInv, SecondWalk,
         offset' = Beyond(offset), sp' = sp + program.code[offset].delta,
         UNCHANGED <<program, phase, jumpMap, switchMap, current, place, status>>,
         Made(offset', sp', block', blocks'),
         HasTerminator(blocks'[block']) <=> Op(offset) \in Jumps \cup {"ret"},
         \A l \in jumpMap : block' = Label(l) => l < offset'
  PROVE  TranslatorIInv'
<1>1. FirstWalk'
  BY FirstWalkStays DEF SecondWalk
<1>2. Made(offset, sp, block, blocks)'
  BY MadeStays
<1>3. /\ D' = D /\ \A o : Op(o)' = Op(o) /\ Beyond(o)' = Beyond(o)
      /\ StacksMeetEmpty' <=> StacksMeetEmpty
  BY DEF D, Op, Beyond, StacksMeetEmpty
<1>4. StacksMeetEmpty => sp' = program.depth[offset] + program.code[offset].delta
  BY StackIsDepth
<1>5. PICK o \in D : o = offset
  BY DEF SecondWalk
<1>6. Before(offset, sp, block, blocks)'
  <2>1. /\ Beyond(o) = offset'
        /\ HasTerminator(blocks'[block']) <=> Op(o) \in Jumps \cup {"ret"}
        /\ StacksMeetEmpty => sp' = program.depth[o] + program.code[o].delta
    BY <1>4, <1>5
  <2> QED
    BY <1>3, <2>1 DEF Before, HasTerminator
<1>7. Emitting'
  BY <1>2, <1>6 DEF Emitting
<1>8. phase' = "translate" /\ place' = <<Entry, 1>> /\ status' = "running"
  BY DEF SecondWalk, TranslatorIInv
<1> QED
  BY <1>1, <1>7, <1>8, Zenon DEF TranslatorIInv, FirstWalk

\* The actions of the second walk that insert one instruction.
LEMMA EmitKeeps ==
  ASSUME TranslatorIInv, NEW ops, Translate(ops), NEW kind, NEW to, Emit(kind, to), block' = InsertBlock,
         kind \in Kinds, to \in Seq(Ids), Faithful(Emitted(kind, to)),
         Op(offset) # "check",
         kind \in Terminators <=> Op(offset) \in Jumps \cup {"ret"}
  PROVE  TranslatorIInv'
<1> DEFINE e == Emitted(kind, to)
           C == Insert(Switched, InsertBlock, e)
<1>1. /\ SecondWalk
      /\ offset' = Beyond(offset) /\ sp' = sp + program.code[offset].delta
      /\ UNCHANGED <<program, phase, jumpMap, switchMap, current, place, status>>
      /\ Open(offset, sp, InsertBlock, Switched)
      /\ offset \in jumpMap => InsertBlock = Label(offset)
      /\ offset \in Int /\ sp \in Int
  BY Translates
<1>2. FirstWalk /\ offset \in D
  BY <1>1 DEF SecondWalk
<1>3. e \in Instr /\ e.offset = offset /\ e.sp = sp /\ e.kind = kind /\ After(e) = sp'
  BY <1>1, <1>2 DEF Emitted, Instr, After
<1>4. blocks' = C
  BY DEF Emit
<1>5. Faithful(e)
  OBVIOUS
<1> HIDE DEF e
<1>6. /\ Made(offset', sp', block', C)
      /\ HasTerminator(C[block']) <=> kind \in Terminators
      /\ \A l \in jumpMap : block' = Label(l) => l < offset'
  BY <1>1, <1>2, <1>3, <1>5, Extended
<1> QED
  BY <1>1, <1>4, <1>6, SecondWalkGoesOn

LEMMA TranslateWorkKeeps == ASSUME TranslatorIInv, TranslateWork PROVE TranslatorIInv'
<1>1. Op(offset) = "plain"
  BY Translates DEF TranslateWork
<1>2. Faithful(Emitted("work", <<>>))
  BY <1>1 DEF Faithful, Emitted
<1>3. <<>> \in Seq(Ids)
  OBVIOUS
<1> QED
  BY <1>1, <1>2, <1>3, EmitKeeps DEF TranslateWork, Kinds, Terminators, Jumps

LEMMA TranslateReturnKeeps == ASSUME TranslatorIInv, TranslateReturn PROVE TranslatorIInv'
<1>1. Op(offset) = "ret"
  BY Translates DEF TranslateReturn
<1>2. Faithful(Emitted("ret", <<>>))
  BY <1>1 DEF Faithful, Emitted
<1>3. <<>> \in Seq(Ids)
  OBVIOUS
<1> QED
  BY <1>1, <1>2, <1>3, EmitKeeps DEF TranslateReturn, Kinds, Terminators, Jumps

LEMMA TranslateJumpKeeps == ASSUME TranslatorIInv, TranslateJump PROVE TranslatorIInv'
<1>1. Op(offset) = "jmp" /\ SecondWalk
  BY Translates DEF TranslateJump
<1>2. BranchTarget = Target(offset) /\ Target(offset) \in Int
  BY <1>1, InOnePiece DEF BranchTarget, Ins, Target, SecondWalk, FirstWalk
<1>3. Faithful(Emitted("br", <<Label(BranchTarget)>>))
  BY <1>1, <1>2 DEF Faithful, Emitted
<1>4. <<Label(BranchTarget)>> \in Seq(Ids)
  BY <1>2, BlockIds
<1> QED
  BY <1>1, <1>3, <1>4, EmitKeeps DEF TranslateJump, Kinds, Terminators, Jumps

LEMMA TranslateBranchKeeps == ASSUME TranslatorIInv, TranslateBranch PROVE TranslatorIInv'
<1>1. Op(offset) = "cond" /\ SecondWalk
  BY Translates DEF TranslateBranch
<1>2. BranchTarget = Target(offset) /\ Target(offset) \in Int /\ FailTarget = offset + 2 /\ offset + 2 \in Int
  BY <1>1, InOnePiece DEF BranchTarget, FailTarget, Ins, Target, SecondWalk, FirstWalk
<1>3. Faithful(Emitted("condbr", <<Label(BranchTarget), Label(FailTarget)>>))
  BY <1>1, <1>2 DEF Faithful, Emitted
<1>4. <<Label(BranchTarget), Label(FailTarget)>> \in Seq(Ids)
  BY <1>2, BlockIds
<1> QED
  BY <1>1, <1>3, <1>4, EmitKeeps DEF TranslateBranch, Kinds, Terminators, Jumps

LEMMA TranslateTableKeeps == ASSUME TranslatorIInv, TranslateTable PROVE TranslatorIInv'
<1>1. Op(offset) = "jmpp" /\ SecondWalk
  BY Translates DEF TranslateTable
<1>2. switchMap[offset] = Targets(offset) /\ Targets(offset) \in Seq(Ids)
  BY <1>1, SwitchKnown DEF SecondWalk
<1>3. SwitchTargets(switchMap[offset]) = Targets(offset)
  BY <1>2 DEF SwitchTargets
<1>4. Faithful(Emitted("switch", Targets(offset)))
  BY <1>1 DEF Faithful, Emitted
<1> QED
  BY <1>1, <1>2, <1>3, <1>4, EmitKeeps DEF TranslateTable, Kinds, Terminators, Jumps

LEMMA TranslateCheckKeeps == ASSUME TranslatorIInv, TranslateCheck PROVE TranslatorIInv'
<1> DEFINE e == Emitted("condbr", <<OnTrue(offset), OnFalse(offset)>>)
           fail == Emitted("fail", <<>>)
           C == Checked(Switched, offset, InsertBlock, e, fail)
<1>1. /\ SecondWalk /\ Op(offset) = "check"
      /\ offset' = Beyond(offset) /\ sp' = sp + program.code[offset].delta
      /\ UNCHANGED <<program, phase, jumpMap, switchMap, current, place, status>>
      /\ Open(offset, sp, InsertBlock, Switched)
      /\ offset \in jumpMap => InsertBlock = Label(offset)
      /\ offset \in Int /\ sp \in Int
  BY Translates DEF TranslateCheck
<1>2. FirstWalk /\ offset \in D
  BY <1>1 DEF SecondWalk
<1>3. /\ e \in Instr /\ e.offset = offset /\ e.sp = sp /\ e.kind = "condbr"
      /\ e.to = <<OnTrue(offset), OnFalse(offset)>> /\ After(e) = sp'
      /\ fail \in Instr /\ fail.offset = offset /\ fail.sp = sp /\ fail.kind = "fail" /\ fail.to = <<>>
  <2>1. <<OnTrue(offset), OnFalse(offset)>> \in Seq(Ids)
    BY <1>1, BlockIds
  <2> QED
    BY <1>1, <1>2, <2>1 DEF Emitted, Instr, After, Kinds, Terminators
<1>4. blocks' = C /\ block' = OnFalse(offset)
  BY DEF TranslateCheck, Checked
<1> HIDE DEF e, fail
<1>5. Made(offset', sp', block', C) /\ C[block'] = <<>>
  BY <1>1, <1>2, <1>3, <1>4, ExtendedCheck
<1>6. ~HasTerminator(C[block']) /\ \A l \in jumpMap : block' # Label(l)
  BY <1>4, <1>5, DifferentBlocks DEF HasTerminator
<1> QED
  BY <1>1, <1>4, <1>5, <1>6, SecondWalkGoesOn DEF Jumps

LEMMA RejectKeeps == ASSUME TranslatorIInv, Reject PROVE TranslatorIInv'
<1>1. /\ FirstWalk /\ Emitting /\ phase = "translate" /\ phase' = "rejected"
      /\ offset = program.length \/ IsLabel
      /\ sp # 0
      /\ UNCHANGED <<program, offset, jumpMap, switchMap, current, sp, block, blocks, place, status>>
  BY DEF Reject, TranslatorIInv, FirstWalk
<1>2. \E l \in jumpMap : program.depth[l] # 0
  <2> SUFFICES ASSUME StacksMeetEmpty PROVE FALSE
    BY DEF StacksMeetEmpty
  <2>1. PICK p \in D : Beyond(p) = offset /\ sp = program.depth[p] + program.code[p].delta
    BY <1>1 DEF Emitting, Before
  <2>2. Op(p) # "ret"
    BY <1>1, <2>1, Followed DEF FirstWalk
  <2>3. Op(p) \notin {"plain", "check"}
    BY <1>1, <2>1, Followed, InOnePiece DEF FirstWalk, IsLabel, StacksMeetEmpty
  <2>4. Op(p) \notin {"jmp", "cond"}
    BY <1>1, <2>1, Followed, LabelsKnown DEF FirstWalk, StacksMeetEmpty
  <2>5. Op(p) # "jmpp"
    <3> SUFFICES ASSUME Op(p) = "jmpp" PROVE FALSE
      OBVIOUS
    <3>1. 1 \in 1 .. program.code[p].arg
      BY <1>1, Followed, InOnePiece DEF FirstWalk
    <3> QED
      BY <1>1, <2>1, <3>1, Followed, SwitchKnown DEF FirstWalk, StacksMeetEmpty
  <2> QED
    BY <1>1, <2>2, <2>3, <2>4, <2>5, InOnePiece DEF FirstWalk
<1>3. FirstWalk'
  BY <1>1, FirstWalkStays
<1>4. Made(offset, sp, block, blocks)'
  BY <1>1, MadeStays DEF Emitting
<1>5. /\ D' = D /\ \A o : Op(o)' = Op(o) /\ Beyond(o)' = Beyond(o)
      /\ StacksMeetEmpty' <=> StacksMeetEmpty
  BY <1>1 DEF D, Op, Beyond, StacksMeetEmpty
<1>6. Before(offset, sp, block, blocks)'
  BY <1>1, <1>5 DEF Emitting, Before, HasTerminator
<1>7. Emitting' /\ \E l \in jumpMap' : program'.depth[l] # 0
  BY <1>1, <1>2, <1>4, <1>6 DEF Emitting
<1>8. place' = <<Entry, 1>> /\ status' = "running"
  BY <1>1 DEF TranslatorIInv
<1> QED
  BY <1>1, <1>3, <1>7, <1>8, Zenon DEF TranslatorIInv, FirstWalk

LEMMA FinalizeKeeps == ASSUME TranslatorIInv, Finalize PROVE TranslatorIInv'
<1>1. /\ FirstWalk /\ Emitting /\ phase = "translate" /\ phase' = "native"
      /\ offset = program.length /\ sp = 0
      /\ UNCHANGED <<program, offset, jumpMap, switchMap, current, sp, block, blocks, place, status>>
      /\ place = <<Entry, 1>> /\ status = "running"
  BY DEF Finalize, TranslatorIInv, FirstWalk
<1>2. HasTerminator(blocks[block])
  <2>1. offset # 0
    BY <1>1, InOnePiece DEF FirstWalk
  <2>2. PICK p \in D :
          Beyond(p) = offset /\ (HasTerminator(blocks[block]) <=> Op(p) \in Jumps \cup {"ret"})
    BY <1>1, <2>1 DEF Emitting, Before
  <2> QED
    BY <1>1, <2>2, Followed DEF FirstWalk
<1>3. \A l \in jumpMap : ~(offset <= l)
  BY <1>1, InOnePiece DEF FirstWalk
<1>4. \A b \in DOMAIN blocks : HasTerminator(blocks[b])
  BY <1>1, <1>2, <1>3 DEF Emitting, Made
<1>5. Entry \in DOMAIN blocks /\ 1 \in 1 .. Len(blocks[Entry])
  <2>1. Entry \in DOMAIN blocks /\ blocks[Entry] \in Seq(Instr) /\ blocks[Entry] # <<>>
    BY <1>1, <1>4 DEF Emitting, Made, HasTerminator
  <2> QED
    BY <2>1
<1>6. FirstWalk'
  BY <1>1, FirstWalkStays
<1>7. Made(offset, sp, block, blocks)'
  BY <1>1, MadeStays DEF Emitting
<1>8. InNative'
  <2>1. place'[1] = Entry /\ place'[2] = 1
    BY <1>1
  <2> QED
    BY <1>1, <1>4, <1>5, <1>7, <2>1 DEF InNative, HasTerminator
<1> QED
  BY <1>1, <1>6, <1>8, Zenon DEF TranslatorIInv, FirstWalk

-----------------------------------------------------------------------------
(* Native code                                                               *)

\* Where blocks are complete, instructions are what the bytecode says.
LEMMA NativeBlocks ==
  ASSUME TranslatorIInv, phase = "native", NEW b \in DOMAIN blocks
  PROVE  /\ FirstWalk /\ InNative
         /\ 1 \in 1 .. Len(blocks[b]) /\ Len(blocks[b]) \in Nat /\ blocks[b] # <<>>
         /\ blocks[b][Len(blocks[b])].kind \in Terminators
         /\ \A k \in 1 .. Len(blocks[b]) :
              /\ blocks[b][k] \in Instr /\ Faithful(blocks[b][k])
              /\ Continued(program.length, 0, block, blocks, b, k)
<1>1. FirstWalk /\ InNative
  BY DEF TranslatorIInv, FirstWalk
<1>2. blocks[b] \in Seq(Instr) /\ blocks[b] # <<>> /\ blocks[b][Len(blocks[b])].kind \in Terminators
  BY <1>1 DEF InNative, Made, HasTerminator
<1>3. Len(blocks[b]) \in Nat /\ 1 \in 1 .. Len(blocks[b]) /\ DOMAIN blocks[b] = 1 .. Len(blocks[b])
  BY <1>2
<1>4. \A k \in DOMAIN blocks[b] :
        Faithful(blocks[b][k]) /\ Continued(program.length, 0, block, blocks, b, k)
  BY <1>1, Zenon DEF InNative, Made
<1> QED
  BY <1>1, <1>2, <1>3, <1>4

\* Instructions lead to blocks of the function.
LEMMA LeadsToBlocks ==
  ASSUME TranslatorIInv, phase = "native", NEW b \in DOMAIN blocks, NEW k \in 1 .. Len(blocks[b])
  PROVE  \A i \in DOMAIN blocks[b][k].to : blocks[b][k].to[i] \in DOMAIN blocks
<1> DEFINE e == blocks[b][k]
<1>1. /\ FirstWalk /\ InNative /\ e \in Instr /\ Faithful(e)
      /\ Continued(program.length, 0, block, blocks, b, k)
  BY NativeBlocks
<1>2. /\ \A l \in jumpMap : Label(l) \in DOMAIN blocks
      /\ e.offset \in D /\ e.kind \in Kinds
  BY <1>1 DEF InNative, Made, Labels, Instr
<1>3. CASE e.kind \in {"work", "ret", "fail"}
  BY <1>1, <1>3 DEF Faithful
<1>4. CASE e.kind = "br"
  <2>1. PICK l \in jumpMap : e.to = <<Label(l)>>
    BY <1>1, <1>2, <1>4, LabelsKnown DEF Faithful, FallsInto
  <2> QED
    BY <1>2, <2>1
<1>5. CASE e.kind = "condbr" /\ Op(e.offset) = "cond"
  <2>1. PICK l \in jumpMap, m \in jumpMap : e.to = <<Label(l), Label(m)>>
    BY <1>1, <1>2, <1>5, LabelsKnown DEF Faithful
  <2> QED
    BY <1>2, <2>1
<1>6. CASE e.kind = "condbr" /\ Op(e.offset) # "cond"
  <2>1. {OnTrue(e.offset), OnFalse(e.offset)} \subseteq DOMAIN blocks
    BY <1>1, <1>6, Zenon DEF Continued
  <2>2. e.to = <<OnTrue(e.offset), OnFalse(e.offset)>>
    BY <1>1, <1>6 DEF Faithful
  <2> QED
    BY <2>1, <2>2
<1>7. CASE e.kind = "switch"
  <2>1. e.to = Targets(e.offset) /\ Op(e.offset) = "jmpp"
    BY <1>1, <1>7 DEF Faithful
  <2> QED
    BY <1>1, <1>2, <2>1, SwitchKnown DEF Labels
<1> QED
  BY <1>2, <1>3, <1>4, <1>5, <1>6, <1>7 DEF Kinds, Terminators

\* Native code is at an instruction of a block.
LEMMA HereIs ==
  ASSUME TranslatorIInv, phase = "native"
  PROVE  /\ place[1] \in DOMAIN blocks /\ place[2] \in 1 .. Len(blocks[place[1]])
         /\ Here \in Instr /\ Faithful(Here) /\ FirstWalk /\ InNative
         /\ Continued(program.length, 0, block, blocks, place[1], place[2])
<1>1. place[1] \in DOMAIN blocks /\ place[2] \in 1 .. Len(blocks[place[1]])
  BY DEF TranslatorIInv, InNative
<1> QED
  BY <1>1, NativeBlocks DEF Here

\* What a step of native code leaves alone, and where it may lead.
LEMMA NativeGoesOn ==
  ASSUME TranslatorIInv, phase = "native",
         UNCHANGED <<program, phase, offset, jumpMap, switchMap, current, sp, block, blocks>>,
         status' \in {"running", "returned", "exception"},
         place'[1] \in DOMAIN blocks, place'[2] \in 1 .. Len(blocks[place'[1]])
  PROVE  TranslatorIInv'
<1>1. FirstWalk /\ InNative
  BY DEF TranslatorIInv, FirstWalk
<1>2. FirstWalk'
  BY <1>1, FirstWalkStays
<1>3. Made(offset, sp, block, blocks)'
  BY <1>1, MadeStays DEF InNative
<1>4. InNative'
  BY <1>1, <1>3 DEF InNative, HasTerminator
<1> QED
  BY <1>2, <1>4, Zenon DEF TranslatorIInv, FirstWalk

LEMMA NativeWorkKeeps == ASSUME TranslatorIInv, NativeWork PROVE TranslatorIInv'
<1>1. /\ phase = "native" /\ Here.kind = "work" /\ status' = status
      /\ place' = <<place[1], place[2] + 1>>
      /\ UNCHANGED <<program, phase, offset, jumpMap, switchMap, current, sp, block, blocks>>
  BY DEF NativeWork, Native
<1>2. PICK n \in Nat : n = Len(blocks[place[1]]) /\ blocks[place[1]][n].kind \in Terminators
      /\ place[1] \in DOMAIN blocks /\ place[2] \in 1 .. n
  BY <1>1, HereIs, NativeBlocks
<1>3. place[2] # n
  BY <1>1, <1>2 DEF Here, Terminators
<1>4. place'[1] \in DOMAIN blocks /\ place'[2] \in 1 .. Len(blocks[place'[1]])
  BY <1>1, <1>2, <1>3
<1>5. status' \in {"running", "returned", "exception"}
  BY <1>1 DEF TranslatorIInv
<1> QED
  BY <1>1, <1>4, <1>5, NativeGoesOn

LEMMA NativeJumps ==
  ASSUME TranslatorIInv, phase = "native", NEW b \in DOMAIN blocks, place' = <<b, 1>>,
         UNCHANGED <<program, phase, offset, jumpMap, switchMap, current, sp, block, blocks>>,
         status' \in {"running", "returned", "exception"}
  PROVE  TranslatorIInv'
<1>1. place'[1] = b /\ place'[2] = 1 /\ 1 \in 1 .. Len(blocks[b])
  BY NativeBlocks
<1> QED
  BY <1>1, NativeGoesOn

LEMMA NativeBranchKeeps == ASSUME TranslatorIInv, NativeBranch PROVE TranslatorIInv'
<1>1. /\ phase = "native" /\ status' = status
      /\ UNCHANGED <<program, phase, offset, jumpMap, switchMap, current, sp, block, blocks>>
  BY DEF NativeBranch, Native
<1>2. PICK i \in DOMAIN Here.to : place' = <<Here.to[i], 1>>
  BY DEF NativeBranch, Range
<1>3. Here.to[i] \in DOMAIN blocks
  BY <1>1, HereIs, LeadsToBlocks DEF Here
<1> QED
  BY <1>1, <1>2, <1>3, NativeJumps DEF TranslatorIInv

LEMMA NativeSwitchKeeps == ASSUME TranslatorIInv, NativeSwitch PROVE TranslatorIInv'
<1>1. /\ phase = "native" /\ status' = status /\ Here.kind = "switch"
      /\ UNCHANGED <<program, phase, offset, jumpMap, switchMap, current, sp, block, blocks>>
  BY DEF NativeSwitch, Native
<1>2. PICK case \in 0 .. program.code[Here.offset].arg - 1 : place' = <<Here.to[case + 1], 1>>
  BY DEF NativeSwitch
<1>3. Here \in Instr /\ Faithful(Here) /\ FirstWalk
  BY <1>1, HereIs
<1>4. Here.offset \in D /\ Op(Here.offset) = "jmpp" /\ Here.to = Targets(Here.offset)
  BY <1>1, <1>3 DEF Faithful, Instr
<1>5. case + 1 \in 1 .. program.code[Here.offset].arg
  BY <1>3, <1>4, InOnePiece DEF FirstWalk
<1>6. case + 1 \in DOMAIN Here.to
  BY <1>1, <1>3, <1>4, <1>5, SwitchKnown
<1>7. Here.to[case + 1] \in DOMAIN blocks
  BY <1>1, <1>6, HereIs, LeadsToBlocks DEF Here
<1> QED
  BY <1>1, <1>2, <1>7, NativeJumps DEF TranslatorIInv

LEMMA NativeReturnKeeps == ASSUME TranslatorIInv, NativeReturn PROVE TranslatorIInv'
<1>1. /\ phase = "native" /\ status' \in {"returned", "exception"} /\ place' = place
      /\ UNCHANGED <<program, phase, offset, jumpMap, switchMap, current, sp, block, blocks>>
  BY DEF NativeReturn, Native
<1>2. place'[1] \in DOMAIN blocks /\ place'[2] \in 1 .. Len(blocks[place'[1]])
  BY <1>1, HereIs
<1> QED
  BY <1>1, <1>2, NativeGoesOn

LEMMA CallAgainKeeps == ASSUME TranslatorIInv, CallAgain PROVE TranslatorIInv'
<1>1. /\ phase = "native" /\ status' = "running" /\ place' = <<Entry, 1>>
      /\ UNCHANGED <<program, phase, offset, jumpMap, switchMap, current, sp, block, blocks>>
  BY DEF CallAgain
<1>2. Entry \in DOMAIN blocks
  BY <1>1, HereIs DEF InNative, Made
<1> QED
  BY <1>1, <1>2, NativeJumps

-----------------------------------------------------------------------------
(* The invariant                                                             *)

LEMMA TranslatorBegins == TranslatorInit => TranslatorIInv
<1> SUFFICES ASSUME TranslatorInit PROVE TranslatorIInv
  OBVIOUS
<1>1. /\ program \in Programs /\ phase = "preprocess" /\ offset = 0
      /\ jumpMap = {} /\ switchMap = <<>> /\ current.handling = FALSE /\ sp = 0
      /\ block = Entry /\ blocks = [b \in {Entry} |-> <<>>]
      /\ place = <<Entry, 1>> /\ status = "running"
  BY DEF TranslatorInit
<1>2. \A o : ~Walked(o)
  BY <1>1, InOnePiece DEF Walked
<1>3. DOMAIN switchMap = {}
  BY <1>1
<1>4. FirstWalk
  BY <1>1, <1>2, <1>3 DEF FirstWalk, JumpsHaveLabels, TablesKnown
<1>5. Labels = {}
  BY <1>1 DEF Labels
<1>6. NothingEmitted
  BY <1>1, <1>5, InOnePiece DEF NothingEmitted
<1> QED
  BY <1>1, <1>4, <1>6 DEF TranslatorIInv, FirstWalk

LEMMA TranslatorRests == TranslatorIInv /\ UNCHANGED translatorVars => TranslatorIInv'
<1> SUFFICES ASSUME TranslatorIInv, UNCHANGED translatorVars PROVE TranslatorIInv'
  OBVIOUS
<1>1. /\ program' = program /\ phase' = phase /\ offset' = offset /\ jumpMap' = jumpMap
      /\ switchMap' = switchMap /\ current' = current /\ sp' = sp /\ block' = block
      /\ blocks' = blocks /\ place' = place /\ status' = status
  BY DEF translatorVars
<1>2. FirstWalk' <=> FirstWalk
  BY <1>1 DEF FirstWalk, D, JumpsHaveLabels, TablesKnown, TableKnown, InTable, Walked, Op, Target,
     Targets, Entries, EntryAt
<1>3. NothingEmitted' <=> NothingEmitted
  BY <1>1 DEF NothingEmitted, D, Labels
<1>4. Made(offset, sp, block, blocks) => Made(offset, sp, block, blocks)'
  BY <1>1, MadeStays
<1>5. Before(offset, sp, block, blocks)' <=> Before(offset, sp, block, blocks)
  BY <1>1 DEF Before, D, Beyond, HasTerminator, Op, StacksMeetEmpty
<1>6. Emitting => Emitting'
  BY <1>1, <1>4, <1>5 DEF Emitting
<1>7. InNative => InNative'
  BY <1>1, <1>4 DEF InNative, HasTerminator
<1>8. FirstWalk
  BY DEF TranslatorIInv, FirstWalk
<1>9. FirstWalk'
  BY <1>2, <1>8
<1> QED
  BY <1>1, <1>3, <1>6, <1>7, <1>9, Zenon DEF TranslatorIInv, FirstWalk

LEMMA TranslatorKeeps == TranslatorIInv /\ [TranslatorNext]_translatorVars => TranslatorIInv'
<1> SUFFICES ASSUME TranslatorIInv, [TranslatorNext]_translatorVars PROVE TranslatorIInv'
  OBVIOUS
<1>1. CASE UNCHANGED translatorVars
  BY <1>1, TranslatorRests
<1> QED
  BY <1>1, PreprocessTableKeeps, PreprocessJumpKeeps, PreprocessBranchKeeps, PreprocessOtherKeeps,
     StartTranslationKeeps, TranslateWorkKeeps, TranslateCheckKeeps, TranslateJumpKeeps,
     TranslateBranchKeeps, TranslateTableKeeps, TranslateReturnKeeps, RejectKeeps, FinalizeKeeps,
     NativeWorkKeeps, NativeBranchKeeps, NativeSwitchKeeps, NativeReturnKeeps, CallAgainKeeps,
     Zenon DEF TranslatorNext

\* For every program the compiler of AngelScript may emit, the walks know where
\* they are, and native code is at an instruction of a block.
THEOREM TranslationConsistent == TranslatorSpec => []TranslatorIInv
  BY TranslatorBegins, TranslatorKeeps, PTL DEF TranslatorSpec

LEMMA WellFormedHolds == TranslatorIInv => WellFormed
<1> SUFFICES ASSUME TranslatorIInv PROVE WellFormed
  OBVIOUS
<1>1. FirstWalk /\ phase \in {"preprocess", "translate", "native", "rejected"}
  BY DEF TranslatorIInv, FirstWalk
<1>2. ASSUME NEW o \in DOMAIN switchMap
      PROVE  program.code[o].op = "jmpp" /\ Range(switchMap[o]) \subseteq {Label(l) : l \in jumpMap}
  <2>1. Walked(o) /\ Op(o) = "jmpp" /\ o \in D
    BY <1>1 DEF FirstWalk, TablesKnown, Walked
  <2>2. PICK n \in Nat : Targets(o) = Entries(o, n) /\ \A k \in 1 .. n : EntryAt(o, k) \in jumpMap
    BY <1>1, <2>1, Zenon DEF FirstWalk, TablesKnown, TableKnown
  <2>3. switchMap[o] = Entries(o, n)
    BY <2>2 DEF Targets
  <2> QED
    BY <2>1, <2>2, <2>3 DEF Entries, Op, Range
<1>3. Labels \subseteq Blocks /\ Entry \in Blocks
  BY <1>1 DEF Labels, Blocks, FirstWalk, D
<1>4. \A o : Forks(o) \subseteq Blocks
  BY DEF Forks, Blocks, D
<1>5. CASE phase = "preprocess"
  <2>1. NothingEmitted /\ place = <<Entry, 1>>
    BY <1>5 DEF TranslatorIInv
  <2>2. DOMAIN blocks = {Entry} \cup Labels /\ blocks[Entry] = <<>> /\ block = Entry
        /\ offset \in D \cup {program.length}
    BY <2>1 DEF NothingEmitted
  <2>3. place[1] \in DOMAIN blocks /\ place[2] \in 1 .. Len(blocks[place[1]]) + 1
    BY <2>1, <2>2
  <2> QED
    BY <1>1, <1>2, <1>3, <2>2, <2>3 DEF WellFormed, D, TranslatorIInv
<1>6. CASE phase # "preprocess"
  <2>1. /\ DOMAIN blocks = {Entry} \cup Labels \cup Forks(offset) /\ block \in DOMAIN blocks
        /\ offset \in D \cup {program.length}
        /\ \A b \in DOMAIN blocks : blocks[b] \in Seq(Instr)
    BY <1>6 DEF TranslatorIInv, Emitting, InNative, Made
  <2>2. place[1] \in DOMAIN blocks /\ place[2] \in 1 .. Len(blocks[place[1]]) + 1
    <3>1. CASE phase = "native"
      <4>1. PICK n \in Nat : n = Len(blocks[place[1]]) /\ place[2] \in 1 .. n /\ place[1] \in DOMAIN blocks
        BY <3>1, HereIs, NativeBlocks
      <4> QED
        BY <4>1
    <3>2. CASE phase # "native"
      <4>1. place = <<Entry, 1>> /\ Entry \in DOMAIN blocks
        BY <2>1, <3>2 DEF TranslatorIInv
      <4>2. PICK n \in Nat : n = Len(blocks[Entry])
        BY <2>1, <4>1
      <4> QED
        BY <4>1, <4>2
    <3> QED
      BY <3>1, <3>2
  <2> QED
    BY <1>1, <1>2, <1>3, <1>4, <2>1, <2>2 DEF WellFormed, D, TranslatorIInv
<1> QED
  BY <1>5, <1>6

LEMMA BlocksTerminate == TranslatorIInv => BlocksAreTerminated
<1> SUFFICES ASSUME TranslatorIInv, phase = "native", NEW b \in DOMAIN blocks
             PROVE  /\ HasTerminator(blocks[b])
                    /\ \A k \in 1 .. Len(blocks[b]) :
                         /\ blocks[b][k].kind \in Terminators => k = Len(blocks[b])
                         /\ Range(blocks[b][k].to) \subseteq DOMAIN blocks
  BY Zenon DEF BlocksAreTerminated
<1>1. HasTerminator(blocks[b])
  BY NativeBlocks DEF HasTerminator
<1>2. ASSUME NEW k \in 1 .. Len(blocks[b])
      PROVE  /\ blocks[b][k].kind \in Terminators => k = Len(blocks[b])
             /\ Range(blocks[b][k].to) \subseteq DOMAIN blocks
  BY NativeBlocks, LeadsToBlocks DEF Continued, Range
<1> QED
  BY <1>1, <1>2

\* For every program: basic blocks end with their only terminator and lead to each
\* other, execution stays in them, and only functions whose paths meet with the
\* stack in use are rejected.
THEOREM BlocksAreRight == TranslatorSpec => []BlocksRight
<1>1. TranslatorIInv => RejectsOnlyUsedStacks
  BY DEF TranslatorIInv, RejectsOnlyUsedStacks
<1>2. TranslatorIInv => BlocksRight
  BY <1>1, WellFormedHolds, BlocksTerminate DEF BlocksRight
<1> QED
  BY <1>2, TranslationConsistent, PTL

-----------------------------------------------------------------------------
(* Native code walks over the bytecode.                                      *)

\* A step of native code from one instruction to another.
LEMMA WalksTo ==
  ASSUME phase = "native", status = "running", UNCHANGED <<program, phase, status>>,
         NEW ops, Op(Here.offset) \in ops,
         NEW next, Here'.offset = next, Here'.sp = After(Here)
  PROVE  Walk!Running(ops) /\ Walk!To(next)
<1>1. Walk!Running(ops)
  BY DEF Walk!Running, Walk!Instruction, Op
<1>2. Walk!To(next)
  BY DEF Walk!To, Walk!Instruction, After
<1> QED
  BY <1>1, <1>2

LEMMA WalkRests ==
  ASSUME UNCHANGED <<program, status>>,
         \/ phase = "native" /\ phase' = "native" /\ Here'.offset = Here.offset /\ Here'.sp = Here.sp
         \/ phase # "native" /\ phase' # "native"
  PROVE  UNCHANGED Walk!vars
  BY DEF Walk!vars

\* Blocks start where what leads to them goes on.
LEMMA BlocksStart ==
  ASSUME TranslatorIInv, phase = "native"
  PROVE  /\ \A b \in DOMAIN blocks : \A at, with :
              Starts(program.length, 0, block, blocks, b, at, with) =>
                blocks[b][1].offset = at /\ blocks[b][1].sp = with
         /\ blocks[Entry][1].offset = 0 /\ blocks[Entry][1].sp = 0
         /\ \A l \in jumpMap : blocks[Label(l)][1].offset = l /\ blocks[Label(l)][1].sp = 0
<1>1. FirstWalk /\ InNative
  BY DEF TranslatorIInv, FirstWalk
<1>2. \A b \in DOMAIN blocks : \A at, with :
        Starts(program.length, 0, block, blocks, b, at, with) =>
          blocks[b][1].offset = at /\ blocks[b][1].sp = with
  BY NativeBlocks DEF Starts
<1>3. Entry \in DOMAIN blocks /\ Starts(program.length, 0, block, blocks, Entry, 0, 0)
  BY <1>1, Zenon DEF InNative, Made
<1>4. ASSUME NEW l \in jumpMap
      PROVE  Label(l) \in DOMAIN blocks /\ Starts(program.length, 0, block, blocks, Label(l), l, 0)
  <2>1. l < program.length
    BY <1>1, InOnePiece DEF FirstWalk
  <2> QED
    BY <1>1, <2>1 DEF InNative, Made, Labels
<1> QED
  BY <1>2, <1>3, <1>4

LEMMA NativeWorkWalks == ASSUME TranslatorIInv, NativeWork PROVE Walk!Work
<1>1. /\ phase = "native" /\ status = "running" /\ Here.kind = "work" /\ status' = status
      /\ place' = <<place[1], place[2] + 1>>
      /\ UNCHANGED <<program, phase, blocks>>
  BY DEF NativeWork, Native
<1>2. PICK n \in Nat : n = Len(blocks[place[1]]) /\ blocks[place[1]][n].kind \in Terminators
      /\ place[1] \in DOMAIN blocks /\ place[2] \in 1 .. n
  BY <1>1, HereIs, NativeBlocks
<1>3. place[2] # n
  BY <1>1, <1>2 DEF Here, Terminators
<1>4. Faithful(Here) /\ Continued(program.length, 0, block, blocks, place[1], place[2])
  BY <1>1, HereIs
<1>5. Op(Here.offset) \in {"plain", "check"}
  BY <1>1, <1>4 DEF Faithful
<1>6. Here' = blocks[place[1]][place[2] + 1]
  BY <1>1 DEF Here
<1>7. Here'.offset = Beyond(Here.offset) /\ Here'.sp = After(Here)
  BY <1>1, <1>2, <1>3, <1>4, <1>6 DEF Continued, Here
<1>8. Here'.offset = Here.offset + program.code[Here.offset].size
  BY <1>7 DEF Beyond
<1>9. Walk!Running({"plain", "check"}) /\ Walk!To(Here.offset + program.code[Here.offset].size)
  BY <1>1, <1>5, <1>7, <1>8, WalksTo
<1> QED
  BY <1>1, <1>9 DEF Walk!Work, Walk!Instruction

\* A branch is a jump, a conditional jump, a check that succeeds - or leads from a
\* block to the one of the next instruction, where the virtual machine does nothing.
LEMMA NativeBranchWalks ==
  ASSUME TranslatorIInv, NativeBranch
  PROVE  Walk!Work \/ Walk!Jump \/ Walk!Branch \/ UNCHANGED Walk!vars
<1>1. /\ phase = "native" /\ phase' = "native" /\ status = "running" /\ status' = status
      /\ Here.kind \in {"br", "condbr"}
      /\ UNCHANGED <<program, phase, blocks, status>>
  BY DEF NativeBranch, Native
<1>2. PICK i \in DOMAIN Here.to : place' = <<Here.to[i], 1>>
  BY DEF NativeBranch, Range
<1>3. Here' = blocks[Here.to[i]][1]
  BY <1>1, <1>2 DEF Here
<1>4. /\ Here \in Instr /\ Faithful(Here) /\ FirstWalk
      /\ Continued(program.length, 0, block, blocks, place[1], place[2])
  BY <1>1, HereIs
<1>5. /\ Here.offset \in D
      /\ Emptied(0, block, place[1], Here) => After(Here) = 0
  BY <1>4 DEF Instr, Emptied
<1>6. \A l \in jumpMap : Here.to[i] = Label(l) => Here'.offset = l /\ Here'.sp = 0
  BY <1>1, <1>3, BlocksStart
<1>7. CASE FallsInto(Here)
  <2>1. Here.to[i] = Label(Here.offset) /\ Here.offset \in jumpMap /\ Here.sp = 0
    BY <1>7 DEF FallsInto
  <2> QED
    BY <1>1, <1>6, <2>1, WalkRests
<1>8. CASE Here.kind = "br" /\ ~FallsInto(Here)
  <2>1. Op(Here.offset) = "jmp" /\ Here.to = <<Label(Target(Here.offset))>> /\ After(Here) = 0
    BY <1>4, <1>5, <1>8 DEF Faithful, Continued, Here
  <2>2. Target(Here.offset) \in jumpMap
    BY <1>1, <1>4, <1>5, <2>1, LabelsKnown
  <2>3. Here'.offset = Here.offset + 2 + program.code[Here.offset].arg /\ Here'.sp = After(Here)
    BY <1>6, <2>1, <2>2 DEF Target
  <2>4. Walk!Running({"jmp"}) /\ Walk!To(Here.offset + 2 + program.code[Here.offset].arg)
    BY <1>1, <2>1, <2>3, WalksTo
  <2> QED
    BY <1>1, <2>4 DEF Walk!Jump, Walk!Instruction
<1>9. CASE Here.kind = "condbr" /\ Op(Here.offset) = "cond"
  <2>1. /\ Here.to = <<Label(Target(Here.offset)), Label(Here.offset + 2)>> /\ After(Here) = 0
    BY <1>4, <1>5, <1>9 DEF Faithful, Continued, Here
  <2>2. Target(Here.offset) \in jumpMap /\ Here.offset + 2 \in jumpMap
    BY <1>1, <1>4, <1>5, <1>9, LabelsKnown
  <2>3. PICK next \in {Here.offset + 2, Here.offset + 2 + program.code[Here.offset].arg} :
          Here'.offset = next /\ Here'.sp = After(Here)
    BY <1>6, <2>1, <2>2 DEF Target
  <2>4. Walk!Running({"cond"}) /\ Walk!To(next)
    BY <1>1, <1>9, <2>3, WalksTo
  <2> QED
    BY <1>1, <2>3, <2>4 DEF Walk!Branch, Walk!Instruction
<1>10. CASE Here.kind = "condbr" /\ Op(Here.offset) # "cond"
  <2>1. Op(Here.offset) = "check" /\ Here.to = <<OnTrue(Here.offset), OnFalse(Here.offset)>>
    BY <1>4, <1>10 DEF Faithful
  <2>2. /\ {OnTrue(Here.offset), OnFalse(Here.offset)} \subseteq DOMAIN blocks
        /\ Starts(program.length, 0, block, blocks, OnTrue(Here.offset), Here.offset, Here.sp)
        /\ Starts(program.length, 0, block, blocks, OnFalse(Here.offset), Beyond(Here.offset), After(Here))
    BY <1>4, <1>10 DEF Continued, Here
  <2>3. CASE Here.to[i] = OnTrue(Here.offset)
    <3>1. Here'.offset = Here.offset /\ Here'.sp = Here.sp
      BY <1>1, <1>3, <2>2, <2>3, BlocksStart
    <3> QED
      BY <1>1, <3>1, WalkRests
  <2>4. CASE Here.to[i] = OnFalse(Here.offset)
    <3>1. /\ Here'.offset = Here.offset + program.code[Here.offset].size
          /\ Here'.sp = After(Here)
      BY <1>1, <1>3, <2>2, <2>4, BlocksStart DEF Beyond
    <3>2. Walk!Running({"plain", "check"}) /\ Walk!To(Here.offset + program.code[Here.offset].size)
      BY <1>1, <2>1, <3>1, WalksTo
    <3> QED
      BY <1>1, <3>2 DEF Walk!Work, Walk!Instruction
  <2> QED
    BY <2>1, <2>3, <2>4
<1> QED
  BY <1>1, <1>7, <1>8, <1>9, <1>10

LEMMA NativeSwitchWalks == ASSUME TranslatorIInv, NativeSwitch PROVE Walk!Select
<1>1. /\ phase = "native" /\ status = "running" /\ status' = status /\ Here.kind = "switch"
      /\ UNCHANGED <<program, phase, blocks, status>>
  BY DEF NativeSwitch, Native
<1>2. PICK case \in 0 .. program.code[Here.offset].arg - 1 : place' = <<Here.to[case + 1], 1>>
  BY DEF NativeSwitch
<1>3. /\ Here \in Instr /\ Faithful(Here) /\ FirstWalk
      /\ Continued(program.length, 0, block, blocks, place[1], place[2])
  BY <1>1, HereIs
<1>4. /\ Here.offset \in D /\ Op(Here.offset) = "jmpp" /\ Here.to = Targets(Here.offset)
      /\ After(Here) = 0
  BY <1>1, <1>3 DEF Faithful, Continued, Emptied, Instr, Here
<1>5. Here.offset \in Nat /\ case \in Int /\ case + 1 \in 1 .. program.code[Here.offset].arg
  BY <1>3, <1>4, InOnePiece DEF FirstWalk
<1>6. /\ Here.to[case + 1] = Label(EntryAt(Here.offset, case + 1))
      /\ EntryAt(Here.offset, case + 1) \in jumpMap
  BY <1>1, <1>3, <1>4, <1>5, SwitchKnown
<1>7. EntryAt(Here.offset, case + 1) = Here.offset + 1 + 2 * case
  BY <1>5 DEF EntryAt
<1>8. Here' = blocks[Here.to[case + 1]][1]
  BY <1>1, <1>2 DEF Here
<1>9. Here'.offset = Here.offset + 1 + 2 * case /\ Here'.sp = After(Here)
  BY <1>1, <1>4, <1>6, <1>7, <1>8, BlocksStart
<1>10. Walk!Running({"jmpp"}) /\ Walk!To(Here.offset + 1 + 2 * case)
  BY <1>1, <1>4, <1>9, WalksTo
<1> QED
  BY <1>1, <1>10 DEF Walk!Select, Walk!Instruction

LEMMA NativeReturnWalks == ASSUME TranslatorIInv, NativeReturn PROVE Walk!Return \/ Walk!Fail
<1>1. /\ phase = "native" /\ status = "running" /\ place' = place
      /\ Here.kind \in {"ret", "fail"}
      /\ status' = IF Here.kind = "ret" THEN "returned" ELSE "exception"
      /\ UNCHANGED <<program, phase, blocks>>
  BY DEF NativeReturn, Native
<1>2. Here' = Here /\ Faithful(Here)
  BY <1>1, HereIs DEF Here
<1>3. IF Here.kind = "ret" THEN Op(Here.offset) = "ret" ELSE Op(Here.offset) = "check"
  BY <1>1, <1>2 DEF Faithful
<1> QED
  BY <1>1, <1>2, <1>3 DEF Walk!Return, Walk!Fail, Walk!Stop, Walk!Running, Walk!Instruction, Op

LEMMA CallAgainWalks == ASSUME TranslatorIInv, CallAgain PROVE Walk!CallAgain
<1>1. /\ phase = "native" /\ phase' = "native" /\ status # "running" /\ status' = "running"
      /\ place' = <<Entry, 1>> /\ UNCHANGED <<program, phase, blocks>>
  BY DEF CallAgain
<1>2. Here'.offset = 0 /\ Here'.sp = 0
  BY <1>1, BlocksStart DEF Here
<1> QED
  BY <1>1, <1>2 DEF Walk!CallAgain

LEMMA WalkSimulated ==
  ASSUME TranslatorIInv, [TranslatorNext]_translatorVars
  PROVE  [Walk!Next]_Walk!vars
<1>1. CASE UNCHANGED translatorVars
  <2>1. Here' = Here
    BY <1>1 DEF translatorVars, Here
  <2> QED
    BY <1>1, <2>1 DEF translatorVars, Walk!vars
<1>2. ASSUME \/ PreprocessTable \/ PreprocessJump \/ PreprocessBranch \/ PreprocessOther
             \/ StartTranslation \/ TranslateWork \/ TranslateCheck \/ TranslateJump
             \/ TranslateBranch \/ TranslateTable \/ TranslateReturn \/ Reject
      PROVE  UNCHANGED <<program, status>> /\ phase # "native" /\ phase' # "native"
  BY <1>2 DEF PreprocessTable, PreprocessJump, PreprocessBranch, PreprocessOther, Preprocess,
     StartTranslation, TranslateWork, TranslateCheck, TranslateJump, TranslateBranch,
     TranslateTable, TranslateReturn, Translate, Reject
<1>3. CASE Finalize
  <2>1. phase # "native" /\ phase' = "native" /\ UNCHANGED <<program, status>>
    BY <1>3 DEF Finalize
  <2>2. TranslatorIInv'
    BY <1>3, FinalizeKeeps
  <2>3. blocks'[Entry][1].offset = 0 /\ blocks'[Entry][1].sp = 0 /\ place' = <<Entry, 1>>
    <3>1. place' = place /\ place = <<Entry, 1>>
      BY <1>3, <2>1 DEF Finalize, TranslatorIInv
    <3>2. /\ Made(offset, sp, block, blocks) /\ Entry \in DOMAIN blocks /\ blocks' = blocks
          /\ Starts(offset, sp, block, blocks, Entry, 0, 0)
      BY <1>3, <2>1, Zenon DEF Finalize, TranslatorIInv, Emitting, Made
    <3>3. HasTerminator(blocks'[Entry])
      BY <2>1, <2>2, <3>2, Zenon DEF TranslatorIInv, InNative
    <3> QED
      BY <3>1, <3>2, <3>3 DEF HasTerminator, Starts
  <2>4. Here'.offset = 0 /\ Here'.sp = 0
    BY <2>3 DEF Here
  <2> QED
    BY <2>1, <2>4 DEF Walk!vars
<1> QED
  BY <1>1, <1>2, <1>3, WalkRests, NativeWorkWalks, NativeBranchWalks, NativeSwitchWalks,
     NativeReturnWalks, CallAgainWalks, Zenon DEF TranslatorNext, Walk!Next

\* For every program: native code takes the paths of the bytecode, and uses at each
\* instruction the stack offsets the virtual machine uses there.
THEOREM NativeWalksBytecode == TranslatorSpec => ImplementsBytecode
<1>1. TranslatorInit => Walk!Init
  BY DEF TranslatorInit, Walk!Init
<1>2. TranslatorIInv /\ [TranslatorNext]_translatorVars => [Walk!Next]_Walk!vars
  BY WalkSimulated
<1> QED
  BY <1>1, <1>2, TranslationConsistent, PTL DEF TranslatorSpec, Walk!Spec, ImplementsBytecode

=============================================================================
