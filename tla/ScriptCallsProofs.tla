---------------------------- MODULE ScriptCallsProofs ----------------------------
(***************************************************************************)
(* The native stack of every execution is well formed, and generated calls  *)
(* implement ScriptMachine: for any functions, bodies, overrides, registered *)
(* functions and depth of nesting.                                          *)
(*                                                                          *)
(* Everything is said of one execution at a time: a step replaces the        *)
(* innermost one (Becomes), and the lemmas below say what its successor is   *)
(* and what a script sees of it (MachineOf).                                *)
(***************************************************************************)
EXTENDS ScriptCalls, SequenceTheorems, TLAPS

OpAt(frame) == Body[frame.fn][frame.pc].op

ScriptCallOps == {"call", "vcall"}
HostCallOps == {"sys", "object"}

\* The VM owns an execution without native frames: nothing is left to be
\* tested, and it has no exception before it has been entered.
OutsideConsistent(e) ==
  e.native = <<>> => /\ e.state = "nothing"
                     /\ e.program = "entry" => e.status = "active"

\* Native code runs what Execute was given, and until its thunk has returned
\* the program pointer is where it was.
InsideConsistent(e) ==
  e.native # <<>> => e.program = "entry" /\ e.native[1].fn = e.fn

\* Below a frame is the caller, at the instruction that calls it.
CallersConsistent(e) ==
  \A i \in 2 .. Len(e.native) :
    /\ e.native[i].kind = "script" =>
         IF i = 2 THEN e.native[i].fn = e.fn ELSE OpAt(e.native[i - 1]) \in ScriptCallOps
    /\ e.native[i].kind = "host" => i > 2 /\ OpAt(e.native[i - 1]) \in HostCallOps

\* A state is tested where the call that left it was made.
StateConsistent(e) ==
  /\ e.native # <<>> /\ e.state # "nothing" =>
       /\ Last(e.native).kind # "host"
       /\ Last(e.native).kind = "thunk" => e.state # "host"
       /\ Last(e.native).kind = "script" =>
            IF e.state = "host" THEN OpAt(Last(e.native)) \in HostCallOps
            ELSE OpAt(Last(e.native)) \in ScriptCallOps
  /\ e.state = "ExceptionExternal" => e.status = "exception"
  /\ Len(e.native) = 1 /\ e.state = "nothing" => e.status = "active"

Consistent(e) ==
  /\ FramesInOrder(e)
  /\ OutsideConsistent(e) /\ InsideConsistent(e)
  /\ CallersConsistent(e) /\ StateConsistent(e)

ConsistentExecution == {e \in Execution : Consistent(e)}

IInv ==
  /\ outcome \in {"none", "finished", "exception"}
  /\ executions \in Seq(ConsistentExecution)

-----------------------------------------------------------------------------
(* Frames and bodies.                                                        *)

\* An instruction of a body is one, and what it names is what its kind names.
LEMMA BodyFacts ==
  ASSUME NEW f \in Function
  PROVE  /\ Body[f] \in Seq(Instruction)
         /\ Len(Body[f]) \in Nat /\ DOMAIN Body[f] = 1 .. Len(Body[f])
         /\ 1 \in DOMAIN Body[f]
         /\ Body[f][Len(Body[f])].op = "ret"
         /\ \A i \in DOMAIN Body[f] :
              /\ Body[f][i].op = "branch" => Body[f][i].to \in DOMAIN Body[f]
              /\ Body[f][i].op = "call" => Body[f][i].callee \in Function
              /\ Body[f][i].op = "vcall" => Body[f][i].callee \in VirtualFunction \cap Method
              /\ Body[f][i].op = "sys" => Body[f][i].callee \in SystemFunction
              /\ Body[f][i].op = "object" => Body[f][i].callee \in Behaviour
<1>1. Body[f] \in Seq(Instruction) /\ Body[f] # <<>>
  BY BodyAssumption DEF BodyAssumption
<1>2. /\ Len(Body[f]) \in Nat \ {0} /\ DOMAIN Body[f] = 1 .. Len(Body[f])
  BY <1>1, EmptySeq, LenProperties
<1>3. Body[f][Len(Body[f])].op = "ret"
  BY BodyAssumption DEF BodyAssumption, Last
<1>4. ASSUME NEW i \in DOMAIN Body[f]
      PROVE  /\ Body[f][i].op = "branch" => Body[f][i].to \in DOMAIN Body[f]
             /\ Body[f][i].op = "call" => Body[f][i].callee \in Function
             /\ Body[f][i].op = "vcall" => Body[f][i].callee \in VirtualFunction \cap Method
             /\ Body[f][i].op = "sys" => Body[f][i].callee \in SystemFunction
             /\ Body[f][i].op = "object" => Body[f][i].callee \in Behaviour
  BY BodyAssumption, ZenonT(30) DEF BodyAssumption
<1>5. 1 \in DOMAIN Body[f]
  BY <1>2
<1> QED
  BY <1>1, <1>2, <1>3, <1>4, <1>5

\* Only RET ends a body.
LEMMA NextInstruction ==
  ASSUME NEW f \in Function, NEW pc \in DOMAIN Body[f], Body[f][pc].op # "ret"
  PROVE  pc + 1 \in DOMAIN Body[f]
<1>1. pc # Len(Body[f])
  BY BodyFacts
<1> QED
  BY <1>1, BodyFacts

LEMMA FrameShape ==
  ASSUME NEW frame \in Frames
  PROVE  /\ frame.kind \in {"thunk", "script", "host"}
         /\ frame.kind = "thunk" => frame.fn \in Function
         /\ frame.kind = "script" => frame.fn \in Function /\ frame.pc \in DOMAIN Body[frame.fn]
         /\ frame.kind = "host" => frame.fn \in SystemFunction \cup Behaviour
         /\ frame = [kind |-> frame.kind, fn |-> frame.fn, pc |-> frame.pc]
<1>1. CASE frame \in [kind : {"thunk"}, fn : Function, pc : {0}]
  BY <1>1
<1>2. CASE \E f \in Function : frame \in [kind : {"script"}, fn : {f}, pc : DOMAIN Body[f]]
  <2>1. PICK f \in Function : frame \in [kind : {"script"}, fn : {f}, pc : DOMAIN Body[f]]
    BY <1>2
  <2> QED
    BY <2>1
<1>3. CASE frame \in [kind : {"host"}, fn : SystemFunction \cup Behaviour, pc : {0}]
  BY <1>3
<1> DEFINE S(f) == [kind : {"script"}, fn : {f}, pc : DOMAIN Body[f]]
<1>4. frame \in UNION {S(f) : f \in Function} => \E f \in Function : frame \in S(f)
  <2> HIDE DEF S
  <2> QED
    OBVIOUS
<1> QED
  BY <1>1, <1>2, <1>3, <1>4, Zenon DEF Frames

LEMMA FramesMade ==
  /\ \A f \in Function : ThunkFrame(f) \in Frames /\ ScriptFrame(f) \in Frames
  /\ \A s \in SystemFunction \cup Behaviour : HostFrame(s) \in Frames
  /\ \A f \in Function : \A pc \in DOMAIN Body[f] : [kind |-> "script", fn |-> f, pc |-> pc] \in Frames
<1>1. ASSUME NEW f \in Function, NEW pc \in DOMAIN Body[f]
      PROVE  [kind |-> "script", fn |-> f, pc |-> pc] \in Frames
  <2> DEFINE S(g) == [kind : {"script"}, fn : {g}, pc : DOMAIN Body[g]]
  <2>1. [kind |-> "script", fn |-> f, pc |-> pc] \in S(f)
    OBVIOUS
  <2>2. ASSUME NEW x \in S(f) PROVE x \in UNION {S(g) : g \in Function}
    <3> HIDE DEF S
    <3> QED
      BY <2>2
  <2> QED
    BY <2>1, <2>2, Zenon DEF Frames
<1>2. ASSUME NEW f \in Function PROVE ThunkFrame(f) \in Frames
  <2>1. ThunkFrame(f) \in [kind : {"thunk"}, fn : Function, pc : {0}]
    BY DEF ThunkFrame
  <2> QED
    BY <2>1, Zenon DEF Frames
<1>3. ASSUME NEW s \in SystemFunction \cup Behaviour PROVE HostFrame(s) \in Frames
  <2>1. HostFrame(s) \in [kind : {"host"}, fn : SystemFunction \cup Behaviour, pc : {0}]
    BY DEF HostFrame
  <2> QED
    BY <2>1, Zenon DEF Frames
<1>4. ASSUME NEW f \in Function PROVE ScriptFrame(f) \in Frames
  BY <1>1, BodyFacts DEF ScriptFrame
<1> QED
  BY <1>1, <1>2, <1>3, <1>4

-----------------------------------------------------------------------------
(* What the helpers of the actions make of an execution.                     *)

LEMMA AboveOne ==
  \A n \in Nat \ {0} : /\ n # 1 => n > 1 /\ n + 1 # 2
                       /\ n > 1 /\ n # 2 => n > 2
                       /\ n > 2 => n # 1
                       /\ n - 1 \in Nat \ {0} => /\ n - 1 \in Nat /\ n - 1 \in 1 .. n - 1
                                                /\ (n - 1) + 1 = n
OBVIOUS

LEMMA SequenceMade ==
  ASSUME NEW S, NEW n \in Nat, NEW c \in [1 .. n -> S]
  PROVE  c \in Seq(S) /\ Len(c) = n /\ DOMAIN c = 1 .. n
<1>1. c \in Seq(S)
  BY SeqDef, Zenon
<1> QED
  BY <1>1, LenProperties

LEMMA StackFacts ==
  ASSUME NEW e \in Execution
  PROVE  /\ e.native \in Seq(Frames)
         /\ Len(e.native) \in Nat /\ DOMAIN e.native = 1 .. Len(e.native)
         /\ e.native = <<>> <=> Len(e.native) = 0
         /\ \A i \in 1 .. Len(e.native) : e.native[i] \in Frames
         /\ e.native # <<>> => /\ Len(e.native) \in DOMAIN e.native
                              /\ Last(e.native) = e.native[Len(e.native)]
<1>1. e.native \in Seq(Frames)
  BY DEF Execution
<1>2. Len(e.native) \in Nat /\ DOMAIN e.native = 1 .. Len(e.native)
  BY <1>1, LenProperties
<1>3. e.native = <<>> <=> Len(e.native) = 0
  BY <1>1, EmptySeq
<1>4. \A i \in 1 .. Len(e.native) : e.native[i] \in Frames
  BY <1>1, ElementOfSeq
<1> QED
  BY <1>1, <1>2, <1>3, <1>4 DEF Last

LEMMA Pushed ==
  ASSUME NEW e \in Execution, NEW frame \in Frames
  PROVE  LET p == Push(e, frame)
         IN  /\ p \in Execution
             /\ p.fn = e.fn /\ p.status = e.status
             /\ p.calling = e.calling /\ p.program = e.program /\ p.state = e.state
             /\ p.native # <<>> /\ Len(p.native) = Len(e.native) + 1
             /\ \A i \in 1 .. Len(e.native) : p.native[i] = e.native[i]
             /\ p.native[Len(e.native) + 1] = frame /\ Last(p.native) = frame
<1> DEFINE p == Push(e, frame)
<1>1. e.native \in Seq(Frames) /\ Len(e.native) \in Nat
  BY StackFacts
<1>2. p = [e EXCEPT !.native = Append(e.native, frame)]
  BY DEF Push
<1>3. /\ Append(e.native, frame) \in Seq(Frames)
      /\ Append(e.native, frame) # <<>>
      /\ Len(Append(e.native, frame)) = Len(e.native) + 1
      /\ \A i \in 1 .. Len(e.native) : Append(e.native, frame)[i] = e.native[i]
      /\ Append(e.native, frame)[Len(e.native) + 1] = frame
  BY <1>1, AppendProperties
<1>4. p.native = Append(e.native, frame)
  BY <1>2 DEF Execution
<1>5. p \in Execution
  BY <1>2, <1>3 DEF Execution
<1>6. p.fn = e.fn /\ p.status = e.status
      /\ p.calling = e.calling /\ p.program = e.program /\ p.state = e.state
  BY <1>2 DEF Execution
<1> QED
  BY <1>3, <1>4, <1>5, <1>6 DEF Last

LEMMA Popped ==
  ASSUME NEW e \in Execution, e.native # <<>>,
         NEW state \in {"nothing", "Ok", "host"} \cup Exceptions
  PROVE  LET p == Returned(e, state)
         IN  /\ p \in Execution
             /\ p.fn = e.fn /\ p.status = e.status
             /\ p.calling = e.calling /\ p.program = e.program /\ p.state = state
             /\ Len(p.native) = Len(e.native) - 1
             /\ \A i \in 1 .. Len(e.native) - 1 : p.native[i] = e.native[i]
<1> DEFINE p == Returned(e, state)
<1>1. e.native \in Seq(Frames) /\ Len(e.native) \in Nat \ {0}
  BY StackFacts
<1>2. p = [e EXCEPT !.native = Front(e.native), !.state = state]
  BY DEF Returned
<1>3. /\ Front(e.native) \in Seq(Frames)
      /\ Len(Front(e.native)) = Len(e.native) - 1
      /\ \A i \in 1 .. Len(e.native) - 1 : Front(e.native)[i] = e.native[i]
  <2>1. \A i \in 1 .. Len(e.native) - 1 : e.native[i] \in Frames
    BY <1>1, StackFacts
  <2>2. /\ SubSeq(e.native, 1, Len(e.native) - 1) \in Seq(Frames)
        /\ Len(SubSeq(e.native, 1, Len(e.native) - 1)) =
             IF 1 <= Len(e.native) - 1 THEN Len(e.native) - 1 - 1 + 1 ELSE 0
        /\ \A i \in 1 .. Len(e.native) - 1 - 1 + 1 :
              SubSeq(e.native, 1, Len(e.native) - 1)[i] = e.native[1 + i - 1]
    BY <1>1, <2>1, SubSeqProperties
  <2> QED
    BY <1>1, <2>2 DEF Front
<1>4. p.native = Front(e.native)
  BY <1>2 DEF Execution
<1>5. p \in Execution
  BY <1>2, <1>3 DEF Execution
<1>6. p.fn = e.fn /\ p.status = e.status
      /\ p.calling = e.calling /\ p.program = e.program /\ p.state = state
  BY <1>2 DEF Execution
<1> QED
  BY <1>3, <1>4, <1>5, <1>6

LEMMA Moved ==
  ASSUME NEW e \in Execution, e.native # <<>>, Last(e.native).kind = "script",
         NEW pc \in DOMAIN Body[Last(e.native).fn]
  PROVE  LET p == GoTo(e, pc)
             n == Len(e.native)
         IN  /\ p \in Execution
             /\ p.fn = e.fn /\ p.status = e.status
             /\ p.calling = e.calling /\ p.program = e.program /\ p.state = "nothing"
             /\ p.native # <<>> /\ Len(p.native) = n
             /\ \A i \in 1 .. n - 1 : p.native[i] = e.native[i]
             /\ p.native[n] = [kind |-> "script", fn |-> e.native[n].fn, pc |-> pc]
<1> DEFINE n == Len(e.native)
           frame == [kind |-> "script", fn |-> e.native[n].fn, pc |-> pc]
           p == GoTo(e, pc)
<1>1. /\ e.native \in Seq(Frames) /\ n \in Nat \ {0} /\ DOMAIN e.native = 1 .. n
      /\ e.native[n] \in Frames /\ Last(e.native) = e.native[n]
  BY StackFacts
<1>2. /\ e.native[n].fn \in Function /\ e.native[n].kind = "script"
      /\ e.native[n] = [kind |-> "script", fn |-> e.native[n].fn, pc |-> e.native[n].pc]
  BY <1>1, FrameShape
<1>3. frame \in Frames
  BY <1>1, <1>2, FramesMade
<1>4. [e.native[n] EXCEPT !.pc = pc] = frame
  BY <1>2
<1>5. p = [e EXCEPT !.native = [e.native EXCEPT ![n] = frame], !.state = "nothing"]
  BY <1>4 DEF GoTo, Execution
<1>6. /\ [e.native EXCEPT ![n] = frame] \in Seq(Frames)
      /\ Len([e.native EXCEPT ![n] = frame]) = n
      /\ \A i \in 1 .. n : [e.native EXCEPT ![n] = frame][i] = IF i = n THEN frame ELSE e.native[i]
  BY <1>1, <1>3, ExceptSeq
<1>7. p.native = [e.native EXCEPT ![n] = frame]
  BY <1>5 DEF Execution
<1>8. p \in Execution
  BY <1>5, <1>6 DEF Execution
<1>9. p.fn = e.fn /\ p.status = e.status
      /\ p.calling = e.calling /\ p.program = e.program /\ p.state = "nothing"
  BY <1>5 DEF Execution
<1>10. /\ Len(p.native) = n /\ p.native # <<>>
       /\ \A i \in 1 .. n - 1 : p.native[i] = e.native[i]
       /\ p.native[n] = frame
  <2>1. /\ Len(p.native) = n /\ n \in 1 .. n
        /\ \A i \in 1 .. n : p.native[i] = IF i = n THEN frame ELSE e.native[i]
    BY <1>1, <1>6, <1>7
  <2>2. p.native # <<>>
    BY <1>8, <2>1, StackFacts
  <2> QED
    BY <1>1, <2>1, <2>2
<1> QED
  BY <1>8, <1>9, <1>10

-----------------------------------------------------------------------------
(* The helpers keep an execution well formed.                                *)

LEMMA ConsistentExecutions ==
  ASSUME NEW e \in ConsistentExecution
  PROVE  e \in Execution /\ Consistent(e)
BY DEF ConsistentExecution

\* Above the thunk are implementations; a host function is on top.
LEMMA StackOrder ==
  ASSUME NEW e \in ConsistentExecution, e.native # <<>>
  PROVE  LET n == Len(e.native)
         IN  /\ n \in Nat \ {0} /\ Last(e.native) = e.native[n]
             /\ e.native[n].kind = "thunk" <=> n = 1
             /\ e.native[n].kind \in {"thunk", "script", "host"}
             /\ \A i \in 2 .. n - 1 : e.native[i].kind = "script"
             /\ n > 1 => /\ e.native[n - 1].kind = "thunk" <=> n = 2
                         /\ e.native[n - 1].kind \in {"thunk", "script"}
             /\ e.native[n].kind = "host" =>
                  /\ n > 2 /\ e.native[n - 1].kind = "script" /\ e.state = "nothing"
                  /\ OpAt(e.native[n - 1]) \in HostCallOps
             /\ e.native[n].kind = "script" /\ n > 2 => OpAt(e.native[n - 1]) \in ScriptCallOps
             /\ e.native[n].kind = "script" /\ n = 2 => e.native[2].fn = e.fn
<1> DEFINE n == Len(e.native)
<1>1. e \in Execution /\ Consistent(e)
  BY ConsistentExecutions
<1>2. /\ n \in Nat \ {0} /\ Last(e.native) = e.native[n] /\ DOMAIN e.native = 1 .. n
      /\ \A i \in 1 .. n : e.native[i] \in Frames
  BY <1>1, StackFacts
<1>3. \A i \in 1 .. n : e.native[i].kind \in {"thunk", "script", "host"}
  BY <1>2, FrameShape
<1>4. \A i \in 1 .. n : /\ e.native[i].kind = "thunk" <=> i = 1
                        /\ e.native[i].kind = "host" => i = n
  BY <1>1, <1>2 DEF Consistent, FramesInOrder
<1>5. \A i \in 2 .. n - 1 : e.native[i].kind = "script"
  BY <1>2, <1>3, <1>4
<1>6. ASSUME n > 1
      PROVE  /\ e.native[n - 1].kind = "thunk" <=> n = 2
             /\ e.native[n - 1].kind \in {"thunk", "script"}
  <2>1. n - 1 \in 1 .. n /\ n - 1 # n /\ (n - 1 = 1 <=> n = 2)
    BY <1>2, <1>6
  <2> QED
    BY <1>3, <1>4, <2>1
<1>7. ASSUME n > 1
      PROVE  /\ e.native[n].kind = "script" =>
                  IF n = 2 THEN e.native[n].fn = e.fn ELSE OpAt(e.native[n - 1]) \in ScriptCallOps
             /\ e.native[n].kind = "host" => n > 2 /\ OpAt(e.native[n - 1]) \in HostCallOps
  <2>1. n \in 2 .. n
    BY <1>2, <1>7
  <2> QED
    BY <1>1, <2>1 DEF Consistent, CallersConsistent
<1>8. e.native[n].kind = "host" => e.state = "nothing"
  BY <1>1, <1>2 DEF Consistent, StateConsistent
<1>9. n \in 1 .. n
  BY <1>2
<1>10. e.native[n].kind = "thunk" <=> n = 1
  BY <1>4, <1>9
<1>11. ASSUME e.native[n].kind = "host"
       PROVE  /\ n > 2 /\ e.native[n - 1].kind = "script" /\ e.state = "nothing"
              /\ OpAt(e.native[n - 1]) \in HostCallOps
  <2>0. n # 1
    BY <1>10, <1>11
  <2>1. n > 1
    BY <1>2, <2>0, AboveOne
  <2>2. n > 2 /\ OpAt(e.native[n - 1]) \in HostCallOps
    BY <1>7, <1>11, <2>1
  <2> QED
    BY <1>2, <1>6, <1>8, <1>11, <2>1, <2>2
<1>12. ASSUME e.native[n].kind = "script", n > 2 PROVE OpAt(e.native[n - 1]) \in ScriptCallOps
  BY <1>2, <1>7, <1>12
<1>13. ASSUME e.native[n].kind = "script", n = 2 PROVE e.native[2].fn = e.fn
  BY <1>7, <1>13
<1> QED
  BY <1>2, <1>3, <1>5, <1>6, <1>9, <1>10, <1>11, <1>12, <1>13

\* Entered from the thunk, or called where the caller is at a call.
LEMMA ScriptCalled ==
  ASSUME NEW e \in ConsistentExecution, NEW d \in Execution, NEW f \in Function,
         d.fn = e.fn, d.native = e.native, d.program = e.program, d.state = e.state,
         e.native # <<>>, e.state = "nothing",
         \/ Last(e.native).kind = "thunk" /\ f = e.fn
         \/ Last(e.native).kind = "script" /\ OpAt(Last(e.native)) \in ScriptCallOps
  PROVE  Push(d, ScriptFrame(f)) \in ConsistentExecution
<1> DEFINE n == Len(e.native)
           p == Push(d, ScriptFrame(f))
<1>1. e \in Execution /\ Consistent(e)
  BY ConsistentExecutions
<1>2. /\ n \in Nat \ {0} /\ Last(e.native) = e.native[n]
      /\ e.native[n].kind = "thunk" <=> n = 1
  BY StackOrder
<1>3. ScriptFrame(f) \in Frames /\ ScriptFrame(f).kind = "script" /\ ScriptFrame(f).fn = f
  BY FramesMade DEF ScriptFrame
<1>4. /\ p \in Execution
      /\ p.fn = e.fn /\ p.status = d.status
      /\ p.calling = d.calling /\ p.program = e.program /\ p.state = "nothing"
      /\ p.native # <<>> /\ Len(p.native) = n + 1
      /\ \A i \in 1 .. n : p.native[i] = e.native[i]
      /\ p.native[n + 1] = ScriptFrame(f)
  BY <1>3, Pushed
<1>5. DOMAIN p.native = 1 .. n + 1
  BY <1>4, StackFacts
<1>6. FramesInOrder(p)
  <2>1. \A i \in 1 .. n : /\ e.native[i].kind = "thunk" <=> i = 1
                          /\ e.native[i].kind # "host"
    BY <1>1, <1>2, StackFacts DEF Consistent, FramesInOrder
  <2> QED
    BY <1>2, <1>3, <1>4, <1>5, <2>1 DEF FramesInOrder
<1>7. OutsideConsistent(p) /\ InsideConsistent(p)
  <2>1. e.program = "entry" /\ e.native[1].fn = e.fn
    BY <1>1 DEF Consistent, InsideConsistent
  <2> QED
    BY <1>2, <1>4, <2>1 DEF OutsideConsistent, InsideConsistent
<1>8. CallersConsistent(p)
  <2>1. ASSUME NEW i \in 2 .. n
        PROVE  /\ p.native[i].kind = "script" =>
                    IF i = 2 THEN p.native[i].fn = p.fn ELSE OpAt(p.native[i - 1]) \in ScriptCallOps
               /\ p.native[i].kind = "host" => i > 2 /\ OpAt(p.native[i - 1]) \in HostCallOps
    <3>1. p.native[i] = e.native[i] /\ p.native[i - 1] = e.native[i - 1] /\ p.fn = e.fn
      <4>1. i \in 1 .. n /\ i - 1 \in 1 .. n
        BY <1>2
      <4> QED
        BY <1>4, <4>1
    <3>2. /\ e.native[i].kind = "script" =>
               IF i = 2 THEN e.native[i].fn = e.fn ELSE OpAt(e.native[i - 1]) \in ScriptCallOps
          /\ e.native[i].kind = "host" => i > 2 /\ OpAt(e.native[i - 1]) \in HostCallOps
      BY <1>1 DEF Consistent, CallersConsistent
    <3> QED
      BY <3>1, <3>2
  <2>2. /\ p.native[n + 1].kind = "script"
        /\ n + 1 = 2 => p.native[n + 1].fn = p.fn
        /\ n + 1 # 2 => OpAt(p.native[n]) \in ScriptCallOps
    <3>1. p.fn = e.fn /\ p.native[n] = e.native[n]
      BY <1>2, <1>4
    <3>2. p.native[n + 1].kind = "script" /\ p.native[n + 1].fn = f
      BY <1>3, <1>4
    <3>3. CASE Last(e.native).kind = "thunk" /\ f = e.fn
      BY <1>2, <3>1, <3>2, <3>3
    <3>4. CASE Last(e.native).kind = "script" /\ OpAt(Last(e.native)) \in ScriptCallOps
      <4>1. n # 1
        BY <1>2, <3>4
      <4>2. n + 1 # 2
        BY <1>2, <4>1, AboveOne
      <4>3. OpAt(p.native[n]) \in ScriptCallOps
        BY <1>2, <3>1, <3>4
      <4> QED
        BY <3>2, <4>2, <4>3
    <3> QED
      BY <3>3, <3>4
  <2> QED
    BY <1>2, <1>4, <2>1, <2>2 DEF CallersConsistent
<1>9. StateConsistent(p)
  BY <1>2, <1>4 DEF StateConsistent
<1> QED
  BY <1>4, <1>6, <1>7, <1>8, <1>9 DEF ConsistentExecution, Consistent

\* A system function or a behaviour is called where the caller is at one.
LEMMA HostCalled ==
  ASSUME NEW e \in ConsistentExecution, NEW d \in Execution,
         NEW s \in SystemFunction \cup Behaviour,
         d.fn = e.fn, d.native = e.native, d.program = e.program, d.state = e.state,
         e.native # <<>>, e.state = "nothing",
         Last(e.native).kind = "script", OpAt(Last(e.native)) \in HostCallOps
  PROVE  Push(d, HostFrame(s)) \in ConsistentExecution
<1> DEFINE n == Len(e.native)
           p == Push(d, HostFrame(s))
<1>1. e \in Execution /\ Consistent(e)
  BY ConsistentExecutions
<1>2. /\ n \in Nat \ {0} /\ n > 1 /\ Last(e.native) = e.native[n]
      /\ e.native[n].kind = "thunk" <=> n = 1
  <2>1. /\ n \in Nat \ {0} /\ Last(e.native) = e.native[n]
        /\ e.native[n].kind = "thunk" <=> n = 1
    BY StackOrder
  <2>2. n # 1
    BY <2>1
  <2> QED
    BY <2>1, <2>2, AboveOne
<1>3. HostFrame(s) \in Frames /\ HostFrame(s).kind = "host"
  BY FramesMade DEF HostFrame
<1>4. /\ p \in Execution
      /\ p.fn = e.fn /\ p.status = d.status
      /\ p.calling = d.calling /\ p.program = e.program /\ p.state = "nothing"
      /\ p.native # <<>> /\ Len(p.native) = n + 1
      /\ \A i \in 1 .. n : p.native[i] = e.native[i]
      /\ p.native[n + 1] = HostFrame(s)
  BY <1>3, Pushed
<1>5. DOMAIN p.native = 1 .. n + 1
  BY <1>4, StackFacts
<1>6. FramesInOrder(p)
  <2>1. \A i \in 1 .. n : /\ e.native[i].kind = "thunk" <=> i = 1
                          /\ e.native[i].kind # "host"
    BY <1>1, <1>2, StackFacts DEF Consistent, FramesInOrder
  <2> QED
    BY <1>2, <1>3, <1>4, <1>5, <2>1 DEF FramesInOrder
<1>7. OutsideConsistent(p) /\ InsideConsistent(p)
  <2>1. e.program = "entry" /\ e.native[1].fn = e.fn
    BY <1>1 DEF Consistent, InsideConsistent
  <2> QED
    BY <1>2, <1>4, <2>1 DEF OutsideConsistent, InsideConsistent
<1>8. CallersConsistent(p)
  <2>1. ASSUME NEW i \in 2 .. n
        PROVE  /\ p.native[i].kind = "script" =>
                    IF i = 2 THEN p.native[i].fn = p.fn ELSE OpAt(p.native[i - 1]) \in ScriptCallOps
               /\ p.native[i].kind = "host" => i > 2 /\ OpAt(p.native[i - 1]) \in HostCallOps
    <3>1. p.native[i] = e.native[i] /\ p.native[i - 1] = e.native[i - 1] /\ p.fn = e.fn
      <4>1. i \in 1 .. n /\ i - 1 \in 1 .. n
        BY <1>2
      <4> QED
        BY <1>4, <4>1
    <3>2. /\ e.native[i].kind = "script" =>
               IF i = 2 THEN e.native[i].fn = e.fn ELSE OpAt(e.native[i - 1]) \in ScriptCallOps
          /\ e.native[i].kind = "host" => i > 2 /\ OpAt(e.native[i - 1]) \in HostCallOps
      BY <1>1 DEF Consistent, CallersConsistent
    <3> QED
      BY <3>1, <3>2
  <2>2. /\ p.native[n + 1].kind = "host" /\ n + 1 > 2
        /\ OpAt(p.native[n]) \in HostCallOps
    <3>1. p.native[n] = e.native[n]
      BY <1>2, <1>4
    <3> QED
      BY <1>2, <1>3, <1>4, <3>1
  <2> QED
    BY <1>2, <1>4, <2>1, <2>2 DEF CallersConsistent
<1>9. StateConsistent(p)
  BY <1>2, <1>4 DEF StateConsistent
<1> QED
  BY <1>4, <1>6, <1>7, <1>8, <1>9 DEF ConsistentExecution, Consistent

\* A caller that goes on has nothing left to test.
LEMMA MovedOn ==
  ASSUME NEW e \in ConsistentExecution, e.native # <<>>, Last(e.native).kind = "script",
         NEW pc \in DOMAIN Body[Last(e.native).fn]
  PROVE  GoTo(e, pc) \in ConsistentExecution
<1> DEFINE n == Len(e.native)
           p == GoTo(e, pc)
<1>1. e \in Execution /\ Consistent(e)
  BY ConsistentExecutions
<1>2. /\ n \in Nat \ {0} /\ Last(e.native) = e.native[n]
      /\ e.native[n].kind = "thunk" <=> n = 1
  BY StackOrder
<1>3. n # 1 /\ n > 1
  <2>1. n # 1
    BY <1>2
  <2> QED
    BY <1>2, <2>1, AboveOne
<1>4. /\ p \in Execution /\ p.fn = e.fn /\ p.program = e.program /\ p.state = "nothing"
      /\ p.native # <<>> /\ Len(p.native) = n
      /\ \A i \in 1 .. n - 1 : p.native[i] = e.native[i]
      /\ p.native[n].kind = e.native[n].kind /\ p.native[n].fn = e.native[n].fn
  <2>1. /\ p \in Execution /\ p.fn = e.fn /\ p.program = e.program /\ p.state = "nothing"
        /\ p.native # <<>> /\ Len(p.native) = n
        /\ \A i \in 1 .. n - 1 : p.native[i] = e.native[i]
        /\ p.native[n] = [kind |-> "script", fn |-> e.native[n].fn, pc |-> pc]
    BY <1>1, Moved
  <2> QED
    BY <1>2, <2>1
<1>5. \A i \in 1 .. n : p.native[i].kind = e.native[i].kind /\ p.native[i].fn = e.native[i].fn
  BY <1>2, <1>4
<1>6. DOMAIN p.native = 1 .. n /\ DOMAIN e.native = 1 .. n
  BY <1>1, <1>4, StackFacts
<1>7. FramesInOrder(p)
  BY <1>1, <1>4, <1>5, <1>6 DEF Consistent, FramesInOrder
<1>8. OutsideConsistent(p) /\ InsideConsistent(p)
  <2>1. e.program = "entry" /\ e.native[1].fn = e.fn
    BY <1>1 DEF Consistent, InsideConsistent
  <2>2. p.native[1].fn = e.native[1].fn
    BY <1>2, <1>5
  <2> QED
    BY <1>4, <2>1, <2>2 DEF OutsideConsistent, InsideConsistent
<1>9. CallersConsistent(p)
  <2>1. ASSUME NEW i \in 2 .. n
        PROVE  /\ p.native[i].kind = "script" =>
                    IF i = 2 THEN p.native[i].fn = p.fn ELSE OpAt(p.native[i - 1]) \in ScriptCallOps
               /\ p.native[i].kind = "host" => i > 2 /\ OpAt(p.native[i - 1]) \in HostCallOps
    <3>1. i \in 1 .. n /\ i - 1 \in 1 .. n - 1
      BY <1>2
    <3>2. /\ p.native[i].kind = e.native[i].kind /\ p.native[i].fn = e.native[i].fn
          /\ p.native[i - 1] = e.native[i - 1]
      BY <1>4, <1>5, <3>1
    <3>3. /\ e.native[i].kind = "script" =>
               IF i = 2 THEN e.native[i].fn = e.fn ELSE OpAt(e.native[i - 1]) \in ScriptCallOps
          /\ e.native[i].kind = "host" => i > 2 /\ OpAt(e.native[i - 1]) \in HostCallOps
      BY <1>1 DEF Consistent, CallersConsistent
    <3> QED
      BY <1>4, <3>2, <3>3
  <2> QED
    BY <1>4, <2>1 DEF CallersConsistent
<1>10. StateConsistent(p)
  BY <1>3, <1>4 DEF StateConsistent
<1> QED
  BY <1>4, <1>7, <1>8, <1>9, <1>10 DEF ConsistentExecution, Consistent

\* Below what has returned are callers, and the state is for the last of them:
\* from an implementation a VmState, from a host function what the context has.
LEMMA CallReturned ==
  ASSUME NEW e \in ConsistentExecution, e.native # <<>>,
         NEW state \in {"Ok", "host"} \cup Exceptions,
         state = "ExceptionExternal" => e.status = "exception",
         Last(e.native).kind = IF state = "host" THEN "host" ELSE "script"
  PROVE  Returned(e, state) \in ConsistentExecution
<1> DEFINE n == Len(e.native)
           p == Returned(e, state)
<1>1. e \in Execution /\ Consistent(e)
  BY ConsistentExecutions
<1>2. /\ n \in Nat \ {0} /\ Last(e.native) = e.native[n]
      /\ e.native[n].kind = "thunk" <=> n = 1
  BY StackOrder
<1>3. n > 1 /\ n - 1 \in Nat \ {0}
  <2>1. n # 1
    BY <1>2
  <2>2. n > 1
    BY <1>2, <2>1, AboveOne
  <2> QED
    BY <1>2, <2>2
<1>4. /\ p \in Execution /\ p.fn = e.fn /\ p.program = e.program /\ p.status = e.status
      /\ p.state = state /\ Len(p.native) = n - 1
      /\ \A i \in 1 .. n - 1 : p.native[i] = e.native[i]
  BY <1>1, Popped
<1>5. /\ p.native # <<>> /\ Last(p.native) = e.native[n - 1]
  <2>1. p.native # <<>>
    BY <1>3, <1>4, StackFacts
  <2> QED
    BY <1>3, <1>4, <2>1 DEF Last
<1>6. DOMAIN p.native = 1 .. n - 1 /\ DOMAIN e.native = 1 .. n
  BY <1>1, <1>4, StackFacts
<1>7. FramesInOrder(p)
  <2>1. ASSUME NEW i \in 1 .. n - 1
        PROVE  /\ p.native[i].kind = "thunk" <=> i = 1
               /\ p.native[i].kind = "host" => i = n - 1
    <3>1. /\ e.native[i].kind = "thunk" <=> i = 1
          /\ e.native[i].kind = "host" => i = n
      BY <1>1, <1>2, <1>6 DEF Consistent, FramesInOrder
    <3>2. i # n
      BY <1>2
    <3> QED
      BY <1>4, <3>1, <3>2
  <2> QED
    BY <1>4, <1>6, <2>1 DEF FramesInOrder
<1>8. OutsideConsistent(p) /\ InsideConsistent(p)
  <2>1. e.program = "entry" /\ e.native[1].fn = e.fn
    BY <1>1 DEF Consistent, InsideConsistent
  <2>2. p.native[1] = e.native[1]
    BY <1>3, <1>4
  <2> QED
    BY <1>4, <1>5, <2>1, <2>2 DEF OutsideConsistent, InsideConsistent
<1>9. CallersConsistent(p)
  <2>1. ASSUME NEW i \in 2 .. n - 1
        PROVE  /\ p.native[i].kind = "script" =>
                    IF i = 2 THEN p.native[i].fn = p.fn ELSE OpAt(p.native[i - 1]) \in ScriptCallOps
               /\ p.native[i].kind = "host" => i > 2 /\ OpAt(p.native[i - 1]) \in HostCallOps
    <3>1. i \in 1 .. n - 1 /\ i - 1 \in 1 .. n - 1 /\ i \in 2 .. n
      BY <1>2
    <3>2. p.native[i] = e.native[i] /\ p.native[i - 1] = e.native[i - 1]
      BY <1>4, <3>1
    <3>3. /\ e.native[i].kind = "script" =>
               IF i = 2 THEN e.native[i].fn = e.fn ELSE OpAt(e.native[i - 1]) \in ScriptCallOps
          /\ e.native[i].kind = "host" => i > 2 /\ OpAt(e.native[i - 1]) \in HostCallOps
      BY <1>1, <3>1 DEF Consistent, CallersConsistent
    <3> QED
      BY <1>4, <3>2, <3>3
  <2> QED
    BY <1>4, <2>1 DEF CallersConsistent
<1>10. StateConsistent(p)
  <2>1. e.native[n - 1].kind \in {"thunk", "script"}
    BY <1>3, StackOrder
  <2>2. CASE state = "host"
    <3>1. e.native[n - 1].kind = "script" /\ OpAt(e.native[n - 1]) \in HostCallOps
      BY <1>2, <2>2, StackOrder
    <3> QED
      BY <1>4, <1>5, <2>2, <3>1 DEF StateConsistent
  <2>3. CASE state # "host"
    <3>1. e.native[n - 1].kind = "thunk" <=> n = 2
      BY <1>3, StackOrder
    <3>2. n > 2 => OpAt(e.native[n - 1]) \in ScriptCallOps
      BY <1>2, <2>3, StackOrder
    <3>3. e.native[n - 1].kind = "script" => OpAt(e.native[n - 1]) \in ScriptCallOps
      <4>1. n # 2 => n > 2
        BY <1>2, <1>3, AboveOne
      <4> QED
        BY <3>1, <3>2, <4>1
    <3> QED
      BY <1>4, <1>5, <2>1, <2>3, <3>3 DEF StateConsistent, Exceptions
  <2> QED
    BY <2>2, <2>3
<1> QED
  BY <1>4, <1>7, <1>8, <1>9, <1>10 DEF ConsistentExecution, Consistent

\* What the thunk leaves to the virtual machine.
ThunkReturned(e) == [e EXCEPT !.native = Front(@), !.state = "nothing",
                              !.status = InternalException(@, e.state), !.program = ThunkProgram]

LEMMA ThunkLeft ==
  ASSUME NEW e \in ConsistentExecution, e.native # <<>>, Last(e.native).kind = "thunk"
  PROVE  LET p == ThunkReturned(e)
         IN  /\ p \in ConsistentExecution
             /\ p.native = <<>> /\ p.state = "nothing" /\ p.program = "ret"
             /\ p.status = InternalException(e.status, e.state)
<1> DEFINE p == ThunkReturned(e)
<1>1. e \in Execution /\ Consistent(e)
  BY ConsistentExecutions
<1>2. Len(e.native) = 1
  BY StackOrder
<1>3. Front(e.native) = <<>>
  BY <1>1, <1>2, SubSeqEmpty, StackFacts DEF Front
<1>4. InternalException(e.status, e.state) \in {"active", "exception"}
  BY <1>1 DEF InternalException, Execution
<1>5. <<>> \in Seq(Frames)
  BY EmptySeq
<1>6. /\ p \in Execution /\ p.native = <<>> /\ p.state = "nothing" /\ p.program = "ret"
      /\ p.status = InternalException(e.status, e.state)
  BY <1>1, <1>3, <1>4, <1>5 DEF ThunkReturned, Execution, ThunkProgram
<1>7. Len(p.native) = 0 /\ DOMAIN p.native = 1 .. 0
  BY <1>6, StackFacts
<1>8. Consistent(p)
  <2>1. FramesInOrder(p) /\ CallersConsistent(p)
    BY <1>7 DEF FramesInOrder, CallersConsistent
  <2>2. OutsideConsistent(p) /\ InsideConsistent(p) /\ StateConsistent(p)
    BY <1>6, <1>7 DEF OutsideConsistent, InsideConsistent, StateConsistent
  <2> QED
    BY <2>1, <2>2 DEF Consistent
<1> QED
  BY <1>6, <1>8 DEF ConsistentExecution

\* An execution before the virtual machine has entered native code, and after.
LEMMA ExecutionEntered ==
  /\ \A f \in Function : NewExecution(f) \in ConsistentExecution
  /\ \A e \in ConsistentExecution :
       e.native = <<>> /\ e.status = "active" /\ e.program = "entry"
       => Push(e, ThunkFrame(e.fn)) \in ConsistentExecution
<1>1. ASSUME NEW f \in Function PROVE NewExecution(f) \in ConsistentExecution
  <2> DEFINE p == NewExecution(f)
  <2>1. /\ p \in Execution /\ p.native = <<>> /\ p.state = "nothing" /\ p.program = "entry"
        /\ p.status = "active"
    BY EmptySeq DEF NewExecution, Execution
  <2>2. Len(p.native) = 0 /\ DOMAIN p.native = 1 .. 0
    BY <2>1, StackFacts
  <2>3. FramesInOrder(p) /\ CallersConsistent(p)
    BY <2>2 DEF FramesInOrder, CallersConsistent
  <2>4. OutsideConsistent(p) /\ InsideConsistent(p) /\ StateConsistent(p)
    BY <2>1, <2>2 DEF OutsideConsistent, InsideConsistent, StateConsistent
  <2> QED
    BY <2>1, <2>3, <2>4 DEF ConsistentExecution, Consistent
<1>2. ASSUME NEW e \in ConsistentExecution, e.native = <<>>, e.status = "active", e.program = "entry"
      PROVE  Push(e, ThunkFrame(e.fn)) \in ConsistentExecution
  <2> DEFINE p == Push(e, ThunkFrame(e.fn))
  <2>1. e \in Execution /\ Consistent(e) /\ Len(e.native) = 0
    BY <1>2, ConsistentExecutions, StackFacts
  <2>2. /\ ThunkFrame(e.fn) \in Frames /\ ThunkFrame(e.fn).kind = "thunk"
        /\ ThunkFrame(e.fn).fn = e.fn
    BY <2>1, FramesMade DEF ThunkFrame, Execution
  <2>3. e.state = "nothing"
    BY <1>2, <2>1 DEF Consistent, OutsideConsistent
  <2>4. /\ p \in Execution /\ p.native # <<>> /\ Len(p.native) = 1
        /\ p.native[1] = ThunkFrame(e.fn) /\ p.fn = e.fn
        /\ p.status = "active" /\ p.program = "entry" /\ p.state = "nothing"
    <3>1. /\ p \in Execution /\ p.native # <<>> /\ Len(p.native) = Len(e.native) + 1
          /\ p.native[Len(e.native) + 1] = ThunkFrame(e.fn) /\ p.fn = e.fn
          /\ p.status = e.status /\ p.program = e.program /\ p.state = e.state
      BY <2>1, <2>2, Pushed
    <3> QED
      BY <1>2, <2>1, <2>3, <3>1
  <2>5. DOMAIN p.native = 1 .. 1
    BY <2>4, StackFacts
  <2>6. FramesInOrder(p) /\ CallersConsistent(p)
    BY <2>2, <2>4, <2>5 DEF FramesInOrder, CallersConsistent
  <2>7. OutsideConsistent(p) /\ InsideConsistent(p) /\ StateConsistent(p)
    BY <2>2, <2>4 DEF OutsideConsistent, InsideConsistent, StateConsistent
  <2> QED
    BY <2>4, <2>6, <2>7 DEF ConsistentExecution, Consistent
<1> QED
  BY <1>1, <1>2

-----------------------------------------------------------------------------
(* The actions: each replaces the innermost execution by a well formed one,  *)
(* starts one or ends it.                                                    *)

LEMMA Innermost ==
  ASSUME IInv, executions # <<>>
  PROVE  /\ Len(executions) \in Nat \ {0} /\ DOMAIN executions = 1 .. Len(executions)
         /\ Top \in ConsistentExecution /\ Top \in Execution /\ Consistent(Top)
<1>1. executions \in Seq(ConsistentExecution)
  BY DEF IInv
<1>2. Len(executions) \in Nat \ {0} /\ DOMAIN executions = 1 .. Len(executions)
  BY <1>1, EmptySeq, LenProperties
<1>3. Top \in ConsistentExecution
  BY <1>1, <1>2, ElementOfSeq DEF Top
<1> QED
  BY <1>2, <1>3, ConsistentExecutions

LEMMA Replaced ==
  ASSUME IInv, executions # <<>>, NEW e \in ConsistentExecution, Becomes(e)
  PROVE  IInv'
<1>1. executions \in Seq(ConsistentExecution) /\ Len(executions) \in 1 .. Len(executions)
  BY Innermost DEF IInv
<1>2. executions' \in Seq(ConsistentExecution)
  BY <1>1, ExceptSeq DEF Becomes
<1> QED
  BY <1>2 DEF Becomes, IInv

\* An implementation at an instruction that is not RET can go on.
LEMMA AtInstruction ==
  ASSUME IInv, executions # <<>>, Top.native # <<>>, Frame.kind = "script"
  PROVE  /\ Frame \in Frames /\ Frame = Last(Top.native)
         /\ Frame.fn \in Function /\ Frame.pc \in DOMAIN Body[Frame.fn]
         /\ OpAt(Frame) # "ret" => Frame.pc + 1 \in DOMAIN Body[Frame.fn]
<1>1. Top \in Execution
  BY Innermost
<1>2. Frame \in Frames
  <2>1. /\ Len(Top.native) \in DOMAIN Top.native /\ DOMAIN Top.native = 1 .. Len(Top.native)
        /\ \A i \in 1 .. Len(Top.native) : Top.native[i] \in Frames
        /\ Last(Top.native) = Top.native[Len(Top.native)]
    BY <1>1, StackFacts
  <2> QED
    BY <2>1 DEF Frame
<1>3. Frame.fn \in Function /\ Frame.pc \in DOMAIN Body[Frame.fn]
  BY <1>2, FrameShape
<1>4. OpAt(Frame) # "ret" => Frame.pc + 1 \in DOMAIN Body[Frame.fn]
  BY <1>3, NextInstruction DEF OpAt
<1> QED
  BY <1>2, <1>3, <1>4 DEF Frame

LEMMA NullPointerConsistent ==
  ASSUME IInv, InFrame("script")
  PROVE  NullPointer(Top) \in ConsistentExecution
<1>1. /\ Top \in ConsistentExecution /\ Top.native # <<>>
      /\ Last(Top.native).kind = "script"
  BY Innermost DEF InFrame, Frame
<1> QED
  BY <1>1, CallReturned DEF NullPointer, Exceptions

LEMMA AdvancedConsistent ==
  ASSUME IInv, executions # <<>>, Top.native # <<>>, Frame.kind = "script", OpAt(Frame) # "ret"
  PROVE  Advanced(Top) \in ConsistentExecution
<1>1. Top \in ConsistentExecution
  BY Innermost
<1>2. Frame.pc + 1 \in DOMAIN Body[Frame.fn] /\ Frame = Last(Top.native)
  BY AtInstruction
<1> QED
  BY <1>1, <1>2, MovedOn DEF Advanced

LEMMA ExecuteConsistent ==
  ASSUME IInv, NEW f \in Function, Execute(f) PROVE IInv'
<1>1. executions \in Seq(ConsistentExecution) /\ NewExecution(f) \in ConsistentExecution
  BY ExecutionEntered DEF IInv
<1>2. executions' \in Seq(ConsistentExecution)
  BY <1>1, AppendProperties DEF Execute
<1> QED
  BY <1>2 DEF Execute, IInv

LEMMA LeaveVMConsistent ==
  ASSUME IInv, LeaveVM PROVE IInv'
<1>1. /\ executions \in Seq(ConsistentExecution) /\ Len(executions) \in Nat \ {0}
  BY Innermost DEF IInv, LeaveVM
<1>2. \A i \in 1 .. Len(executions) - 1 : executions[i] \in ConsistentExecution
  BY <1>1, ElementOfSeq
<1>3. Front(executions) \in Seq(ConsistentExecution)
  BY <1>1, <1>2, SubSeqProperties DEF Front
<1> QED
  BY <1>3 DEF LeaveVM, IInv

LEMMA ThunkCallConsistent ==
  ASSUME IInv, ThunkCall PROVE IInv'
<1> USE DEF ThunkCall, InFrame
<1>1. /\ executions # <<>> /\ Top \in ConsistentExecution /\ Top \in Execution
      /\ Top.native # <<>> /\ Top.state = "nothing" /\ Last(Top.native).kind = "thunk"
  BY Innermost DEF Frame
<1>2. Frame.fn = Top.fn /\ Frame.fn \in Function
  <2>1. Top.native[1].fn = Top.fn /\ Top.fn \in Function
    BY <1>1, ConsistentExecutions DEF Consistent, InsideConsistent, Execution
  <2>2. Last(Top.native) = Top.native[1]
    BY <1>1, StackOrder
  <2> QED
    BY <2>1, <2>2 DEF Frame
<1>3. CASE Becomes(Push(Top, ScriptFrame(Frame.fn)))
  <2>1. Push(Top, ScriptFrame(Frame.fn)) \in ConsistentExecution
    BY <1>1, <1>2, ScriptCalled
  <2> QED
    BY <1>1, <1>3, <2>1, Replaced
<1>4. CASE Becomes(Push([Top EXCEPT !.status = "exception"], ScriptFrame(Frame.fn)))
  <2> DEFINE d == [Top EXCEPT !.status = "exception"]
  <2>1. /\ d \in Execution /\ d.fn = Top.fn /\ d.native = Top.native
        /\ d.program = Top.program /\ d.state = Top.state
    BY <1>1 DEF Execution
  <2>2. Push(d, ScriptFrame(Frame.fn)) \in ConsistentExecution
    BY <1>1, <1>2, <2>1, ScriptCalled
  <2> QED
    BY <1>1, <1>4, <2>2, Replaced
<1> QED
  BY <1>3, <1>4

LEMMA HostRaised ==
  ASSUME IInv, InFrame("host")
  PROVE  [Top EXCEPT !.status = "exception"] \in ConsistentExecution
<1> DEFINE p == [Top EXCEPT !.status = "exception"]
<1>1. /\ Top \in ConsistentExecution /\ Top \in Execution /\ Consistent(Top)
      /\ Top.native # <<>> /\ Top.state = "nothing" /\ Last(Top.native).kind = "host"
  BY Innermost DEF Frame, InFrame
<1>2. /\ p \in Execution /\ p.fn = Top.fn /\ p.native = Top.native /\ p.status = "exception"
      /\ p.program = Top.program /\ p.state = Top.state
  BY <1>1 DEF Execution
<1>3. Len(Top.native) > 2
  BY <1>1, StackOrder
<1>4. FramesInOrder(p) /\ OutsideConsistent(p) /\ InsideConsistent(p) /\ CallersConsistent(p)
  BY <1>1, <1>2 DEF Consistent, FramesInOrder, OutsideConsistent, InsideConsistent, CallersConsistent
<1>5. StateConsistent(p)
  <2>1. p.state = "nothing" /\ Len(p.native) # 1
    BY <1>1, <1>2, <1>3, StackOrder, AboveOne
  <2> HIDE DEF p
  <2> QED
    BY <2>1 DEF StateConsistent
<1> QED
  BY <1>2, <1>4, <1>5 DEF ConsistentExecution, Consistent

LEMMA HostConsistent ==
  ASSUME IInv, HostRaises \/ HostReturns PROVE IInv'
<1>1. /\ executions # <<>> /\ Top \in ConsistentExecution /\ Top \in Execution
      /\ Top.native # <<>> /\ Top.state = "nothing" /\ Last(Top.native).kind = "host"
  BY Innermost DEF Frame, HostRaises, HostReturns, InFrame
<1>2. CASE HostRaises
  BY <1>1, <1>2, HostRaised, Replaced DEF HostRaises
<1>3. CASE HostReturns
  <2>1. Returned(Top, "host") \in ConsistentExecution
    BY <1>1, CallReturned, Zenon DEF Exceptions
  <2> QED
    BY <1>1, <1>3, <2>1, Replaced DEF HostReturns
<1> QED
  BY <1>2, <1>3

LEMMA WithinBodyConsistent ==
  ASSUME IInv, Work \/ Branch \/ CheckPointer PROVE IInv'
<1>1. /\ executions # <<>> /\ Top \in ConsistentExecution /\ InFrame("script")
      /\ Top.native # <<>> /\ Frame.kind = "script" /\ Last(Top.native) = Frame
  BY Innermost DEF Frame, Work, Branch, CheckPointer, At, InFrame
<1>2. /\ Frame.fn \in Function /\ Frame.pc \in DOMAIN Body[Frame.fn]
      /\ OpAt(Frame) # "ret" => Frame.pc + 1 \in DOMAIN Body[Frame.fn]
  BY <1>1, AtInstruction
<1>3. OpAt(Frame) \in {"work", "branch", "check"}
  BY DEF Work, Branch, CheckPointer, At, OpAt
<1>4. Advanced(Top) \in ConsistentExecution
  BY <1>1, <1>3, AdvancedConsistent
<1>5. CASE Work
  BY <1>1, <1>4, <1>5, Replaced DEF Work
<1>6. CASE Branch
  <2>1. PICK pc \in {Frame.pc + 1, Body[Frame.fn][Frame.pc].to} : Becomes(GoTo(Top, pc))
    BY <1>6 DEF Branch
  <2>2. Body[Frame.fn][Frame.pc].to \in DOMAIN Body[Frame.fn]
    BY <1>2, <1>6, BodyFacts DEF Branch, At
  <2>3. pc \in DOMAIN Body[Frame.fn]
    BY <1>2, <1>3, <2>2
  <2>4. GoTo(Top, pc) \in ConsistentExecution
    BY <1>1, <2>3, MovedOn
  <2> QED
    BY <1>1, <2>1, <2>4, Replaced
<1>7. CASE CheckPointer
  <2>1. NullPointer(Top) \in ConsistentExecution
    BY <1>1, NullPointerConsistent
  <2> QED
    BY <1>1, <1>4, <1>7, <2>1, Replaced DEF CheckPointer
<1> QED
  BY <1>5, <1>6, <1>7

LEMMA CallsConsistent ==
  ASSUME IInv, CallScript \/ CallVirtual \/ CallSystem \/ CallBehaviour PROVE IInv'
<1>1. /\ executions # <<>> /\ Top \in ConsistentExecution /\ Top \in Execution
      /\ InFrame("script") /\ Top.native # <<>> /\ Top.state = "nothing"
      /\ Frame.kind = "script" /\ Last(Top.native) = Frame
  BY Innermost DEF Frame, CallScript, CallVirtual, CallSystem, CallBehaviour, At, InFrame
<1>2. Frame.fn \in Function /\ Frame.pc \in DOMAIN Body[Frame.fn]
  BY <1>1, AtInstruction
<1>3. NullPointer(Top) \in ConsistentExecution
  BY <1>1, NullPointerConsistent
<1>4. ASSUME NEW f \in Function, OpAt(Frame) \in ScriptCallOps
      PROVE  Push(Top, ScriptFrame(f)) \in ConsistentExecution
  BY <1>1, <1>4, ScriptCalled
<1>5. CASE CallScript
  <2>1. OpAt(Frame) \in ScriptCallOps /\ Callee \in Function
    BY <1>2, <1>5, BodyFacts DEF CallScript, At, OpAt, Callee, ScriptCallOps
  <2> QED
    BY <1>1, <1>3, <1>4, <1>5, <2>1, Replaced DEF CallScript
<1>6. CASE CallVirtual
  <2>1. OpAt(Frame) \in ScriptCallOps /\ Callee \in VirtualFunction
    BY <1>2, <1>6, BodyFacts DEF CallVirtual, At, OpAt, Callee, ScriptCallOps
  <2>2. Overrides[Callee] \subseteq Function
    BY <2>1, BodyAssumption DEF BodyAssumption
  <2> QED
    BY <1>1, <1>3, <1>4, <1>6, <2>1, <2>2, Replaced DEF CallVirtual
<1>7. CASE CallSystem
  <2>1. OpAt(Frame) \in HostCallOps /\ Callee \in SystemFunction
    BY <1>2, <1>7, BodyFacts DEF CallSystem, At, OpAt, Callee, HostCallOps
  <2> DEFINE d == [Top EXCEPT !.calling = NativeOf[Callee]]
  <2>2. /\ d \in Execution /\ d.fn = Top.fn /\ d.native = Top.native
        /\ d.program = Top.program /\ d.state = Top.state
    BY <1>1, <2>1 DEF Execution
  <2>3. Push(d, HostFrame(Callee)) \in ConsistentExecution
    BY <1>1, <2>1, <2>2, HostCalled
  <2> QED
    BY <1>1, <1>3, <1>7, <2>3, Replaced DEF CallSystem
<1>8. CASE CallBehaviour
  <2>1. OpAt(Frame) \in HostCallOps /\ Callee \in Behaviour
    BY <1>2, <1>8, BodyFacts DEF CallBehaviour, At, OpAt, Callee, HostCallOps
  <2>2. Push(Top, HostFrame(Callee)) \in ConsistentExecution
    BY <1>1, <2>1, HostCalled
  <2> QED
    BY <1>1, <1>8, <2>2, Replaced DEF CallBehaviour
<1> QED
  BY <1>5, <1>6, <1>7, <1>8

\* Where a state is left to be tested, and what it can be there.
LEMMA StateToTest ==
  ASSUME IInv, executions # <<>>, Top.native # <<>>, Top.state # "nothing"
  PROVE  /\ Frame = Last(Top.native)
         /\ Top.state \in {"Ok", "host"} \cup Exceptions
         /\ Frame.kind = "script" =>
              IF Top.state = "host" THEN OpAt(Frame) \in HostCallOps ELSE OpAt(Frame) \in ScriptCallOps
         /\ Frame.kind = "thunk" => Top.state # "host"
         /\ Top.state = "ExceptionExternal" => Top.status = "exception"
<1>1. Top \in Execution /\ Consistent(Top)
  BY Innermost
<1>2. Top.state \in {"Ok", "host"} \cup Exceptions
  BY <1>1 DEF Execution
<1> QED
  BY <1>1, <1>2, Zenon DEF Frame, Consistent, StateConsistent

LEMMA AfterCallConsistent ==
  ASSUME IInv, AfterCall PROVE IInv'
<1>1. /\ executions # <<>> /\ Top \in ConsistentExecution
      /\ Top.native # <<>> /\ Top.state # "nothing"
      /\ Frame.kind = "script" /\ Last(Top.native) = Frame
  BY Innermost DEF Frame, AfterCall
<1>2. OpAt(Frame) \in ScriptCallOps \cup HostCallOps
  BY <1>1, StateToTest
<1>3. Advanced(Top) \in ConsistentExecution
  BY <1>1, <1>2, AdvancedConsistent DEF ScriptCallOps, HostCallOps
<1>4. CASE OpAt(Frame) \in ScriptCallOps /\ Becomes(TestedCall(Top))
  <2>1. Top.state # "host" /\ Top.state \in {"Ok"} \cup Exceptions
    BY <1>1, <1>4, StateToTest DEF ScriptCallOps, HostCallOps
  <2>2. Top.state \in Exceptions => Returned(Top, Top.state) \in ConsistentExecution
    BY <1>1, <2>1, CallReturned, StateToTest DEF Exceptions
  <2>3. TestedCall(Top) \in ConsistentExecution
    BY <1>3, <2>1, <2>2 DEF TestedCall
  <2> QED
    BY <1>1, <1>4, <2>3, Replaced
<1>5. CASE Becomes(TestedContext(Top))
  <2>1. Top.status = "exception" => Returned(Top, "ExceptionExternal") \in ConsistentExecution
    BY <1>1, CallReturned DEF Exceptions
  <2>2. TestedContext(Top) \in ConsistentExecution
    BY <1>3, <2>1 DEF TestedContext
  <2> QED
    BY <1>1, <1>5, <2>2, Replaced
<1>6. CASE Becomes(Advanced(Top))
  BY <1>1, <1>3, <1>6, Replaced
<1> QED
  BY <1>4, <1>5, <1>6, Zenon DEF AfterCall, OpAt, ScriptCallOps

LEMMA StepConsistent == IInv /\ [Next]_vars => IInv'
<1> SUFFICES ASSUME IInv, [Next]_vars PROVE IInv'
  OBVIOUS
<1>1. CASE \E f \in Function : Execute(f)
  BY <1>1, ExecuteConsistent
<1>2. CASE EnterNative
  <2>1. Top \in ConsistentExecution /\ executions # <<>>
    BY <1>2, Innermost DEF EnterNative
  <2>2. Push(Top, ThunkFrame(Top.fn)) \in ConsistentExecution
    BY <1>2, <2>1, ExecutionEntered DEF EnterNative
  <2> QED
    BY <1>2, <2>1, <2>2, Replaced DEF EnterNative
<1>3. CASE ThunkReturn
  <2>1. /\ executions # <<>> /\ Top \in ConsistentExecution /\ Top.native # <<>>
        /\ Last(Top.native).kind = "thunk" /\ Becomes(ThunkReturned(Top))
    BY <1>3, Innermost DEF ThunkReturn, Frame, ThunkReturned
  <2> QED
    BY <2>1, ThunkLeft, Replaced
<1>4. CASE Ret
  <2>1. /\ executions # <<>> /\ Top \in ConsistentExecution /\ Top.native # <<>>
        /\ Last(Top.native).kind = "script" /\ Becomes(Returned(Top, "Ok"))
    BY <1>4, Innermost DEF Ret, At, InFrame, Frame
  <2>2. Returned(Top, "Ok") \in ConsistentExecution
    BY <2>1, CallReturned
  <2> QED
    BY <2>1, <2>2, Replaced
<1>5. CASE UNCHANGED vars
  BY <1>5 DEF vars, IInv
<1> QED
  BY <1>1, <1>2, <1>3, <1>4, <1>5, LeaveVMConsistent, ThunkCallConsistent, HostConsistent,
     WithinBodyConsistent, CallsConsistent, AfterCallConsistent, Zenon DEF Next

\* In every execution the native stack is a thunk, implementations each at a
\* call its successor was made by, and possibly one host function; a state is
\* left to be tested exactly where the call that left it was made.
THEOREM ExecutionsConsistent == Spec => []IInv
<1>1. Init => IInv
  BY EmptySeq DEF Init, IInv
<1> QED
  BY <1>1, StepConsistent, PTL DEF Spec

\* Every execution has the native frames generated code can have, in order,
\* each script frame at an instruction of its body.
THEOREM TypeCorrect == Spec => []TypeOK
<1>1. IInv => TypeOK
  <2> SUFFICES ASSUME IInv PROVE TypeOK
    OBVIOUS
  <2>1. executions \in Seq(Execution)
    BY SeqMonotonic DEF IInv, ConsistentExecution
  <2>2. ASSUME NEW i \in DOMAIN executions PROVE FramesInOrder(executions[i])
    <3>1. executions[i] \in ConsistentExecution
      BY ElementOfSeq, LenProperties DEF IInv
    <3> QED
      BY <3>1, ConsistentExecutions DEF Consistent
  <2> QED
    BY <2>1, <2>2 DEF TypeOK, IInv
<1> QED
  BY <1>1, ExecutionsConsistent, PTL

-----------------------------------------------------------------------------
(* What a script sees of an execution: the calls of its implementations, the  *)
(* innermost at the instruction `last`.                                       *)

CallsSeen(e, k, last) ==
  [i \in 1 .. k |-> [fn |-> e.native[i + 1].fn,
                     pc |-> IF i = k THEN last ELSE e.native[i + 1].pc]]

Calls == [fn : Function, pc : Nat]

LEMMA CallsSeenFacts ==
  ASSUME NEW e \in ConsistentExecution, NEW k \in Nat, k < Len(e.native),
         \A i \in 2 .. k + 1 : e.native[i].kind = "script",
         NEW last \in Nat
  PROVE  LET c == CallsSeen(e, k, last)
         IN  /\ c \in Seq(Calls) /\ Len(c) = k /\ DOMAIN c = 1 .. k
             /\ c = <<>> <=> k = 0
             /\ \A i \in 1 .. k : /\ c[i] \in Calls /\ c[i].fn = e.native[i + 1].fn
                                  /\ c[i].pc = IF i = k THEN last ELSE e.native[i + 1].pc
<1> DEFINE c == CallsSeen(e, k, last)
<1>1. /\ e \in Execution /\ Len(e.native) \in Nat
      /\ \A i \in 1 .. Len(e.native) : e.native[i] \in Frames
  BY ConsistentExecutions, StackFacts
<1>2. ASSUME NEW i \in 1 .. k
      PROVE  e.native[i + 1].fn \in Function /\ e.native[i + 1].pc \in Nat
  <2>1. i + 1 \in 2 .. k + 1 /\ i + 1 \in 1 .. Len(e.native)
    BY <1>1
  <2>2. e.native[i + 1] \in Frames /\ e.native[i + 1].kind = "script"
    BY <1>1, <2>1
  <2>3. e.native[i + 1].fn \in Function /\ e.native[i + 1].pc \in DOMAIN Body[e.native[i + 1].fn]
    BY <2>2, FrameShape
  <2>4. DOMAIN Body[e.native[i + 1].fn] \subseteq Nat
    BY <2>3, BodyFacts
  <2> QED
    BY <2>3, <2>4
<1>3. ASSUME NEW i \in 1 .. k
      PROVE  [fn |-> e.native[i + 1].fn, pc |-> IF i = k THEN last ELSE e.native[i + 1].pc] \in Calls
  BY <1>2 DEF Calls
<1>4. c \in [1 .. k -> Calls]
  BY <1>3 DEF CallsSeen
<1>5. c \in Seq(Calls) /\ Len(c) = k /\ DOMAIN c = 1 .. k
  BY <1>4, SequenceMade
<1>6. c = <<>> <=> k = 0
  BY <1>5, EmptySeq
<1>7. \A i \in 1 .. k : c[i] = [fn |-> e.native[i + 1].fn, pc |-> IF i = k THEN last ELSE e.native[i + 1].pc]
  BY DEF CallsSeen
<1> QED
  BY <1>4, <1>5, <1>6, <1>7

\* The calls depend on what the frames run and on where the callers are.
LEMMA SameCalls ==
  ASSUME NEW e, NEW p, NEW k \in Nat, NEW last,
         \A i \in 2 .. k : p.native[i] = e.native[i],
         k > 0 => p.native[k + 1].fn = e.native[k + 1].fn
  PROVE  CallsSeen(p, k, last) = CallsSeen(e, k, last)
<1>1. ASSUME NEW i \in 1 .. k
      PROVE  [fn |-> p.native[i + 1].fn, pc |-> IF i = k THEN last ELSE p.native[i + 1].pc]
             = [fn |-> e.native[i + 1].fn, pc |-> IF i = k THEN last ELSE e.native[i + 1].pc]
  <2>1. CASE i = k
    BY <2>1
  <2>2. CASE i # k
    <3>1. i + 1 \in 2 .. k
      BY <2>2
    <3> QED
      BY <2>2, <3>1
  <2> QED
    BY <2>1, <2>2
<1> QED
  BY <1>1 DEF CallsSeen

\* A move of the innermost call.
LEMMA CallMoved ==
  ASSUME NEW e \in ConsistentExecution, NEW k \in Nat \ {0}, k < Len(e.native),
         \A i \in 2 .. k + 1 : e.native[i].kind = "script",
         NEW last \in Nat, NEW pc \in Nat
  PROVE  [CallsSeen(e, k, last) EXCEPT ![k].pc = pc] = CallsSeen(e, k, pc)
<1> DEFINE c == CallsSeen(e, k, last)
           call(i, l) == [fn |-> e.native[i + 1].fn, pc |-> IF i = k THEN l ELSE e.native[i + 1].pc]
<1>1. c = [i \in 1 .. k |-> call(i, last)] /\ CallsSeen(e, k, pc) = [i \in 1 .. k |-> call(i, pc)]
  BY DEF CallsSeen
<1>2. [c EXCEPT ![k].pc = pc] = [i \in 1 .. k |-> IF i = k THEN [call(k, last) EXCEPT !.pc = pc] ELSE call(i, last)]
  BY <1>1
<1>3. [call(k, last) EXCEPT !.pc = pc] = call(k, pc)
  OBVIOUS
<1>4. \A i \in 1 .. k : i # k => call(i, last) = call(i, pc)
  OBVIOUS
<1> HIDE DEF call
<1>5. [i \in 1 .. k |-> IF i = k THEN call(k, pc) ELSE call(i, last)] = [i \in 1 .. k |-> call(i, pc)]
  BY <1>4
<1> QED
  BY <1>1, <1>2, <1>3, <1>5

\* A call of another implementation, whose frame is pushed.
LEMMA CallAdded ==
  ASSUME NEW e \in ConsistentExecution, NEW p, NEW f \in Function, NEW k \in Nat,
         k < Len(e.native), \A i \in 2 .. k + 1 : e.native[i].kind = "script",
         \A i \in 2 .. k + 1 : p.native[i] = e.native[i],
         p.native[k + 2].fn = f
  PROVE  Append(CallsSeen(e, k, e.native[k + 1].pc), [fn |-> f, pc |-> 1]) = CallsSeen(p, k + 1, 1)
<1> DEFINE c == CallsSeen(e, k, e.native[k + 1].pc)
           d == CallsSeen(p, k + 1, 1)
<1>1. CASE k = 0
  <2>1. c = <<>>
    BY <1>1 DEF CallsSeen
  <2>2. d = [i \in 1 .. 1 |-> [fn |-> f, pc |-> 1]]
    BY <1>1 DEF CallsSeen
  <2> QED
    BY <2>1, <2>2
<1>2. CASE k # 0
  <2>1. e.native[k + 1].pc \in Nat
    <3>1. /\ k + 1 \in 1 .. Len(e.native) /\ k + 1 \in 2 .. k + 1
          /\ \A i \in 1 .. Len(e.native) : e.native[i] \in Frames
      BY <1>2, ConsistentExecutions, StackFacts
    <3>2. e.native[k + 1].fn \in Function /\ e.native[k + 1].pc \in DOMAIN Body[e.native[k + 1].fn]
      BY <3>1, FrameShape
    <3> QED
      BY <3>2, BodyFacts
  <2>2. /\ c \in Seq(Calls) /\ Len(c) = k
        /\ \A i \in 1 .. k : c[i] = [fn |-> e.native[i + 1].fn, pc |-> e.native[i + 1].pc]
    <3>1. c \in Seq(Calls) /\ Len(c) = k
      BY <2>1, CallsSeenFacts
    <3> QED
      BY <3>1 DEF CallsSeen
  <2>3. [fn |-> f, pc |-> 1] \in Calls
    BY DEF Calls
  <2>4. /\ Append(c, [fn |-> f, pc |-> 1]) \in Seq(Calls)
        /\ Len(Append(c, [fn |-> f, pc |-> 1])) = k + 1
        /\ \A i \in 1 .. k : Append(c, [fn |-> f, pc |-> 1])[i] = c[i]
        /\ Append(c, [fn |-> f, pc |-> 1])[k + 1] = [fn |-> f, pc |-> 1]
    BY <2>2, <2>3, AppendProperties
  <2>5. \A i \in 1 .. k + 1 : d[i] = Append(c, [fn |-> f, pc |-> 1])[i]
    <3>1. d[k + 1] = [fn |-> f, pc |-> 1]
      BY DEF CallsSeen
    <3>2. ASSUME NEW i \in 1 .. k
          PROVE  d[i] = [fn |-> e.native[i + 1].fn, pc |-> e.native[i + 1].pc]
      <4>1. i + 1 \in 2 .. k + 1 /\ i # k + 1 /\ i \in 1 .. k + 1
        OBVIOUS
      <4> QED
        BY <4>1 DEF CallsSeen
    <3>3. ASSUME NEW i \in 1 .. k PROVE d[i] = Append(c, [fn |-> f, pc |-> 1])[i]
      BY <2>2, <2>4, <3>2
    <3>4. d[k + 1] = Append(c, [fn |-> f, pc |-> 1])[k + 1]
      BY <2>4, <3>1
    <3>5. \A i \in 1 .. k + 1 : i \in 1 .. k \/ i = k + 1
      OBVIOUS
    <3> HIDE DEF c, d
    <3> QED
      BY <3>3, <3>4, <3>5
  <2>6. d \in [1 .. k + 1 -> Calls]
    <3>1. \A i \in 1 .. k + 1 : d[i] \in Calls
      BY <2>4, <2>5, ElementOfSeq
    <3> QED
      BY <3>1 DEF CallsSeen
  <2>7. d \in Seq(Calls) /\ Len(d) = k + 1
    BY <2>6, SequenceMade
  <2> QED
    BY <2>4, <2>5, <2>7, SeqEqual
<1> QED
  BY <1>1, <1>2

\* A return to the caller, or to the thunk when there is none.
LEMMA CallRemoved ==
  ASSUME NEW e \in ConsistentExecution, NEW k \in Nat \ {0}, k < Len(e.native),
         \A i \in 2 .. k + 1 : e.native[i].kind = "script", NEW last \in Nat
  PROVE  SubSeq(CallsSeen(e, k, last), 1, k - 1)
         = IF k = 1 THEN <<>> ELSE CallsSeen(e, k - 1, e.native[k].pc)
<1> DEFINE c == CallsSeen(e, k, last)
<1>1. c \in Seq(Calls) /\ Len(c) = k
  <2>1. k \in Nat
    OBVIOUS
  <2> QED
    BY <2>1, CallsSeenFacts
<1>2. CASE k = 1
  BY <1>2, SubSeqEmpty
<1>3. CASE k # 1
  <2> DEFINE d == CallsSeen(e, k - 1, e.native[k].pc)
  <2>1. e.native[k].pc \in Nat
    <3>1. /\ k \in 1 .. Len(e.native) /\ k \in 2 .. k + 1
          /\ \A i \in 1 .. Len(e.native) : e.native[i] \in Frames
      BY <1>3, ConsistentExecutions, StackFacts
    <3>2. e.native[k].fn \in Function /\ e.native[k].pc \in DOMAIN Body[e.native[k].fn]
      BY <3>1, FrameShape
    <3> QED
      BY <3>2, BodyFacts
  <2>2. d \in Seq(Calls) /\ Len(d) = k - 1
    <3>1. k - 1 \in Nat /\ k - 1 < Len(e.native) /\ \A i \in 2 .. (k - 1) + 1 : e.native[i].kind = "script"
      BY ConsistentExecutions, StackFacts
    <3> QED
      BY <2>1, <3>1, CallsSeenFacts
  <2>3. ASSUME NEW i \in 1 .. k - 1 PROVE c[i] = d[i]
    BY DEF CallsSeen
  <2>4. \A i \in 1 .. k - 1 : c[i] \in Calls
    BY <1>1, ElementOfSeq
  <2>5. /\ SubSeq(c, 1, k - 1) \in Seq(Calls)
        /\ Len(SubSeq(c, 1, k - 1)) = IF 1 <= k - 1 THEN (k - 1) - 1 + 1 ELSE 0
        /\ \A i \in 1 .. (k - 1) - 1 + 1 : SubSeq(c, 1, k - 1)[i] = c[1 + i - 1]
    BY <2>4, SubSeqProperties
  <2>6. Len(SubSeq(c, 1, k - 1)) = k - 1 /\ \A i \in 1 .. k - 1 : SubSeq(c, 1, k - 1)[i] = d[i]
    BY <1>3, <2>3, <2>5
  <2> QED
    BY <1>3, <2>2, <2>5, <2>6, SeqEqual
<1> QED
  BY <1>2, <1>3

-----------------------------------------------------------------------------
(* What a script sees where native code is.                                  *)

LEMMA SeenInScript ==
  ASSUME NEW e \in ConsistentExecution, e.native # <<>>, Last(e.native).kind = "script", ~ Doomed(e)
  PROVE  LET n == Len(e.native)
         IN  /\ n - 1 \in Nat \ {0} /\ n - 1 < n
             /\ \A i \in 2 .. (n - 1) + 1 : e.native[i].kind = "script"
             /\ MachineOf(e) = [calls |-> CallsSeen(e, n - 1, IF e.state = "nothing" THEN e.native[n].pc
                                                              ELSE e.native[n].pc + 1),
                                host |-> None, status |-> e.status]
<1> DEFINE n == Len(e.native)
<1>1. /\ n \in Nat \ {0} /\ Last(e.native) = e.native[n]
      /\ e.native[n].kind = "thunk" <=> n = 1
      /\ \A i \in 2 .. n - 1 : e.native[i].kind = "script"
  BY StackOrder
<1>2. n > 1
  <2>1. n # 1
    BY <1>1
  <2> QED
    BY <1>1, <2>1, AboveOne
<1>3. \A i \in 2 .. (n - 1) + 1 : e.native[i].kind = "script"
  <2>1. \A i \in 2 .. (n - 1) + 1 : i \in 2 .. n - 1 \/ i = n
    BY <1>1
  <2> QED
    BY <1>1, <2>1
<1>4. ~ InHost(e)
  BY DEF InHost
<1>5. Scripts(e) = n - 1
  BY <1>1, <1>4 DEF Scripts
<1>6. ~ NotCalled(e)
  BY <1>1, <1>2, <1>5 DEF NotCalled
<1>7. CallsOf(e) = CallsSeen(e, n - 1, IF e.state = "nothing" THEN e.native[n].pc ELSE e.native[n].pc + 1)
  <2>1. CallsOf(e) = [i \in 1 .. n - 1 |->
           [fn |-> e.native[i + 1].fn,
            pc |-> IF i = n - 1 /\ e.state # "nothing" THEN e.native[i + 1].pc + 1
                   ELSE e.native[i + 1].pc]]
    BY <1>5, <1>6, Zenon DEF CallsOf
  <2>2. \A i \in 1 .. n - 1 : i = n - 1 => i + 1 = n
    BY <1>1
  <2>3. ASSUME NEW i \in 1 .. n - 1
        PROVE  (IF i = n - 1 /\ e.state # "nothing" THEN e.native[i + 1].pc + 1 ELSE e.native[i + 1].pc)
               = IF i = n - 1 THEN (IF e.state = "nothing" THEN e.native[n].pc ELSE e.native[n].pc + 1)
                 ELSE e.native[i + 1].pc
    <3>1. CASE i = n - 1
      <4>1. i + 1 = n
        BY <2>2, <3>1
      <4> QED
        BY <3>1, <4>1, Zenon
    <3>2. CASE i # n - 1
      BY <3>2, Zenon
    <3> QED
      BY <3>1, <3>2
  <2> QED
    BY <2>1, <2>3, Zenon DEF CallsSeen
<1>8. MachineOf(e) = [calls |-> CallsOf(e), host |-> None, status |-> e.status]
  BY <1>4 DEF MachineOf
<1> QED
  BY <1>1, <1>2, <1>3, <1>7, <1>8

LEMMA SeenInHost ==
  ASSUME NEW e \in ConsistentExecution, e.native # <<>>, Last(e.native).kind = "host"
  PROVE  LET n == Len(e.native)
         IN  /\ n - 2 \in Nat \ {0} /\ n - 2 < n
             /\ \A i \in 2 .. (n - 2) + 1 : e.native[i].kind = "script"
             /\ MachineOf(e) = [calls |-> CallsSeen(e, n - 2, e.native[n - 1].pc),
                                host |-> e.native[n].fn, status |-> e.status]
<1> DEFINE n == Len(e.native)
<1>1. /\ n \in Nat \ {0} /\ Last(e.native) = e.native[n] /\ n > 2 /\ e.state = "nothing"
      /\ \A i \in 2 .. n - 1 : e.native[i].kind = "script"
  BY StackOrder
<1>2. n - 2 \in Nat \ {0} /\ n - 2 < n /\ (n - 2) + 1 = n - 1 /\ (n - 1) - 1 = n - 2
  BY <1>1
<1>3. InHost(e) /\ ~ Doomed(e)
  BY <1>1 DEF InHost, Doomed, Exceptions
<1>4. Scripts(e) = n - 2
  BY <1>1, <1>3 DEF Scripts
<1>5. ~ NotCalled(e)
  BY <1>1, <1>2, <1>4 DEF NotCalled
<1>6. CallsOf(e) = [i \in 1 .. n - 2 |-> [fn |-> e.native[i + 1].fn, pc |-> e.native[i + 1].pc]]
  <2>1. CallsOf(e) = [i \in 1 .. n - 2 |->
           [fn |-> e.native[i + 1].fn,
            pc |-> IF i = n - 2 /\ e.state # "nothing" THEN e.native[i + 1].pc + 1
                   ELSE e.native[i + 1].pc]]
    BY <1>3, <1>4, <1>5, Zenon DEF CallsOf
  <2> QED
    BY <1>1, <2>1
<1>7. \A i \in 1 .. n - 2 : i = n - 2 => i + 1 = n - 1
  BY <1>1
<1>8. CallsOf(e) = CallsSeen(e, n - 2, e.native[n - 1].pc)
  <2>1. ASSUME NEW i \in 1 .. n - 2
        PROVE  e.native[i + 1].pc = IF i = n - 2 THEN e.native[n - 1].pc ELSE e.native[i + 1].pc
    BY <1>7, Zenon
  <2> QED
    BY <1>6, <2>1, Zenon DEF CallsSeen
<1>9. MachineOf(e) = [calls |-> CallsOf(e), host |-> e.native[n].fn, status |-> e.status]
  BY <1>1, <1>3 DEF MachineOf
<1> QED
  BY <1>1, <1>2, <1>8, <1>9

\* Before its first instruction, and after its last one, an execution is in
\* its thunk or in the virtual machine.
LEMMA SeenInThunk ==
  ASSUME NEW e \in ConsistentExecution, e.native # <<>>, Last(e.native).kind = "thunk"
  PROVE  /\ e.state = "nothing" =>
              MachineOf(e) = [calls |-> <<[fn |-> e.fn, pc |-> 1]>>, host |-> None, status |-> "active"]
         /\ e.state = "Ok" => MachineOf(e) = [calls |-> <<>>, host |-> None, status |-> e.status]
<1>1. Len(e.native) = 1 /\ e \in Execution /\ Consistent(e)
  BY StackOrder, ConsistentExecutions
<1>2. ~ InHost(e) /\ Scripts(e) = 0
  BY <1>1 DEF InHost, Scripts
<1>3. ASSUME e.state = "nothing"
      PROVE  MachineOf(e) = [calls |-> <<[fn |-> e.fn, pc |-> 1]>>, host |-> None, status |-> "active"]
  <2>1. ~ Doomed(e) /\ NotCalled(e)
    BY <1>2, <1>3 DEF Doomed, Exceptions, NotCalled
  <2>2. e.status = "active"
    BY <1>1, <1>3 DEF Consistent, StateConsistent
  <2> QED
    BY <1>2, <2>1, <2>2 DEF MachineOf, CallsOf
<1>4. ASSUME e.state = "Ok"
      PROVE  MachineOf(e) = [calls |-> <<>>, host |-> None, status |-> e.status]
  <2>1. ~ Doomed(e) /\ ~ NotCalled(e)
    BY <1>1, <1>2, <1>4 DEF Doomed, Exceptions, NotCalled
  <2>2. CallsOf(e) = <<>>
    BY <1>2, <2>1 DEF CallsOf
  <2> QED
    BY <1>2, <2>1, <2>2 DEF MachineOf
<1> QED
  BY <1>3, <1>4

LEMMA SeenOutside ==
  ASSUME NEW e \in ConsistentExecution, e.native = <<>>
  PROVE  /\ e.program = "entry" =>
              /\ e.status = "active"
              /\ MachineOf(e) = [calls |-> <<[fn |-> e.fn, pc |-> 1]>>, host |-> None, status |-> "active"]
         /\ e.program = "ret" => MachineOf(e) = [calls |-> <<>>, host |-> None, status |-> e.status]
<1>1. Len(e.native) = 0 /\ e \in Execution /\ Consistent(e)
  BY ConsistentExecutions, StackFacts
<1>2. e.state = "nothing" /\ (e.program = "entry" => e.status = "active")
  BY <1>1 DEF Consistent, OutsideConsistent
<1>3. ~ InHost(e) /\ ~ Doomed(e) /\ Scripts(e) = 0 - 1
  BY <1>1, <1>2 DEF InHost, Doomed, Exceptions, Scripts
<1>4. ASSUME e.program = "entry"
      PROVE  MachineOf(e) = [calls |-> <<[fn |-> e.fn, pc |-> 1]>>, host |-> None, status |-> "active"]
  <2>1. NotCalled(e)
    BY <1>2, <1>4 DEF NotCalled
  <2> QED
    BY <1>2, <1>3, <1>4, <2>1 DEF MachineOf, CallsOf
<1>5. ASSUME e.program = "ret"
      PROVE  MachineOf(e) = [calls |-> <<>>, host |-> None, status |-> e.status]
  <2>1. ~ NotCalled(e)
    BY <1>3, <1>5 DEF NotCalled
  <2>2. CallsOf(e) = <<>>
    BY <1>3, <2>1 DEF CallsOf
  <2> QED
    BY <1>3, <2>2 DEF MachineOf
<1> QED
  BY <1>2, <1>4, <1>5

\* An exception that native code has still to carry out of its frames.
LEMMA SeenDoomed ==
  ASSUME NEW e \in ConsistentExecution, Doomed(e)
  PROVE  MachineOf(e) = [calls |-> <<>>, host |-> None, status |-> "exception"]
<1>1. Consistent(e) /\ e.state # "nothing"
  BY ConsistentExecutions DEF Doomed, Exceptions
<1>2. ~ InHost(e)
  BY <1>1 DEF InHost, Consistent, StateConsistent
<1> QED
  BY <1>2 DEF MachineOf, CallsOf

-----------------------------------------------------------------------------
(* What a script sees of what the helpers make of an execution.              *)

\* A caller that goes on is at the instruction it goes to.
LEMMA SeenMoved ==
  ASSUME NEW e \in ConsistentExecution, e.native # <<>>, Last(e.native).kind = "script",
         NEW pc \in DOMAIN Body[Last(e.native).fn]
  PROVE  LET n == Len(e.native)
         IN  MachineOf(GoTo(e, pc)) = [calls |-> CallsSeen(e, n - 1, pc), host |-> None, status |-> e.status]
<1> DEFINE n == Len(e.native)
           p == GoTo(e, pc)
<1>1. e \in Execution /\ p \in ConsistentExecution
  BY ConsistentExecutions, MovedOn
<1>2. n \in Nat \ {0} /\ Last(e.native) = e.native[n]
  BY StackOrder
<1>3. /\ p.status = e.status /\ p.state = "nothing" /\ p.native # <<>> /\ Len(p.native) = n
      /\ \A i \in 1 .. n - 1 : p.native[i] = e.native[i]
      /\ p.native[n] = [kind |-> "script", fn |-> e.native[n].fn, pc |-> pc]
  BY <1>1, Moved
<1>4. p.native[n].kind = "script" /\ p.native[n].fn = e.native[n].fn /\ p.native[n].pc = pc
  BY <1>3
<1>5. Last(p.native) = p.native[n]
  BY <1>1, <1>3, StackOrder
<1>6. ~ Doomed(p)
  BY <1>3 DEF Doomed, Exceptions
<1>7. /\ n - 1 \in Nat \ {0}
      /\ MachineOf(p) = [calls |-> CallsSeen(p, n - 1, pc), host |-> None, status |-> e.status]
  <2> HIDE DEF p
  <2>1. /\ Len(p.native) - 1 \in Nat \ {0}
        /\ MachineOf(p) = [calls |-> CallsSeen(p, Len(p.native) - 1,
                                               IF p.state = "nothing" THEN p.native[Len(p.native)].pc
                                               ELSE p.native[Len(p.native)].pc + 1),
                           host |-> None, status |-> p.status]
    BY <1>1, <1>3, <1>4, <1>5, <1>6, SeenInScript
  <2> QED
    BY <1>3, <1>4, <2>1
<1>8. CallsSeen(p, n - 1, pc) = CallsSeen(e, n - 1, pc)
  <2>1. PICK k \in Nat \ {0} : k = n - 1
    BY <1>7
  <2>2. (\A i \in 2 .. k : p.native[i] = e.native[i]) /\ p.native[k + 1].fn = e.native[k + 1].fn
    <3>1. k + 1 = n
      BY <1>2, <2>1
    <3> QED
      BY <1>3, <1>4, <2>1, <3>1
  <2>3. CallsSeen(p, k, pc) = CallsSeen(e, k, pc)
    <3> HIDE DEF p
    <3> QED
      BY <2>2, SameCalls
  <2> QED
    BY <2>1, <2>3
<1> QED
  BY <1>7, <1>8

\* A called implementation is a call more, at its first instruction.
LEMMA SeenCalled ==
  ASSUME NEW e \in ConsistentExecution, NEW d \in Execution, NEW f \in Function,
         d.fn = e.fn, d.native = e.native, d.program = e.program, d.state = e.state,
         e.native # <<>>, e.state = "nothing",
         Last(e.native).kind = "script" /\ OpAt(Last(e.native)) \in ScriptCallOps
  PROVE  LET n == Len(e.native)
         IN  MachineOf(Push(d, ScriptFrame(f)))
             = [calls |-> Append(CallsSeen(e, n - 1, e.native[n].pc), [fn |-> f, pc |-> 1]),
                host |-> None, status |-> d.status]
<1> DEFINE n == Len(e.native)
           p == Push(d, ScriptFrame(f))
<1>1. p \in ConsistentExecution
  BY ScriptCalled
<1>2. n \in Nat \ {0} /\ Last(e.native) = e.native[n]
  BY StackOrder
<1>3. ScriptFrame(f) \in Frames /\ ScriptFrame(f) = [kind |-> "script", fn |-> f, pc |-> 1]
  BY FramesMade DEF ScriptFrame
<1>4. /\ p.status = d.status /\ p.state = "nothing" /\ p.native # <<>> /\ Len(p.native) = n + 1
      /\ \A i \in 1 .. n : p.native[i] = e.native[i]
      /\ p.native[n + 1] = ScriptFrame(f) /\ Last(p.native) = ScriptFrame(f)
  BY <1>3, Pushed
<1>5. p.native[n + 1].kind = "script" /\ p.native[n + 1].fn = f /\ p.native[n + 1].pc = 1
  BY <1>3, <1>4
<1>6. ~ Doomed(p) /\ Last(p.native).kind = "script"
  BY <1>3, <1>4 DEF Doomed, Exceptions
<1>7. MachineOf(p) = [calls |-> CallsSeen(p, n, 1), host |-> None, status |-> d.status]
  <2> HIDE DEF p
  <2>1. MachineOf(p) = [calls |-> CallsSeen(p, Len(p.native) - 1,
                                           IF p.state = "nothing" THEN p.native[Len(p.native)].pc
                                           ELSE p.native[Len(p.native)].pc + 1),
                        host |-> None, status |-> p.status]
    BY <1>1, <1>4, <1>6, SeenInScript
  <2>2. Len(p.native) - 1 = n
    BY <1>2, <1>4
  <2> QED
    BY <1>4, <1>5, <2>1, <2>2
<1>8. n - 1 \in Nat \ {0} /\ n - 1 < n /\ \A i \in 2 .. (n - 1) + 1 : e.native[i].kind = "script"
  <2>1. ~ Doomed(e)
    BY DEF Doomed, Exceptions
  <2> QED
    BY <2>1, SeenInScript
<1>9. CallsSeen(p, n, 1) = Append(CallsSeen(e, n - 1, e.native[n].pc), [fn |-> f, pc |-> 1])
  <2>1. PICK k \in Nat : k = n - 1
    BY <1>8
  <2>2. k + 1 = n /\ k + 2 = n + 1
    BY <1>2, <2>1
  <2>3. /\ k < Len(e.native) /\ \A i \in 2 .. k + 1 : e.native[i].kind = "script"
        /\ \A i \in 2 .. k + 1 : p.native[i] = e.native[i]
        /\ p.native[k + 2].fn = f
    BY <1>4, <1>5, <1>8, <2>1, <2>2
  <2>4. Append(CallsSeen(e, k, e.native[k + 1].pc), [fn |-> f, pc |-> 1]) = CallsSeen(p, k + 1, 1)
    <3> HIDE DEF p
    <3> QED
      BY <2>3, CallAdded
  <2> QED
    BY <2>1, <2>2, <2>4
<1> QED
  BY <1>7, <1>9

\* The first call of an execution is what it has been started for.
LEMMA SeenEntered ==
  ASSUME NEW e \in ConsistentExecution, NEW d \in Execution, NEW f \in Function,
         d.fn = e.fn, d.native = e.native, d.program = e.program, d.state = e.state,
         e.native # <<>>, e.state = "nothing", Last(e.native).kind = "thunk", f = e.fn
  PROVE  MachineOf(Push(d, ScriptFrame(f)))
         = [calls |-> <<[fn |-> f, pc |-> 1]>>, host |-> None, status |-> d.status]
<1> DEFINE p == Push(d, ScriptFrame(f))
<1>1. p \in ConsistentExecution
  BY ScriptCalled
<1>2. Len(e.native) = 1
  BY StackOrder
<1>3. ScriptFrame(f) \in Frames /\ ScriptFrame(f) = [kind |-> "script", fn |-> f, pc |-> 1]
  BY FramesMade DEF ScriptFrame
<1>4. /\ p.status = d.status /\ p.state = "nothing" /\ p.native # <<>> /\ Len(p.native) = 2
      /\ p.native[2] = ScriptFrame(f) /\ Last(p.native) = ScriptFrame(f)
  <2>1. /\ p.status = d.status /\ p.state = d.state /\ p.native # <<>>
        /\ Len(p.native) = Len(d.native) + 1
        /\ p.native[Len(d.native) + 1] = ScriptFrame(f) /\ Last(p.native) = ScriptFrame(f)
    BY <1>3, Pushed
  <2>2. Len(d.native) = 1 /\ Len(d.native) + 1 = 2 /\ d.state = "nothing"
    BY <1>2
  <2> HIDE DEF p
  <2> QED
    BY <2>1, <2>2
<1>5. p.native[2].fn = f /\ p.native[2].pc = 1
  BY <1>3, <1>4
<1>6. ~ Doomed(p) /\ Last(p.native).kind = "script"
  BY <1>3, <1>4 DEF Doomed, Exceptions
<1>7. MachineOf(p) = [calls |-> CallsSeen(p, 1, 1), host |-> None, status |-> d.status]
  <2> HIDE DEF p
  <2>1. MachineOf(p) = [calls |-> CallsSeen(p, Len(p.native) - 1,
                                           IF p.state = "nothing" THEN p.native[Len(p.native)].pc
                                           ELSE p.native[Len(p.native)].pc + 1),
                        host |-> None, status |-> p.status]
    BY <1>1, <1>4, <1>6, SeenInScript
  <2> QED
    BY <1>4, <1>5, <2>1
<1>8. CallsSeen(p, 1, 1) = <<[fn |-> f, pc |-> 1]>>
  BY <1>5 DEF CallsSeen
<1> QED
  BY <1>7, <1>8

\* While a host function runs the calls stay where they are.
LEMMA SeenHostFrame ==
  ASSUME NEW e \in ConsistentExecution, NEW p \in ConsistentExecution,
         NEW s \in SystemFunction \cup Behaviour,
         e.native # <<>>, p.native # <<>>, Len(p.native) = Len(e.native) + 1,
         \A i \in 1 .. Len(e.native) : p.native[i] = e.native[i],
         p.native[Len(e.native) + 1] = HostFrame(s)
  PROVE  LET n == Len(e.native)
         IN  MachineOf(p) = [calls |-> CallsSeen(e, n - 1, e.native[n].pc), host |-> s, status |-> p.status]
<1> DEFINE n == Len(e.native)
<1>1. n \in Nat \ {0}
  BY StackOrder
<1>2. HostFrame(s).kind = "host" /\ HostFrame(s).fn = s
  BY DEF HostFrame
<1>3. Last(p.native).kind = "host" /\ p.native[n].pc = e.native[n].pc
  BY <1>1, <1>2 DEF Last
<1>4. /\ n - 1 \in Nat \ {0}
      /\ MachineOf(p) = [calls |-> CallsSeen(p, n - 1, e.native[n].pc), host |-> s, status |-> p.status]
  <2>1. /\ Len(p.native) - 2 \in Nat \ {0}
        /\ MachineOf(p) = [calls |-> CallsSeen(p, Len(p.native) - 2, p.native[Len(p.native) - 1].pc),
                           host |-> p.native[Len(p.native)].fn, status |-> p.status]
    BY <1>3, SeenInHost
  <2>2. Len(p.native) - 2 = n - 1 /\ Len(p.native) - 1 = n
    BY <1>1
  <2> QED
    BY <1>2, <1>3, <2>1, <2>2
<1>5. CallsSeen(p, n - 1, e.native[n].pc) = CallsSeen(e, n - 1, e.native[n].pc)
  <2>1. PICK k \in Nat \ {0} : k = n - 1
    BY <1>4
  <2>2. (\A i \in 2 .. k : p.native[i] = e.native[i]) /\ p.native[k + 1].fn = e.native[k + 1].fn
    <3>1. k + 1 = n
      BY <1>1, <2>1
    <3> QED
      BY <1>1, <2>1, <3>1
  <2>3. CallsSeen(p, k, e.native[n].pc) = CallsSeen(e, k, e.native[n].pc)
    BY <2>2, SameCalls
  <2> QED
    BY <2>1, <2>3
<1> QED
  BY <1>4, <1>5

\* What has returned is a call less, and unless its exception goes on the caller
\* is where it will go on.
LEMMA SeenReturned ==
  ASSUME NEW e \in ConsistentExecution, e.native # <<>>, NEW state \in {"Ok", "host"},
         Last(e.native).kind = IF state = "host" THEN "host" ELSE "script",
         ~ Doomed(Returned(e, state))
  PROVE  LET n == Len(e.native)
         IN  MachineOf(Returned(e, state)) =
               [calls |-> IF n = 2 THEN <<>> ELSE CallsSeen(e, n - 2, e.native[n - 1].pc + 1),
                host |-> None, status |-> e.status]
<1> DEFINE n == Len(e.native)
           p == Returned(e, state)
<1>1. p \in ConsistentExecution /\ e \in Execution
  BY CallReturned, ConsistentExecutions
<1>2. /\ n \in Nat \ {0} /\ Last(e.native) = e.native[n]
      /\ e.native[n].kind = "thunk" <=> n = 1
  BY StackOrder
<1>3. n > 1 /\ n - 1 \in Nat \ {0}
  <2>1. n # 1
    BY <1>2
  <2>2. n > 1
    BY <1>2, <2>1, AboveOne
  <2> QED
    BY <1>2, <2>2
<1>4. /\ p.status = e.status /\ p.state = state /\ Len(p.native) = n - 1
      /\ \A i \in 1 .. n - 1 : p.native[i] = e.native[i]
  BY <1>1, Popped
<1>5. /\ p.native # <<>> /\ Last(p.native) = e.native[n - 1] /\ p.native[n - 1] = e.native[n - 1]
  <2>1. p.native # <<>>
    BY <1>1, <1>3, <1>4, ConsistentExecutions, StackFacts
  <2> QED
    BY <1>3, <1>4, <2>1 DEF Last
<1>6. /\ e.native[n - 1].kind = "thunk" <=> n = 2
      /\ e.native[n - 1].kind \in {"thunk", "script"}
  BY <1>3, StackOrder
<1>7. CASE n = 2
  <2>1. state = "Ok"
    <3>1. state = "host" => n > 2
      BY <1>2, StackOrder
    <3> QED
      BY <1>7, <3>1
  <2>2. MachineOf(p) = [calls |-> <<>>, host |-> None, status |-> p.status]
    <3> HIDE DEF p
    <3> QED
      BY <1>1, <1>4, <1>5, <1>6, <1>7, <2>1, SeenInThunk
  <2> QED
    BY <1>4, <1>7, <2>2
<1>8. CASE n # 2
  <2>1. Last(p.native).kind = "script"
    BY <1>5, <1>6, <1>8
  <2>2. /\ (n - 1) - 1 \in Nat \ {0}
        /\ MachineOf(p) = [calls |-> CallsSeen(p, (n - 1) - 1, e.native[n - 1].pc + 1),
                           host |-> None, status |-> e.status]
    <3> HIDE DEF p
    <3>1. /\ Len(p.native) - 1 \in Nat \ {0}
          /\ MachineOf(p) = [calls |-> CallsSeen(p, Len(p.native) - 1,
                                                 IF p.state = "nothing" THEN p.native[Len(p.native)].pc
                                                 ELSE p.native[Len(p.native)].pc + 1),
                             host |-> None, status |-> p.status]
      BY <1>1, <1>5, <2>1, SeenInScript DEF p
    <3> QED
      BY <1>4, <1>5, <3>1
  <2>3. PICK k \in Nat \ {0} : k = (n - 1) - 1
    BY <2>2
  <2>4. k = n - 2 /\ k + 1 = n - 1
    BY <1>2, <2>3
  <2>5. (\A i \in 2 .. k : p.native[i] = e.native[i]) /\ p.native[k + 1].fn = e.native[k + 1].fn
    BY <1>2, <1>4, <1>5, <2>4
  <2>6. CallsSeen(p, k, e.native[n - 1].pc + 1) = CallsSeen(e, k, e.native[n - 1].pc + 1)
    <3> HIDE DEF p
    <3> QED
      BY <2>5, SameCalls
  <2> QED
    BY <1>8, <2>2, <2>3, <2>4, <2>6
<1> QED
  BY <1>7, <1>8

-----------------------------------------------------------------------------
(* The executions of the machine are those of the code, one for one.         *)

Mapped == [i \in DOMAIN executions |-> MachineOf(executions[i])]

LEMMA MappedFacts ==
  ASSUME IInv
  PROVE  /\ Len(Mapped) = Len(executions) /\ DOMAIN Mapped = 1 .. Len(executions)
         /\ Mapped = <<>> <=> executions = <<>>
         /\ \A i \in 1 .. Len(executions) : Mapped[i] = MachineOf(executions[i])
         /\ executions # <<>> => Machine!Top = MachineOf(Top)
<1> DEFINE S == {MachineOf(executions[i]) : i \in DOMAIN executions}
<1>1. /\ executions \in Seq(ConsistentExecution) /\ Len(executions) \in Nat
      /\ DOMAIN executions = 1 .. Len(executions)
      /\ executions = <<>> <=> Len(executions) = 0
  BY LenProperties, EmptySeq DEF IInv
<1>2. Mapped \in [1 .. Len(executions) -> S]
  BY <1>1 DEF Mapped
<1>3. Mapped \in Seq(S) /\ Len(Mapped) = Len(executions) /\ DOMAIN Mapped = 1 .. Len(executions)
  <2> HIDE DEF S
  <2> QED
    BY <1>1, <1>2, SequenceMade
<1>4. Mapped = <<>> <=> executions = <<>>
  <2> HIDE DEF S
  <2> QED
    BY <1>1, <1>3, EmptySeq
<1>5. \A i \in 1 .. Len(executions) : Mapped[i] = MachineOf(executions[i])
  BY <1>1 DEF Mapped
<1>6. ASSUME executions # <<>> PROVE Machine!Top = MachineOf(Top)
  <2>1. Len(executions) \in 1 .. Len(executions)
    BY <1>1, <1>6
  <2>2. Machine!Top = Mapped[Len(Mapped)]
    BY DEF Machine!Top, Mapped
  <2> QED
    BY <1>3, <1>5, <2>1, <2>2 DEF Top
<1> QED
  BY <1>3, <1>4, <1>5, <1>6

LEMMA MappedReplaced ==
  ASSUME IInv, executions # <<>>, NEW e \in ConsistentExecution, Becomes(e)
  PROVE  /\ Machine!Becomes(MachineOf(e))
         /\ MachineOf(e) = MachineOf(Top) => UNCHANGED Machine!vars
         /\ UNCHANGED outcome
<1> DEFINE n == Len(executions)
<1>1. /\ executions \in Seq(ConsistentExecution) /\ n \in 1 .. n /\ n \in Nat
      /\ DOMAIN executions = 1 .. n
  BY Innermost DEF IInv
<1>2. /\ executions' = [executions EXCEPT ![n] = e] /\ UNCHANGED outcome
      /\ DOMAIN executions' = 1 .. n
      /\ \A i \in 1 .. n : executions'[i] = IF i = n THEN e ELSE executions[i]
  BY <1>1 DEF Becomes
<1>3. Mapped' = [i \in 1 .. n |-> MachineOf(IF i = n THEN e ELSE executions[i])]
  BY <1>2 DEF Mapped
<1>4. Mapped = [i \in 1 .. n |-> MachineOf(executions[i])]
  BY <1>1 DEF Mapped
<1>5. Len(Mapped) = n
  BY MappedFacts
<1>6. Mapped' = [Mapped EXCEPT ![Len(Mapped)] = MachineOf(e)]
  BY <1>3, <1>4, <1>5
<1>7. Machine!Becomes(MachineOf(e))
  BY <1>6 DEF Machine!Becomes, Mapped
<1>8. ASSUME MachineOf(e) = MachineOf(Top) PROVE UNCHANGED Machine!vars
  <2>1. Mapped[n] = MachineOf(Top)
    BY <1>1, MappedFacts DEF Top
  <2>2. Mapped' = Mapped
    BY <1>1, <1>4, <1>5, <1>6, <1>8, <2>1
  <2> QED
    BY <1>2, <2>2 DEF Machine!vars, Mapped
<1> QED
  BY <1>2, <1>7, <1>8

\* An implementation that runs an instruction is the innermost call of the
\* machine, at the same instruction.
LEMMA MachineInScript ==
  ASSUME IInv, InFrame("script")
  PROVE  LET n == Len(Top.native)
             calls == CallsSeen(Top, n - 1, Frame.pc)
         IN  /\ executions # <<>> /\ Top \in ConsistentExecution /\ Top \in Execution
             /\ Top.native # <<>> /\ Top.state = "nothing" /\ Frame.kind = "script"
             /\ n \in Nat \ {0} /\ n - 1 \in Nat \ {0} /\ n - 1 < n
             /\ Frame = Top.native[n] /\ Frame = Last(Top.native)
             /\ \A i \in 2 .. (n - 1) + 1 : Top.native[i].kind = "script"
             /\ Frame.fn \in Function /\ Frame.pc \in DOMAIN Body[Frame.fn] /\ Frame.pc \in Nat
             /\ calls \in Seq(Calls) /\ Len(calls) = n - 1 /\ calls # <<>>
             /\ MachineOf(Top) = [calls |-> calls, host |-> None, status |-> Top.status]
             /\ Machine!Top = MachineOf(Top)
             /\ Machine!Call.fn = Frame.fn /\ Machine!Call.pc = Frame.pc
             /\ Machine!Instruction = Body[Frame.fn][Frame.pc]
             /\ \A ops : Machine!Running(ops)
                          <=> Body[Frame.fn][Frame.pc].op \in ops /\ UNCHANGED outcome
<1> DEFINE n == Len(Top.native)
           calls == CallsSeen(Top, n - 1, Frame.pc)
<1>1. /\ executions # <<>> /\ Top \in ConsistentExecution /\ Top \in Execution
      /\ Top.native # <<>> /\ Top.state = "nothing" /\ Frame.kind = "script"
      /\ Frame = Last(Top.native)
  BY Innermost DEF InFrame, Frame
<1>2. n \in Nat \ {0} /\ Frame = Top.native[n]
  BY <1>1, StackOrder
<1>3. /\ Frame.fn \in Function /\ Frame.pc \in DOMAIN Body[Frame.fn] /\ Frame.pc \in Nat
  BY <1>1, AtInstruction, BodyFacts
<1>4. ~ Doomed(Top)
  BY <1>1 DEF Doomed, Exceptions
<1>5. /\ n - 1 \in Nat \ {0} /\ n - 1 < n
      /\ \A i \in 2 .. (n - 1) + 1 : Top.native[i].kind = "script"
      /\ MachineOf(Top) = [calls |-> calls, host |-> None, status |-> Top.status]
  BY <1>1, <1>2, <1>4, SeenInScript
<1>6. n - 1 \in Nat /\ n - 1 \in 1 .. n - 1 /\ (n - 1) + 1 = n
  BY <1>2, <1>5, AboveOne
<1>7. /\ calls \in Seq(Calls) /\ Len(calls) = n - 1 /\ calls # <<>>
      /\ calls[n - 1].fn = Frame.fn /\ calls[n - 1].pc = Frame.pc
  <2>1. /\ calls \in Seq(Calls) /\ Len(calls) = n - 1
        /\ calls = <<>> <=> n - 1 = 0
        /\ \A i \in 1 .. n - 1 : calls[i].fn = Top.native[i + 1].fn
                               /\ calls[i].pc = IF i = n - 1 THEN Frame.pc ELSE Top.native[i + 1].pc
    <3>1. PICK k \in Nat : k = n - 1
      BY <1>6
    <3>2. PICK last \in Nat : last = Frame.pc
      BY <1>3
    <3>3. PICK e \in ConsistentExecution : e = Top
      BY <1>1
    <3>4. k < Len(e.native) /\ \A i \in 2 .. k + 1 : e.native[i].kind = "script"
      BY <1>5, <3>1, <3>3
    <3> DEFINE c == CallsSeen(e, k, last)
    <3>5. /\ c \in Seq(Calls) /\ Len(c) = k
          /\ c = <<>> <=> k = 0
          /\ \A i \in 1 .. k : c[i].fn = e.native[i + 1].fn
                              /\ c[i].pc = IF i = k THEN last ELSE e.native[i + 1].pc
      BY <3>4, CallsSeenFacts
    <3>6. c = calls
      BY <3>1, <3>2, <3>3
    <3> HIDE DEF c, calls
    <3> QED
      BY <3>1, <3>2, <3>3, <3>5, <3>6
  <2> HIDE DEF calls
  <2> QED
    BY <1>2, <1>5, <1>6, <2>1
<1>8. Machine!Top = MachineOf(Top)
  BY <1>1, MappedFacts
<1>9. Machine!Call = calls[n - 1]
  BY <1>5, <1>7, <1>8 DEF Machine!Call
<1>10. Machine!Instruction = Body[Frame.fn][Frame.pc]
  BY <1>7, <1>9 DEF Machine!Instruction
<1>11. ASSUME NEW ops
       PROVE  Machine!Running(ops) <=> Body[Frame.fn][Frame.pc].op \in ops /\ UNCHANGED outcome
  <2>1. Mapped # <<>> /\ Machine!Top.host = None /\ Machine!Top.calls # <<>>
    BY <1>1, <1>5, <1>7, <1>8, MappedFacts
  <2> QED
    BY <1>10, <2>1, Zenon DEF Machine!Running, Mapped
<1> QED
  BY <1>1, <1>2, <1>3, <1>5, <1>7, <1>8, <1>9, <1>10, <1>11

-----------------------------------------------------------------------------
(* Every step of the code is a step of the machine or one it does not see.   *)

Simulated == Machine!Next \/ UNCHANGED Machine!vars

LEMMA MachineMoves ==
  ASSUME IInv, InFrame("script"), NEW pc \in DOMAIN Body[Frame.fn], Becomes(GoTo(Top, pc))
  PROVE  /\ Machine!Becomes([Machine!Top EXCEPT !.calls = Machine!At(@, pc)])
         /\ UNCHANGED outcome
<1> DEFINE n == Len(Top.native)
           calls == CallsSeen(Top, n - 1, Frame.pc)
<1>1. /\ executions # <<>> /\ Top \in ConsistentExecution /\ Top.native # <<>>
      /\ Frame.kind = "script" /\ Frame = Last(Top.native)
      /\ n - 1 \in Nat \ {0} /\ n - 1 < n /\ Frame.fn \in Function /\ Frame.pc \in Nat
      /\ \A i \in 2 .. (n - 1) + 1 : Top.native[i].kind = "script"
      /\ Len(calls) = n - 1
      /\ MachineOf(Top) = [calls |-> calls, host |-> None, status |-> Top.status]
      /\ Machine!Top = MachineOf(Top)
  BY MachineInScript
<1>2. pc \in Nat
  BY <1>1, BodyFacts
<1>3. GoTo(Top, pc) \in ConsistentExecution
  BY <1>1, MovedOn
<1>4. MachineOf(GoTo(Top, pc)) = [calls |-> CallsSeen(Top, n - 1, pc), host |-> None, status |-> Top.status]
  BY <1>1, SeenMoved
<1>5. [calls EXCEPT ![n - 1].pc = pc] = CallsSeen(Top, n - 1, pc)
  <2>1. PICK e \in ConsistentExecution : e = Top
    BY <1>1
  <2>2. PICK k \in Nat \ {0} : k = n - 1
    BY <1>1
  <2>3. PICK last \in Nat : last = Frame.pc
    BY <1>1
  <2>4. k < Len(e.native) /\ \A i \in 2 .. k + 1 : e.native[i].kind = "script"
    BY <1>1, <2>1, <2>2
  <2>5. [CallsSeen(e, k, last) EXCEPT ![k].pc = pc] = CallsSeen(e, k, pc)
    BY <1>2, <2>4, CallMoved
  <2> QED
    BY <2>1, <2>2, <2>3, <2>5
<1>6. Machine!At(calls, pc) = CallsSeen(Top, n - 1, pc)
  BY <1>1, <1>5 DEF Machine!At
<1>7. [Machine!Top EXCEPT !.calls = Machine!At(@, pc)] = MachineOf(GoTo(Top, pc))
  <2> HIDE DEF calls, n
  <2> QED
    BY <1>1, <1>4, <1>6
<1> QED
  BY <1>1, <1>3, <1>7, MappedReplaced

\* The steps of the machine that change two parts of an execution.
Seen(calls, host, status) == [calls |-> calls, host |-> host, status |-> status]
Thrown(r) == [r EXCEPT !.calls = <<>>, !.status = "exception"]
HostLeft(r, calls) == [r EXCEPT !.host = None, !.calls = calls]

LEMMA SeenChanged ==
  \A calls, host, status :
    /\ Thrown(Seen(calls, host, status)) = Seen(<<>>, host, "exception")
    /\ \A new : HostLeft(Seen(calls, host, status), new) = Seen(new, None, status)
<1> SUFFICES ASSUME NEW calls, NEW host, NEW status
    PROVE  /\ Thrown(Seen(calls, host, status)) = Seen(<<>>, host, "exception")
           /\ \A new : HostLeft(Seen(calls, host, status), new) = Seen(new, None, status)
  OBVIOUS
<1>1. Seen(calls, host, status) \in [calls : {calls}, host : {host}, status : {status}]
  BY DEF Seen
<1>2. \A c, h, s : \A q \in [calls : {c}, host : {h}, status : {s}] : q = Seen(c, h, s)
  BY DEF Seen
<1>3. Thrown(Seen(calls, host, status)) \in [calls : {<<>>}, host : {host}, status : {"exception"}]
  BY <1>1 DEF Thrown
<1>4. ASSUME NEW new
      PROVE  HostLeft(Seen(calls, host, status), new) = Seen(new, None, status)
  <2>1. HostLeft(Seen(calls, host, status), new) \in [calls : {new}, host : {None}, status : {status}]
    BY <1>1 DEF HostLeft
  <2> QED
    BY <1>2, <2>1, Zenon
<1>5. Thrown(Seen(calls, host, status)) = Seen(<<>>, host, "exception")
  BY <1>2, <1>3, Zenon
<1> QED
  BY <1>4, <1>5

LEMMA MachineThrows ==
  ASSUME IInv, InFrame("script"), Becomes(NullPointer(Top)),
         OpAt(Frame) \in {"check", "call", "vcall", "sys"},
         OpAt(Frame) \in {"check", "vcall"} \/ Callee \in Method
  PROVE  Machine!Throw
<1> DEFINE p == NullPointer(Top)
<1>1. /\ executions # <<>> /\ Top \in Execution /\ Top.native # <<>>
      /\ Machine!Top = MachineOf(Top)
      /\ \E calls : MachineOf(Top) = [calls |-> calls, host |-> None, status |-> Top.status]
      /\ Machine!Instruction = Body[Frame.fn][Frame.pc]
      /\ \A ops : Machine!Running(ops) <=> Body[Frame.fn][Frame.pc].op \in ops /\ UNCHANGED outcome
  BY MachineInScript
<1>2. p \in ConsistentExecution
  BY NullPointerConsistent
<1>3. Doomed(p)
  <2>1. p.state = "ExceptionNullPointer"
    BY <1>1, Popped DEF NullPointer, Exceptions
  <2> QED
    BY <2>1 DEF Doomed, Exceptions
<1>4. MachineOf(p) = [calls |-> <<>>, host |-> None, status |-> "exception"]
  BY <1>2, <1>3, SeenDoomed
<1>5. MachineOf(p) = [Machine!Top EXCEPT !.calls = <<>>, !.status = "exception"]
  <2>1. PICK calls : Machine!Top = Seen(calls, None, Top.status)
    BY <1>1 DEF Seen
  <2>2. Thrown(Machine!Top) = Seen(<<>>, None, "exception")
    BY <2>1, SeenChanged, Zenon
  <2> QED
    BY <1>4, <2>2 DEF Thrown, Seen
<1>6. Machine!Becomes([Machine!Top EXCEPT !.calls = <<>>, !.status = "exception"]) /\ UNCHANGED outcome
  BY <1>1, <1>2, <1>5, MappedReplaced
<1>7. Machine!Running({"check", "call", "vcall", "sys"})
  BY <1>1, <1>6 DEF OpAt
<1> QED
  BY <1>1, <1>6, <1>7 DEF Machine!Throw, OpAt, Callee

LEMMA MachineWithinBody ==
  ASSUME IInv, Work \/ Branch \/ CheckPointer PROVE Simulated
<1>1. /\ executions # <<>> /\ InFrame("script") /\ Top.native # <<>>
      /\ Frame.kind = "script" /\ Last(Top.native) = Frame
      /\ OpAt(Frame) \in {"work", "branch", "check"}
  BY DEF Frame, Work, Branch, CheckPointer, At, InFrame, OpAt
<1>2. /\ Frame.fn \in Function /\ Frame.pc \in DOMAIN Body[Frame.fn]
      /\ Frame.pc + 1 \in DOMAIN Body[Frame.fn]
  BY <1>1, AtInstruction
<1>3. /\ Machine!Call.pc = Frame.pc /\ Machine!Instruction = Body[Frame.fn][Frame.pc]
      /\ \A ops : Machine!Running(ops) <=> Body[Frame.fn][Frame.pc].op \in ops /\ UNCHANGED outcome
  BY <1>1, MachineInScript
<1>4. ASSUME NEW pc \in DOMAIN Body[Frame.fn], Becomes(GoTo(Top, pc)),
             \/ pc = Frame.pc + 1
             \/ OpAt(Frame) = "branch" /\ pc = Body[Frame.fn][Frame.pc].to
      PROVE  Machine!Move
  <2>1. /\ Machine!Becomes([Machine!Top EXCEPT !.calls = Machine!At(@, pc)])
        /\ UNCHANGED outcome
    BY <1>1, <1>4, MachineMoves
  <2>2. Machine!Running({"work", "check", "branch"})
    BY <1>1, <1>3, <2>1 DEF OpAt
  <2>3. pc \in {Machine!Call.pc + 1}
               \cup (IF Machine!Instruction.op = "branch" THEN {Machine!Instruction.to} ELSE {})
    BY <1>3, <1>4 DEF OpAt
  <2> QED
    BY <2>1, <2>2, <2>3, Zenon DEF Machine!Move
<1>5. Advanced(Top) = GoTo(Top, Frame.pc + 1)
  BY <1>1 DEF Advanced
<1>6. CASE Work
  BY <1>2, <1>4, <1>5, <1>6, Zenon DEF Work, Simulated, Machine!Next
<1>7. CASE Branch
  <2>1. PICK pc \in {Frame.pc + 1, Body[Frame.fn][Frame.pc].to} : Becomes(GoTo(Top, pc))
    BY <1>7 DEF Branch
  <2>2. OpAt(Frame) = "branch" /\ Body[Frame.fn][Frame.pc].to \in DOMAIN Body[Frame.fn]
    BY <1>2, <1>7, BodyFacts DEF Branch, At, OpAt
  <2>3. pc \in DOMAIN Body[Frame.fn]
    BY <1>2, <2>2
  <2>4. Machine!Move
    BY <1>4, <2>1, <2>2, <2>3, Zenon
  <2> QED
    BY <2>4, Zenon DEF Simulated, Machine!Next
<1>8. CASE CheckPointer
  <2>1. OpAt(Frame) = "check"
    BY <1>8 DEF CheckPointer, At, OpAt
  <2>2. CASE Becomes(Advanced(Top))
    BY <1>2, <1>4, <1>5, <2>2, Zenon DEF Simulated, Machine!Next
  <2>3. CASE Becomes(NullPointer(Top))
    <3>1. Machine!Throw
      BY <1>1, <2>1, <2>3, MachineThrows
    <3> QED
      BY <3>1, Zenon DEF Simulated, Machine!Next
  <2> QED
    BY <1>8, <2>2, <2>3 DEF CheckPointer
<1> QED
  BY <1>6, <1>7, <1>8

LEMMA MachineCalls ==
  ASSUME IInv, CallScript \/ CallVirtual PROVE Simulated
<1> DEFINE n == Len(Top.native)
           calls == CallsSeen(Top, n - 1, Frame.pc)
<1>1. InFrame("script") /\ OpAt(Frame) \in ScriptCallOps
  BY DEF CallScript, CallVirtual, At, OpAt, ScriptCallOps
<1>2. /\ executions # <<>> /\ Top \in ConsistentExecution /\ Top \in Execution
      /\ Top.native # <<>> /\ Top.state = "nothing" /\ Frame.kind = "script"
      /\ Frame = Top.native[n] /\ Frame = Last(Top.native)
      /\ Frame.fn \in Function /\ Frame.pc \in DOMAIN Body[Frame.fn]
      /\ MachineOf(Top) = [calls |-> calls, host |-> None, status |-> Top.status]
      /\ Machine!Top = MachineOf(Top)
      /\ Machine!Instruction = Body[Frame.fn][Frame.pc]
      /\ \A ops : Machine!Running(ops) <=> Body[Frame.fn][Frame.pc].op \in ops /\ UNCHANGED outcome
  BY <1>1, MachineInScript
<1>3. ASSUME NEW f \in Function, Becomes(Push(Top, ScriptFrame(f))),
             \/ OpAt(Frame) = "call" /\ f = Callee
             \/ OpAt(Frame) = "vcall" /\ f \in Overrides[Callee]
      PROVE  Machine!CallFunction
  <2>1. Push(Top, ScriptFrame(f)) \in ConsistentExecution
    BY <1>1, <1>2, ScriptCalled
  <2>2. MachineOf(Push(Top, ScriptFrame(f)))
        = [calls |-> Append(calls, [fn |-> f, pc |-> 1]), host |-> None, status |-> Top.status]
    <3>1. PICK e \in ConsistentExecution : e = Top
      BY <1>2
    <3>2. e \in Execution /\ Last(e.native).kind = "script" /\ OpAt(Last(e.native)) \in ScriptCallOps
      BY <1>1, <1>2, <3>1
    <3>3. MachineOf(Push(e, ScriptFrame(f)))
          = [calls |-> Append(CallsSeen(e, Len(e.native) - 1, e.native[Len(e.native)].pc), [fn |-> f, pc |-> 1]),
             host |-> None, status |-> e.status]
      BY <1>2, <3>1, <3>2, SeenCalled
    <3> QED
      BY <1>2, <3>1, <3>3
  <2>3. [Machine!Top EXCEPT !.calls = Append(@, Machine!Entered(f))] = MachineOf(Push(Top, ScriptFrame(f)))
    <3>1. [[calls |-> calls, host |-> None, status |-> Top.status]
             EXCEPT !.calls = Append(@, [fn |-> f, pc |-> 1])]
          = [calls |-> Append(calls, [fn |-> f, pc |-> 1]), host |-> None, status |-> Top.status]
      <4> HIDE DEF calls
      <4> QED
        OBVIOUS
    <3>2. Machine!Entered(f) = [fn |-> f, pc |-> 1]
      BY DEF Machine!Entered
    <3> QED
      BY <1>2, <2>2, <3>1, <3>2, Zenon
  <2>4. /\ Machine!Becomes([Machine!Top EXCEPT !.calls = Append(@, Machine!Entered(f))])
        /\ UNCHANGED outcome
    BY <1>2, <1>3, <2>1, <2>3, MappedReplaced
  <2>5. Machine!Running({"call", "vcall"})
    BY <1>1, <1>2, <2>4 DEF OpAt, ScriptCallOps
  <2>6. f \in IF Machine!Instruction.op = "call" THEN {Machine!Instruction.callee}
              ELSE Overrides[Machine!Instruction.callee]
    BY <1>2, <1>3 DEF OpAt, Callee
  <2> QED
    BY <2>4, <2>5, <2>6, Zenon DEF Machine!CallFunction
<1>4. CASE CallScript
  <2>1. OpAt(Frame) = "call" /\ Callee \in Function
    BY <1>2, <1>4, BodyFacts DEF CallScript, At, OpAt, Callee
  <2>2. CASE Becomes(Push(Top, ScriptFrame(Callee)))
    BY <1>3, <2>1, <2>2, Zenon DEF Simulated, Machine!Next
  <2>3. CASE Callee \in Method /\ Becomes(NullPointer(Top))
    <3>1. Machine!Throw
      BY <1>1, <2>1, <2>3, MachineThrows
    <3> QED
      BY <3>1, Zenon DEF Simulated, Machine!Next
  <2> QED
    BY <1>4, <2>2, <2>3 DEF CallScript
<1>5. CASE CallVirtual
  <2>1. OpAt(Frame) = "vcall" /\ Callee \in VirtualFunction
    BY <1>2, <1>5, BodyFacts DEF CallVirtual, At, OpAt, Callee
  <2>2. Overrides[Callee] \subseteq Function
    BY <2>1, BodyAssumption DEF BodyAssumption
  <2>3. CASE \E f \in Overrides[Callee] : Becomes(Push(Top, ScriptFrame(f)))
    BY <1>3, <2>1, <2>2, <2>3, Zenon DEF Simulated, Machine!Next
  <2>4. CASE Becomes(NullPointer(Top))
    <3>1. Machine!Throw
      BY <1>1, <2>1, <2>4, MachineThrows
    <3> QED
      BY <3>1, Zenon DEF Simulated, Machine!Next
  <2> QED
    BY <1>5, <2>3, <2>4 DEF CallVirtual
<1> QED
  BY <1>4, <1>5

LEMMA MachineCallsHost ==
  ASSUME IInv, CallSystem \/ CallBehaviour PROVE Simulated
<1> DEFINE n == Len(Top.native)
           calls == CallsSeen(Top, n - 1, Frame.pc)
<1>1. InFrame("script") /\ OpAt(Frame) \in HostCallOps
  BY DEF CallSystem, CallBehaviour, At, OpAt, HostCallOps
<1>2. /\ executions # <<>> /\ Top \in ConsistentExecution /\ Top \in Execution
      /\ Top.native # <<>> /\ Top.state = "nothing" /\ Frame.kind = "script"
      /\ Frame = Top.native[n] /\ Frame = Last(Top.native)
      /\ Frame.fn \in Function /\ Frame.pc \in DOMAIN Body[Frame.fn]
      /\ MachineOf(Top) = [calls |-> calls, host |-> None, status |-> Top.status]
      /\ Machine!Top = MachineOf(Top)
      /\ Machine!Instruction = Body[Frame.fn][Frame.pc]
      /\ \A ops : Machine!Running(ops) <=> Body[Frame.fn][Frame.pc].op \in ops /\ UNCHANGED outcome
  BY <1>1, MachineInScript
<1>3. ASSUME NEW d \in Execution, Callee \in SystemFunction \cup Behaviour,
             d.fn = Top.fn, d.native = Top.native, d.program = Top.program, d.state = Top.state,
             d.status = Top.status, Becomes(Push(d, HostFrame(Callee)))
      PROVE  Machine!CallHost
  <2> DEFINE p == Push(d, HostFrame(Callee))
  <2>1. p \in ConsistentExecution
    BY <1>1, <1>2, <1>3, HostCalled
  <2>2. /\ p.status = Top.status /\ p.native # <<>> /\ Len(p.native) = n + 1
        /\ \A i \in 1 .. n : p.native[i] = Top.native[i]
        /\ p.native[n + 1] = HostFrame(Callee)
    <3>1. HostFrame(Callee) \in Frames
      BY <1>3, FramesMade
    <3> QED
      BY <1>3, <3>1, Pushed
  <2>3. MachineOf(p) = [calls |-> calls, host |-> Callee, status |-> Top.status]
    <3> HIDE DEF p
    <3>1. PICK e \in ConsistentExecution : e = Top
      BY <1>2
    <3>2. /\ Len(p.native) = Len(e.native) + 1 /\ e.native # <<>>
          /\ \A i \in 1 .. Len(e.native) : p.native[i] = e.native[i]
          /\ p.native[Len(e.native) + 1] = HostFrame(Callee)
      BY <1>2, <2>2, <3>1
    <3>3. MachineOf(p) = [calls |-> CallsSeen(e, Len(e.native) - 1, e.native[Len(e.native)].pc),
                          host |-> Callee, status |-> p.status]
      BY <1>3, <2>1, <2>2, <3>2, SeenHostFrame
    <3> QED
      BY <1>2, <2>2, <3>1, <3>3
  <2>4. [Machine!Top EXCEPT !.host = Machine!Instruction.callee] = MachineOf(p)
    <3>1. [[calls |-> calls, host |-> None, status |-> Top.status] EXCEPT !.host = Callee]
          = [calls |-> calls, host |-> Callee, status |-> Top.status]
      <4> HIDE DEF calls
      <4> QED
        OBVIOUS
    <3>2. Machine!Instruction.callee = Callee
      BY <1>2 DEF Callee
    <3> QED
      BY <1>2, <2>3, <3>1, <3>2, Zenon
  <2>5. Machine!Becomes([Machine!Top EXCEPT !.host = Machine!Instruction.callee]) /\ UNCHANGED outcome
    BY <1>2, <1>3, <2>1, <2>4, MappedReplaced
  <2>6. Machine!Running({"sys", "object"})
    BY <1>1, <1>2, <2>5 DEF OpAt, HostCallOps
  <2> QED
    BY <2>5, <2>6, Zenon DEF Machine!CallHost
<1>4. CASE CallSystem
  <2>1. OpAt(Frame) = "sys" /\ Callee \in SystemFunction
    BY <1>2, <1>4, BodyFacts DEF CallSystem, At, OpAt, Callee
  <2> DEFINE d == [Top EXCEPT !.calling = NativeOf[Callee]]
  <2>2. CASE Becomes(Push(d, HostFrame(Callee)))
    <3>1. /\ d \in Execution /\ d.fn = Top.fn /\ d.native = Top.native
          /\ d.program = Top.program /\ d.state = Top.state /\ d.status = Top.status
      BY <1>2, <2>1 DEF Execution
    <3>2. Callee \in SystemFunction \cup Behaviour
      BY <2>1
    <3> HIDE DEF d
    <3>3. Machine!CallHost
      BY <1>3, <2>2, <3>1, <3>2
    <3> QED
      BY <3>3, Zenon DEF Simulated, Machine!Next
  <2>3. CASE Callee \in Method /\ Becomes(NullPointer(Top))
    <3>1. Machine!Throw
      BY <1>1, <2>1, <2>3, MachineThrows
    <3> QED
      BY <3>1, Zenon DEF Simulated, Machine!Next
  <2> QED
    BY <1>4, <2>2, <2>3 DEF CallSystem
<1>5. CASE CallBehaviour
  <2>1. Callee \in SystemFunction \cup Behaviour
    BY <1>2, <1>5, BodyFacts DEF CallBehaviour, At, Callee
  <2>2. Machine!CallHost
    BY <1>2, <1>3, <1>5, <2>1 DEF CallBehaviour
  <2> QED
    BY <2>2, Zenon DEF Simulated, Machine!Next
<1> QED
  BY <1>4, <1>5

LEMMA MachineReturns ==
  ASSUME IInv, Ret PROVE Simulated
<1> DEFINE n == Len(Top.native)
           calls == CallsSeen(Top, n - 1, Frame.pc)
           p == Returned(Top, "Ok")
           callers == SubSeq(calls, 1, Len(calls) - 1)
           left == IF n = 2 THEN <<>> ELSE CallsSeen(Top, n - 2, Top.native[n - 1].pc + 1)
<1>1. InFrame("script") /\ OpAt(Frame) = "ret" /\ Becomes(p)
  BY DEF Ret, At, OpAt
<1>2. /\ executions # <<>> /\ Top \in ConsistentExecution /\ Top \in Execution
      /\ Top.native # <<>> /\ Frame.kind = "script" /\ Frame = Last(Top.native)
      /\ n \in Nat \ {0} /\ n - 1 \in Nat \ {0} /\ n - 1 < n /\ Frame.pc \in Nat
      /\ \A i \in 2 .. (n - 1) + 1 : Top.native[i].kind = "script"
      /\ Len(calls) = n - 1
      /\ MachineOf(Top) = [calls |-> calls, host |-> None, status |-> Top.status]
      /\ Machine!Top = MachineOf(Top)
      /\ \A ops : Machine!Running(ops) <=> Body[Frame.fn][Frame.pc].op \in ops /\ UNCHANGED outcome
  BY <1>1, MachineInScript
<1>3. p \in ConsistentExecution
  BY <1>2, CallReturned
<1>4. ~ Doomed(p)
  <2>1. p.state = "Ok"
    BY <1>2, Popped
  <2> QED
    BY <2>1 DEF Doomed, Exceptions
<1>5. MachineOf(p) = [calls |-> left, host |-> None, status |-> Top.status]
  BY <1>2, <1>4, SeenReturned
<1>6. PICK e \in ConsistentExecution : e = Top
  BY <1>2
<1>7. PICK k \in Nat \ {0} : k = n - 1
  BY <1>2
<1>8. PICK last \in Nat : last = Frame.pc
  BY <1>2
<1>9. /\ k < Len(e.native) /\ \A i \in 2 .. k + 1 : e.native[i].kind = "script"
      /\ calls = CallsSeen(e, k, last) /\ Len(calls) = k
  BY <1>2, <1>6, <1>7, <1>8
<1>10. callers = IF k = 1 THEN <<>> ELSE CallsSeen(e, k - 1, e.native[k].pc)
  <2>1. SubSeq(CallsSeen(e, k, last), 1, k - 1)
        = IF k = 1 THEN <<>> ELSE CallsSeen(e, k - 1, e.native[k].pc)
    BY <1>9, CallRemoved
  <2> QED
    BY <1>9, <2>1
<1>11. (IF callers = <<>> THEN <<>> ELSE Machine!At(callers, callers[Len(callers)].pc + 1)) = left
  <2>1. n = k + 1 /\ (n = 2 <=> k = 1) /\ n - 1 = k /\ n - 2 = k - 1
    BY <1>2, <1>7
  <2>2. CASE k = 1
    BY <1>10, <2>1, <2>2
  <2>3. CASE k # 1
    <3>1. PICK j \in Nat \ {0} : j = k - 1
      BY <2>3
    <3>2. j < Len(e.native) /\ \A i \in 2 .. j + 1 : e.native[i].kind = "script"
      <4>1. Len(e.native) \in Nat
        BY ConsistentExecutions, StackFacts
      <4> QED
        BY <1>9, <3>1, <4>1
    <3>3. PICK pc \in Nat : pc = e.native[k].pc
      <4>1. /\ k \in 1 .. Len(e.native) /\ k \in 2 .. k + 1
            /\ \A i \in 1 .. Len(e.native) : e.native[i] \in Frames
        BY <1>9, <2>3, ConsistentExecutions, StackFacts
      <4>2. e.native[k].fn \in Function /\ e.native[k].pc \in DOMAIN Body[e.native[k].fn]
        BY <1>9, <4>1, FrameShape
      <4> QED
        BY <4>2, BodyFacts
    <3>4. callers = CallsSeen(e, j, pc)
      BY <1>10, <2>3, <3>1, <3>3
    <3>5. /\ Len(CallsSeen(e, j, pc)) = j /\ CallsSeen(e, j, pc) # <<>>
          /\ CallsSeen(e, j, pc)[j].pc = pc
      BY <3>2, CallsSeenFacts
    <3>6. [CallsSeen(e, j, pc) EXCEPT ![j].pc = pc + 1] = CallsSeen(e, j, pc + 1)
      BY <3>2, CallMoved
    <3>7. left = CallsSeen(e, j, pc + 1)
      BY <1>6, <2>1, <2>3, <3>1, <3>3
    <3> HIDE DEF left, callers
    <3> QED
      BY <3>4, <3>5, <3>6, <3>7 DEF Machine!At
  <2> QED
    BY <2>2, <2>3
<1> DEFINE kept == LET below == SubSeq(Machine!Top.calls, 1, Len(Machine!Top.calls) - 1)
                   IN  IF below = <<>> THEN <<>>
                       ELSE Machine!At(below, below[Len(below)].pc + 1)
<1>12. [Machine!Top EXCEPT !.calls = kept] = MachineOf(p)
  <2>1. Machine!Top.calls = calls
    <3> HIDE DEF calls
    <3> QED
      BY <1>2
  <2>2. kept = left
    BY <1>11, <2>1
  <2>3. [[calls |-> calls, host |-> None, status |-> Top.status] EXCEPT !.calls = left]
        = [calls |-> left, host |-> None, status |-> Top.status]
    <3> HIDE DEF calls, left
    <3> QED
      OBVIOUS
  <2> HIDE DEF calls, left, kept, p
  <2> QED
    BY <1>2, <1>5, <2>2, <2>3, Zenon
<1>13. Machine!Becomes([Machine!Top EXCEPT !.calls = kept]) /\ UNCHANGED outcome
  <2> HIDE DEF kept
  <2> QED
    BY <1>1, <1>2, <1>3, <1>12, MappedReplaced
<1>14. Machine!Running({"ret"})
  BY <1>1, <1>2, <1>13 DEF OpAt
<1>15. Machine!Return
  BY <1>13, <1>14 DEF Machine!Return
<1> QED
  BY <1>15, Zenon DEF Simulated, Machine!Next

\* The thunk's call is not seen; the exception of a missing object is the step
\* RunWithoutObject of the machine.
LEMMA MachineThunkCalls ==
  ASSUME IInv, ThunkCall PROVE Simulated
<1>1. /\ executions # <<>> /\ Top \in ConsistentExecution /\ Top \in Execution /\ Consistent(Top)
      /\ Top.native # <<>> /\ Top.state = "nothing" /\ Last(Top.native).kind = "thunk"
      /\ Frame = Last(Top.native)
  BY Innermost DEF Frame, ThunkCall, InFrame
<1>2. PICK f \in Function : f = Frame.fn /\ f = Top.fn
  <2>1. Top.native[1].fn = Top.fn /\ Top.fn \in Function
    BY <1>1 DEF Consistent, InsideConsistent, Execution
  <2>2. Last(Top.native) = Top.native[1]
    BY <1>1, StackOrder
  <2> QED
    BY <1>1, <2>1, <2>2
<1>3. Top.status = "active"
  <2>1. Len(Top.native) = 1
    BY <1>1, StackOrder
  <2> QED
    BY <1>1, <2>1 DEF Consistent, StateConsistent
<1>4. MachineOf(Top) = Seen(<<[fn |-> f, pc |-> 1]>>, None, "active")
  BY <1>1, <1>2, SeenInThunk DEF Seen
<1>5. ASSUME NEW d \in Execution,
             d.fn = Top.fn, d.native = Top.native, d.program = Top.program, d.state = Top.state
      PROVE  /\ Push(d, ScriptFrame(f)) \in ConsistentExecution
             /\ MachineOf(Push(d, ScriptFrame(f))) = Seen(<<[fn |-> f, pc |-> 1]>>, None, d.status)
  <2>1. PICK e \in ConsistentExecution : e = Top
    BY <1>1
  <2>2. /\ e.native # <<>> /\ e.state = "nothing" /\ Last(e.native).kind = "thunk" /\ f = e.fn
    BY <1>1, <1>2, <2>1
  <2>3. d.fn = e.fn /\ d.native = e.native /\ d.program = e.program /\ d.state = e.state
    BY <1>5, <2>1
  <2>4. Push(d, ScriptFrame(f)) \in ConsistentExecution
    BY <2>2, <2>3, ScriptCalled
  <2>5. MachineOf(Push(d, ScriptFrame(f))) = [calls |-> <<[fn |-> f, pc |-> 1]>>, host |-> None, status |-> d.status]
    BY <2>2, <2>3, SeenEntered
  <2> QED
    BY <2>4, <2>5 DEF Seen
<1>6. CASE Becomes(Push(Top, ScriptFrame(Frame.fn)))
  <2>1. /\ Push(Top, ScriptFrame(f)) \in ConsistentExecution
        /\ MachineOf(Push(Top, ScriptFrame(f))) = MachineOf(Top)
    BY <1>1, <1>3, <1>4, <1>5
  <2>2. UNCHANGED Machine!vars
    BY <1>1, <1>2, <1>6, <2>1, MappedReplaced
  <2> QED
    BY <2>2, Zenon DEF Simulated
<1>7. CASE /\ NullThis /\ Frame.fn \in Method
           /\ Becomes(Push([Top EXCEPT !.status = "exception"], ScriptFrame(Frame.fn)))
  <2> DEFINE d == [Top EXCEPT !.status = "exception"]
             p == Push(d, ScriptFrame(f))
  <2>1. /\ d \in Execution /\ d.fn = Top.fn /\ d.native = Top.native
        /\ d.program = Top.program /\ d.state = Top.state /\ d.status = "exception"
    BY <1>1 DEF Execution
  <2>2. p \in ConsistentExecution /\ MachineOf(p) = Seen(<<[fn |-> f, pc |-> 1]>>, None, "exception")
    <3> HIDE DEF d
    <3> QED
      BY <1>5, <2>1
  <2>3. Becomes(p)
    BY <1>2, <1>7
  <2> HIDE DEF d, p
  <2>4. /\ Machine!Top = Seen(<<[fn |-> f, pc |-> 1]>>, None, "active")
        /\ Mapped # <<>>
    BY <1>1, <1>4, MappedFacts
  <2>5. [Machine!Top EXCEPT !.status = "exception"] = MachineOf(p)
    BY <2>2, <2>4 DEF Seen
  <2>6. Machine!Becomes([Machine!Top EXCEPT !.status = "exception"]) /\ UNCHANGED outcome
    BY <1>1, <2>2, <2>3, <2>5, MappedReplaced
  <2>7. /\ Machine!Top.status = "active" /\ Machine!Top.host = None
        /\ Machine!Top.calls = <<Machine!Entered(f)>>
    BY <2>4 DEF Seen, Machine!Entered
  <2>8. f \in Function \cap Method /\ NullThis
    BY <1>2, <1>7
  <2>9. Machine!RunWithoutObject
    BY <2>4, <2>6, <2>7, <2>8, Zenon DEF Machine!RunWithoutObject, Mapped
  <2> QED
    BY <2>9, Zenon DEF Simulated, Machine!Next
<1> QED
  BY <1>6, <1>7 DEF ThunkCall

\* A script does not see the thunk.
LEMMA MachineEnters ==
  ASSUME IInv, EnterNative PROVE Simulated
<1> DEFINE p == Push(Top, ThunkFrame(Top.fn))
<1>1. /\ executions # <<>> /\ Top \in ConsistentExecution /\ Top \in Execution /\ Consistent(Top)
      /\ Top.native = <<>> /\ Top.status = "active" /\ Top.program = "entry" /\ Becomes(p)
  BY Innermost DEF EnterNative
<1>2. p \in ConsistentExecution
  BY <1>1, ExecutionEntered
<1>3. Top.state = "nothing"
  BY <1>1 DEF Consistent, OutsideConsistent
<1>4. /\ p.native # <<>> /\ Last(p.native) = ThunkFrame(Top.fn)
      /\ p.state = "nothing" /\ p.fn = Top.fn
  <2>1. ThunkFrame(Top.fn) \in Frames
    BY <1>1, FramesMade DEF Execution
  <2> QED
    BY <1>1, <1>3, <2>1, Pushed
<1>5. ThunkFrame(Top.fn).kind = "thunk"
  BY DEF ThunkFrame
<1> HIDE DEF p
<1>6. MachineOf(p) = [calls |-> <<[fn |-> p.fn, pc |-> 1]>>, host |-> None, status |-> "active"]
  BY <1>2, <1>4, <1>5, SeenInThunk
<1>7. MachineOf(Top) = [calls |-> <<[fn |-> Top.fn, pc |-> 1]>>, host |-> None, status |-> "active"]
  BY <1>1, SeenOutside
<1>8. MachineOf(p) = MachineOf(Top)
  BY <1>4, <1>6, <1>7
<1>9. UNCHANGED Machine!vars
  BY <1>1, <1>2, <1>8, MappedReplaced
<1> QED
  BY <1>9, Zenon DEF Simulated

\* The thunk records an exception that the machine has already thrown.
LEMMA MachineThunkReturns ==
  ASSUME IInv, ThunkReturn PROVE Simulated
<1> DEFINE p == ThunkReturned(Top)
<1>1. /\ executions # <<>> /\ Top \in ConsistentExecution /\ Top.native # <<>> /\ Top.state # "nothing"
      /\ Frame = Last(Top.native) /\ Last(Top.native).kind = "thunk" /\ Becomes(p)
  BY Innermost DEF ThunkReturn, Frame, ThunkReturned
<1>2. /\ p \in ConsistentExecution /\ p.native = <<>> /\ p.program = "ret"
      /\ p.status = InternalException(Top.status, Top.state)
  BY <1>1, ThunkLeft
<1>3. /\ Top.state \in {"Ok"} \cup Exceptions
      /\ Top.state = "ExceptionExternal" => Top.status = "exception"
  BY <1>1, StateToTest
<1> HIDE DEF p
<1>4. MachineOf(p) = [calls |-> <<>>, host |-> None, status |-> p.status]
  BY <1>2, SeenOutside
<1>5. ASSUME Top.state = "Ok" PROVE MachineOf(p) = MachineOf(Top)
  <2>1. MachineOf(Top) = [calls |-> <<>>, host |-> None, status |-> Top.status]
    BY <1>1, <1>5, SeenInThunk
  <2>2. p.status = Top.status
    BY <1>2, <1>5 DEF InternalException
  <2> QED
    BY <1>4, <2>1, <2>2
<1>6. ASSUME Top.state \in Exceptions PROVE MachineOf(p) = MachineOf(Top)
  <2>1. p.status = "exception"
    BY <1>2, <1>3, <1>6 DEF InternalException, Exceptions
  <2>2. MachineOf(Top) = [calls |-> <<>>, host |-> None, status |-> "exception"]
    BY <1>1, <1>6, SeenDoomed DEF Doomed
  <2> QED
    BY <1>4, <2>1, <2>2
<1>7. MachineOf(p) = MachineOf(Top)
  BY <1>3, <1>5, <1>6
<1>8. UNCHANGED Machine!vars
  BY <1>1, <1>2, <1>7, MappedReplaced
<1> QED
  BY <1>8, Zenon DEF Simulated

LEMMA AppendMade ==
  ASSUME NEW S, NEW c \in Seq(S), NEW x \in S, NEW n \in Nat, n = Len(c), NEW q \in [1 .. n + 1 -> S],
         q[n + 1] = x, \A i \in 1 .. n : q[i] = c[i]
  PROVE  q = Append(c, x)
<1>1. q \in Seq(S) /\ Len(q) = n + 1
  BY SequenceMade, n + 1 \in Nat
<1>2. /\ Append(c, x) \in Seq(S) /\ Len(Append(c, x)) = n + 1
      /\ \A i \in 1 .. n : Append(c, x)[i] = c[i]
      /\ Append(c, x)[n + 1] = x
  BY AppendProperties
<1>3. \A i \in 1 .. n + 1 : q[i] = Append(c, x)[i]
  BY <1>2
<1> QED
  BY <1>1, <1>2, <1>3, SeqEqual

LEMMA FrontMade ==
  ASSUME NEW S, NEW c \in Seq(S), NEW n \in Nat, n + 1 = Len(c), NEW q \in [1 .. n -> S],
         \A i \in 1 .. n : q[i] = c[i]
  PROVE  q = SubSeq(c, 1, n)
<1>1. q \in Seq(S) /\ Len(q) = n
  BY SequenceMade
<1>2. \A i \in 1 .. n : c[i] \in S
  BY ElementOfSeq
<1>3. /\ SubSeq(c, 1, n) \in Seq(S) /\ Len(SubSeq(c, 1, n)) = IF 1 <= n THEN n - 1 + 1 ELSE 0
      /\ \A i \in 1 .. n - 1 + 1 : SubSeq(c, 1, n)[i] = c[1 + i - 1]
  BY <1>2, SubSeqProperties
<1>4. /\ Len(SubSeq(c, 1, n)) = n
      /\ \A i \in 1 .. n : SubSeq(c, 1, n)[i] = q[i]
  BY <1>3
<1> QED
  BY <1>1, <1>3, <1>4, SeqEqual

\* The first call of an execution is there before native code runs.
LEMMA MachineExecutes ==
  ASSUME IInv, NEW f \in Function, Execute(f) PROVE Simulated
<1> DEFINE n == Len(executions)
           new == NewExecution(f)
<1>1. /\ executions \in Seq(ConsistentExecution) /\ n \in Nat /\ DOMAIN executions = 1 .. n
      /\ executions' = Append(executions, new) /\ UNCHANGED outcome /\ n < MaxExecutions
  BY LenProperties DEF IInv, Execute
<1>2. /\ new \in ConsistentExecution /\ new.native = <<>> /\ new.program = "entry" /\ new.fn = f
  BY ExecutionEntered DEF NewExecution
<1> HIDE DEF new
<1>3. MachineOf(new) = [calls |-> <<[fn |-> f, pc |-> 1]>>, host |-> None, status |-> "active"]
  BY <1>2, SeenOutside
<1> DEFINE S == {MachineOf(e) : e \in ConsistentExecution}
<1>4. Mapped' = Append(Mapped, MachineOf(new))
  <2>1. /\ DOMAIN executions' = 1 .. n + 1
        /\ \A i \in 1 .. n + 1 : executions'[i] = IF i = n + 1 THEN new ELSE executions[i]
    <3>1. /\ DOMAIN executions' = 1 .. n + 1 /\ executions'[n + 1] = new
          /\ \A i \in 1 .. n : executions'[i] = executions[i]
      BY <1>1, <1>2, AppendProperties, LenProperties
    <3> QED
      BY <1>1, <3>1
  <2>2. \A i \in 1 .. n : executions[i] \in ConsistentExecution
    BY <1>1, ElementOfSeq
  <2>3. /\ Mapped' \in [1 .. n + 1 -> S] /\ Mapped'[n + 1] = MachineOf(new)
        /\ \A i \in 1 .. n : Mapped'[i] = MachineOf(executions[i])
    BY <1>1, <1>2, <2>1, <2>2 DEF Mapped
  <2>4. /\ Mapped \in [1 .. n -> S]
        /\ \A i \in 1 .. n : Mapped[i] = MachineOf(executions[i])
    BY <1>1, <2>2 DEF Mapped
  <2>5. MachineOf(new) \in S
    BY <1>2
  <2> HIDE DEF S
  <2>6. Mapped \in Seq(S) /\ Len(Mapped) = n
    BY <1>1, <2>4, SequenceMade
  <2> QED
    BY <1>1, <2>3, <2>4, <2>5, <2>6, AppendMade
<1>5. Machine!Entered(f) = [fn |-> f, pc |-> 1]
  BY DEF Machine!Entered
<1>6. ASSUME Mapped # <<>> PROVE Machine!Top.host # None
  <2>1. executions # <<>> /\ InFrame("host")
    BY <1>6, MappedFacts DEF Execute
  <2>2. /\ Top \in ConsistentExecution /\ Top.native # <<>> /\ Last(Top.native).kind = "host"
    BY <2>1, Innermost DEF InFrame, Frame
  <2>3. MachineOf(Top).host = Top.native[Len(Top.native)].fn
    BY <2>2, SeenInHost
  <2>4. Top.native[Len(Top.native)] \in Frames /\ Top.native[Len(Top.native)].kind = "host"
    BY <2>2, ConsistentExecutions, StackFacts
  <2>5. Top.native[Len(Top.native)].fn \in SystemFunction \cup Behaviour
    BY <2>4, FrameShape
  <2> QED
    BY <2>1, <2>3, <2>5, KindsAssumption, MappedFacts DEF KindsAssumption
<1>7. Machine!Execute(f)
  <2>1. Len(Mapped) < MaxExecutions
    BY <1>1, MappedFacts
  <2>2. Mapped' = Append(Mapped, [calls |-> <<Machine!Entered(f)>>, host |-> None, status |-> "active"])
    BY <1>3, <1>4, <1>5, Zenon
  <2> QED
    BY <1>1, <1>6, <2>1, <2>2, Zenon DEF Machine!Execute, Mapped
<1> QED
  BY <1>7, Zenon DEF Simulated, Machine!Next

\* The virtual machine leaves an execution that has no call left.
LEMMA MachineLeavesVM ==
  ASSUME IInv, LeaveVM PROVE Simulated
<1> DEFINE n == Len(executions)
<1>1. /\ executions \in Seq(ConsistentExecution) /\ n \in Nat \ {0} /\ DOMAIN executions = 1 .. n
      /\ executions # <<>> /\ Top \in ConsistentExecution /\ Top \in Execution
      /\ Top.native = <<>> /\ (Top.status = "exception" \/ Top.program = "ret")
  BY Innermost DEF IInv, LeaveVM
<1>2. Top.status \in {"active", "exception"} /\ Top.program \in {"entry", "ret"}
  BY <1>1 DEF Execution
<1>3. Top.program = "ret"
  BY <1>1, <1>2, SeenOutside
<1>4. MachineOf(Top) = [calls |-> <<>>, host |-> None, status |-> Top.status]
  BY <1>1, <1>3, SeenOutside
<1>5. Machine!Top = MachineOf(Top) /\ Mapped # <<>> /\ Len(Mapped) = n
  BY <1>1, MappedFacts
<1> DEFINE S == {MachineOf(e) : e \in ConsistentExecution}
<1>6. Mapped' = SubSeq(Mapped, 1, Len(Mapped) - 1)
  <2>1. PICK k \in Nat : k = n - 1 /\ k + 1 = n
    <3>1. \A j \in Nat \ {0} : j - 1 \in Nat /\ (j - 1) + 1 = j
      OBVIOUS
    <3> QED
      BY <1>1, <3>1
  <2>2. \A i \in 1 .. n : executions[i] \in ConsistentExecution
    BY <1>1, ElementOfSeq
  <2>3. DOMAIN executions' = 1 .. k /\ \A i \in 1 .. k : executions'[i] = executions[i]
    <3>1. \A i \in 1 .. k : executions[i] \in ConsistentExecution
      BY <2>1, <2>2
    <3>2. /\ SubSeq(executions, 1, k) \in Seq(ConsistentExecution)
          /\ Len(SubSeq(executions, 1, k)) = IF 1 <= k THEN k - 1 + 1 ELSE 0
          /\ \A i \in 1 .. k - 1 + 1 : SubSeq(executions, 1, k)[i] = executions[1 + i - 1]
      BY <3>1, SubSeqProperties
    <3>3. /\ Len(SubSeq(executions, 1, k)) = k
          /\ \A i \in 1 .. k : SubSeq(executions, 1, k)[i] = executions[i]
      BY <3>2
    <3>4. DOMAIN SubSeq(executions, 1, k) = 1 .. k
      BY <3>2, <3>3, LenProperties
    <3>5. executions' = SubSeq(executions, 1, k)
      BY <2>1 DEF LeaveVM, Front
    <3> QED
      BY <3>3, <3>4, <3>5
  <2>4. Mapped' \in [1 .. k -> S] /\ \A i \in 1 .. k : Mapped'[i] = MachineOf(executions[i])
    BY <2>1, <2>2, <2>3 DEF Mapped
  <2>5. Mapped \in [1 .. n -> S] /\ \A i \in 1 .. n : Mapped[i] = MachineOf(executions[i])
    BY <1>1, <2>2 DEF Mapped
  <2> HIDE DEF S
  <2>6. Mapped \in Seq(S) /\ Len(Mapped) = k + 1
    BY <1>1, <2>1, <2>5, SequenceMade
  <2>7. \A i \in 1 .. k : Mapped'[i] = Mapped[i]
    BY <2>1, <2>4, <2>5
  <2>8. Mapped' = SubSeq(Mapped, 1, k)
    BY <2>4, <2>6, <2>7, FrontMade
  <2> QED
    BY <1>5, <2>1, <2>8
<1>7. Machine!Finish
  <2>1. Machine!Top.calls = <<>> /\ Machine!Top.status = Top.status
    BY <1>4, <1>5
  <2>2. outcome' = IF Machine!Top.status = "active" THEN "finished" ELSE "exception"
    BY <1>2, <2>1 DEF LeaveVM
  <2> QED
    BY <1>5, <1>6, <2>1, <2>2, Zenon DEF Machine!Finish, Mapped
<1> QED
  BY <1>7, Zenon DEF Simulated, Machine!Next

\* A host function that runs is called by the innermost call of the machine.
LEMMA MachineInHost ==
  ASSUME IInv, InFrame("host")
  PROVE  LET n == Len(Top.native)
             caller == Top.native[n - 1]
             calls == CallsSeen(Top, n - 2, caller.pc)
         IN  /\ executions # <<>> /\ Top \in ConsistentExecution /\ Top \in Execution
             /\ Top.native # <<>> /\ Last(Top.native).kind = "host"
             /\ Frame.fn # None /\ n \in Nat /\ n > 2 /\ n - 2 \in Nat \ {0}
             /\ \A i \in 2 .. (n - 2) + 1 : Top.native[i].kind = "script"
             /\ caller.kind = "script" /\ caller.pc \in Nat
             /\ Len(calls) = n - 2
             /\ MachineOf(Top) = Seen(calls, Frame.fn, Top.status)
             /\ Machine!Top = MachineOf(Top) /\ Mapped # <<>>
             /\ Machine!Call.pc = caller.pc /\ Machine!Instruction.op = OpAt(caller)
<1> DEFINE n == Len(Top.native)
           caller == Top.native[n - 1]
           calls == CallsSeen(Top, n - 2, caller.pc)
<1>1. /\ executions # <<>> /\ Top \in ConsistentExecution /\ Top \in Execution
      /\ Top.native # <<>> /\ Last(Top.native).kind = "host" /\ Frame = Last(Top.native)
  BY Innermost DEF InFrame, Frame
<1>2. /\ n \in Nat /\ n > 2 /\ Frame = Top.native[n] /\ Frame.kind = "host" /\ caller.kind = "script"
  BY <1>1, StackOrder
<1>3. /\ n - 2 \in Nat \ {0} /\ n - 2 < n
      /\ \A i \in 2 .. (n - 2) + 1 : Top.native[i].kind = "script"
      /\ MachineOf(Top) = Seen(calls, Frame.fn, Top.status)
  BY <1>1, <1>2, SeenInHost DEF Seen
<1>4. Frame \in Frames /\ caller \in Frames
  <2>1. n \in 1 .. n /\ n - 1 \in 1 .. n
    BY <1>2
  <2> QED
    BY <1>1, <1>2, <2>1, StackFacts
<1>5. Frame.fn # None
  BY <1>2, <1>4, FrameShape, KindsAssumption DEF KindsAssumption
<1>6. caller.pc \in Nat
  BY <1>2, <1>4, FrameShape, BodyFacts
<1>7. /\ Len(calls) = n - 2 /\ calls[n - 2].fn = caller.fn /\ calls[n - 2].pc = caller.pc
  <2>1. PICK e \in ConsistentExecution : e = Top
    BY <1>1
  <2>2. PICK k \in Nat \ {0} : k = n - 2
    BY <1>3
  <2>3. PICK last \in Nat : last = caller.pc
    BY <1>6
  <2>4. k < Len(e.native) /\ \A i \in 2 .. k + 1 : e.native[i].kind = "script"
    BY <1>3, <2>1, <2>2
  <2> DEFINE c == CallsSeen(e, k, last)
  <2>5. /\ Len(c) = k
        /\ \A i \in 1 .. k : c[i].fn = e.native[i + 1].fn
                            /\ c[i].pc = IF i = k THEN last ELSE e.native[i + 1].pc
    BY <2>4, CallsSeenFacts
  <2>6. c = calls
    BY <2>1, <2>2, <2>3
  <2>7. k \in 1 .. k /\ k + 1 = n - 1
    BY <1>2, <2>2
  <2> HIDE DEF c, calls
  <2> QED
    BY <2>1, <2>2, <2>3, <2>5, <2>6, <2>7
<1>8. Machine!Top = MachineOf(Top) /\ Mapped # <<>>
  BY <1>1, MappedFacts
<1>9. Machine!Top.calls = calls
  <2> HIDE DEF calls
  <2> QED
    BY <1>3, <1>8 DEF Seen
<1>10. Machine!Call.pc = caller.pc /\ Machine!Call.fn = caller.fn
  <2> HIDE DEF calls
  <2> QED
    BY <1>7, <1>9 DEF Machine!Call
<1>11. Machine!Instruction.op = OpAt(caller)
  BY <1>10 DEF Machine!Instruction, OpAt
<1> QED
  BY <1>1, <1>2, <1>3, <1>5, <1>6, <1>7, <1>8, <1>10, <1>11

LEMMA MachineHostRaises ==
  ASSUME IInv, HostRaises PROVE Simulated
<1> DEFINE n == Len(Top.native)
           calls == CallsSeen(Top, n - 2, Top.native[n - 1].pc)
           p == [Top EXCEPT !.status = "exception"]
<1>1. InFrame("host") /\ Frame.fn \in Raising /\ Becomes(p)
  BY DEF HostRaises
<1>2. /\ executions # <<>> /\ Top \in Execution /\ Top.native # <<>>
      /\ Last(Top.native).kind = "host"
      /\ MachineOf(Top) = Seen(calls, Frame.fn, Top.status)
      /\ Machine!Top = MachineOf(Top) /\ Mapped # <<>>
  BY <1>1, MachineInHost
<1>3. p \in ConsistentExecution /\ p.native = Top.native /\ p.status = "exception"
  BY <1>1, <1>2, HostRaised DEF Execution
<1>4. CallsSeen(p, n - 2, p.native[n - 1].pc) = calls
  BY <1>3 DEF CallsSeen
<1>5. p.native # <<>> /\ Last(p.native).kind = "host" /\ Len(p.native) = n
      /\ p.native[n].fn = Frame.fn
  BY <1>2, <1>3 DEF Frame, Last
<1> HIDE DEF p, calls
<1>6. MachineOf(p) = Seen(calls, Frame.fn, "exception")
  BY <1>3, <1>4, <1>5, SeenInHost DEF Seen
<1>7. [Machine!Top EXCEPT !.status = "exception"] = MachineOf(p)
  BY <1>2, <1>6 DEF Seen
<1>8. Machine!Becomes([Machine!Top EXCEPT !.status = "exception"]) /\ UNCHANGED outcome
  BY <1>1, <1>2, <1>3, <1>7, MappedReplaced
<1>9. Machine!Top.host \in Raising
  BY <1>1, <1>2 DEF Seen
<1>10. Machine!HostRaises
  BY <1>2, <1>8, <1>9, Zenon DEF Machine!HostRaises, Mapped
<1> QED
  BY <1>10, Zenon DEF Simulated, Machine!Next

\* A host function returns to its caller, or to none where it was a system
\* call and has set an exception.
LEMMA MachineHostReturns ==
  ASSUME IInv, HostReturns PROVE Simulated
<1> DEFINE n == Len(Top.native)
           caller == Top.native[n - 1]
           calls == CallsSeen(Top, n - 2, caller.pc)
           p == Returned(Top, "host")
           thrown == Machine!Instruction.op = "sys" /\ Machine!Top.status = "exception"
           left == IF thrown THEN <<>> ELSE Machine!At(Machine!Top.calls, Machine!Call.pc + 1)
<1>1. InFrame("host") /\ Becomes(p)
  BY DEF HostReturns
<1>2. /\ executions # <<>> /\ Top \in ConsistentExecution /\ Top \in Execution
      /\ Top.native # <<>> /\ Last(Top.native).kind = "host"
      /\ Frame.fn # None /\ n \in Nat /\ n > 2 /\ n - 2 \in Nat \ {0}
      /\ \A i \in 2 .. (n - 2) + 1 : Top.native[i].kind = "script"
      /\ caller.kind = "script" /\ caller.pc \in Nat
      /\ Len(calls) = n - 2
      /\ MachineOf(Top) = Seen(calls, Frame.fn, Top.status)
      /\ Machine!Top = MachineOf(Top) /\ Mapped # <<>>
      /\ Machine!Call.pc = caller.pc /\ Machine!Instruction.op = OpAt(caller)
  BY <1>1, MachineInHost
<1>3. p \in ConsistentExecution /\ p.status = Top.status /\ p.state = "host"
  BY <1>2, CallReturned, Popped, Zenon DEF Exceptions
<1>4. p.native # <<>> /\ Last(p.native) = caller
  <2>1. Len(p.native) = n - 1 /\ \A i \in 1 .. n - 1 : p.native[i] = Top.native[i]
    BY <1>2, Popped
  <2>2. n - 1 \in 1 .. n - 1 /\ n - 1 # 0
    BY <1>2
  <2>3. p.native = <<>> <=> Len(p.native) = 0
    BY <1>3, ConsistentExecutions, StackFacts
  <2> HIDE DEF p
  <2> QED
    BY <2>1, <2>2, <2>3 DEF Last
<1>5. Machine!Top.status = Top.status /\ Machine!Top.calls = calls /\ Machine!Top.host = Frame.fn
  <2> HIDE DEF calls
  <2> QED
    BY <1>2 DEF Seen
<1>6. Doomed(p) <=> thrown
  <2>1. Doomed(p) <=> p.status = "exception" /\ AtSystemCall(p)
    BY <1>3 DEF Doomed, Exceptions
  <2>2. AtSystemCall(p) <=> OpAt(caller) = "sys"
    BY <1>2, <1>4 DEF AtSystemCall, OpAt
  <2> QED
    BY <1>2, <1>3, <1>5, <2>1, <2>2
<1>7. MachineOf(p) = Seen(left, None, Top.status)
  <2>1. CASE thrown
    <3>1. MachineOf(p) = Seen(<<>>, None, "exception")
      BY <1>3, <1>6, <2>1, SeenDoomed DEF Seen
    <3>2. Top.status = "exception"
      BY <1>5, <2>1
    <3> QED
      BY <2>1, <3>1, <3>2
  <2>2. CASE ~ thrown
    <3>1. MachineOf(p) = Seen(IF n = 2 THEN <<>> ELSE CallsSeen(Top, n - 2, caller.pc + 1), None, Top.status)
      BY <1>2, <1>6, <2>2, SeenReturned DEF Seen
    <3>2. MachineOf(p) = Seen(CallsSeen(Top, n - 2, caller.pc + 1), None, Top.status)
      BY <1>2, <3>1
    <3>3. Machine!At(calls, caller.pc + 1) = CallsSeen(Top, n - 2, caller.pc + 1)
      <4>1. PICK e \in ConsistentExecution : e = Top
        BY <1>2
      <4>2. PICK k \in Nat \ {0} : k = n - 2
        BY <1>2
      <4>3. PICK pc \in Nat : pc = caller.pc
        BY <1>2
      <4>4. k < Len(e.native) /\ \A i \in 2 .. k + 1 : e.native[i].kind = "script"
        BY <1>2, <4>1, <4>2
      <4>5. pc + 1 \in Nat
        OBVIOUS
      <4>6. [CallsSeen(e, k, pc) EXCEPT ![k].pc = pc + 1] = CallsSeen(e, k, pc + 1)
        BY <4>4, <4>5, CallMoved
      <4>7. [calls EXCEPT ![n - 2].pc = caller.pc + 1] = CallsSeen(Top, n - 2, caller.pc + 1)
        BY <4>1, <4>2, <4>3, <4>6
      <4> QED
        BY <1>2, <4>7 DEF Machine!At
    <3>4. left = Machine!At(calls, caller.pc + 1)
      BY <1>2, <1>5, <2>2
    <3> QED
      BY <3>2, <3>3, <3>4, Zenon
  <2> QED
    BY <2>1, <2>2
<1> HIDE DEF left, calls, p
<1>8. HostLeft(Machine!Top, left) = MachineOf(p)
  <2>1. Machine!Top = Seen(calls, Frame.fn, Top.status)
    BY <1>2
  <2>2. PICK c, h, s, new : c = calls /\ h = Frame.fn /\ s = Top.status /\ new = left
    OBVIOUS
  <2>3. HostLeft(Seen(c, h, s), new) = Seen(new, None, s)
    BY SeenChanged
  <2> QED
    BY <1>7, <2>1, <2>2, <2>3
<1>9. Machine!Becomes(HostLeft(Machine!Top, left)) /\ UNCHANGED outcome
  BY <1>1, <1>2, <1>3, <1>8, MappedReplaced
<1>10. Machine!HostReturns
  BY <1>2, <1>5, <1>9, Zenon DEF Machine!HostReturns, HostLeft, left, Mapped
<1> QED
  BY <1>10, Zenon DEF Simulated, Machine!Next

\* The machine has done what a caller does with the state it finds.
LEMMA MachineAfterCall ==
  ASSUME IInv, AfterCall PROVE Simulated
<1> DEFINE n == Len(Top.native)
<1>1. /\ executions # <<>> /\ Top \in ConsistentExecution /\ Top \in Execution
      /\ Top.native # <<>> /\ Top.state # "nothing"
      /\ Frame.kind = "script" /\ Last(Top.native) = Frame /\ n \in Nat
  BY Innermost, StackFacts DEF Frame, AfterCall
<1>2. /\ Top.state \in {"Ok", "host"} \cup Exceptions
      /\ IF Top.state = "host" THEN OpAt(Frame) \in HostCallOps ELSE OpAt(Frame) \in ScriptCallOps
      /\ Top.state = "ExceptionExternal" => Top.status = "exception"
  BY <1>1, StateToTest
<1>3. /\ Frame.fn \in Function /\ Frame.pc + 1 \in DOMAIN Body[Frame.fn]
  BY <1>1, <1>2, AtInstruction DEF ScriptCallOps, HostCallOps
<1>4. AtSystemCall(Top) <=> OpAt(Frame) = "sys"
  BY <1>1 DEF AtSystemCall, OpAt
<1>5. ASSUME ~ Doomed(Top), Becomes(Advanced(Top)) PROVE Simulated
  <2>1. Advanced(Top) \in ConsistentExecution
    BY <1>1, <1>2, AdvancedConsistent DEF ScriptCallOps, HostCallOps
  <2>2. MachineOf(Top) = [calls |-> CallsSeen(Top, n - 1, Top.native[n].pc + 1), host |-> None, status |-> Top.status]
    BY <1>1, <1>5, SeenInScript
  <2>3. MachineOf(Advanced(Top)) = [calls |-> CallsSeen(Top, n - 1, Frame.pc + 1), host |-> None, status |-> Top.status]
    BY <1>1, <1>3, SeenMoved DEF Advanced
  <2>4. Frame = Top.native[n]
    BY <1>1, StackOrder
  <2>5. MachineOf(Advanced(Top)) = MachineOf(Top)
    BY <2>2, <2>3, <2>4
  <2>6. UNCHANGED Machine!vars
    BY <1>1, <1>5, <2>1, <2>5, MappedReplaced
  <2> QED
    BY <2>6, Zenon DEF Simulated
<1>6. ASSUME Doomed(Top), NEW state \in Exceptions, Becomes(Returned(Top, state)),
             state = "ExceptionExternal" => Top.status = "exception"
      PROVE  Simulated
  <2> DEFINE p == Returned(Top, state)
  <2>1. p \in ConsistentExecution
    BY <1>1, <1>6, CallReturned DEF Exceptions
  <2>2. p.state = state
    BY <1>1, Popped
  <2> HIDE DEF p
  <2>3. Doomed(p)
    BY <2>2 DEF Doomed
  <2>4. MachineOf(p) = MachineOf(Top)
    BY <1>1, <1>6, <2>1, <2>3, SeenDoomed
  <2>5. Becomes(p)
    BY <1>6 DEF p
  <2>6. UNCHANGED Machine!vars
    BY <1>1, <2>1, <2>4, <2>5, MappedReplaced
  <2> QED
    BY <2>6, Zenon DEF Simulated
<1>7. CASE OpAt(Frame) \in ScriptCallOps /\ Becomes(TestedCall(Top))
  <2>1. Top.state # "host"
    BY <1>2, <1>7 DEF ScriptCallOps, HostCallOps
  <2>2. CASE Top.state = "Ok"
    <3>1. ~ Doomed(Top)
      BY <2>2 DEF Doomed, Exceptions
    <3> QED
      BY <1>5, <1>7, <2>2, <3>1 DEF TestedCall
  <2>3. CASE Top.state \in Exceptions
    <3>1. Doomed(Top) /\ TestedCall(Top) = Returned(Top, Top.state)
      BY <2>3 DEF Doomed, Exceptions, TestedCall
    <3>2. PICK state \in Exceptions : state = Top.state
      BY <2>3
    <3> QED
      BY <1>2, <1>6, <1>7, <3>1, <3>2
  <2> QED
    BY <1>2, <2>1, <2>2, <2>3
<1>8. CASE OpAt(Frame) = "sys" /\ Becomes(TestedContext(Top))
  <2>1. Top.state = "host"
    BY <1>2, <1>8 DEF ScriptCallOps
  <2>2. CASE Top.status = "exception"
    <3>1. Doomed(Top)
      BY <1>4, <1>8, <2>1, <2>2 DEF Doomed
    <3>2. Becomes(Returned(Top, "ExceptionExternal"))
      BY <1>8, <2>2 DEF TestedContext
    <3>3. "ExceptionExternal" \in Exceptions
      BY DEF Exceptions
    <3> QED
      BY <1>6, <2>2, <3>1, <3>2, <3>3
  <2>3. CASE Top.status # "exception"
    <3>1. ~ Doomed(Top)
      BY <2>1, <2>3 DEF Doomed, Exceptions
    <3> QED
      BY <1>5, <1>8, <2>3, <3>1 DEF TestedContext
  <2> QED
    BY <2>2, <2>3
<1>9. CASE OpAt(Frame) = "object" /\ Becomes(Advanced(Top))
  <2>1. Top.state = "host"
    BY <1>2, <1>9 DEF ScriptCallOps
  <2>2. ~ Doomed(Top)
    BY <1>4, <1>9, <2>1 DEF Doomed, Exceptions
  <2> QED
    BY <1>5, <1>9, <2>2
<1> QED
  BY <1>7, <1>8, <1>9, Zenon DEF AfterCall, OpAt, ScriptCallOps

-----------------------------------------------------------------------------
(* Generated calls implement the machine.                                    *)

LEMMA StepSimulated == IInv /\ [Next]_vars => [Machine!Next]_Machine!vars
<1> SUFFICES ASSUME IInv, [Next]_vars PROVE Simulated
  BY Zenon DEF Simulated
<1>1. CASE UNCHANGED vars
  BY <1>1, Zenon DEF Simulated, vars, Machine!vars
<1> QED
  BY <1>1, MachineExecutes, MachineEnters, MachineLeavesVM, MachineThunkCalls, MachineThunkReturns,
     MachineHostRaises, MachineHostReturns, MachineWithinBody, MachineCalls, MachineCallsHost,
     MachineReturns, MachineAfterCall, Zenon DEF Next

\* What the generated code and the runtime functions do about calls and
\* exceptions is, seen from a script, what ScriptMachine promises: an exception
\* takes all the calls of its execution away, and no others.
THEOREM CallsImplementMachine == Spec => ImplementsMachine
<1>1. Init => Machine!Init
  <2> SUFFICES ASSUME Init PROVE Mapped = <<>> /\ outcome = "none"
    BY DEF Machine!Init, Mapped
  <2>1. IInv
    BY EmptySeq DEF Init, IInv
  <2> QED
    BY <2>1, MappedFacts DEF Init
<1>2. IInv /\ [Next]_vars => [Machine!Next]_Machine!vars
  BY StepSimulated
<1> QED
  BY <1>1, <1>2, ExecutionsConsistent, PTL DEF Spec, Machine!Spec, ImplementsMachine

=============================================================================
