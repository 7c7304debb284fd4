------------------------------ MODULE ScriptCalls ------------------------------
(***************************************************************************)
(* The calls of generated code: what FunctionBuilder emits around a call,   *)
(* with the runtime functions it calls back, while scripts run.             *)
(*                                                                          *)
(* The VM of an execution enters a function at its JitEntry instruction,    *)
(* through its entry thunk, which calls the implementation.  An             *)
(* implementation returns a VmState, which every caller tests; the          *)
(* thunk turns the state it gets into an exception of the context and       *)
(* leaves the program pointer at the RET instruction, where the VM goes on. *)
(* A system function reports through the status of the context instead,     *)
(* and may execute scripts itself, which nests another execution.           *)
(*                                                                          *)
(* Instructions are abstracted to what they do to control.  One that        *)
(* tests a pointer may find it null whenever it is run.                     *)
(***************************************************************************)
EXTENDS Naturals, Sequences, SequencesExt

CONSTANTS
  Function,        \* script functions that have a body
  VirtualFunction, \* declarations that virtual calls name
  SystemFunction,  \* functions the application registered
  Behaviour,       \* release, addref, destructor... of registered types
  Method,          \* the functions, of any kind, that are called on an object
  Body,            \* [Function -> Seq(instructions)]
  Overrides,       \* [VirtualFunction -> SUBSET Function]: what a call may reach
  NativeOf,        \* [SystemFunction -> native addresses]
  Raising,         \* the system functions and behaviours that may set an exception
  NullThis,        \* may the host execute a method without an object?
  MaxExecutions,   \* bound: executions that are nested
  None             \* null

Instruction == [op : {"work", "check", "branch", "call", "vcall", "sys", "object", "ret"},
                callee : Function \cup VirtualFunction \cup SystemFunction
                         \cup Behaviour \cup {None},
                to : Nat]

ASSUME BodyAssumption ==
  /\ Body \in [Function -> Seq(Instruction)]
  /\ Overrides \in [VirtualFunction -> SUBSET Function]
  /\ \A f \in Function :
       /\ Body[f] # <<>> /\ Last(Body[f]).op = "ret"
       /\ \A i \in DOMAIN Body[f] :
            LET ins == Body[f][i]
            IN  /\ ins.op = "branch" => ins.to \in DOMAIN Body[f]
                /\ ins.op = "call" => ins.callee \in Function
                /\ ins.op = "vcall" => ins.callee \in VirtualFunction \cap Method
                /\ ins.op = "sys" => ins.callee \in SystemFunction
                /\ ins.op = "object" => ins.callee \in Behaviour

ASSUME KindsAssumption ==
  /\ \A S, T \in {Function, VirtualFunction, SystemFunction, Behaviour} :
       S \cap T # {} => S = T
  /\ None \notin Function \cup VirtualFunction \cup SystemFunction \cup Behaviour
  /\ Raising \subseteq SystemFunction \cup Behaviour
  /\ NullThis \in BOOLEAN /\ MaxExecutions \in Nat

VARIABLES
  executions,  \* the nested executions of the thread, the innermost last
  outcome      \* what the Execute that ended last returned

vars == <<executions, outcome>>

Exceptions == {"ExceptionExternal", "ExceptionNullPointer"}

-----------------------------------------------------------------------------
(* An execution: asCContext, and the part of the native stack above it.      *)

NewExecution(f) ==
  [fn      |-> f,          \* what Execute runs
   status  |-> "active",   \* m_status
   calling |-> None,       \* m_callingSystemFunction
   program |-> "entry",    \* programPointer: the JitEntry, or the RET
   native  |-> <<>>,       \* native frames: thunk, implementations, host function
   state   |-> "nothing"]  \* what the call that returned last left to be tested

Top == executions[Len(executions)]
Frame == Last(Top.native)

ThunkFrame(f)  == [kind |-> "thunk", fn |-> f, pc |-> 0]
ScriptFrame(f) == [kind |-> "script", fn |-> f, pc |-> 1]
HostFrame(s)   == [kind |-> "host", fn |-> s, pc |-> 0]

Becomes(e) == /\ executions' = [executions EXCEPT ![Len(executions)] = e]
              /\ UNCHANGED outcome

InFrame(kind) ==
  /\ executions # <<>> /\ Top.native # <<>> /\ Top.state = "nothing"
  /\ Frame.kind = kind

At(op) == InFrame("script") /\ Body[Frame.fn][Frame.pc].op = op
Callee == Body[Frame.fn][Frame.pc].callee

Push(e, frame) == [e EXCEPT !.native = Append(@, frame)]
GoTo(e, pc) == [e EXCEPT !.native[Len(e.native)].pc = pc, !.state = "nothing"]

Advanced_TwoInstructions(e) == GoTo(e, Last(e.native).pc + 2)
Advanced(e) == GoTo(e, Last(e.native).pc + 1)

\* The frame returns; its caller has to look at the state.
Returned(e, state) == [e EXCEPT !.native = Front(@), !.state = state]

\* emit_check_null_pointer, in an implementation.
NullPointer(e) == Returned(e, "ExceptionNullPointer")

Init == executions = <<>> /\ outcome = "none"

-----------------------------------------------------------------------------
(* The host application and the virtual machine.                             *)

\* Execute: from the application, or from a system function or a behaviour.
Execute(f) ==
  /\ executions # <<>> => InFrame("host")
  /\ Len(executions) < MaxExecutions
  /\ executions' = Append(executions, NewExecution(f))
  /\ UNCHANGED outcome

\* asBC_JitEntry, whose argument translation has made non-null.
EnterNative ==
  /\ executions # <<>> /\ Top.native = <<>>
  /\ Top.status = "active" /\ Top.program = "entry"
  /\ Becomes(Push(Top, ThunkFrame(Top.fn)))

\* The VM stops at an exception, or executes the RET.
LeaveVM ==
  /\ executions # <<>> /\ Top.native = <<>>
  /\ Top.status = "exception" \/ Top.program = "ret"
  /\ executions' = Front(executions)
  /\ outcome' = IF Top.status = "exception" THEN "exception" ELSE "finished"

HostRaises ==
  /\ InFrame("host") /\ Frame.fn \in Raising
  /\ Becomes([Top EXCEPT !.status = "exception"])

HostReturns ==
  /\ InFrame("host")
  /\ Becomes(Returned(Top, "host"))

-----------------------------------------------------------------------------
(* The entry thunk.                                                          *)

\* Where an implementation returns, the thunk only records the exception: its
\* null check of `this` goes on to the call.
ThunkCall ==
  /\ InFrame("thunk")
  /\ \/ Becomes(Push(Top, ScriptFrame(Frame.fn)))
     \/ /\ NullThis /\ Frame.fn \in Method
        /\ Becomes(Push([Top EXCEPT !.status = "exception"], ScriptFrame(Frame.fn)))

\* set_internal_exception: the context already knows of an external one.
InternalException_NullIgnored(status, state) == status
InternalException(status, state) ==
  IF state = "ExceptionNullPointer" THEN "exception" ELSE status

ThunkProgram == "ret"

ThunkReturn ==
  /\ executions # <<>> /\ Top.native # <<>> /\ Top.state # "nothing"
  /\ Frame.kind = "thunk"
  /\ Becomes([Top EXCEPT !.native = Front(@), !.state = "nothing",
                         !.status = InternalException(@, Top.state),
                         !.program = ThunkProgram])

-----------------------------------------------------------------------------
(* The instructions of an implementation.                                    *)

Work == At("work") /\ Becomes(Advanced(Top))

Branch ==
  /\ At("branch")
  /\ \E pc \in {Frame.pc + 1, Body[Frame.fn][Frame.pc].to} : Becomes(GoTo(Top, pc))

CheckPointer ==
  /\ At("check")
  /\ \/ Becomes(Advanced(Top))
     \/ Becomes(NullPointer(Top))

CallScript ==
  /\ At("call")
  /\ \/ Becomes(Push(Top, ScriptFrame(Callee)))
     \/ Callee \in Method /\ Becomes(NullPointer(Top))

\* The object is tested before its table is read.
CallVirtual ==
  /\ At("vcall")
  /\ \/ \E f \in Overrides[Callee] : Becomes(Push(Top, ScriptFrame(f)))
     \/ Becomes(NullPointer(Top))

\* prepare_system_call is given the native function.
CallSystem ==
  /\ At("sys")
  /\ \/ Becomes(Push([Top EXCEPT !.calling = NativeOf[Callee]], HostFrame(Callee)))
     \/ Callee \in Method /\ Becomes(NullPointer(Top))

\* call_object_method.
CallBehaviour == At("object") /\ Becomes(Push(Top, HostFrame(Callee)))

Ret == At("ret") /\ Becomes(Returned(Top, "Ok"))

\* What a caller does with the state of a script call.
TestedCall(e) == IF e.state = "Ok" THEN Advanced(e) ELSE Returned(e, e.state)

\* check_execution_status, after a system call.
TestedContext_Unchecked(e) == Advanced(e)
TestedContext(e) ==
  IF e.status = "exception" THEN Returned(e, "ExceptionExternal") ELSE Advanced(e)

AfterCall ==
  /\ executions # <<>> /\ Top.native # <<>> /\ Top.state # "nothing"
  /\ Frame.kind = "script"
  /\ LET op == Body[Frame.fn][Frame.pc].op
     IN  \/ op \in {"call", "vcall"} /\ Becomes(TestedCall(Top))
         \/ op = "sys" /\ Becomes(TestedContext(Top))
         \/ op = "object" /\ Becomes(Advanced(Top))

Next ==
  \/ \E f \in Function : Execute(f)
  \/ EnterNative \/ LeaveVM \/ HostRaises \/ HostReturns
  \/ ThunkCall \/ ThunkReturn
  \/ Work \/ Branch \/ CheckPointer \/ CallScript \/ CallVirtual
  \/ CallSystem \/ CallBehaviour \/ Ret \/ AfterCall

Spec == Init /\ [][Next]_vars

\* Native code that has been returned to runs on; so does the VM.
FairSpec == Spec /\ WF_vars(AfterCall) /\ WF_vars(ThunkReturn) /\ WF_vars(LeaveVM)
-----------------------------------------------------------------------------
(* Properties.                                                               *)

Frames ==
  [kind : {"thunk"}, fn : Function, pc : {0}]
  \cup (UNION {[kind : {"script"}, fn : {f}, pc : DOMAIN Body[f]] : f \in Function})
  \cup [kind : {"host"}, fn : SystemFunction \cup Behaviour, pc : {0}]

Execution == [fn : Function, status : {"active", "exception"},
              calling : {NativeOf[s] : s \in SystemFunction} \cup {None},
              program : {"entry", "ret"}, native : Seq(Frames),
              state : {"nothing", "Ok", "host"} \cup Exceptions]

FramesInOrder(e) ==
  \A i \in DOMAIN e.native :
    /\ e.native[i].kind = "thunk" <=> i = 1
    /\ e.native[i].kind = "host" => i = Len(e.native)

\* An execution has a thunk, implementations and possibly one host function on
\* the native stack, in this order, each script frame at an instruction of its body.
TypeOK ==
  /\ outcome \in {"none", "finished", "exception"}
  /\ executions \in Seq(Execution)
  /\ \A i \in DOMAIN executions : FramesInOrder(executions[i])

\* Not kept when a method is executed without an object (a known deviation).
\* doc/status.md:56: a null pointer raises an exception, and no implementation
\* runs an instruction in an execution that has one.  (Where behaviours raise
\* none, and a method is always given its object, ImplementsMachine implies it.)
ScriptRunsActive ==
  \A e \in Range(executions) :
    /\ e.native # <<>> /\ Last(e.native).kind = "script" /\ e.state = "nothing"
    => e.status = "active"

Unwinding(e) == e.state \in Exceptions \/ (e.status = "exception" /\ e.native = <<>>)

\* An exception that native code has noticed takes its execution down: no
\* frame on the way waits for anything.
UnwindingEnds ==
  \A n \in 1 .. MaxExecutions :
    (Len(executions) = n /\ Unwinding(Top)) ~> (Len(executions) < n /\ outcome = "exception")

\* Not kept (a known deviation).
\* doc/compat.md:17: the context knows the system function it is calling.
CallingFunctionKnown ==
  \A e \in Range(executions) :
    /\ e.native # <<>> /\ Last(e.native).fn \in SystemFunction
    => e.calling = Last(e.native).fn

-----------------------------------------------------------------------------
(* The native frames of an execution, as calls of a script.                  *)

InHost(e) == e.native # <<>> /\ Last(e.native).kind = "host"
Scripts(e) == Len(e.native) - 1 - (IF InHost(e) THEN 1 ELSE 0)

AtSystemCall(e) ==
  LET frame == Last(e.native)
  IN  frame.kind = "script" /\ Body[frame.fn][frame.pc].op = "sys"
Doomed(e) ==
  \/ e.state \in Exceptions
  \/ e.state = "host" /\ e.status = "exception" /\ AtSystemCall(e)

NotCalled(e) ==
  \/ e.native = <<>> /\ e.program = "entry" /\ e.status = "active"
  \/ Scripts(e) = 0 /\ e.state = "nothing"

CallsOf(e) ==
  IF Doomed(e) THEN <<>>
  ELSE IF NotCalled(e) THEN <<[fn |-> e.fn, pc |-> 1]>>
  ELSE [i \in 1 .. Scripts(e) |->
          LET frame == e.native[i + 1]
          IN  [fn |-> frame.fn,
               pc |-> IF i = Scripts(e) /\ e.state # "nothing" THEN frame.pc + 1 ELSE frame.pc]]

MachineOf(e) == [calls  |-> CallsOf(e),
                 host   |-> IF InHost(e) THEN Last(e.native).fn ELSE None,
                 status |-> IF Doomed(e) THEN "exception" ELSE e.status]

Machine ==
  INSTANCE ScriptMachine WITH
    executions <- [i \in DOMAIN executions |-> MachineOf(executions[i])]

\* Unwinding native frames one test at a time is what a script sees as
\* an exception that ends its execution at once, and no other.
ImplementsMachine == Machine!Spec
=============================================================================
