----------------------------- MODULE ScriptMachine -----------------------------
(***************************************************************************)
(* How a script runs, whatever runs it.                                     *)
(*                                                                          *)
(* An execution (asIScriptContext::Execute) has a stack of script calls.    *)
(* A dereferenced null pointer, or an exception set by a system function,   *)
(* takes all of its calls away at once and is what Execute returns; an      *)
(* exception set while a behaviour of an object runs (release, addref,      *)
(* destructor) is noticed after the next system call, or at the end.        *)
(* A system function may execute scripts itself: an exception of such an    *)
(* execution does not concern the ones around it.                           *)
(*                                                                          *)
(* ScriptCalls, the code asllvm generates, implements this specification.   *)
(***************************************************************************)
EXTENDS Naturals, Sequences

CONSTANTS
  Function,    \* script functions that have a body
  Body,        \* [Function -> Seq(instructions)]
  Overrides,   \* [virtual functions -> SUBSET Function]: what a call may reach
  Method,      \* the functions, script or system, that are called on an object
  Raising,     \* the system functions and behaviours that may set an exception
  NullThis,    \* may the host execute a method without an object?
  None,        \* no system function
  MaxExecutions

VARIABLES
  executions,  \* the nested executions, the innermost last
  outcome      \* what the execution that ended last returned to its caller

vars == <<executions, outcome>>

Top == executions[Len(executions)]
Call == Top.calls[Len(Top.calls)]
Instruction == Body[Call.fn][Call.pc]

Becomes(e) == executions' = [executions EXCEPT ![Len(executions)] = e]
At(calls, pc) == [calls EXCEPT ![Len(calls)].pc = pc]
Entered(f) == [fn |-> f, pc |-> 1]

Init == executions = <<>> /\ outcome = "none"

Execute(f) ==
  /\ executions # <<>> => Top.host # None
  /\ Len(executions) < MaxExecutions
  /\ executions' = Append(executions,
       [calls |-> <<Entered(f)>>, host |-> None, status |-> "active"])
  /\ UNCHANGED outcome

\* Where the host gave a method no object, the exception does not keep the
\* method from running: the one step of the thunk that no script asked for.
RunWithoutObject ==
  /\ NullThis /\ executions # <<>> /\ Top.status = "active" /\ Top.host = None
  /\ \E f \in Function \cap Method : Top.calls = <<Entered(f)>>
  /\ Becomes([Top EXCEPT !.status = "exception"])
  /\ UNCHANGED outcome

Running(ops) ==
  /\ executions # <<>> /\ Top.host = None /\ Top.calls # <<>>
  /\ Instruction.op \in ops
  /\ UNCHANGED outcome

Move ==
  /\ Running({"work", "check", "branch"})
  /\ \E pc \in {Call.pc + 1} \cup (IF Instruction.op = "branch" THEN {Instruction.to} ELSE {}) :
       Becomes([Top EXCEPT !.calls = At(@, pc)])

CallFunction ==
  /\ Running({"call", "vcall"})
  /\ \E f \in IF Instruction.op = "call" THEN {Instruction.callee}
              ELSE Overrides[Instruction.callee] :
       Becomes([Top EXCEPT !.calls = Append(@, Entered(f))])

CallHost ==
  /\ Running({"sys", "object"})
  /\ Becomes([Top EXCEPT !.host = Instruction.callee])

Return ==
  /\ Running({"ret"})
  /\ LET callers == SubSeq(Top.calls, 1, Len(Top.calls) - 1)
     IN  Becomes([Top EXCEPT !.calls = IF callers = <<>> THEN <<>>
                                       ELSE At(callers, callers[Len(callers)].pc + 1)])

Throw ==
  /\ Running({"check", "call", "vcall", "sys"})
  /\ Instruction.op \in {"check", "vcall"} \/ Instruction.callee \in Method
  /\ Becomes([Top EXCEPT !.calls = <<>>, !.status = "exception"])

HostRaises ==
  /\ executions # <<>> /\ Top.host \in Raising
  /\ Becomes([Top EXCEPT !.status = "exception"])
  /\ UNCHANGED outcome

HostReturns ==
  /\ executions # <<>> /\ Top.host # None
  /\ Becomes([Top EXCEPT !.host = None,
       !.calls = IF Instruction.op = "sys" /\ Top.status = "exception"
                 THEN <<>> ELSE At(@, Call.pc + 1)])
  /\ UNCHANGED outcome

Finish ==
  /\ executions # <<>> /\ Top.calls = <<>>
  /\ executions' = SubSeq(executions, 1, Len(executions) - 1)
  /\ outcome' = IF Top.status = "active" THEN "finished" ELSE "exception"

Next ==
  \/ \E f \in Function : Execute(f)
  \/ RunWithoutObject
  \/ Move \/ CallFunction \/ CallHost \/ Return \/ Throw
  \/ HostRaises \/ HostReturns \/ Finish

Spec == Init /\ [][Next]_vars
=============================================================================
