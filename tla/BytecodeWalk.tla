----------------------------- MODULE BytecodeWalk -----------------------------
(***************************************************************************)
(* How the AngelScript virtual machine runs the bytecode of one function.   *)
(*                                                                          *)
(* Instructions are told apart by what they do to the program pointer; what *)
(* they do to data is the number of dwords they push or pop.                *)
(*                                                                          *)
(* Translator, the code made of the bytecode, implements this module.       *)
(***************************************************************************)
EXTENDS Integers

CONSTANT Programs

VARIABLES
  program,  \* the function's bytecode
  pc,       \* offset of the instruction that is next
  sp,       \* dwords on the temporary stack
  status    \* "running", "returned" or "exception"

vars == <<program, pc, sp, status>>

Instruction == program.code[pc]

Init == program \in Programs /\ pc = 0 /\ sp = 0 /\ status = "running"

Running(ops) == status = "running" /\ Instruction.op \in ops

To(next) ==
  /\ pc' = next
  /\ sp' = sp + Instruction.delta
  /\ UNCHANGED <<program, status>>

Work == Running({"plain", "check"}) /\ To(pc + Instruction.size)
Jump == Running({"jmp"}) /\ To(pc + 2 + Instruction.arg)
Branch == Running({"cond"}) /\ \E next \in {pc + 2, pc + 2 + Instruction.arg} : To(next)

\* Each entry of a jump table is a JMP of two dwords.
Select == Running({"jmpp"}) /\ \E case \in 0 .. Instruction.arg - 1 : To(pc + 1 + 2 * case)

Stop(how) == status' = how /\ UNCHANGED <<program, pc, sp>>
Fail == Running({"check"}) /\ Stop("exception")
Return == Running({"ret"}) /\ Stop("returned")

CallAgain ==
  /\ status # "running"
  /\ pc' = 0 /\ sp' = 0 /\ status' = "running"
  /\ UNCHANGED program

Next == Work \/ Jump \/ Branch \/ Select \/ Fail \/ Return \/ CallAgain

Spec == Init /\ [][Next]_vars
=============================================================================
