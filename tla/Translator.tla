------------------------------ MODULE Translator ------------------------------
(***************************************************************************)
(* FunctionBuilder::translate_bytecode: two walks over the bytecode of a    *)
(* function make basic blocks of it, which then run as native code.         *)
(*                                                                          *)
(* The first walk (preprocess_instruction) finds the offsets that need a    *)
(* block and the jump tables, the second (translate_instruction) fills the  *)
(* blocks, with a stack pointer that only exists while it translates: an    *)
(* instruction uses the offset m_stack_pointer has when it is reached in    *)
(* the order of the bytecode, whatever leads to it when it runs.            *)
(***************************************************************************)
EXTENDS Integers, Sequences, Functions

\* A program: its instructions by offset, its length, and how many dwords are
\* on the stack at each instruction (asCByteCode::PostProcess makes sure that
\* this is the same along every path, and removes what no path reaches).
CONSTANT Programs

\* Offsets the instruction at o can be followed by.
Following(p, o) ==
  LET ins == p.code[o]
  IN  CASE ins.op = "jmp"  -> {o + 2 + ins.arg}
        [] ins.op = "cond" -> {o + 2, o + 2 + ins.arg}
        [] ins.op = "jmpp" -> {o + 1 + 2 * case : case \in 0 .. ins.arg - 1}
        [] ins.op = "ret"  -> {}
        [] OTHER           -> {o + ins.size}

Jumps == {"jmp", "cond", "jmpp"}

\* An instruction is in one piece of the bytecode, of the size its kind has.
IsBytecode(p) ==
  /\ p.length \in Nat /\ DOMAIN p.code \subseteq 0 .. p.length - 1
  /\ \A o \in DOMAIN p.code :
       /\ p.code[o].op \in {"plain", "check", "ret"} \cup Jumps
       /\ p.code[o].size \in Nat \ {0} /\ p.code[o].delta \in Int /\ p.code[o].arg \in Int
       /\ p.code[o].op \in {"jmp", "cond"} => p.code[o].size = 2
       /\ p.code[o].op = "jmpp" => p.code[o].size = 1
       /\ \A q \in DOMAIN p.code : o < q => o + p.code[o].size <= q

\* What the compiler of AngelScript makes sure of: paths lead to instructions,
\* and every instruction is on one; there is one RET, at the end; ...
IsFlow(p) ==
  /\ 0 \in DOMAIN p.code
  /\ \A o \in DOMAIN p.code :
       /\ Following(p, o) \subseteq DOMAIN p.code
       /\ o + p.code[o].size \in DOMAIN p.code \cup {p.length}
       /\ p.code[o].op = "ret" <=> o + p.code[o].size = p.length
       /\ p.code[o].op = "jmpp" =>
            p.code[o].arg > 0 /\ \A n \in Following(p, o) : p.code[n].op = "jmp"
  /\ \A o \in DOMAIN p.code \ {0} : \E from \in DOMAIN p.code : o \in Following(p, from)

\* ... and paths agree on the stack.
IsBalanced(p) ==
  /\ p.depth \in [DOMAIN p.code -> Int] /\ p.depth[0] = 0
  /\ \A o \in DOMAIN p.code :
       /\ \A n \in Following(p, o) : p.depth[n] = p.depth[o] + p.code[o].delta
       /\ p.code[o].op = "ret" => p.depth[o] = 0 /\ p.code[o].delta = 0

ProgramsAssumption == \A p \in Programs : IsBytecode(p) /\ IsFlow(p) /\ IsBalanced(p)
ASSUME ProgramsAssumption

VARIABLES
  program,
  phase,      \* "preprocess", "translate", "native", or "rejected" by an assertion
  offset,     \* of the instruction the walk is at
  jumpMap,    \* offsets that have a block (m_jump_map)
  switchMap,  \* targets by the offset of the JMPP (m_switch_map)
  current,    \* current_switch_offset and handling_jump_table
  sp,         \* m_stack_pointer - variable_space()
  block,      \* the block instructions are inserted into
  blocks,     \* what the blocks hold
  place,      \* block and index native code is at
  status      \* of the call of the native function

translatorVars == <<program, phase, offset, jumpMap, switchMap, current, sp, block, blocks,
          place, status>>

-----------------------------------------------------------------------------
(* Blocks and what is in them.                                               *)

Entry == <<"entry", 0>>
Label(o) == <<"branch_to", o>>
OnTrue(o) == <<"setVmException", o>>
OnFalse(o) == <<"doNotSetVmException", o>>

\* An instruction of a block remembers the bytecode it is made of, and the
\* stack pointer its accesses use.
Emitted(kind, to) == [kind |-> kind, to |-> to, offset |-> offset, sp |-> sp]

Terminators == {"br", "condbr", "switch", "ret", "fail"}
HasTerminator(code) == code # <<>> /\ code[Len(code)].kind \in Terminators

WithBlocks(old, ids) == [b \in DOMAIN old \cup ids |-> IF b \in DOMAIN old THEN old[b] ELSE <<>>]
Insert(old, b, what) == [old EXCEPT ![b] = Append(@, what)]

TranslatorInit ==
  /\ program \in Programs
  /\ phase = "preprocess" /\ offset = 0
  /\ jumpMap = {} /\ switchMap = <<>>
  /\ current = [at |-> 0, handling |-> FALSE]
  /\ sp = 0
  /\ block = Entry /\ blocks = [b \in {Entry} |-> <<>>]
  /\ place = <<Entry, 1>> /\ status = "running"

-----------------------------------------------------------------------------
(* The first walk.                                                           *)

Ins == program.code[offset]
AtOffset(ops) == offset < program.length /\ Ins.op \in ops

BranchTarget == offset + 2 + Ins.arg
FailTarget == offset + 2

Preprocess(ops) ==
  /\ phase = "preprocess" /\ AtOffset(ops)
  /\ offset' = offset + Ins.size
  /\ UNCHANGED <<program, phase, sp, block, place, status>>

InsertLabels(offsets) ==
  /\ jumpMap' = jumpMap \cup offsets
  /\ blocks' = WithBlocks(blocks, {Label(o) : o \in offsets})

PreprocessTable ==
  /\ Preprocess({"jmpp"})
  /\ current' = [at |-> offset, handling |-> TRUE]
  /\ UNCHANGED <<jumpMap, switchMap, blocks>>

Targets(o) == IF o \in DOMAIN switchMap THEN switchMap[o] ELSE <<>>

PreprocessJump ==
  /\ Preprocess({"jmp"})
  /\ InsertLabels({BranchTarget} \cup (IF current.handling THEN {offset} ELSE {}))
  /\ switchMap' = IF current.handling
                  THEN [o \in DOMAIN switchMap \cup {current.at} |->
                         IF o = current.at THEN Append(Targets(o), Label(offset)) ELSE switchMap[o]]
                  ELSE switchMap
  /\ UNCHANGED current

PreprocessBranch ==
  /\ Preprocess({"cond"})
  /\ InsertLabels({FailTarget, BranchTarget})
  /\ current' = [current EXCEPT !.handling = FALSE]
  /\ UNCHANGED switchMap

PreprocessOther ==
  /\ Preprocess({"plain", "check", "ret"})
  /\ current' = [current EXCEPT !.handling = FALSE]
  /\ UNCHANGED <<jumpMap, switchMap, blocks>>

StartTranslation ==
  /\ phase = "preprocess" /\ offset = program.length
  /\ phase' = "translate" /\ offset' = 0
  /\ UNCHANGED <<program, jumpMap, switchMap, current, sp, block, blocks, place, status>>

-----------------------------------------------------------------------------
(* The second walk.                                                          *)

IsLabel == offset \in jumpMap

FallsThrough_Always(code) == TRUE
FallsThrough(code) == ~HasTerminator(code)

\* switch_to_block: the block, and the blocks, an instruction finds.
InsertBlock == IF IsLabel THEN Label(offset) ELSE block
Switched ==
  IF IsLabel /\ FallsThrough(blocks[block])
  THEN Insert(blocks, block, Emitted("br", <<Label(offset)>>))
  ELSE blocks

StackAfter(ins) == sp + ins.delta

Translate(ops) ==
  /\ phase = "translate" /\ AtOffset(ops)
  /\ IsLabel => sp = 0
  /\ offset' = offset + Ins.size
  /\ sp' = StackAfter(Ins)
  /\ UNCHANGED <<program, phase, jumpMap, switchMap, current, place, status>>

Emit(kind, to) == blocks' = Insert(Switched, InsertBlock, Emitted(kind, to))

TranslateWork ==
  /\ Translate({"plain"})
  /\ Emit("work", <<>>)
  /\ block' = InsertBlock

\* emit_check_boolean, in an implementation.
TranslateCheck ==
  /\ Translate({"check"})
  /\ blocks' = Insert(Insert(WithBlocks(Switched, {OnTrue(offset), OnFalse(offset)}),
                             InsertBlock, Emitted("condbr", <<OnTrue(offset), OnFalse(offset)>>)),
                      OnTrue(offset), Emitted("fail", <<>>))
  /\ block' = OnFalse(offset)

TranslateJump ==
  /\ Translate({"jmp"})
  /\ Emit("br", <<Label(BranchTarget)>>)
  /\ block' = InsertBlock

TranslateBranch ==
  /\ Translate({"cond"})
  /\ Emit("condbr", <<Label(BranchTarget), Label(FailTarget)>>)
  /\ block' = InsertBlock

SwitchTargets_NoFirst(targets) == Append(Tail(targets), targets[1])
SwitchTargets(targets) == targets

TranslateTable ==
  /\ Translate({"jmpp"})
  /\ Emit("switch", SwitchTargets(switchMap[offset]))
  /\ block' = InsertBlock

TranslateReturn ==
  /\ Translate({"ret"})
  /\ Emit("ret", <<>>)
  /\ block' = InsertBlock

\* The assertions on empty_stack(), at a label and at the end.
Reject ==
  /\ phase = "translate"
  /\ offset = program.length \/ IsLabel
  /\ sp # 0
  /\ phase' = "rejected"
  /\ UNCHANGED <<program, offset, jumpMap, switchMap, current, sp, block, blocks, place, status>>

Finalize ==
  /\ phase = "translate" /\ offset = program.length
  /\ sp = 0
  /\ phase' = "native"
  /\ UNCHANGED <<program, offset, jumpMap, switchMap, current, sp, block, blocks, place, status>>

-----------------------------------------------------------------------------
(* The native code.                                                          *)

Here == blocks[place[1]][place[2]]

Native(kinds) ==
  /\ phase = "native" /\ status = "running"
  /\ Here.kind \in kinds
  /\ UNCHANGED <<program, phase, offset, jumpMap, switchMap, current, sp, block, blocks>>

NativeWork == Native({"work"}) /\ place' = <<place[1], place[2] + 1>> /\ UNCHANGED status

NativeBranch ==
  /\ Native({"br", "condbr"})
  /\ \E b \in Range(Here.to) : place' = <<b, 1>>
  /\ UNCHANGED status

\* The script has made sure that the value is one of the table's.
NativeSwitch ==
  /\ Native({"switch"})
  /\ \E case \in 0 .. program.code[Here.offset].arg - 1 : place' = <<Here.to[case + 1], 1>>
  /\ UNCHANGED status

NativeReturn ==
  /\ Native({"ret", "fail"})
  /\ status' = IF Here.kind = "ret" THEN "returned" ELSE "exception"
  /\ UNCHANGED place

CallAgain ==
  /\ phase = "native" /\ status # "running"
  /\ place' = <<Entry, 1>> /\ status' = "running"
  /\ UNCHANGED <<program, phase, offset, jumpMap, switchMap, current, sp, block, blocks>>

TranslatorNext ==
  \/ PreprocessTable \/ PreprocessJump \/ PreprocessBranch \/ PreprocessOther
  \/ StartTranslation
  \/ TranslateWork \/ TranslateCheck \/ TranslateJump \/ TranslateBranch
  \/ TranslateTable \/ TranslateReturn
  \/ Reject \/ Finalize
  \/ NativeWork \/ NativeBranch \/ NativeSwitch \/ NativeReturn \/ CallAgain

TranslatorSpec == TranslatorInit /\ [][TranslatorNext]_translatorVars

-----------------------------------------------------------------------------
(* Properties.                                                               *)

Blocks ==
  {Entry} \cup UNION {{Label(o), OnTrue(o), OnFalse(o)} : o \in DOMAIN program.code}

\* Labels are offsets of instructions, tables lead to labels, and instructions
\* are inserted into a block there is.
WellFormed ==
  /\ program \in Programs
  /\ phase \in {"preprocess", "translate", "native", "rejected"}
  /\ offset \in DOMAIN program.code \cup {program.length}
  /\ jumpMap \subseteq DOMAIN program.code
  /\ \A o \in DOMAIN switchMap :
       program.code[o].op = "jmpp" /\ Range(switchMap[o]) \subseteq {Label(l) : l \in jumpMap}
  /\ DOMAIN blocks \subseteq Blocks /\ block \in DOMAIN blocks
  /\ place[1] \in DOMAIN blocks /\ place[2] \in 1 .. Len(blocks[place[1]]) + 1
  /\ status \in {"running", "returned", "exception"}

\* What the LLVM verifier asks of a function: a block ends with its only
\* terminator, and leads to blocks of the function.
BlocksAreTerminated ==
  phase = "native" =>
    \A b \in DOMAIN blocks :
      /\ HasTerminator(blocks[b])
      /\ \A k \in 1 .. Len(blocks[b]) :
           /\ blocks[b][k].kind \in Terminators => k = Len(blocks[b])
           /\ Range(blocks[b][k].to) \subseteq DOMAIN blocks

\* The assertions reject a function only if the stack is in use where paths meet.
RejectsOnlyUsedStacks ==
  phase = "rejected" => \E o \in jumpMap : program.depth[o] # 0

\* Blocks are what LLVM verifies and execution stays in them; no function is
\* rejected whose paths meet with an empty stack.
BlocksRight == WellFormed /\ BlocksAreTerminated /\ RejectsOnlyUsedStacks

\* Native code follows the paths of the bytecode, and at each instruction it
\* uses the stack offsets the virtual machine would.
Walk == INSTANCE BytecodeWalk WITH
  pc <- IF phase = "native" THEN Here.offset ELSE 0,
  sp <- IF phase = "native" THEN Here.sp ELSE 0

ImplementsBytecode == Walk!Spec
=============================================================================
