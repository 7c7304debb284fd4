----------------------------- MODULE MCTranslator -----------------------------
(***************************************************************************)
(* Every program of up to MaxInstructions instructions that the AngelScript *)
(* compiler may emit, and some longer ones with jump tables.                *)
(***************************************************************************)
EXTENDS Translator, FiniteSetsExt

CONSTANT MaxInstructions

\* A line of assembly: jumps name the number of a line.
Line(op, size, to, delta) == [op |-> op, size |-> size, to |-> to, delta |-> delta]
Ret == Line("ret", 1, 0, 0)
Push == Line("plain", 1, 0, 1)
Pop == Line("plain", 1, 0, -1)
Check == Line("check", 2, 0, 0)
Jmp(to) == Line("jmp", 2, to, 0)
Cond(to) == Line("cond", 2, to, 0)
Table(cases) == Line("jmpp", 1, cases, 0)

At(lines, k) == MapThenSumSet(LAMBDA j : lines[j].size, 1 .. k - 1)

Code(lines) ==
  LET at == [k \in 1 .. Len(lines) |-> At(lines, k)]
      number == [o \in Range(at) |-> CHOOSE k \in DOMAIN at : at[k] = o]
  IN  [o \in Range(at) |->
        LET l == lines[number[o]]
        IN  [op |-> l.op, size |-> l.size, delta |-> l.delta,
             arg |-> IF l.op \in {"jmp", "cond"} THEN at[l.to] - o - 2 ELSE l.to]]

Depths == 0 .. 2

\* The bytecode made of lines, if it is any: a set of at most one program.
Assembled(lines) ==
  LET code == Code(lines)
      p == [code |-> code, length |-> At(lines, Len(lines) + 1), depth |-> <<>>]
  IN  IF IsFlow(p)
      THEN {q \in {[p EXCEPT !.depth = d] : d \in [DOMAIN code -> Depths]} : IsBalanced(q)}
      ELSE {}

Lines(n) == {Push, Pop, Check, Table(1)} \cup {Jmp(k) : k \in 1 .. n} \cup {Cond(k) : k \in 1 .. n}

SmallPrograms ==
  UNION {UNION {Assembled(Append(lines, Ret)) : lines \in [1 .. n - 1 -> Lines(n)]} :
           n \in 2 .. MaxInstructions}

\* A switch whose first case is a break, the same in a loop, two switches, and
\* one on a value that was checked; nested loops; a choice between arguments.
LongerPrograms ==
  UNION {Assembled(lines) : lines \in {
    <<Table(2), Jmp(4), Jmp(5), Jmp(6), Check, Ret>>,
    <<Cond(8), Table(3), Jmp(6), Jmp(7), Jmp(8), Jmp(1), Check, Ret>>,
    <<Table(2), Jmp(4), Jmp(5), Check, Table(1), Jmp(7), Ret>>,
    <<Push, Check, Pop, Table(2), Jmp(6), Jmp(7), Check, Ret>>,
    <<Cond(7), Push, Pop, Cond(2), Check, Jmp(1), Ret>>,
    <<Push, Cond(5), Push, Jmp(6), Push, Pop, Pop, Ret>>}}

MCPrograms == SmallPrograms \cup LongerPrograms
=============================================================================
