-------------------------- MODULE MCScriptCallLayout --------------------------
(***************************************************************************)
(* Calls between script functions: where the values of one call lie, and    *)
(* which function the calls of a hierarchy of classes reach.  The two share *)
(* no state, and a behaviour is of one of them.                             *)
(***************************************************************************)
EXTENDS ScriptCallLayout, Devirtualization

\* Up to three parameters of a dword or two.
MCWidths == UNION {[1 .. n -> {1, 2}] : n \in 0 .. 3}
MCFunctions ==
  {g \in [returns : {"nothing", "register", "stack"}, method : BOOLEAN, virtual : BOOLEAN, widths : MCWidths] :
     g.virtual => g.method}
MCBuilt == {g \in MCFunctions : g.method /\ ~g.virtual /\ g.returns = "nothing"}

\* Functions of one value: the thunk finds no second one.
MCEntered == {g \in MCFunctions : ~g.virtual /\ Count(g) <= 1}
\* Of any number.
MCEnteredAny == {g \in MCFunctions : ~g.virtual}

MCStart ==
  [g \in MCFunctions |->
     LET before[n \in 1 .. Count(g) + 1] ==
           IF n = 1 THEN 0 ELSE before[n - 1] + Width(g, ScriptValue(g, n - 1))
     IN  before]

-----------------------------------------------------------------------------
Unused == [returns |-> "nothing", method |-> FALSE, virtual |-> FALSE, widths |-> <<>>]
NoCall == pc = "push" /\ via = "call" /\ f = Unused /\ depth = 0
NoClasses == classes = <<>>

MCInit == Init /\ ClassesInit
MCNext ==
  \/ NoClasses /\ Next /\ UNCHANGED classVars
  \/ NoCall /\ ClassesNext /\ UNCHANGED vars
MCSpec == MCInit /\ [][MCNext]_<<vars, classVars>>
=============================================================================
