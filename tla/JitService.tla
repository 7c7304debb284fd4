------------------------------ MODULE JitService ------------------------------
(***************************************************************************)
(* What asllvm promises the AngelScript engine, without saying how.         *)
(*                                                                          *)
(* The engine requests the compilation of functions (asIJITCompiler::       *)
(* CompileFunction).  At some later point code becomes available for        *)
(* requested functions, and a function is published -- its asJITFunction    *)
(* slot is filled -- only when everything requested so far has code, and    *)
(* with it everything the function may call.  What has been published is    *)
(* never taken back, and leads to the function's own code.                  *)
(*                                                                          *)
(* BuildPipeline implements this specification.                             *)
(***************************************************************************)
CONSTANTS
  Function,   \* the script functions of the application
  Callees,    \* [Function -> SUBSET Function]: what a function may call
  None        \* no code

VARIABLES
  requested,  \* the functions CompileFunction was called for
  available,  \* the functions the JIT holds code for
  entry       \* entry[f]: the function whose code f's slot leads to, or None

vars == <<requested, available, entry>>

Init ==
  /\ requested = {}
  /\ available = {}
  /\ entry = [f \in Function |-> None]

Request(f) ==
  /\ requested' = requested \cup {f}
  /\ UNCHANGED <<available, entry>>

Emit(S) ==
  /\ S \subseteq requested \ available
  /\ available' = available \cup S
  /\ UNCHANGED <<requested, entry>>

Publish(S) ==
  /\ S \subseteq requested /\ requested \subseteq available
  /\ \A f \in S : Callees[f] \subseteq available
  /\ entry' = [f \in Function |-> IF f \in S THEN f ELSE entry[f]]
  /\ UNCHANGED <<requested, available>>

Next ==
  \/ \E f \in Function : Request(f)
  \/ \E S \in SUBSET Function : Emit(S) \/ Publish(S)

Spec == Init /\ [][Next]_vars

\* A function that native code may be entered through is entered at its own
\* code, and can call no function that has none.
EntriesAreClosed ==
  \A f \in Function :
    /\ entry[f] \in {None, f}
    /\ entry[f] # None => f \in available /\ Callees[f] \subseteq available

\* A published entry stays.
EntriesAreFinal == [][\A f \in Function : entry[f] # None => entry'[f] = entry[f]]_vars
=============================================================================
