---------------------------- MODULE MCScriptCalls ----------------------------
(***************************************************************************)
(* main() calls helper() and the virtual update(), then prints; helper()    *)
(* loops and calls a method of a registered type; one override of           *)
(* update() releases an object, the other calls the one it overrides.       *)
(***************************************************************************)
EXTENDS ScriptCalls, TLC

CONSTANTS main, helper, baseUpdate, derivedUpdate, update, print, length, release

MCFunction == {main, helper, baseUpdate, derivedUpdate}
MCVirtualFunction == {update}
MCSystemFunction == {print, length}
MCBehaviour == {release}
MCMethod == {baseUpdate, derivedUpdate, update, length, release}

Op(op) == [op |-> op, callee |-> None, to |-> 0]
OpOn(op, callee) == [op |-> op, callee |-> callee, to |-> 0]
OpTo(op, to) == [op |-> op, callee |-> None, to |-> to]

MCBody ==
  main :> <<Op("check"), OpOn("call", helper), OpOn("vcall", update), OpOn("sys", print),
            Op("work"), Op("ret")>>
  @@ helper :> <<Op("work"), OpOn("sys", length), OpTo("branch", 1), Op("ret")>>
  @@ baseUpdate :> <<OpOn("object", release), Op("check"), Op("ret")>>
  @@ derivedUpdate :> <<OpOn("call", baseUpdate), OpOn("sys", print), Op("ret")>>
MCOverrides == update :> {baseUpdate, derivedUpdate}
MCNativeOf == print :> "&print" @@ length :> "&length"
=============================================================================
