--------------------------- MODULE MCBuildPipeline ---------------------------
(***************************************************************************)
(* Two script modules of one engine and one of another.                     *)
(*                                                                          *)
(*   A: main() calls helper() and the factory stub of a template, prints,   *)
(*      and calls update() virtually; update() is a shared method A owns    *)
(*   B: main(), declared like A's, calls A's update() both ways and the stub *)
(*   C: a function of a second engine                                       *)
(*                                                                          *)
(* The two length functions are one native method of two instances of a     *)
(* template: one declaration, one address.                                  *)
(***************************************************************************)
EXTENDS BuildPipeline, TLC

CONSTANTS A, B, C, aMain, aHelper, update, bMain, stub, cMain,
          print, lengthOfInts, lengthOfFloats

MCFunction == {aMain, aHelper, update, bMain, stub, cMain}
MCSystemFunction == {print, lengthOfInts, lengthOfFloats}
MCScriptModule == {A, B, C}

MCContents == A :> {aMain, aHelper, update, stub} @@ B :> {bMain, update, stub}
              @@ C :> {cMain}
MCModuleOf == aMain :> A @@ aHelper :> A @@ update :> A @@ bMain :> B
              @@ stub :> Shared @@ cMain :> C
MCEngineOf == [f \in MCFunction |-> IF f = cMain THEN "second" ELSE "first"]
MCDeclOf == aMain :> "main" @@ bMain :> "main" @@ cMain :> "main"
            @@ aHelper :> "helper" @@ update :> "update" @@ stub :> "array"
MCCalls == aMain :> {aHelper, stub} @@ aHelper :> {} @@ update :> {}
           @@ bMain :> {update, stub} @@ stub :> {} @@ cMain :> {}
MCVirtualCalls == [f \in MCFunction |-> IF f \in {aMain, bMain} THEN {update} ELSE {}]
MCSystemCalls == aMain :> {print, lengthOfInts} @@ aHelper :> {}
                 @@ update :> {lengthOfInts, lengthOfFloats}
                 @@ bMain :> {lengthOfFloats} @@ stub :> {print} @@ cMain :> {}
MCSystemDeclOf == print :> "print" @@ lengthOfInts :> "length" @@ lengthOfFloats :> "length"
MCNativeOf == print :> "&print" @@ lengthOfInts :> "&length" @@ lengthOfFloats :> "&length"
=============================================================================
