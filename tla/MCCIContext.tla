---------------------------- MODULE MCCIContext ----------------------------
(***************************************************************************)
(* Three images: one without a tag, one named like a fixed stage, one with *)
(* more units than another and with two definitions, a variant of which    *)
(* supports a platform of its own.                                         *)
(***************************************************************************)
EXTENDS CIContext, TLC

MCNames == {1, 2, 3}
MCUnits == (1 :> 0) @@ (2 :> 1) @@ (3 :> 2)

amd64 == <<"amd64">>
arm64 == <<"linux", "arm64">>
armv7 == <<"linux", "arm", "v7">>
windows == <<"windows", "amd64">>

MCDefinitions ==
    (1 :> {[platforms |-> {}, variants |-> {}]}) @@
    (2 :> {[platforms |-> {<<"linux", "amd64">>, amd64, windows}, variants |-> {{}, {armv7}}]}) @@
    (3 :> {[platforms |-> {}, variants |-> {{windows, arm64}}],
           [platforms |-> {<<"arm64">>, arm64}, variants |-> {}]})

MCGlobals == {{amd64}, {amd64, <<"linux", "amd64">>, armv7}}
=============================================================================
