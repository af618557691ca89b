------------------------------ MODULE MCComposer ------------------------------
(***************************************************************************)
(* Composer for TLC: a character known from the start, two that can be     *)
(* registered, the second with the name of the first, and one more line    *)
(* for the known character.                                                *)
(***************************************************************************)
EXTENDS Composer, TLC

CONSTANTS woody, buzz, bo, woodyFirst, woodySecond, buzzFirst, boFirst

MCCharacter == {woody, buzz, bo}
MCLine == {woodyFirst, woodySecond, buzzFirst, boFirst}
MCFirstLine == (woody :> woodyFirst) @@ (buzz :> buzzFirst) @@ (bo :> boFirst)
MCCharacterOf == (woodyFirst :> woody) @@ (woodySecond :> woody)
                 @@ (buzzFirst :> buzz) @@ (boFirst :> bo)
MCNameOf == (woody :> "w") @@ (buzz :> "b") @@ (bo :> "w")
MCEarly == <<woody>>

=============================================================================
