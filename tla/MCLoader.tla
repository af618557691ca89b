-------------------------------- MODULE MCLoader --------------------------------
(* Two pages of characters and one of a line; two late answers. *)
EXTENDS Loader

CONSTANTS c1, c2, l1

MCCharacterPage == {c1, c2}
MCLinePage == {l1}

=============================================================================
