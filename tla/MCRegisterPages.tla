----------------------------- MODULE MCRegisterPages -----------------------------
(* Three cells for the three pages: reuse is possible, and so is its absence. *)
EXTENDS RegisterPages, TLC

CONSTANTS c1, c2, c3

MCCell == {c1, c2, c3}

\* The cells differ only by what was put into them.
CellSymmetry == Permutations(MCCell)

=============================================================================
