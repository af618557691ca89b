-------------------------- MODULE MCFirestoreWrites --------------------------
(* Three writes, one of them refused. *)
EXTENDS FirestoreWrites

CONSTANTS w1, w2, w3

MCDocument == {w1, w2, w3}
MCForbidden == {w2}

=============================================================================
