---------------------------- MODULE MCCountCache ----------------------------
(* Two readers and the owner may start tasks at once. *)
EXTENDS CountCache

CONSTANTS r1, r2, t1, t2     \* model values
=============================================================================
