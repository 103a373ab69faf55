---------------------------- MODULE MCCanvasDraft -----------------------------
(* Small instances of CanvasDraft for TLC.                                 *)
EXTENDS CanvasDraft, TLC

CONSTANTS o1, o2, o3

Overlapping == {<<o1>>, <<o1, o2, o2>>}
OneBatch == {<<o1>>}
Patch == <<o3>>
Symmetry == Permutations(Users) \cup Permutations(Handlers)
=============================================================================
