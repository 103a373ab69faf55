--------------------------- MODULE MCCanvasVersions ---------------------------
(* Small instances of CanvasVersions for TLC.                              *)
EXTENDS CanvasVersions, TLC

CONSTANTS bad

BadBatch == {<<bad>>}
NoPatch == <<>>
Runtime == <<>>
Symmetry == Permutations(Handlers)
=============================================================================
