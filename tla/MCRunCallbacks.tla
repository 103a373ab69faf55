---------------------------- MODULE MCRunCallbacks ----------------------------
(* Small instances of RunCallbacks for TLC.                                *)
EXTENDS RunCallbacks, TLC

Symmetry == Permutations(Handlers) \cup Permutations(Steps) \cup Permutations(Callbacks)
              \cup Permutations(Artifacts)

(* The artifacts of a run are handed in without a callback on the way:     *)
(* nothing that ingestRuntimeArtifact reads is written by callbacks.       *)
ArtifactsApart == documents = {} \/ \A c \in Callbacks : receipt[c] = "absent"
=============================================================================
