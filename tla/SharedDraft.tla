----------------------------- MODULE SharedDraft ------------------------------
(***************************************************************************)
(* What the canvas promises to those who edit one draft together: batches  *)
(* take effect one at a time and as a whole, each on the text the one      *)
(* before it left; an operation is applied by one batch or refused, once   *)
(* and for all; and what is restored is a text the draft once had.  It     *)
(* says nothing of locks, revisions, hashes, patches or requests.          *)
(***************************************************************************)
EXTENDS Naturals, Sequences

CONSTANT Batches     \* sequences of operations

VARIABLES text,      \* the draft, as the operations it is the result of
          applied,   \* operations some batch applied
          refused,   \* operations that were refused
          kept       \* texts somebody has kept

sharedVars == <<text, applied, refused, kept>>

SharedInit == text = <<>> /\ applied = {} /\ refused = {} /\ kept = {}

Decided == applied \cup refused

(* What is left of a batch, in its order. *)
Edit(batch) ==
  LET left == {k \in DOMAIN batch : batch[k] \notin Decided}
  IN /\ applied' = applied \cup {batch[k] : k \in left}
     /\ UNCHANGED <<refused, kept>>
     /\ \E n \in 0 .. Len(batch) : \E place \in [1 .. n -> left] :
          /\ \A i, j \in 1 .. n : i < j => place[i] < place[j]
          /\ \A k \in left : \E i \in 1 .. n : place[i] = k
          /\ text' = text \o [i \in 1 .. n |-> batch[place[i]]]

Refuse(op) ==
  /\ op \notin Decided
  /\ refused' = refused \cup {op}
  /\ UNCHANGED <<text, applied, kept>>

(* Texts are kept and forgotten. *)
Keep == UNCHANGED <<text, applied, refused>> /\ kept' \subseteq kept \cup {text}

Restore == UNCHANGED <<applied, refused>> /\ text' \in kept /\ kept' \subseteq kept

SharedNext ==
  \/ Keep \/ Restore
  \/ \E batch \in Batches : Edit(batch) \/ \E k \in DOMAIN batch : Refuse(batch[k])

SharedSpec == SharedInit /\ [][SharedNext]_sharedVars
=============================================================================
