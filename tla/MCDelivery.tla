------------------------------ MODULE MCDelivery ------------------------------
(* Small instances of Delivery for TLC.                                    *)
EXTENDS Delivery, TLC

Symmetry == Permutations(Handlers) \cup Permutations(Deliveries) \cup Permutations(Tasks)
              \cup Permutations(Attempts) \cup Permutations(Keys)
=============================================================================
