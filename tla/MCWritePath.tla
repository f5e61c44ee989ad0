---------------------------- MODULE MCWritePath ----------------------------
(***************************************************************************)
(* Instances of WritePath small enough for TLC.                            *)
(***************************************************************************)
EXTENDS WritePathInv, TLC

OneOp == [w \in Write |-> "send"]
Symmetry ==
    Permutations(Action) \cup Permutations(Card) \cup Permutations(Run)
        \cup Permutations(Worker) \cup Permutations(Write)
============================================================================
