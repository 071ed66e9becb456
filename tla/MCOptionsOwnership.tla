------------------------- MODULE MCOptionsOwnership -------------------------
(***************************************************************************)
(* Two Options (a copy and its original) and four native objects: two for  *)
(* slots, one that replaces another, one held elsewhere.  The              *)
(* handles are interchangeable, and so are the objects.                    *)
(***************************************************************************)
EXTENDS OptionsOwnership, TLC

Symmetry == Permutations(Handles) \cup Permutations(Objects)

=============================================================================
