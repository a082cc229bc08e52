--------------------------- MODULE MCChildClaim ---------------------------
(***************************************************************************)
(* Instances of ChildClaim for TLC.  Names of objects, labels and, as long *)
(* as the controller can sync them all, templates are interchangeable.     *)
(***************************************************************************)
EXTENDS ChildClaim, TLC

Symmetry == Permutations(Children) \union Permutations(Labels) \union Permutations(Templates)
=============================================================================
