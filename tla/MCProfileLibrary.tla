--------------------------- MODULE MCProfileLibrary ---------------------------
(* Symmetric slots and curves: no action prefers one of them.              *)
EXTENDS ProfileLibrary, TLC

Symmetry == Permutations(Slots) \union Permutations(Curves)
===============================================================================
