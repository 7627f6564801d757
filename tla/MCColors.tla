------------------------------ MODULE MCColors ------------------------------
(* Colors with four colours, two of them shared by all windows.               *)
EXTENDS Colors, TLC

Symmetry == Permutations(Window) \union Permutations(Colour)
=============================================================================
