--------------------------- MODULE MCClipboard ---------------------------
(* Processes and clips are interchangeable.                               *)
EXTENDS Clipboard, TLC

Symmetry == Permutations(Process) \union Permutations(Clip) \union Permutations(Data)
=============================================================================
