------------------------------ MODULE MCScreen ------------------------------
(* Screen on a strip of a few cells: a bordered window and a plain one that   *)
(* change their sizes, and plain windows with a bordered container.           *)
EXTENDS Screen, TLC

CONSTANTS w1, w2, w3

Strip == <<3, 1>>
LongStrip == <<4, 1>>
SideBorder == <<1, 0>>
Wide == {<<2, 1>>, <<3, 1>>}
Small == {<<1, 1>>}
Inside == {<<0, 0>>, <<1, 0>>}
AtEdge == {<<0, 0>>, <<-1, 0>>}
Nearby == (-1 .. 3) \X {0}
Near == (0 .. 2) \X {0}
OnStrip == (0 .. 1) \X {0}
Symmetry == Permutations(Window \ Container)
=============================================================================
