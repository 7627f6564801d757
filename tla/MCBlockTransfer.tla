-------------------------- MODULE MCBlockTransfer --------------------------
(* BlockTransfer with blocks of one packet, of several, of a last packet that *)
(* is not full, of none, and with lines that do not fit.                      *)
EXTENDS BlockTransfer

CONSTANTS v, w, c

SomeShapes == {<<0, 4>>, <<1, 2000>>, <<2, 2000>>, <<5, 2000>>, <<3, 1600>>, <<1, 4004>>}
=============================================================================
