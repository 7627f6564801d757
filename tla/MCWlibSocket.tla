---------------------------- MODULE MCWlibSocket ----------------------------
(* WlibSocket with small rings, buffers and sockets. *)
EXTENDS WlibSocket, TLC

CONSTANTS v, w
Symmetry == Permutations({v, w})
=============================================================================
