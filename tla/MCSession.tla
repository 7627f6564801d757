----------------------------- MODULE MCSession -----------------------------
(* Session with three clients and two font files. *)
EXTENDS Session, TLC

CONSTANTS c1, c2, c3, fixed, lucida
=============================================================================
