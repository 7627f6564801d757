---------------------------- MODULE MCWindowTree ----------------------------
(* WindowTree on a small instance: two clients and two windows at a time, of  *)
(* every kind that the handlers tell apart.                                   *)
EXTENDS WindowTree

CONSTANTS a, b

AllKinds == {{"W_MOVE", "W_TITLE", "W_NOMOUSE"}, {"W_NOBORDER", "EV_MOUSE"}, {"W_TOP"}}
OneButton == {{"left"}, {"left", "right"}}
=============================================================================
