------------------------------- MODULE MCRect -------------------------------
(* All rectangles of a small grid, in every position to each other. *)
EXTENDS Rect

CONSTANTS Width, Height

Grid == (0 .. Width - 1) \X (0 .. Height - 1)
GridRects == {[x0 |-> p[1], y0 |-> p[2], w |-> q[1] - p[1] + 1, h |-> q[2] - p[2] + 1] :
                p \in Grid, q \in Grid} \intersect [x0 : Int, y0 : Int, w : 1 .. Width, h : 1 .. Height]
=============================================================================
