------------------------------- MODULE Region -------------------------------
(***************************************************************************)
(* What a list of rectangles is for: the part of a window that is in sight *)
(* while, one after the other, windows that cover it and windows that it   *)
(* must not leave are taken into account, and whether any of it is lost.   *)
(***************************************************************************)
CONSTANT Shapes  \* the sets of cells that a window may have
VARIABLES shown, is_hidden

Build == shown' \in Shapes /\ is_hidden' = FALSE

Cover(S) == /\ shown' = shown \ S
            /\ is_hidden' = (is_hidden \/ shown \intersect S # {})

ClipTo(S) == /\ shown' = shown \intersect S
             /\ is_hidden' = (is_hidden \/ shown \ S # {})

Init == shown \in Shapes /\ is_hidden = FALSE

Next == Build \/ \E S \in Shapes : Cover(S) \/ ClipTo(S)

Spec == Init /\ [][Next]_<<shown, is_hidden>>
=============================================================================
