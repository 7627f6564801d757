-------------------------------- MODULE Rect --------------------------------
(***************************************************************************)
(* The rectangles of server/rect.c, and the list of them that window_build_ *)
(* recs() of server/window.c makes of a window: it starts with the window, *)
(* subtracts what covers it and clips the rest to its ancestors.           *)
(*                                                                         *)
(* A list is the set of its rectangles: nothing depends on their order.    *)
(* The fields x1 and y1 are left out: no operation of rect.c reads them.   *)
(***************************************************************************)
EXTENDS Integers

CONSTANTS Rects,   \* the positions of windows
          Points   \* the points of the plane

Rectangle == [x0 : Int, y0 : Int, w : Nat, h : Nat]
Empty(r) == r.w = 0 \/ r.h = 0

XL(r) == r.x0
XR(r) == r.x0 + r.w
YO(r) == r.y0
YU(r) == r.y0 + r.h

\* rect_cont_point(), rect_cont_rect()
ContPoint(r, p) == /\ XL(r) <= p[1] /\ p[1] < XR(r)
                   /\ YO(r) <= p[2] /\ p[2] < YU(r)

ContRect(outer, inner) == /\ XL(outer) <= XL(inner) /\ XR(inner) <= XR(outer)
                          /\ YO(outer) <= YO(inner) /\ YU(inner) <= YU(outer)

Cells(r) == {p \in Points : ContPoint(r, p)}
Area(R) == {p \in Points : \E r \in R : ContPoint(r, p)}

ASSUME RectsAssumption == Rects \subseteq {r \in Rectangle : ~Empty(r)}
ASSUME PointsAssumption ==
  /\ Points \subseteq Int \X Int
  /\ \A r \in Rects : (XL(r) .. XR(r) - 1) \X (YO(r) .. YU(r) - 1) \subseteq Points

VARIABLES pos,       \* the position of the window
          rp,        \* the list of rectangles
          is_hidden

vars == <<pos, rp, is_hidden>>

-----------------------------------------------------------------------------
\* rect_create()
Create(x, y, w, h) == [x0 |-> x, y0 |-> y, w |-> w, h |-> h]

\* Mutant: a middle that reaches the last cell is not told from the end.
Compare_offByOne(al, ar, bl, br) ==
  IF bl <= al THEN IF br - 1 < al THEN "before"
                   ELSE IF br - 1 < ar - 1 THEN "start" ELSE "all"
  ELSE IF bl <= ar - 1 THEN IF br - 1 < ar THEN "middle" ELSE "end"
  ELSE "after"

\* rect_compare(), in one direction: where is bl .. br with respect to al .. ar?
Compare(al, ar, bl, br) ==
  IF bl <= al THEN IF br - 1 < al THEN "before"
                   ELSE IF br - 1 < ar - 1 THEN "start" ELSE "all"
  ELSE IF bl <= ar - 1 THEN IF br - 1 < ar - 1 THEN "middle" ELSE "end"
  ELSE "after"

Across(A, B) == Compare(XL(A), XR(A), XL(B), XR(B))
Down(A, B) == Compare(YO(A), YU(A), YO(B), YU(B))
Overlap(A, B) == {Across(A, B), Down(A, B)} \intersect {"before", "after"} = {}

\* Mutants: the rows under B are counted from its upper edge; the strip beside B is
\* as high as A.
Bottom_tooHigh(A, B) == Create(XL(A), YU(B), A.w, YU(A) - YO(B))
Left_fullHeight(A, B, y, h) == Create(XL(A), YO(A), XL(B) - XL(A), A.h)

\* The strips of A over and under B, and those beside B in h rows from y.
Top(A, B) == Create(XL(A), YO(A), A.w, YO(B) - YO(A))
Bottom(A, B) == Create(XL(A), YU(B), A.w, YU(A) - YU(B))
Left(A, B, y, h) == Create(XL(A), y, XL(B) - XL(A), h)
Right(A, B, y, h) == Create(XR(B), y, XR(A) - XR(B), h)

\* rect_subtract(): the pieces of A that are not in B.
Subtract(A, B) ==
  LET x == Across(A, B)
      y == Down(A, B)
      \* the rows that A and B share
      row == CASE y = "start" -> YO(A) [] y = "all" -> YO(A) [] OTHER -> YO(B)
      rows == CASE y = "start" -> YU(B) - YO(A) [] y = "all" -> A.h
                [] y = "middle" -> B.h [] OTHER -> YU(A) - YO(B)
      \* B cuts A from its upper or lower edge, with a rest of A at both sides
      notch == x = "middle" /\ y # "middle"
  IN  IF ~Overlap(A, B) THEN {A}
      ELSE IF notch
      THEN {Left(A, B, YO(A), A.h), Right(A, B, YO(A), A.h)}
           \union (IF y = "start" THEN {Create(XL(B), YU(B), B.w, YU(A) - YU(B))} ELSE {})
           \union (IF y = "end" THEN {Create(XL(B), YO(A), B.w, YO(B) - YO(A))} ELSE {})
      ELSE (IF y \in {"middle", "end"} THEN {Top(A, B)} ELSE {})
           \union (IF y \in {"start", "middle"} THEN {Bottom(A, B)} ELSE {})
           \union (IF x \in {"middle", "end"} THEN {Left(A, B, row, rows)} ELSE {})
           \union (IF x \in {"start", "middle"} THEN {Right(A, B, row, rows)} ELSE {})

Least(a, b) == IF a <= b THEN a ELSE b
Greatest(a, b) == IF a <= b THEN b ELSE a

\* rect_intersect(): the rectangle that A and B share, empty if there is none.
Intersect(A, B) ==
  LET x == Greatest(XL(A), XL(B))
      y == Greatest(YO(A), YO(B))
  IN  Create(x, y, Greatest(0, Least(XR(A), XR(B)) - x), Greatest(0, Least(YU(A), YU(B)) - y))

\* rect_clip(): what is left of A in B.
Clip(A, B) == IF Empty(Intersect(A, B)) THEN {} ELSE {Intersect(A, B)}

\* rect_list_subtract(), rect_list_clip()
ListSubtract(R, B) == UNION {Subtract(r, B) : r \in R}
ListClip(R, B) == UNION {Clip(r, B) : r \in R}

\* rect_union(), and rectUpdateDirty() of a dirty rectangle that is not empty.
Hull(A, B) ==
  LET x == Least(XL(A), XL(B))
      y == Least(YO(A), YO(B))
  IN  Create(x, y, Greatest(XR(A), XR(B)) - x, Greatest(YU(A), YU(B)) - y)

\* rectUpdateDirty()
UpdateDirty(R, B) == IF R.w # 0 THEN Hull(R, B) ELSE B

-----------------------------------------------------------------------------
\* window_build_recs(): a new list, for a window anywhere.
Build == /\ pos' \in Rects
         /\ rp' = {pos'}
         /\ is_hidden' = FALSE

\* Mutant: the flag tells of the last cut only.
Cover_lastOnly(B) == /\ rp' = ListSubtract(rp, B)
                     /\ is_hidden' = \E r \in rp : Overlap(r, B)
                     /\ UNCHANGED pos

\* A sibling, or the part of a child that lies in the work area, covers the window.
Cover(B) == /\ rp' = ListSubtract(rp, B)
            /\ is_hidden' = (is_hidden \/ \E r \in rp : Overlap(r, B))
            /\ UNCHANGED pos

\* The window is clipped to the work area of an ancestor.
ClipTo(B) == /\ rp' = ListClip(rp, B)
             /\ is_hidden' = (is_hidden \/ \E r \in rp : Clip(r, B) # {r})
             /\ UNCHANGED pos

Init == pos \in Rects /\ rp = {pos} /\ is_hidden = FALSE

Next == Build \/ \E B \in Rects : Cover(B) \/ ClipTo(B)

Spec == Init /\ [][Next]_vars

-----------------------------------------------------------------------------
(* Properties.                                                             *)

\* The rectangles of a list stay within the window; none is empty.
TypeOK ==
  /\ pos \in Rects /\ is_hidden \in BOOLEAN
  /\ \A r \in rp : r \in Rectangle /\ ~Empty(r) /\ ContRect(pos, r)

\* No cell is in two rectangles of a list, whatever the order of the cuts: each is
\* saved, redrawn and counted once.
Disjoint == \A r, s \in rp : r # s => Cells(r) \intersect Cells(s) = {}

\* rect.c implements the algebra of regions that module Screen computes with: each
\* operation on a list of rectangles does to the cells of the list what it is meant
\* to do, and reports whether one was lost, which is how is_hidden is found out.
RegionOf == INSTANCE Region WITH Shapes <- {Cells(r) : r \in Rects}, shown <- Area(rp)
IsRegion == RegionOf!Spec

\* is_hidden tells whether any cell of the window is missing, so that a window is
\* drawn to directly only if its list is the whole of it.
HiddenExact == is_hidden <=> Area(rp) # Cells(pos)
=============================================================================
