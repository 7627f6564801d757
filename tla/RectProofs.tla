----------------------------- MODULE RectProofs -----------------------------
(***************************************************************************)
(* Proofs about module Rect, for rectangles of any size anywhere.          *)
(***************************************************************************)
EXTENDS Rect, TLAPS

-----------------------------------------------------------------------------
(* The operations on rectangles.                                           *)

\* What the six answers of rect_compare() say, of intervals that are not empty.
LEMMA CompareMeans ==
  ASSUME NEW al \in Int, NEW ar \in Int, NEW bl \in Int, NEW br \in Int, al < ar, bl < br
  PROVE  /\ Compare(al, ar, bl, br) \in {"before", "start", "all", "middle", "end", "after"}
         /\ Compare(al, ar, bl, br) = "before" <=> br <= al
         /\ Compare(al, ar, bl, br) = "start" <=> bl <= al /\ al < br /\ br < ar
         /\ Compare(al, ar, bl, br) = "all" <=> bl <= al /\ ar <= br
         /\ Compare(al, ar, bl, br) = "middle" <=> al < bl /\ br < ar
         /\ Compare(al, ar, bl, br) = "end" <=> al < bl /\ bl < ar /\ ar <= br
         /\ Compare(al, ar, bl, br) = "after" <=> ar <= bl
BY DEF Compare

\* The edges of a rectangle that is not empty.
LEMMA Edges ==
  ASSUME NEW A \in Rectangle, ~Empty(A)
  PROVE  /\ XL(A) \in Int /\ XR(A) \in Int /\ XL(A) < XR(A)
         /\ YO(A) \in Int /\ YU(A) \in Int /\ YO(A) < YU(A)
         /\ A.w = XR(A) - XL(A) /\ A.h = YU(A) - YO(A)
BY DEF Rectangle, Empty, XL, XR, YO, YU

\* A rectangle made of edges.
LEMMA CreateEdges ==
  ASSUME NEW x \in Int, NEW y \in Int, NEW w \in Int, NEW h \in Int
  PROVE  LET r == Create(x, y, w, h)
         IN  /\ XL(r) = x /\ XR(r) = x + w /\ YO(r) = y /\ YU(r) = y + h
             /\ 0 < w /\ 0 < h => r \in Rectangle /\ ~Empty(r)
BY DEF Create, Rectangle, Empty, XL, XR, YO, YU

\* Rectangles that share a point overlap in both directions.
LEMMA SharedOverlaps ==
  ASSUME NEW A \in Rectangle, NEW B \in Rectangle, ~Empty(A), ~Empty(B)
  PROVE  Overlap(A, B) <=> /\ XL(A) < XR(B) /\ XL(B) < XR(A)
                           /\ YO(A) < YU(B) /\ YO(B) < YU(A)
<1>1. Overlap(A, B) <=> /\ Across(A, B) # "before" /\ Across(A, B) # "after"
                        /\ Down(A, B) # "before" /\ Down(A, B) # "after"
  BY DEF Overlap
<1> QED BY <1>1, Edges, CompareMeans DEF Across, Down

\* The pieces of a rectangle that is cut, one by one.
LEMMA Pieces ==
  ASSUME NEW A, NEW B, Overlap(A, B), NEW r
  PROVE  LET x == Across(A, B)
             y == Down(A, B)
             row == CASE y = "start" -> YO(A) [] y = "all" -> YO(A) [] OTHER -> YO(B)
             rows == CASE y = "start" -> YU(B) - YO(A) [] y = "all" -> A.h
                       [] y = "middle" -> B.h [] OTHER -> YU(A) - YO(B)
             notch == x = "middle" /\ y # "middle"
         IN  r \in Subtract(A, B) <=>
               \/ notch /\ r = Left(A, B, YO(A), A.h)
               \/ notch /\ r = Right(A, B, YO(A), A.h)
               \/ notch /\ y = "start" /\ r = Create(XL(B), YU(B), B.w, YU(A) - YU(B))
               \/ notch /\ y = "end" /\ r = Create(XL(B), YO(A), B.w, YO(B) - YO(A))
               \/ ~notch /\ y \in {"middle", "end"} /\ r = Top(A, B)
               \/ ~notch /\ y \in {"start", "middle"} /\ r = Bottom(A, B)
               \/ ~notch /\ x \in {"middle", "end"} /\ r = Left(A, B, row, rows)
               \/ ~notch /\ x \in {"start", "middle"} /\ r = Right(A, B, row, rows)
BY DEF Subtract

\* Two rectangles with no point in common.
Apart(r, s) == XR(r) <= XL(s) \/ XR(s) <= XL(r) \/ YU(r) <= YO(s) \/ YU(s) <= YO(r)

\* The edges of r are the given ones.
HasEdges(r, xl, xr, yo, yu) == XL(r) = xl /\ XR(r) = xr /\ YO(r) = yo /\ YU(r) = yu

\* The edges of the pieces, in terms of those of A and B, in every case.
LEMMA PieceEdges ==
  ASSUME NEW A \in Rectangle, NEW B \in Rectangle, ~Empty(A), ~Empty(B), Overlap(A, B),
         NEW r
  PROVE  LET top == Greatest(YO(A), YO(B))
             bot == Least(YU(A), YU(B))
             notch == /\ XL(A) < XL(B) /\ XR(B) < XR(A)
                      /\ ~(YO(A) < YO(B) /\ YU(B) < YU(A))
         IN  r \in Subtract(A, B) <=>
               \/ /\ notch /\ r = Left(A, B, YO(A), A.h)
                  /\ HasEdges(r, XL(A), XL(B), YO(A), YU(A))
               \/ /\ notch /\ r = Right(A, B, YO(A), A.h)
                  /\ HasEdges(r, XR(B), XR(A), YO(A), YU(A))
               \/ /\ notch /\ YU(B) < YU(A) /\ r = Create(XL(B), YU(B), B.w, YU(A) - YU(B))
                  /\ HasEdges(r, XL(B), XR(B), YU(B), YU(A))
               \/ /\ notch /\ YO(A) < YO(B) /\ r = Create(XL(B), YO(A), B.w, YO(B) - YO(A))
                  /\ HasEdges(r, XL(B), XR(B), YO(A), YO(B))
               \/ /\ ~notch /\ YO(A) < YO(B) /\ r = Top(A, B)
                  /\ HasEdges(r, XL(A), XR(A), YO(A), YO(B))
               \/ /\ ~notch /\ YU(B) < YU(A) /\ r = Bottom(A, B)
                  /\ HasEdges(r, XL(A), XR(A), YU(B), YU(A))
               \/ /\ ~notch /\ XL(A) < XL(B) /\ r = Left(A, B, top, bot - top)
                  /\ HasEdges(r, XL(A), XL(B), top, bot)
               \/ /\ ~notch /\ XR(B) < XR(A) /\ r = Right(A, B, top, bot - top)
                  /\ HasEdges(r, XR(B), XR(A), top, bot)
<1> DEFINE x == Across(A, B)
           y == Down(A, B)
           row == CASE y = "start" -> YO(A) [] y = "all" -> YO(A) [] OTHER -> YO(B)
           rows == CASE y = "start" -> YU(B) - YO(A) [] y = "all" -> A.h
                     [] y = "middle" -> B.h [] OTHER -> YU(A) - YO(B)
           top == Greatest(YO(A), YO(B))
           bot == Least(YU(A), YU(B))
           notch == /\ XL(A) < XL(B) /\ XR(B) < XR(A)
                    /\ ~(YO(A) < YO(B) /\ YU(B) < YU(A))
<1>e. /\ XL(A) \in Int /\ XR(A) \in Int /\ YO(A) \in Int /\ YU(A) \in Int
      /\ XL(B) \in Int /\ XR(B) \in Int /\ YO(B) \in Int /\ YU(B) \in Int
      /\ XL(A) < XR(A) /\ YO(A) < YU(A) /\ XL(B) < XR(B) /\ YO(B) < YU(B)
      /\ A.w = XR(A) - XL(A) /\ A.h = YU(A) - YO(A)
      /\ B.w = XR(B) - XL(B) /\ B.h = YU(B) - YO(B)
  BY Edges
<1>o. XL(A) < XR(B) /\ XL(B) < XR(A) /\ YO(A) < YU(B) /\ YO(B) < YU(A)
  BY SharedOverlaps
<1>x. /\ x \in {"start", "all", "middle", "end"}
      /\ x \in {"middle", "end"} <=> XL(A) < XL(B)
      /\ x \in {"start", "middle"} <=> XR(B) < XR(A)
  BY <1>e, <1>o, CompareMeans DEF Across
<1>y. /\ y \in {"start", "all", "middle", "end"}
      /\ y \in {"middle", "end"} <=> YO(A) < YO(B)
      /\ y \in {"start", "middle"} <=> YU(B) < YU(A)
  BY <1>e, <1>o, CompareMeans DEF Down
<1>r. row = top /\ rows = bot - top /\ top \in Int /\ bot \in Int /\ top < bot
  BY <1>e, <1>o, <1>y DEF Least, Greatest
<1>n. /\ notch <=> x = "middle" /\ y # "middle"
      /\ notch => (y = "start" <=> YU(B) < YU(A))
      /\ notch => (y = "end" <=> YO(A) < YO(B))
  BY <1>x, <1>y
<1>1. /\ HasEdges(Left(A, B, YO(A), A.h), XL(A), XL(B), YO(A), YU(A))
      /\ HasEdges(Right(A, B, YO(A), A.h), XR(B), XR(A), YO(A), YU(A))
      /\ HasEdges(Create(XL(B), YU(B), B.w, YU(A) - YU(B)), XL(B), XR(B), YU(B), YU(A))
      /\ HasEdges(Create(XL(B), YO(A), B.w, YO(B) - YO(A)), XL(B), XR(B), YO(A), YO(B))
      /\ HasEdges(Top(A, B), XL(A), XR(A), YO(A), YO(B))
      /\ HasEdges(Bottom(A, B), XL(A), XR(A), YU(B), YU(A))
      /\ HasEdges(Left(A, B, top, bot - top), XL(A), XL(B), top, bot)
      /\ HasEdges(Right(A, B, top, bot - top), XR(B), XR(A), top, bot)
  <2> HIDE DEF top, bot
  <2> QED BY <1>e, <1>r DEF HasEdges, Left, Right, Top, Bottom, Create, XL, XR, YO, YU
<1>2. r \in Subtract(A, B) <=>
        \/ notch /\ r = Left(A, B, YO(A), A.h)
        \/ notch /\ r = Right(A, B, YO(A), A.h)
        \/ notch /\ y = "start" /\ r = Create(XL(B), YU(B), B.w, YU(A) - YU(B))
        \/ notch /\ y = "end" /\ r = Create(XL(B), YO(A), B.w, YO(B) - YO(A))
        \/ ~notch /\ y \in {"middle", "end"} /\ r = Top(A, B)
        \/ ~notch /\ y \in {"start", "middle"} /\ r = Bottom(A, B)
        \/ ~notch /\ x \in {"middle", "end"} /\ r = Left(A, B, row, rows)
        \/ ~notch /\ x \in {"start", "middle"} /\ r = Right(A, B, row, rows)
  <2> HIDE DEF row, rows
  <2>1. r \in Subtract(A, B) <=>
          LET n == x = "middle" /\ y # "middle"
          IN  \/ n /\ r = Left(A, B, YO(A), A.h)
              \/ n /\ r = Right(A, B, YO(A), A.h)
              \/ n /\ y = "start" /\ r = Create(XL(B), YU(B), B.w, YU(A) - YU(B))
              \/ n /\ y = "end" /\ r = Create(XL(B), YO(A), B.w, YO(B) - YO(A))
              \/ ~n /\ y \in {"middle", "end"} /\ r = Top(A, B)
              \/ ~n /\ y \in {"start", "middle"} /\ r = Bottom(A, B)
              \/ ~n /\ x \in {"middle", "end"} /\ r = Left(A, B, row, rows)
              \/ ~n /\ x \in {"start", "middle"} /\ r = Right(A, B, row, rows)
    BY Pieces DEF row, rows
  <2> HIDE DEF x, y, notch
  <2> QED BY <2>1, <1>n
<1> HIDE DEF x, y, row, rows, top, bot, notch
<1>3. r \in Subtract(A, B) <=>
        \/ notch /\ r = Left(A, B, YO(A), A.h)
        \/ notch /\ r = Right(A, B, YO(A), A.h)
        \/ notch /\ YU(B) < YU(A) /\ r = Create(XL(B), YU(B), B.w, YU(A) - YU(B))
        \/ notch /\ YO(A) < YO(B) /\ r = Create(XL(B), YO(A), B.w, YO(B) - YO(A))
        \/ ~notch /\ YO(A) < YO(B) /\ r = Top(A, B)
        \/ ~notch /\ YU(B) < YU(A) /\ r = Bottom(A, B)
        \/ ~notch /\ XL(A) < XL(B) /\ r = Left(A, B, top, bot - top)
        \/ ~notch /\ XR(B) < XR(A) /\ r = Right(A, B, top, bot - top)
  BY <1>2, <1>n, <1>x, <1>y, <1>r
<1> QED BY <1>3, <1>1 DEF notch, top, bot

\* The pieces are rectangles within A, none is empty, and none meets B.
LEMMA SubtractPieces ==
  ASSUME NEW A \in Rectangle, NEW B \in Rectangle, ~Empty(A), ~Empty(B),
         NEW r \in Subtract(A, B)
  PROVE  r \in Rectangle /\ ~Empty(r) /\ ContRect(A, r) /\ Apart(r, B)
<1>e. /\ XL(A) \in Int /\ XR(A) \in Int /\ YO(A) \in Int /\ YU(A) \in Int
      /\ XL(B) \in Int /\ XR(B) \in Int /\ YO(B) \in Int /\ YU(B) \in Int
      /\ XL(A) < XR(A) /\ YO(A) < YU(A) /\ XL(B) < XR(B) /\ YO(B) < YU(B)
      /\ A.w = XR(A) - XL(A) /\ A.h = YU(A) - YO(A)
      /\ B.w = XR(B) - XL(B) /\ B.h = YU(B) - YO(B)
  BY Edges
<1>1. CASE ~Overlap(A, B)
  <2>1. r = A
    BY <1>1 DEF Subtract
  <2> QED BY <2>1, <1>1, <1>e, SharedOverlaps DEF ContRect, Apart
<1>2. CASE Overlap(A, B)
  <2>1. XL(A) < XR(B) /\ XL(B) < XR(A) /\ YO(A) < YU(B) /\ YO(B) < YU(A)
    BY <1>2, SharedOverlaps
  <2>2. ContRect(A, r) /\ Apart(r, B)
    BY <1>2, <1>e, <2>1, PieceEdges DEF HasEdges, ContRect, Apart, Least, Greatest
  <2>3. \E x, y, w, h \in Int : 0 < w /\ 0 < h /\ r = Create(x, y, w, h)
    <3> DEFINE top == Greatest(YO(A), YO(B))
               bot == Least(YU(A), YU(B))
    <3>1. top \in Int /\ bot \in Int /\ top < bot
      BY <1>e, <2>1 DEF Least, Greatest
    <3> HIDE DEF top, bot
    <3>2. \/ r = Create(XL(A), YO(A), XL(B) - XL(A), A.h) /\ XL(A) < XL(B)
          \/ r = Create(XR(B), YO(A), XR(A) - XR(B), A.h) /\ XR(B) < XR(A)
          \/ r = Create(XL(B), YU(B), B.w, YU(A) - YU(B)) /\ YU(B) < YU(A)
          \/ r = Create(XL(B), YO(A), B.w, YO(B) - YO(A)) /\ YO(A) < YO(B)
          \/ r = Create(XL(A), YO(A), A.w, YO(B) - YO(A)) /\ YO(A) < YO(B)
          \/ r = Create(XL(A), YU(B), A.w, YU(A) - YU(B)) /\ YU(B) < YU(A)
          \/ r = Create(XL(A), top, XL(B) - XL(A), bot - top) /\ XL(A) < XL(B)
          \/ r = Create(XR(B), top, XR(A) - XR(B), bot - top) /\ XR(B) < XR(A)
      BY <1>2, PieceEdges DEF Left, Right, Top, Bottom, top, bot
    <3>3. /\ XR(A) - XR(B) \in Int /\ XL(B) - XL(A) \in Int /\ YU(A) - YU(B) \in Int
          /\ YO(B) - YO(A) \in Int /\ bot - top \in Int /\ A.w \in Int /\ A.h \in Int
          /\ B.w \in Int /\ B.h \in Int
          /\ 0 < A.w /\ 0 < A.h /\ 0 < B.w /\ 0 < B.h /\ 0 < bot - top
          /\ XL(A) < XL(B) => 0 < XL(B) - XL(A)
          /\ XR(B) < XR(A) => 0 < XR(A) - XR(B)
          /\ YU(B) < YU(A) => 0 < YU(A) - YU(B)
          /\ YO(A) < YO(B) => 0 < YO(B) - YO(A)
      BY <1>e, <3>1
    <3> QED
      BY <1>e, <3>1, <3>2, <3>3, Zenon
  <2> QED BY <2>2, <2>3, CreateEdges
<1> QED BY <1>1, <1>2

\* rect_subtract() keeps the points of A that are not in B, and no others.
LEMMA SubtractExact ==
  ASSUME NEW A \in Rectangle, NEW B \in Rectangle, ~Empty(A), ~Empty(B),
         NEW p, p[1] \in Int, p[2] \in Int
  PROVE  (\E r \in Subtract(A, B) : ContPoint(r, p)) <=> ContPoint(A, p) /\ ~ContPoint(B, p)
<1>e. /\ XL(A) \in Int /\ XR(A) \in Int /\ YO(A) \in Int /\ YU(A) \in Int
      /\ XL(B) \in Int /\ XR(B) \in Int /\ YO(B) \in Int /\ YU(B) \in Int
      /\ XL(A) < XR(A) /\ YO(A) < YU(A) /\ XL(B) < XR(B) /\ YO(B) < YU(B)
  BY Edges
<1>1. ASSUME NEW r \in Subtract(A, B), ContPoint(r, p)
      PROVE  ContPoint(A, p) /\ ~ContPoint(B, p)
  <2>1. r \in Rectangle /\ ~Empty(r) /\ ContRect(A, r) /\ Apart(r, B)
    BY SubtractPieces
  <2> QED BY <1>1, <2>1, <1>e, Edges DEF ContPoint, ContRect, Apart
<1>2. ASSUME ContPoint(A, p), ~ContPoint(B, p)
      PROVE  \E r \in Subtract(A, B) : ContPoint(r, p)
  <2>1. CASE ~Overlap(A, B)
    BY <1>2, <2>1 DEF Subtract
  <2>2. CASE Overlap(A, B)
    <3> DEFINE top == Greatest(YO(A), YO(B))
               bot == Least(YU(A), YU(B))
               notch == /\ XL(A) < XL(B) /\ XR(B) < XR(A)
                        /\ ~(YO(A) < YO(B) /\ YU(B) < YU(A))
    <3>1. SUFFICES \E r : /\ ContPoint(r, p)
            /\ \/ /\ notch /\ r = Left(A, B, YO(A), A.h)
                  /\ HasEdges(r, XL(A), XL(B), YO(A), YU(A))
               \/ /\ notch /\ r = Right(A, B, YO(A), A.h)
                  /\ HasEdges(r, XR(B), XR(A), YO(A), YU(A))
               \/ /\ notch /\ YU(B) < YU(A) /\ r = Create(XL(B), YU(B), B.w, YU(A) - YU(B))
                  /\ HasEdges(r, XL(B), XR(B), YU(B), YU(A))
               \/ /\ notch /\ YO(A) < YO(B) /\ r = Create(XL(B), YO(A), B.w, YO(B) - YO(A))
                  /\ HasEdges(r, XL(B), XR(B), YO(A), YO(B))
               \/ /\ ~notch /\ YO(A) < YO(B) /\ r = Top(A, B)
                  /\ HasEdges(r, XL(A), XR(A), YO(A), YO(B))
               \/ /\ ~notch /\ YU(B) < YU(A) /\ r = Bottom(A, B)
                  /\ HasEdges(r, XL(A), XR(A), YU(B), YU(A))
               \/ /\ ~notch /\ XL(A) < XL(B) /\ r = Left(A, B, top, bot - top)
                  /\ HasEdges(r, XL(A), XL(B), top, bot)
               \/ /\ ~notch /\ XR(B) < XR(A) /\ r = Right(A, B, top, bot - top)
                  /\ HasEdges(r, XR(B), XR(A), top, bot)
      BY <2>2, PieceEdges
    <3>2. /\ XL(A) < XR(B) /\ XL(B) < XR(A) /\ YO(A) < YU(B) /\ YO(B) < YU(A)
          /\ A.w = XR(A) - XL(A) /\ A.h = YU(A) - YO(A)
          /\ B.w = XR(B) - XL(B) /\ B.h = YU(B) - YO(B)
      BY <2>2, SharedOverlaps, Edges
    <3>3. /\ HasEdges(Left(A, B, YO(A), A.h), XL(A), XL(B), YO(A), YU(A))
          /\ HasEdges(Right(A, B, YO(A), A.h), XR(B), XR(A), YO(A), YU(A))
          /\ HasEdges(Create(XL(B), YU(B), B.w, YU(A) - YU(B)), XL(B), XR(B), YU(B), YU(A))
          /\ HasEdges(Create(XL(B), YO(A), B.w, YO(B) - YO(A)), XL(B), XR(B), YO(A), YO(B))
          /\ HasEdges(Top(A, B), XL(A), XR(A), YO(A), YO(B))
          /\ HasEdges(Bottom(A, B), XL(A), XR(A), YU(B), YU(A))
          /\ HasEdges(Left(A, B, top, bot - top), XL(A), XL(B), top, bot)
          /\ HasEdges(Right(A, B, top, bot - top), XR(B), XR(A), top, bot)
      BY <1>e, <3>2
         DEF HasEdges, Left, Right, Top, Bottom, Create, XL, XR, YO, YU, Least, Greatest
    <3>4. \A r, xl, xr, yo, yu :
            HasEdges(r, xl, xr, yo, yu) =>
              (ContPoint(r, p) <=> xl <= p[1] /\ p[1] < xr /\ yo <= p[2] /\ p[2] < yu)
      BY DEF HasEdges, ContPoint
    <3>5. /\ notch => \/ p[1] < XL(B) \/ XR(B) <= p[1]
                      \/ XL(B) <= p[1] /\ p[1] < XR(B) /\ p[2] < YO(B)
                      \/ XL(B) <= p[1] /\ p[1] < XR(B) /\ YU(B) <= p[2]
          /\ ~notch => \/ p[2] < YO(B) \/ YU(B) <= p[2]
                       \/ top <= p[2] /\ p[2] < bot /\ p[1] < XL(B)
                       \/ top <= p[2] /\ p[2] < bot /\ XR(B) <= p[1]
      BY <1>2, <1>e DEF ContPoint, Least, Greatest
    <3>6. XL(A) <= p[1] /\ p[1] < XR(A) /\ YO(A) <= p[2] /\ p[2] < YU(A)
      BY <1>2 DEF ContPoint
    <3>t. top \in Int /\ bot \in Int
      BY <1>e DEF Least, Greatest
    <3> HIDE DEF top, bot
    <3>7. CASE notch
      BY <3>7, <3>3, <3>4, <3>5, <3>6, <1>e, <3>t
    <3>8. CASE ~notch
      BY <3>8, <3>3, <3>4, <3>5, <3>6, <1>e, <3>t
    <3> QED BY <3>7, <3>8
  <2> QED BY <2>1, <2>2
<1> QED BY <1>1, <1>2

\* No two pieces meet.
LEMMA SubtractApart ==
  ASSUME NEW A \in Rectangle, NEW B \in Rectangle, ~Empty(A), ~Empty(B),
         NEW r \in Subtract(A, B), NEW s \in Subtract(A, B), r # s
  PROVE  Apart(r, s)
<1>1. Overlap(A, B)
  BY DEF Subtract
<1>2. /\ XL(A) \in Int /\ XR(A) \in Int /\ YO(A) \in Int /\ YU(A) \in Int
      /\ XL(B) \in Int /\ XR(B) \in Int /\ YO(B) \in Int /\ YU(B) \in Int
      /\ XL(A) < XR(A) /\ YO(A) < YU(A) /\ XL(B) < XR(B) /\ YO(B) < YU(B)
  BY Edges
<1>3. XL(A) < XR(B) /\ XL(B) < XR(A) /\ YO(A) < YU(B) /\ YO(B) < YU(A)
  BY <1>1, SharedOverlaps
<1> QED BY <1>1, <1>2, <1>3, PieceEdges DEF HasEdges, Apart, Least, Greatest

\* rect_clip() gives at most one rectangle, within both and not empty.
LEMMA ClipPieces ==
  ASSUME NEW A \in Rectangle, NEW B \in Rectangle, ~Empty(A), ~Empty(B),
         NEW r \in Clip(A, B)
  PROVE  r \in Rectangle /\ ~Empty(r) /\ ContRect(A, r) /\ ContRect(B, r)
<1>1. r = Intersect(A, B) /\ ~Empty(r)
  BY DEF Clip
<1> QED BY <1>1 DEF Intersect, Create, Empty, Rectangle, ContRect, Least, Greatest, XL, XR, YO, YU

\* rect_clip() keeps the points of A that are in B, and no others.
LEMMA ClipExact ==
  ASSUME NEW A \in Rectangle, NEW B \in Rectangle, ~Empty(A), ~Empty(B),
         NEW p, p[1] \in Int, p[2] \in Int
  PROVE  (\E r \in Clip(A, B) : ContPoint(r, p)) <=> ContPoint(A, p) /\ ContPoint(B, p)
<1>1. ContPoint(Intersect(A, B), p) <=> ContPoint(A, p) /\ ContPoint(B, p)
  BY DEF Intersect, Create, Rectangle, ContPoint, Least, Greatest, XL, XR, YO, YU
<1>2. ContPoint(Intersect(A, B), p) => ~Empty(Intersect(A, B))
  BY DEF Intersect, Create, Rectangle, ContPoint, Empty, Least, Greatest, XL, XR, YO, YU
<1> QED BY <1>1, <1>2 DEF Clip

\* rect_clip() leaves A as it is iff A is within B.
LEMMA ClipCut ==
  ASSUME NEW A \in Rectangle, NEW B \in Rectangle, ~Empty(A), ~Empty(B)
  PROVE  Clip(A, B) = {A} <=> ContRect(B, A)
<1>1. ASSUME Clip(A, B) = {A} PROVE ContRect(B, A)
  BY <1>1, ClipPieces
<1>2. ASSUME ContRect(B, A) PROVE Clip(A, B) = {A}
  <2>1. Intersect(A, B) = A
    BY <1>2 DEF Intersect, Create, Rectangle, Empty, ContRect, Least, Greatest, XL, XR, YO, YU
  <2> QED BY <2>1 DEF Clip
<1> QED BY <1>1, <1>2

-----------------------------------------------------------------------------
(* Lists of rectangles.                                                    *)

\* The rectangles of a list are within the window, none is empty, and they are apart.
ListOK == /\ pos \in Rects
          /\ \A r \in rp : r \in Rectangle /\ ~Empty(r) /\ ContRect(pos, r)
          /\ \A r, s \in rp : r # s => Apart(r, s)

\* Points have two coordinates; those of a window are all there.
LEMMA PointsOf ==
  /\ \A p \in Points : p[1] \in Int /\ p[2] \in Int
  /\ \A B \in Rects : B \in Rectangle /\ ~Empty(B)
  /\ \A B \in Rects, x, y \in Int : ContPoint(B, <<x, y>>) => <<x, y>> \in Points
<1>1. \A p \in Points : p[1] \in Int /\ p[2] \in Int
  BY PointsAssumption
<1>2. \A B \in Rects : B \in Rectangle /\ ~Empty(B)
  BY RectsAssumption
<1>3. ASSUME NEW B \in Rects, NEW x \in Int, NEW y \in Int, ContPoint(B, <<x, y>>)
      PROVE  <<x, y>> \in Points
  <2>1. /\ XL(B) \in Int /\ XR(B) \in Int /\ YO(B) \in Int /\ YU(B) \in Int
    BY <1>2, Edges
  <2>2. x \in XL(B) .. XR(B) - 1 /\ y \in YO(B) .. YU(B) - 1
    BY <1>3, <2>1 DEF ContPoint
  <2> QED BY <2>2, PointsAssumption
<1> QED BY <1>1, <1>2, <1>3

\* The cells of a list after a subtraction and after a clip.
LEMMA ListArea ==
  ASSUME ListOK, NEW B \in Rects
  PROVE  /\ Area(ListSubtract(rp, B)) = Area(rp) \ Cells(B)
         /\ Area(ListClip(rp, B)) = Area(rp) \intersect Cells(B)
<1>1. \A r \in rp, p \in Points :
        /\ (\E s \in Subtract(r, B) : ContPoint(s, p)) <=> ContPoint(r, p) /\ ~ContPoint(B, p)
        /\ (\E s \in Clip(r, B) : ContPoint(s, p)) <=> ContPoint(r, p) /\ ContPoint(B, p)
  BY PointsOf, SubtractExact, ClipExact DEF ListOK
<1> QED BY <1>1 DEF Area, Cells, ListSubtract, ListClip

\* A subtraction cuts a rectangle of the list iff a cell of the list is in B.
LEMMA SubtractLoses ==
  ASSUME ListOK, NEW B \in Rects
  PROVE  (\E r \in rp : Overlap(r, B)) <=> Area(rp) \intersect Cells(B) # {}
<1>1. ASSUME NEW r \in rp, Overlap(r, B)
      PROVE  Area(rp) \intersect Cells(B) # {}
  <2> DEFINE x == Greatest(XL(r), XL(B))
             y == Greatest(YO(r), YO(B))
  <2>1. /\ r \in Rectangle /\ ~Empty(r) /\ B \in Rectangle /\ ~Empty(B)
    BY PointsOf DEF ListOK
  <2>2. /\ x \in Int /\ y \in Int /\ ContPoint(r, <<x, y>>) /\ ContPoint(B, <<x, y>>)
    BY <1>1, <2>1, Edges, SharedOverlaps DEF Greatest, ContPoint
  <2>3. <<x, y>> \in Points
    BY <2>2, PointsOf
  <2> QED BY <2>2, <2>3 DEF Area, Cells
<1>2. ASSUME NEW p \in Area(rp) \intersect Cells(B)
      PROVE  \E r \in rp : Overlap(r, B)
  <2>1. PICK r \in rp : ContPoint(r, p)
    BY DEF Area
  <2>2. /\ r \in Rectangle /\ ~Empty(r) /\ B \in Rectangle /\ ~Empty(B)
        /\ p[1] \in Int /\ p[2] \in Int /\ ContPoint(B, p)
    BY PointsOf DEF ListOK, Area, Cells
  <2> QED BY <2>1, <2>2, Edges, SharedOverlaps DEF ContPoint
<1> QED BY <1>1, <1>2

\* A clip cuts a rectangle of the list iff a cell of the list is outside of B.
LEMMA ClipLoses ==
  ASSUME ListOK, NEW B \in Rects
  PROVE  (\E r \in rp : Clip(r, B) # {r}) <=> Area(rp) \ Cells(B) # {}
<1>b. B \in Rectangle /\ ~Empty(B)
  BY PointsOf
<1>1. ASSUME NEW r \in rp, Clip(r, B) # {r}
      PROVE  Area(rp) \ Cells(B) # {}
  <2>1. r \in Rectangle /\ ~Empty(r) /\ ContRect(pos, r) /\ pos \in Rects
    BY DEF ListOK
  <2>2. ~ContRect(B, r)
    BY <1>1, <1>b, <2>1, ClipCut
  <2>3. PICK x, y \in Int : ContPoint(r, <<x, y>>) /\ ~ContPoint(B, <<x, y>>)
    <3>1. /\ XL(r) \in Int /\ XR(r) \in Int /\ YO(r) \in Int /\ YU(r) \in Int
          /\ XL(B) \in Int /\ XR(B) \in Int /\ YO(B) \in Int /\ YU(B) \in Int
          /\ XL(r) < XR(r) /\ YO(r) < YU(r)
      BY <1>b, <2>1, Edges
    <3>2. CASE XL(r) < XL(B) \/ YO(r) < YO(B)
      <4>1. ContPoint(r, <<XL(r), YO(r)>>) /\ ~ContPoint(B, <<XL(r), YO(r)>>)
        BY <3>1, <3>2 DEF ContPoint
      <4> XL(r) \in Int /\ YO(r) \in Int
        BY <3>1
      <4> WITNESS XL(r) \in Int, YO(r) \in Int
      <4> QED BY <4>1
    <3>3. CASE XR(B) < XR(r) \/ YU(B) < YU(r)
      <4>1. /\ ContPoint(r, <<XR(r) - 1, YU(r) - 1>>)
            /\ ~ContPoint(B, <<XR(r) - 1, YU(r) - 1>>)
        BY <3>1, <3>3 DEF ContPoint
      <4> XR(r) - 1 \in Int /\ YU(r) - 1 \in Int
        BY <3>1
      <4> WITNESS XR(r) - 1 \in Int, YU(r) - 1 \in Int
      <4> QED BY <4>1
    <3>4. XL(r) < XL(B) \/ YO(r) < YO(B) \/ XR(B) < XR(r) \/ YU(B) < YU(r)
      BY <2>2, <3>1 DEF ContRect
    <3> QED BY <3>2, <3>3, <3>4
  <2>4. ContPoint(pos, <<x, y>>)
    <3>1. pos \in Rectangle /\ ~Empty(pos)
      BY <2>1, PointsOf
    <3> QED BY <2>1, <2>3, <3>1, Edges DEF ContRect, ContPoint
  <2>5. <<x, y>> \in Points
    BY <2>1, <2>4, PointsOf
  <2> QED BY <2>3, <2>5 DEF Area, Cells
<1>2. ASSUME NEW p \in Area(rp) \ Cells(B)
      PROVE  \E r \in rp : Clip(r, B) # {r}
  <2>1. PICK r \in rp : ContPoint(r, p)
    BY DEF Area
  <2>2. /\ r \in Rectangle /\ ~Empty(r) /\ p[1] \in Int /\ p[2] \in Int /\ ~ContPoint(B, p)
    BY PointsOf DEF ListOK, Area, Cells
  <2>3. ~ContRect(B, r)
    BY <1>b, <2>1, <2>2, Edges DEF ContPoint, ContRect
  <2> QED BY <1>b, <2>2, <2>3, ClipCut
<1> QED BY <1>1, <1>2

\* Rectangles within others that are apart are apart.
LEMMA WithinApart ==
  ASSUME NEW A \in Rectangle, NEW B \in Rectangle, NEW r \in Rectangle, NEW s \in Rectangle,
         ~Empty(A), ~Empty(B), ~Empty(r), ~Empty(s),
         ContRect(A, r), ContRect(B, s), Apart(A, B)
  PROVE  Apart(r, s)
BY Edges DEF ContRect, Apart

\* Rectangles that are apart share no point.
LEMMA ApartDisjoint ==
  ASSUME NEW r \in Rectangle, NEW s \in Rectangle, Apart(r, s)
  PROVE  Cells(r) \intersect Cells(s) = {}
<1> SUFFICES ASSUME NEW p \in Points, ContPoint(r, p), ContPoint(s, p)
             PROVE  FALSE
  BY DEF Cells
<1>1. p[1] \in Int /\ p[2] \in Int
  BY PointsOf
<1> QED BY <1>1 DEF Apart, ContPoint, Rectangle, XL, XR, YO, YU

-----------------------------------------------------------------------------
(* The invariant.                                                          *)

\* The list is in order, and the flag says what the list says.
Inv == ListOK /\ is_hidden \in BOOLEAN /\ HiddenExact

\* A list made of the pieces of another one, each within the one it comes from, is in
\* order if the pieces of one rectangle are apart.
LEMMA PiecesOK ==
  ASSUME ListOK, NEW cut,
         \A r \in rp : \A s \in cut[r] : s \in Rectangle /\ ~Empty(s) /\ ContRect(r, s),
         \A r \in rp : \A s, t \in cut[r] : s # t => Apart(s, t)
  PROVE  LET R == UNION {cut[r] : r \in rp}
         IN  /\ \A s \in R : s \in Rectangle /\ ~Empty(s) /\ ContRect(pos, s)
             /\ \A s, t \in R : s # t => Apart(s, t)
<1> DEFINE R == UNION {cut[r] : r \in rp}
<1>p. pos \in Rectangle /\ ~Empty(pos)
  BY PointsOf DEF ListOK
<1>1. ASSUME NEW s \in R
      PROVE  s \in Rectangle /\ ~Empty(s) /\ ContRect(pos, s)
  <2>1. PICK r \in rp : s \in cut[r]
    OBVIOUS
  <2>2. r \in Rectangle /\ ~Empty(r) /\ ContRect(pos, r)
    BY DEF ListOK
  <2> QED BY <1>p, <2>1, <2>2, Edges DEF ContRect
<1>2. ASSUME NEW s \in R, NEW t \in R, s # t
      PROVE  Apart(s, t)
  <2>1. PICK r \in rp : s \in cut[r]
    OBVIOUS
  <2>2. PICK q \in rp : t \in cut[q]
    OBVIOUS
  <2>3. CASE r = q
    BY <1>2, <2>1, <2>2, <2>3
  <2>4. CASE r # q
    BY <2>1, <2>2, <2>4, WithinApart DEF ListOK
  <2> QED BY <2>3, <2>4
<1> QED BY <1>1, <1>2

\* A new list is in order.
LEMMA NewList ==
  ASSUME NEW r \in Rects
  PROVE  r \in Rectangle /\ ~Empty(r) /\ ContRect(r, r) /\ Area({r}) = Cells(r)
BY PointsOf, Edges DEF ContRect, Area, Cells

\* The cells of a list are cells of the window.
LEMMA AreaWithin ==
  ASSUME ListOK
  PROVE  Area(rp) \subseteq Cells(pos)
<1> SUFFICES ASSUME NEW p \in Points, NEW r \in rp, ContPoint(r, p)
             PROVE  ContPoint(pos, p)
  BY DEF Area, Cells
<1>1. r \in Rectangle /\ ~Empty(r) /\ ContRect(pos, r) /\ pos \in Rectangle /\ ~Empty(pos)
  BY PointsOf DEF ListOK
<1>2. p[1] \in Int /\ p[2] \in Int
  BY PointsOf
<1> QED BY <1>1, <1>2, Edges DEF ContRect, ContPoint

LEMMA InvInit == Init => Inv
BY NewList DEF Init, Inv, ListOK, HiddenExact

LEMMA InvCover ==
  ASSUME Inv, NEW B \in Rects, Cover(B)
  PROVE  Inv'
<1>1. ListOK'
  <2>1. \A r \in rp : r \in Rectangle /\ ~Empty(r)
    BY DEF Inv, ListOK
  <2>2. B \in Rectangle /\ ~Empty(B)
    BY PointsOf
  <2> DEFINE cut == [r \in rp |-> Subtract(r, B)]
  <2>3. \A r \in rp : \A s \in cut[r] : s \in Rectangle /\ ~Empty(s) /\ ContRect(r, s)
    BY <2>1, <2>2, SubtractPieces
  <2>4. \A r \in rp : \A s, t \in cut[r] : s # t => Apart(s, t)
    BY <2>1, <2>2, SubtractApart
  <2>5. rp' = UNION {cut[r] : r \in rp} /\ pos' = pos
    BY DEF Cover, ListSubtract
  <2> HIDE DEF cut
  <2>6. LET R == UNION {cut[r] : r \in rp}
        IN  /\ \A s \in R : s \in Rectangle /\ ~Empty(s) /\ ContRect(pos, s)
            /\ \A s, t \in R : s # t => Apart(s, t)
    BY <2>3, <2>4, PiecesOK DEF Inv
  <2> QED BY <2>5, <2>6 DEF Inv, ListOK
<1>2. /\ Area(rp') = Area(rp) \ Cells(B)
      /\ is_hidden' = (is_hidden \/ Area(rp) \intersect Cells(B) # {})
  BY ListArea, SubtractLoses DEF Cover, Inv
<1>3. Area(rp) \subseteq Cells(pos) /\ pos' = pos
  BY AreaWithin DEF Inv, Cover
<1>4. is_hidden' \in BOOLEAN /\ (is_hidden' <=> Area(rp') # Cells(pos))
  BY <1>2, <1>3 DEF Inv, HiddenExact
<1> QED BY <1>1, <1>3, <1>4 DEF Inv, HiddenExact

LEMMA InvClip ==
  ASSUME Inv, NEW B \in Rects, ClipTo(B)
  PROVE  Inv'
<1>1. ListOK'
  <2>1. \A r \in rp : r \in Rectangle /\ ~Empty(r)
    BY DEF Inv, ListOK
  <2>2. B \in Rectangle /\ ~Empty(B)
    BY PointsOf
  <2> DEFINE cut == [r \in rp |-> Clip(r, B)]
  <2>3. \A r \in rp : \A s \in cut[r] : s \in Rectangle /\ ~Empty(s) /\ ContRect(r, s)
    BY <2>1, <2>2, ClipPieces
  <2>4. \A r \in rp : \A s, t \in cut[r] : s # t => Apart(s, t)
    BY DEF Clip
  <2>5. rp' = UNION {cut[r] : r \in rp} /\ pos' = pos
    BY DEF ClipTo, ListClip
  <2> HIDE DEF cut
  <2>6. LET R == UNION {cut[r] : r \in rp}
        IN  /\ \A s \in R : s \in Rectangle /\ ~Empty(s) /\ ContRect(pos, s)
            /\ \A s, t \in R : s # t => Apart(s, t)
    BY <2>3, <2>4, PiecesOK DEF Inv
  <2> QED BY <2>5, <2>6 DEF Inv, ListOK
<1>2. /\ Area(rp') = Area(rp) \intersect Cells(B)
      /\ is_hidden' = (is_hidden \/ Area(rp) \ Cells(B) # {})
  BY ListArea, ClipLoses DEF ClipTo, Inv
<1>3. Area(rp) \subseteq Cells(pos) /\ pos' = pos
  BY AreaWithin DEF Inv, ClipTo
<1>4. is_hidden' \in BOOLEAN /\ (is_hidden' <=> Area(rp') # Cells(pos))
  BY <1>2, <1>3 DEF Inv, HiddenExact
<1> QED BY <1>1, <1>3, <1>4 DEF Inv, HiddenExact

LEMMA InvNext == Inv /\ [Next]_vars => Inv'
<1> SUFFICES ASSUME Inv, [Next]_vars
             PROVE  Inv'
  OBVIOUS
<1>1. CASE Build
  BY <1>1, NewList DEF Build, Inv, ListOK, HiddenExact
<1>2. CASE \E B \in Rects : Cover(B)
  BY <1>2, InvCover
<1>3. CASE \E B \in Rects : ClipTo(B)
  BY <1>3, InvClip
<1>4. CASE UNCHANGED vars
  BY <1>4 DEF vars, Inv, ListOK, HiddenExact
<1> QED BY <1>1, <1>2, <1>3, <1>4 DEF Next

LEMMA Invariance == Spec => []Inv
BY InvInit, InvNext, PTL DEF Spec

-----------------------------------------------------------------------------
(* Theorems.                                                               *)

\* The lists that window_build_recs() makes stay within their window and hold no empty
\* rectangle, for windows of any size anywhere.
THEOREM TypeCorrect == Spec => []TypeOK
<1>1. Inv => TypeOK
  BY DEF Inv, ListOK, TypeOK
<1> QED BY <1>1, Invariance, PTL

\* No cell is in two rectangles of a list, after any number of rect_list_subtract() and
\* rect_list_clip() in any order.
THEOREM DisjointCorrect == Spec => []Disjoint
<1>1. Inv => Disjoint
  BY ApartDisjoint DEF Inv, ListOK, Disjoint
<1> QED BY <1>1, Invariance, PTL

\* The flag is_hidden that window_build_recs() adds up from the results of the list
\* operations tells exactly whether a cell of the window is missing.
THEOREM HiddenCorrect == Spec => []HiddenExact
<1>1. Inv => HiddenExact
  BY DEF Inv
<1> QED BY <1>1, Invariance, PTL

\* The lists of rect.c implement the algebra of regions: what the operations do to the
\* cells of a list is what set difference and intersection do.
THEOREM Implements == Spec => IsRegion
<1>1. Init => RegionOf!Init
  BY NewList DEF Init, RegionOf!Init
<1>2. ASSUME Inv, [Next]_vars
      PROVE  [RegionOf!Next]_<<Area(rp), is_hidden>>
  <2>1. CASE Build
    BY <2>1, NewList DEF Build, RegionOf!Next, RegionOf!Build
  <2>2. ASSUME NEW B \in Rects, Cover(B)
        PROVE  RegionOf!Next
    <3>1. RegionOf!Cover(Cells(B))
      BY <1>2, <2>2, ListArea, SubtractLoses DEF Cover, Inv, RegionOf!Cover
    <3> QED BY <3>1 DEF RegionOf!Next
  <2>3. ASSUME NEW B \in Rects, ClipTo(B)
        PROVE  RegionOf!Next
    <3>1. RegionOf!ClipTo(Cells(B))
      BY <1>2, <2>3, ListArea, ClipLoses DEF ClipTo, Inv, RegionOf!ClipTo
    <3> QED BY <3>1 DEF RegionOf!Next
  <2>4. CASE UNCHANGED vars
    BY <2>4 DEF vars, Area
  <2> QED BY <1>2, <2>1, <2>2, <2>3, <2>4 DEF Next
<1> QED BY <1>1, <1>2, Invariance, PTL DEF Spec, IsRegion, RegionOf!Spec

\* rectUpdateDirty() gives the least rectangle that holds what was dirty and what was
\* drawn, as rect_union() does: nothing drawn is left out, nothing is added in vain.
THEOREM DirtyLeast ==
  ASSUME NEW A \in Rectangle, NEW B \in Rectangle
  PROVE  LET D == UpdateDirty(A, B)
         IN  /\ ContRect(D, B) /\ (A.w # 0 => ContRect(D, A))
             /\ \A C \in Rectangle : ContRect(C, A) /\ ContRect(C, B) => ContRect(C, D)
BY DEF UpdateDirty, Hull, Create, Rectangle, ContRect, Least, Greatest, XL, XR, YO, YU
=============================================================================
