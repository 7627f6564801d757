------------------------------- MODULE Screen -------------------------------
(***************************************************************************)
(* What the screen shows: the positions and the stacking order of the      *)
(* windows, their visible regions, and the backing store of server/        *)
(* window.c, with the requests of server/client_ret.c that change them and *)
(* the drawing requests of server/client_noret.c.                          *)
(*                                                                         *)
(* A region is the set of its cells; that the lists of rectangles of       *)
(* server/rect.c stand for such sets is the subject of module Rect.        *)
(* Contents are abstracted to which copies of a cell of a window are up to *)
(* date: drawing a cell makes every other copy of it stale.                *)
(***************************************************************************)
EXTENDS Integers, Sequences, FiniteSets

CONSTANTS Window,     \* the windows that clients may create
          Bordered,   \* those without W_NOBORDER
          Container,  \* those with W_CONTAINER, which have no bitmap
          ScreenSize, \* width and height of the screen
          Border,     \* width of the frame at the sides, and at top and bottom
          Sizes,      \* the sizes of a work area that are asked for
          Positions,  \* the positions in the parent's work area
          Plane,      \* where the corner of a window may be
          NoWin       \* the NULL window pointer

Root == "root"
Background == "background"
Id == Window \union {Root, Background}

ASSUME WindowAssumption == /\ IsFiniteSet(Window)
                           /\ Bordered \union Container \subseteq Window
                           /\ {Root, Background} \intersect Window = {} /\ NoWin \notin Id
ASSUME PointAssumption == /\ Positions \union Plane \subseteq Int \X Int
                          /\ Sizes \union {ScreenSize} \subseteq (Nat \ {0}) \X (Nat \ {0})
                          /\ Border \in Nat \X Nat

VARIABLES
  tree,  \* live: the windows; parent, childs, the topmost first; is_open; at: the
         \* corner of pos; size: of the work area
  pic    \* vis: vis_recs, is_hidden, is_dirty: the screen is newer than the bitmap;
         \* dirty: the part of the bitmap that is newer than the screen; bitmap: the
         \* cells of it that are up to date; screen: whose cell a cell shows
VARIABLE asked  \* history: the position at which a client last put each window, or Astray

vars == <<tree, pic, asked>>

-----------------------------------------------------------------------------
(* Geometry.                                                               *)

Plus(a, b) == <<a[1] + b[1], a[2] + b[2]>>
Minus(a, b) == <<a[1] - b[1], a[2] - b[2]>>
Box(o, s) == (o[1] .. o[1] + s[1] - 1) \X (o[2] .. o[2] + s[2] - 1)
Shift(S, d) == {Plus(c, d) : c \in S}

Edge(w) == IF w \in Bordered THEN Border ELSE <<0, 0>>
Full(t, w) == Plus(t.size[w], Plus(Edge(w), Edge(w)))

\* The cells of a window and of its work area, relative to it and on the screen.
Cells(t, w) == Box(<<0, 0>>, Full(t, w))
WorkCells(t, w) == Box(Edge(w), t.size[w])
Pos(t, w) == Box(t.at[w], Full(t, w))
Work(t, w) == Box(Plus(t.at[w], Edge(w)), t.size[w])
Display == Box(<<0, 0>>, ScreenSize)

\* The smallest box around S, as rectUpdateDirty() keeps it.
Hull(t, w, S) ==
  LET xs == {a[1] : a \in S}
      ys == {a[2] : a \in S}
  IN  {c \in Cells(t, w) : /\ \E x \in xs : x <= c[1]
                           /\ \E x \in xs : c[1] <= x
                           /\ \E y \in ys : y <= c[2]
                           /\ \E y \in ys : c[2] <= y}

Ancestors(t, w) ==
  LET up[x \in Id] == IF t.parent[x] = NoWin THEN {} ELSE {t.parent[x]} \union up[t.parent[x]]
  IN  up[w]

Subtree(t, w) == {x \in t.live : x = w \/ w \in Ancestors(t, x)}
Subtrees(t, S) == UNION {Subtree(t, w) : w \in S}

\* The siblings of w above and below it.
Place(t, w) == CHOOSE i \in DOMAIN t.childs[t.parent[w]] : t.childs[t.parent[w]][i] = w
Siblings(t, w, from, to) == {t.childs[t.parent[w]][i] : i \in from .. to}
Left(t, w) == IF w = Root THEN {} ELSE Siblings(t, w, 1, Place(t, w) - 1)
Right(t, w) == Siblings(t, w, Place(t, w) + 1, Len(t.childs[t.parent[w]]))
Childs(t, w) == {t.childs[w][i] : i \in DOMAIN t.childs[w]}

\* The list s without x.
Without(s, x) ==
  LET i == CHOOSE i \in DOMAIN s : s[i] = x
  IN  IF \E j \in DOMAIN s : s[j] = x THEN SubSeq(s, 1, i - 1) \o SubSeq(s, i + 1, Len(s)) ELSE s

Mapped(t, w) == \A a \in {w} \union Ancestors(t, w) : t.is_open[a]

-----------------------------------------------------------------------------
(* Visible regions.                                                        *)

\* Mutant: the siblings of the ancestors do not cover a window.
Build_ownSiblings(t, w) ==
  LET above == {x \in Left(t, w) : t.is_open[x]}
  IN  IF \E a \in Ancestors(t, w) : ~t.is_open[a] THEN {}
      ELSE {c \in Pos(t, w) :
              /\ \A a \in Ancestors(t, w) : c \in Work(t, a)
              /\ \A x \in above : c \notin Pos(t, x)
              /\ \A x \in Childs(t, w) : ~(t.is_open[x] /\ c \in Pos(t, x) \intersect Work(t, w))}

\* window_build_recs(): from the window, what is covered by higher siblings of it
\* and of its ancestors, what is outside of an ancestor, and its children go.
Build(t, w) ==
  LET line == {w} \union Ancestors(t, w)
      above == {x \in UNION {Left(t, a) : a \in line} : t.is_open[x]}
  IN  IF \E a \in Ancestors(t, w) : ~t.is_open[a] THEN {}
      ELSE {c \in Pos(t, w) :
              /\ \A a \in Ancestors(t, w) : c \in Work(t, a)
              /\ \A x \in above : c \notin Pos(t, x)
              /\ \A x \in Childs(t, w) : ~(t.is_open[x] /\ c \in Pos(t, x) \intersect Work(t, w))}

\* window_rebuild_recs() in a traversal of T, whole subtrees or a single window:
\* the subtree of an open window that does not meet the area is left out.
Rebuild(p, t, T, area) ==
  LET Meets(w) == Pos(t, w) \intersect area # {}
      met == {w \in T : /\ t.is_open[w] /\ Meets(w)
                        /\ \A a \in Ancestors(t, w) \intersect T : t.is_open[a] => Meets(a)}
      vis == [w \in Id |-> IF w \in met THEN Build(t, w) ELSE p.vis[w]]
  IN  [p EXCEPT !.vis = vis,
                !.is_hidden = [w \in Id |-> IF w \in met THEN vis[w] # Pos(t, w) ELSE @[w]]]

\* window_is_hidden(): is w covered, not counting its children?
IsHidden(t, w) ==
  \/ \E a \in Ancestors(t, w) : ~t.is_open[a] \/ ~(Pos(t, w) \subseteq Work(t, a))
  \/ \E x \in UNION {Left(t, a) : a \in {w} \union Ancestors(t, w)} :
       t.is_open[x] /\ Pos(t, x) \intersect Pos(t, w) # {}

-----------------------------------------------------------------------------
(* Screen and bitmaps.                                                     *)

Stale == <<NoWin, <<0, 0>>>>

\* window_save_contents() for the windows of T: copy screen to bitmap, if the
\* window meets the area and the screen is newer.
Save(p, t, T, area) ==
  LET Newer(w) == t.is_open[w] /\ p.is_dirty[w] /\ ~p.is_hidden[w]
      saved == {w \in T : Newer(w) /\ Pos(t, w) \intersect area # {}}
      Copied(w) == {r \in Cells(t, w) :
        IF Plus(r, t.at[w]) \in p.vis[w] THEN p.screen[Plus(r, t.at[w])] = <<w, r>>
                                         ELSE r \in p.bitmap[w]}
  IN  [p EXCEPT !.bitmap = [w \in Id |-> IF w \in saved \ Container THEN Copied(w) ELSE @[w]],
                !.is_dirty = [w \in Id |-> @[w] /\ ~(w \in T /\ (Newer(w) => w \in saved))]]

\* Copy the cells of T that are visible and due from the bitmaps to the screen.
Blit(p, t, T, Due(_, _)) ==
  LET Copy(w, r) == IF r \in p.bitmap[w] THEN <<w, r>> ELSE Stale
  IN  [p EXCEPT !.screen = [c \in Display |->
         IF \E w \in T : c \in p.vis[w] /\ Due(w, c)
         THEN LET w == CHOOSE x \in T : c \in p.vis[x] /\ Due(x, c)
              IN  Copy(w, Minus(c, t.at[w]))
         ELSE @[c]]]

\* Mutant: what is dirty is left to the main loop.
Redraw_noFlush(p, t, T, area) ==
  LET Due(w, c) == c \in area IN Blit(p, t, {w \in T : t.is_open[w]}, Due)

\* window_redraw_contents_rect() for the windows of T: what is visible in the area,
\* and what is dirty, if the window is not hidden.
Redraw(p, t, T, area) ==
  LET opened == {w \in T : t.is_open[w]}
      Due(w, c) == c \in area \/ (~p.is_hidden[w] /\ Minus(c, t.at[w]) \in p.dirty[w])
  IN  [Blit(p, t, opened, Due) EXCEPT !.dirty = [w \in Id |->
         IF w \in opened /\ ~p.is_hidden[w] THEN {} ELSE @[w]]]

\* Mutant: the bitmap is not marked as newer than the screen.
Paint_noDirty(p, t, w, part) ==
  LET old == [p EXCEPT !.screen = [c \in Display |->
                IF @[c] \in {w} \X part THEN Stale ELSE @[c]]]
  IN  IF t.is_open[w] /\ ~p.is_hidden[w]
      THEN [old EXCEPT !.screen = [c \in Display |->
                         IF c \in Shift(part, t.at[w]) THEN <<w, Minus(c, t.at[w])>> ELSE @[c]],
                       !.bitmap[w] = @ \ part,
                       !.is_dirty[w] = TRUE]
      ELSE [old EXCEPT !.bitmap[w] = @ \union part]

\* A drawing request, as client_plot() and its likes do it: to the screen if all of
\* the window is visible, else to the bitmap.
Paint(p, t, w, part) ==
  LET old == [p EXCEPT !.screen = [c \in Display |->
                IF @[c] \in {w} \X part THEN Stale ELSE @[c]]]
  IN  IF t.is_open[w] /\ ~p.is_hidden[w]
      THEN [old EXCEPT !.screen = [c \in Display |->
                         IF c \in Shift(part, t.at[w]) THEN <<w, Minus(c, t.at[w])>> ELSE @[c]],
                       !.bitmap[w] = @ \ part,
                       !.is_dirty[w] = TRUE]
      ELSE [old EXCEPT !.bitmap[w] = @ \union part,
                       !.dirty[w] = IF t.is_open[w] THEN Hull(t, w, @ \union part) ELSE @]

\* windowActivate(), windowDeactivate(): the frame is drawn.
Frame(p, t, w) ==
  LET frame == Cells(t, w) \ WorkCells(t, w) IN
  IF w \notin Bordered \/ ~t.is_open[w] THEN p
  ELSE IF w \in Container
  THEN [p EXCEPT !.screen = [c \in Display |-> IF @[c] \in {w} \X frame THEN Stale ELSE @[c]],
                 !.dirty[w] = Hull(t, w, @ \union Cells(t, w))]
  ELSE Paint(p, t, w, frame)

\* w_changeActiveWindow(): the frames of two toplevel windows may be drawn.  These are
\* the childs of the background and a window with W_TOP, which may be below any other;
\* which window has W_TOP is not kept, so it may be any.
Refocused(p, t) ==
  LET tops == {x \in t.live \intersect Bordered : t.is_open[x]}
  IN  {p} \union {Frame(p, t, a) : a \in tops}
          \union UNION {{Frame(Frame(p, t, a), t, b) : b \in tops \ {a}} : a \in tops}

-----------------------------------------------------------------------------
Init ==
  /\ tree = [live |-> {Root, Background},
             parent |-> [w \in Id |-> IF w = Background THEN Root ELSE NoWin],
             childs |-> [w \in Id |-> IF w = Root THEN <<Background>> ELSE <<>>],
             is_open |-> [w \in Id |-> w \in {Root, Background}],
             at |-> [w \in Id |-> <<0, 0>>],
             size |-> [w \in Id |-> ScreenSize]]
  /\ pic = [vis |-> [w \in Id |-> IF w = Background THEN Display ELSE {}],
            is_hidden |-> [w \in Id |-> w = Root],
            is_dirty |-> [w \in Id |-> FALSE],
            dirty |-> [w \in Id |-> {}],
            bitmap |-> [w \in Id |-> Display],
            screen |-> [c \in Display |-> <<Background, c>>]]
  /\ asked = [w \in Id |-> <<0, 0>>]

\* client_create() and client_create2(), with window_create() and createBitmap(): a
\* new window, on top of its siblings, closed.  One window, with W_TOP, may be a
\* child of the root.
Create(w, par, s) ==
  /\ w \notin tree.live /\ par \in tree.live
  /\ par = Root => Childs(tree, Root) = {Background}
  /\ tree' = [tree EXCEPT !.live = @ \union {w}, !.parent[w] = par,
                          !.childs[par] = <<w>> \o @, !.childs[w] = <<>>,
                          !.is_open[w] = FALSE, !.at[w] = <<0, 0>>, !.size[w] = s]
  /\ pic' = [pic EXCEPT !.vis[w] = {}, !.is_hidden[w] = FALSE, !.is_dirty[w] = FALSE,
                        !.dirty[w] = {}, !.bitmap[w] = Cells(tree', w)]
  /\ UNCHANGED asked

-----------------------------------------------------------------------------
(* Opening and closing.                                                    *)

\* window_move_one() for the windows of T.
Moved(t, T, d) == [t EXCEPT !.at = [w \in Id |-> IF w \in T /\ t.is_open[w]
                                                 THEN Plus(@[w], d) ELSE @[w]]]

\* Mutant: the parent is not saved.
OpenedPic_parentUnsaved(p, t, w) ==
  LET par == t.parent[w]
      saved == Save(p, t, Subtrees(t, Right(t, w)), Pos(t, w))
      built == Rebuild(saved, t, Subtrees(t, {w} \union Right(t, w)), Pos(t, w))
  IN  Frame(Redraw(Rebuild(built, t, {par}, Pos(t, w)), t, Subtree(t, w), Pos(t, w)), t, w)

\* window_open() and the frame that client_open() draws.
OpenedPic(p, t, w) ==
  LET par == t.parent[w]
      saved == Save(p, t, Subtrees(t, Right(t, w)) \union {par}, Pos(t, w))
      built == Rebuild(saved, t, Subtrees(t, {w} \union Right(t, w)), Pos(t, w))
  IN  Frame(Redraw(Rebuild(built, t, {par}, Pos(t, w)), t, Subtree(t, w), Pos(t, w)), t, w)

\* Mutant: the windows below the opened one stay where they are.
OpenedTree_childsStay(t, w, x) == [t EXCEPT !.at[w] = x, !.is_open[w] = TRUE]

\* The tree with w opened at x; the windows below it keep their places.
OpenedTree(t, w, x) ==
  [Moved(t, Subtree(t, w) \ {w}, Minus(x, t.at[w])) EXCEPT !.at[w] = x, !.is_open[w] = TRUE]

\* Open windows below a closed one that stays while w moves: no client has put them
\* where they are.
Astray == <<>>
Put(t, w, x) ==
  LET astray == {y \in Subtree(t, w) \ {w} :
                   t.is_open[y] /\ t.parent[y] # w /\ ~t.is_open[t.parent[y]]}
  IN  [y \in Id |-> IF y = w THEN x ELSE IF y \in astray THEN Astray ELSE asked[y]]

\* A bound: windows below a closed one may be displaced without end.
Bounded == \A w \in tree'.live : tree'.at[w] \in Plane

\* client_open() with a position relative to the parent.
Open(w, x) ==
  /\ w \in tree.live /\ ~tree.is_open[w]
  /\ LET par == tree.parent[w] IN
     tree' = OpenedTree(tree, w, Plus(x, Plus(tree.at[par], Edge(par))))
  /\ Bounded
  /\ asked' = Put(tree, w, x)
  /\ pic' \in Refocused(OpenedPic(pic, tree', w), tree')

ClosedTree(t, w) == IF Mapped(t, w) THEN [t EXCEPT !.is_open[w] = FALSE] ELSE t

\* Mutant: an open window below the closed one still counts as visible.
Shut_childsShown(p, w, gone) == [p EXCEPT !.vis = [x \in Id |-> IF x \in gone THEN {} ELSE @[x]]]

\* window_close_one(): the windows in sight below the closed one lose their regions.
Shut(p, w, gone) ==
  [p EXCEPT !.vis = [x \in Id |-> IF x \in gone THEN {} ELSE @[x]],
            !.is_hidden = [x \in Id |-> @[x] \/ x \in gone \ {w}]]

\* window_close(): nothing happens to a window below a closed one.
ClosedPic(p, t, w) ==
  LET gone == {x \in Subtree(t, w) : Mapped(t, x)}
      saved == Save(p, t, gone, UNION {Pos(t, x) : x \in gone})
      t1 == ClosedTree(t, w)
      lower == Subtrees(t, Right(t, w))
      built == Rebuild(Rebuild(Shut(saved, w, gone), t1, lower, Pos(t, w)), t1,
                       {t.parent[w]}, Pos(t, w))
  IN  IF gone = {} THEN p ELSE Redraw(built, t1, lower \union {t.parent[w]}, Pos(t, w))

\* client_close()
Close(w) ==
  /\ w \in tree.live /\ tree.is_open[w]
  /\ tree' = ClosedTree(tree, w)
  /\ asked' = IF tree'.is_open[w] THEN asked ELSE [asked EXCEPT ![w] = <<0, 0>>]
  /\ pic' \in Refocused(ClosedPic(pic, tree, w), tree')

\* client_delete() with window_delete(): close, then free the subtree.
Delete(w) ==
  /\ w \in tree.live
  /\ LET gone == Subtree(tree, w)
         open == tree.is_open[w]
         t1 == IF open THEN ClosedTree(tree, w) ELSE tree
     IN  /\ asked' = [x \in Id |-> IF x \in gone THEN <<0, 0>> ELSE asked[x]]
         /\ tree' = [live |-> tree.live \ gone,
                     parent |-> [x \in Id |-> IF x \in gone THEN NoWin ELSE tree.parent[x]],
                     childs |-> [x \in Id |-> IF x \in gone THEN <<>> ELSE Without(tree.childs[x], w)],
                     is_open |-> [x \in Id |-> x \notin gone /\ tree.is_open[x]],
                     at |-> [x \in Id |-> IF x \in gone THEN <<0, 0>> ELSE tree.at[x]],
                     size |-> [x \in Id |-> IF x \in gone THEN ScreenSize ELSE tree.size[x]]]
         /\ \E p \in IF open THEN Refocused(ClosedPic(pic, tree, w), t1) ELSE {pic} :
              pic' = [vis |-> [x \in Id |-> IF x \in gone THEN {} ELSE p.vis[x]],
                      is_hidden |-> [x \in Id |-> x \notin gone /\ p.is_hidden[x]],
                      is_dirty |-> [x \in Id |-> x \notin gone /\ p.is_dirty[x]],
                      dirty |-> [x \in Id |-> IF x \in gone THEN {} ELSE p.dirty[x]],
                      bitmap |-> [x \in Id |-> IF x \in gone THEN Display ELSE p.bitmap[x]],
                      screen |-> [c \in Display |->
                                    IF p.screen[c][1] \in gone THEN Stale ELSE p.screen[c]]]

-----------------------------------------------------------------------------
(* Moving, restacking and resizing.                                        *)

\* window_move() of w by d.  The visible regions are moved and the screen copied
\* if the window is covered neither before nor after.
MovedPic(p, t, w, d) ==
  LET t1 == Moved(t, Subtree(t, w), d)
      old == Pos(t, w)
      new == Pos(t1, w)
      par == {t.parent[w]}
      lower == Subtrees(t, Right(t, w))
      covered == IsHidden(t, w) \/ IsHidden(t1, w)
      saved == Save(Save(p, t, Subtree(t, w), old), t, lower \union par, new)
      placed == IF covered THEN saved
                ELSE [saved EXCEPT !.vis = [x \in Id |->
                        IF x \in Subtree(t, w) /\ t.is_open[x] THEN Shift(@[x], d) ELSE @[x]]]
      rebuilt == Rebuild(placed, t1, IF covered THEN lower \union Subtree(t, w) ELSE lower,
                         old \union new)
      built == Rebuild(rebuilt, t1, par, old \union new)
      drawn == IF covered THEN Redraw(built, t1, Subtree(t, w), new)
               ELSE [built EXCEPT !.screen = [c \in Display |->
                       IF c \in new THEN @[Minus(c, d)] ELSE @[c]]]
  IN  Redraw(drawn, t1, lower \union par, old)

\* client_move() to a position relative to the parent.
Move(w, x) ==
  /\ w \in tree.live /\ tree.is_open[w]
  /\ LET par == tree.parent[w]
         d == Minus(Plus(x, Plus(tree.at[par], Edge(par))), tree.at[w])
     IN  /\ tree' = Moved(tree, Subtree(tree, w), d)
         /\ Bounded
         /\ asked' = Put(tree, w, x)
         /\ pic' \in Refocused(IF d = <<0, 0>> THEN pic ELSE MovedPic(pic, tree, w, d), tree')

\* window_to_top(): w and the windows that were above it are saved and rebuilt, and
\* w is drawn.
ToTop(w) ==
  LET par == tree.parent[w]
      above == Left(tree, w)
  IN  /\ above # {}
      /\ tree' = [tree EXCEPT !.childs[par] = <<w>> \o Without(@, w)]
      /\ LET all == Subtrees(tree, above \union {w})
             saved == Save(pic, tree, all, Pos(tree, w))
         IN  pic' = Redraw(Rebuild(saved, tree', all, Pos(tree, w)), tree',
                           Subtree(tree, w), Pos(tree, w))

\* window_to_bottom() of the topmost window: w is saved, w and the windows that were
\* below it are rebuilt, and these are drawn.
ToBottom(w) ==
  LET par == tree.parent[w]
      below == Right(tree, w)
  IN  /\ Left(tree, w) = {}
      /\ tree' = [tree EXCEPT !.childs[par] = Without(@, w) \o <<w>>]
      /\ LET saved == Save(pic, tree, Subtree(tree, w), Pos(tree, w))
             built == Rebuild(saved, tree', Subtrees(tree, below \union {w}), Pos(tree, w))
         IN  pic' = IF below = {} THEN pic
                    ELSE Redraw(built, tree', Subtrees(tree, below), Pos(tree, w))

\* w_topDown(), after the right button is pressed on the frame of a window.
TopDown(w) ==
  /\ w \in tree.live \intersect Bordered
  /\ tree.parent[w] # Root
  /\ pic.vis[w] \ Work(tree, w) # {}
  /\ UNCHANGED asked
  /\ ToTop(w) \/ ToBottom(w)

\* Mutant: all of the old work area is copied.
ResizedPic_oldSize(p, t, w, s) ==
  LET t1 == [t EXCEPT !.size[w] = s]
      copied == WorkCells(t, w)
  IN  [p EXCEPT !.bitmap[w] = IF w \in Container THEN Cells(t1, w)
                              ELSE (@ \intersect copied) \union (Cells(t1, w) \ copied)]

\* The new bitmap of client_resize(): the work area is copied as far as it goes.  All
\* else is cleared, and that is its latest state.  The frame of a window below a closed
\* one, which client_open() does not draw again, stays blank until the focus changes.
ResizedPic(p, t, w, s) ==
  LET t1 == [t EXCEPT !.size[w] = s]
      copied == WorkCells(t, w) \intersect WorkCells(t1, w)
  IN  [p EXCEPT !.bitmap[w] = IF w \in Container THEN Cells(t1, w)
                              ELSE (@ \intersect copied) \union (Cells(t1, w) \ copied)]

\* client_resize(): close, change the size, open at the same position.  A window
\* below a closed one is neither closed nor opened.
Resize(w, s) ==
  /\ w \in tree.live
  /\ UNCHANGED asked
  /\ IF tree.is_open[w]
     THEN LET t1 == [ClosedTree(tree, w) EXCEPT !.size[w] = s] IN
          /\ tree' = [tree EXCEPT !.size[w] = s]
          /\ \E p \in Refocused(ClosedPic(pic, tree, w), ClosedTree(tree, w)) :
               LET new == ResizedPic(p, ClosedTree(tree, w), w, s) IN
               IF Mapped(tree, w) THEN pic' \in Refocused(OpenedPic(new, tree', w), tree')
                                  ELSE pic' = new
     ELSE /\ tree' = [tree EXCEPT !.size[w] = s]
          /\ pic' = ResizedPic(pic, tree, w, s)

-----------------------------------------------------------------------------
(* Drawing.                                                                *)

\* client_plot(), client_pbox() and the like, in the work area.
Draw(w, part) ==
  /\ w \in tree.live \ ({Root} \union Container)
  /\ pic' = Paint(pic, tree, w, part)
  /\ UNCHANGED <<tree, asked>>

\* event_mousemove(): the focus moves.
MouseMove == pic' \in Refocused(pic, tree) /\ UNCHANGED <<tree, asked>>

\* windowRedrawAllIfDirty(), at the end of every round of the main loop.
RedrawAllIfDirty ==
  LET Due(w, c) == tree.is_open[w] /\ Minus(c, tree.at[w]) \in pic.dirty[w]
  IN  /\ pic' = [Blit(pic, tree, tree.live, Due) EXCEPT !.dirty = [w \in Id |-> {}]]
      /\ UNCHANGED <<tree, asked>>

\* What is drawn: all of the work area, or its corner.
Parts(w) == {WorkCells(tree, w), {Edge(w)}}

Next ==
  \/ \E w \in Window :
       \/ \E par \in Id, s \in Sizes : Create(w, par, s)
       \/ \E x \in Positions : Open(w, x) \/ Move(w, x)
       \/ Close(w) \/ Delete(w) \/ TopDown(w)
       \/ \E s \in Sizes : Resize(w, s)
  \/ \E w \in Id : \E part \in Parts(w) : Draw(w, part)
  \/ MouseMove
  \/ RedrawAllIfDirty

Spec == Init /\ [][Next]_vars

-----------------------------------------------------------------------------
(* Properties.                                                             *)

\* window_find() without its cache: from the root, the topmost open child around c;
\* the search ends on a frame and where no child is around c.
Found(t, c) ==
  LET Hit(x) == t.is_open[x] /\ c \in Pos(t, x)
      Under(w) == {x \in Childs(t, w) : Hit(x) /\ \A y \in Left(t, x) : ~Hit(y)}
      find[w \in Id] == IF c \in Work(t, w) /\ Under(w) # {}
                        THEN find[CHOOSE x \in Under(w) : TRUE] ELSE w
  IN  find[Root]

TypeOK ==
  /\ tree.live \subseteq Id
  /\ tree.parent \in [Id -> Id \union {NoWin}]
  /\ asked \in [Id -> Positions \union {<<0, 0>>, Astray}]
  /\ \A w \in Id : Childs(tree, w) = {x \in tree.live : tree.parent[x] = w}
  /\ \A w \in tree.live : pic.bitmap[w] \subseteq Cells(tree, w)
  /\ \A c \in Display : LET p == pic.screen[c] IN
       p = Stale \/ (p[1] \in tree.live /\ p[2] \in Cells(tree, p[1]))

\* The rectangle lists that are rebuilt after each change are those of the whole
\* tree: a cell is in the list of the window that window_find() finds by searching
\* the tree, and in no other, so that the cached search finds the same.
VisibleExact ==
  /\ \A c \in Display : LET top == Found(tree, c) IN \A w \in Id : c \in pic.vis[w] <=> w = top
  /\ \A w \in Id : pic.vis[w] \subseteq Display

\* is_hidden tells whether any cell of an open window is out of sight.
HiddenExact == \A w \in tree.live : tree.is_open[w] => (pic.is_hidden[w] <=> pic.vis[w] # Pos(tree, w))

\* Nothing a client has drawn is lost: a cell of a window is up to date in the
\* bitmap, or else the window is in full sight and it is on the screen.
NothingLost ==
  \A w \in tree.live : \A r \in Cells(tree, w) \ pic.bitmap[w] :
    /\ tree.is_open[w] /\ ~pic.is_hidden[w] /\ pic.is_dirty[w]
    /\ pic.screen[Plus(r, tree.at[w])] = <<w, r>>

\* What is not to be drawn again at the end of the round is on the screen.
ScreenExact ==
  \A c \in Display :
    LET w == Found(tree, c)
        r == Minus(c, tree.at[w])
    IN  pic.screen[c] = <<w, r>> \/ r \in pic.dirty[w]

\* "move the childs that were pseudo-closed so their relative position to the
\* parent stays the same" (server/window.c): a window in sight is where its client
\* has last put it, whatever was closed, moved and opened around it since, unless a
\* window was moved with it while one between the two was closed.
InPlace ==
  \A w \in tree.live \ {Root} : Mapped(tree, w) /\ asked[w] # Astray =>
    Minus(tree.at[w], tree.at[tree.parent[w]]) = Plus(asked[w], Edge(tree.parent[w]))
=============================================================================
