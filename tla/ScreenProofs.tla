---------------------------- MODULE ScreenProofs ----------------------------
(***************************************************************************)
(* Proofs about module Screen, for any windows in any tree, any sizes and  *)
(* positions on a screen of any size: after every request the rectangle    *)
(* lists of the windows are those of the whole tree, which window_find()   *)
(* searches, the windows are where their clients have put them, and where  *)
(* a window is visible the screen shows that window's pixel or an outdated *)
(* one, never another window's.  As long as no window lies over the frame  *)
(* of its parent alone, nothing that was drawn is lost, and the screen     *)
(* shows it, or will at the end of the round.                              *)
(***************************************************************************)
EXTENDS Screen, FiniteSetTheorems, SequenceTheorems, WellFoundedInduction, TLAPS

-----------------------------------------------------------------------------
(* Points and boxes.                                                       *)

Point == Int \X Int
Extent == (Nat \ {0}) \X (Nat \ {0})

\* Points have two coordinates.
LEMMA PointParts ==
  ASSUME NEW c \in Point
  PROVE  c[1] \in Int /\ c[2] \in Int /\ c = <<c[1], c[2]>>
BY DEF Point

LEMMA SizesAreExtents ==
  /\ Sizes \subseteq Extent /\ ScreenSize \in Extent /\ Border \in Nat \X Nat
  /\ Border \in Point /\ <<0, 0>> \in Point /\ Positions \subseteq Point
BY PointAssumption DEF Extent, Point

\* Moving points there and back.
LEMMA PointMoves ==
  ASSUME NEW a \in Point, NEW b \in Point
  PROVE  /\ Plus(a, b) \in Point /\ Minus(a, b) \in Point
         /\ Minus(Plus(a, b), b) = a /\ Plus(Minus(a, b), b) = a
<1>1. a[1] \in Int /\ a[2] \in Int /\ b[1] \in Int /\ b[2] \in Int /\ a = <<a[1], a[2]>>
  BY PointParts
<1>2. Plus(a, b) = <<a[1] + b[1], a[2] + b[2]>> /\ Minus(a, b) = <<a[1] - b[1], a[2] - b[2]>>
  BY DEF Plus, Minus
<1>3. (a[1] + b[1]) - b[1] = a[1] /\ (a[2] + b[2]) - b[2] = a[2]
      /\ (a[1] - b[1]) + b[1] = a[1] /\ (a[2] - b[2]) + b[2] = a[2]
  BY <1>1
<1>4. Plus(a, b) \in Point /\ Minus(a, b) \in Point
  BY <1>1, <1>2 DEF Point
<1>5. Minus(Plus(a, b), b) = <<(a[1] + b[1]) - b[1], (a[2] + b[2]) - b[2]>>
  BY <1>2 DEF Minus
<1>6. Plus(Minus(a, b), b) = <<(a[1] - b[1]) + b[1], (a[2] - b[2]) + b[2]>>
  BY <1>2 DEF Plus
<1> QED
  BY <1>1, <1>3, <1>4, <1>5, <1>6

\* The cells of a box.
LEMMA BoxMeans ==
  ASSUME NEW o \in Point, NEW s \in Point, NEW c
  PROVE  c \in Box(o, s) <=> /\ c \in Point
                             /\ o[1] <= c[1] /\ c[1] < o[1] + s[1]
                             /\ o[2] <= c[2] /\ c[2] < o[2] + s[2]
<1>1. o[1] \in Int /\ o[2] \in Int /\ s[1] \in Int /\ s[2] \in Int
  BY PointParts
<1>2. ASSUME c \in Box(o, s)
      PROVE  /\ c \in Point
             /\ o[1] <= c[1] /\ c[1] < o[1] + s[1]
             /\ o[2] <= c[2] /\ c[2] < o[2] + s[2]
  BY <1>1, <1>2 DEF Box, Point
<1>3. ASSUME /\ c \in Point
             /\ o[1] <= c[1] /\ c[1] < o[1] + s[1]
             /\ o[2] <= c[2] /\ c[2] < o[2] + s[2]
      PROVE  c \in Box(o, s)
  <2>1. c = <<c[1], c[2]>> /\ c[1] \in Int /\ c[2] \in Int
    BY <1>3, PointParts
  <2>2. c[1] \in o[1] .. o[1] + s[1] - 1 /\ c[2] \in o[2] .. o[2] + s[2] - 1
    BY <1>1, <1>3, <2>1
  <2> QED
    BY <2>1, <2>2 DEF Box
<1> QED
  BY <1>2, <1>3

\* A box that is moved.
LEMMA BoxMoves ==
  ASSUME NEW o \in Point, NEW s \in Point, NEW d \in Point, NEW c \in Point
  PROVE  Plus(c, d) \in Box(Plus(o, d), s) <=> c \in Box(o, s)
<1>1. /\ Plus(o, d) \in Point /\ Plus(c, d) \in Point
      /\ Plus(o, d)[1] = o[1] + d[1] /\ Plus(o, d)[2] = o[2] + d[2]
      /\ Plus(c, d)[1] = c[1] + d[1] /\ Plus(c, d)[2] = c[2] + d[2]
  BY PointMoves DEF Plus
<1>2. /\ o[1] \in Int /\ o[2] \in Int /\ s[1] \in Int /\ s[2] \in Int
      /\ c[1] \in Int /\ c[2] \in Int /\ d[1] \in Int /\ d[2] \in Int
  BY PointParts
<1> QED
  BY <1>1, <1>2, BoxMeans

-----------------------------------------------------------------------------
(* The tree.                                                               *)

\* The fields of tree and pic.
Tree == [live : SUBSET Id, parent : [Id -> Id \union {NoWin}], childs : [Id -> Seq(Id)],
         is_open : [Id -> BOOLEAN], at : [Id -> Point], size : [Id -> Extent]]
Pic == [vis : [Id -> SUBSET Point], is_hidden : [Id -> BOOLEAN], is_dirty : [Id -> BOOLEAN],
        dirty : [Id -> SUBSET Point], bitmap : [Id -> SUBSET Point],
        screen : [Display -> (Id \union {NoWin}) \X Point]]

\* Who has no parent within a set of windows.
Founded(t) == \A S \in SUBSET Id : S # {} => \E x \in S : t.parent[x] \notin S

\* Induction from the root.
LEMMA TreeInduction ==
  ASSUME NEW t \in Tree, Founded(t), NEW S \in SUBSET Id,
         \A x \in Id : (t.parent[x] \in Id => t.parent[x] \in S) => x \in S
  PROVE  S = Id
<1>1. SUFFICES ASSUME Id \ S # {} PROVE FALSE
  OBVIOUS
<1>2. PICK x \in Id \ S : t.parent[x] \notin Id \ S
  BY <1>1 DEF Founded
<1> QED
  BY <1>2

\* The ancestors are the parent and its ancestors: the recursion defines something,
\* since what lies in every upward closed set around the parent satisfies it.
LEMMA AncestorsStep ==
  ASSUME NEW t \in Tree, NEW w \in Id
  PROVE  Ancestors(t, w) = IF t.parent[w] = NoWin THEN {}
                           ELSE {t.parent[w]} \union Ancestors(t, t.parent[w])
<1> DEFINE P == t.parent
           Closed(S) == \A y \in S : P[y] \in Id => P[y] \in S
           U == [x \in Id |-> {a \in Id : /\ P[x] # NoWin
                                         /\ \A S \in SUBSET Id : P[x] \in S /\ Closed(S) => a \in S}]
           Rec(f) == f = [x \in Id |-> IF P[x] = NoWin THEN {} ELSE {P[x]} \union f[P[x]]]
<1>1. P \in [Id -> Id \union {NoWin}] /\ NoWin \notin Id
  BY WindowAssumption DEF Tree
<1>2. ASSUME NEW x \in Id, P[x] # NoWin
      PROVE  U[x] = {P[x]} \union U[P[x]]
  <2>1. P[x] \in Id /\ P[x] \in U[x]
    BY <1>1, <1>2
  <2>2. U[P[x]] \subseteq U[x]
    BY <1>1, <1>2, <2>1
  <2>3. {P[x]} \union U[P[x]] \in SUBSET Id
    BY <1>1, <2>1
  <2>4. Closed({P[x]} \union U[P[x]])
    <3> SUFFICES ASSUME NEW y \in {P[x]} \union U[P[x]], P[y] \in Id
                 PROVE  P[y] \in U[P[x]]
      OBVIOUS
    <3>1. CASE y = P[x]
      BY <1>1, <2>1, <3>1
    <3>2. CASE y \in U[P[x]]
      BY <1>1, <2>1, <3>2
    <3> QED
      BY <3>1, <3>2
  <2>5. U[x] \subseteq {P[x]} \union U[P[x]]
    BY <2>1, <2>3, <2>4
  <2> QED
    BY <2>1, <2>2, <2>5
<1>3. Rec(U)
  <2>1. \A x \in Id : U[x] = IF P[x] = NoWin THEN {} ELSE {P[x]} \union U[P[x]]
    BY <1>2
  <2> HIDE DEF U
  <2>2. U = [x \in Id |-> U[x]]
    BY DEF U
  <2> QED
    BY <2>1, <2>2
<1> DEFINE up == CHOOSE f : Rec(f)
<1>4. Rec(up)
  <2> HIDE DEF Rec, U
  <2> QED
    BY <1>3
<1>5. \A x \in Id : up[x] = IF P[x] = NoWin THEN {} ELSE {P[x]} \union up[P[x]]
  <2> HIDE DEF up
  <2> QED
    BY <1>4
<1>6. \A x : Ancestors(t, x) = up[x]
  BY DEF Ancestors
<1> HIDE DEF up
<1> QED
  BY <1>5, <1>6

Nodup(s) == \A i, j \in DOMAIN s : s[i] = s[j] => i = j

\* The windows form a tree whose root is the root window, and the lists of childs
\* are those of the tree.
TreeOK(t) ==
  /\ t \in Tree /\ Founded(t)
  /\ {Root, Background} \subseteq t.live
  /\ t.parent[Root] = NoWin /\ t.parent[Background] = Root
  /\ \A w \in t.live \ {Root} : t.parent[w] \in t.live
  /\ \A w \in Id \ t.live : t.parent[w] = NoWin /\ ~t.is_open[w]
  /\ \A w \in Id : Nodup(t.childs[w]) /\ Childs(t, w) = {x \in t.live : t.parent[x] = w}
  /\ t.is_open[Root] /\ t.at[Root] = <<0, 0>> /\ t.size[Root] = ScreenSize

\* A window with all that it lies in.
Line(t, w) == {w} \union Ancestors(t, w)

\* The fields of a tree.
LEMMA TreeFields ==
  ASSUME NEW t \in Tree
  PROVE  /\ t.live \in SUBSET Id /\ t.parent \in [Id -> Id \union {NoWin}] /\ NoWin \notin Id
         /\ t.childs \in [Id -> Seq(Id)] /\ t.is_open \in [Id -> BOOLEAN]
         /\ t.at \in [Id -> Point] /\ t.size \in [Id -> Extent]
BY WindowAssumption DEF Tree

\* Ancestors are windows, and their ancestors too.
LEMMA AncestorsIn ==
  ASSUME NEW t \in Tree, Founded(t), NEW w \in Id
  PROVE  Ancestors(t, w) \subseteq Id
<1> DEFINE S == {x \in Id : Ancestors(t, x) \subseteq Id}
<1>1. ASSUME NEW x \in Id, t.parent[x] \in Id => t.parent[x] \in S
      PROVE  x \in S
  BY <1>1, AncestorsStep, TreeFields
<1>2. S \in SUBSET Id
  OBVIOUS
<1> HIDE DEF S
<1>3. S = Id
  BY <1>1, <1>2, TreeInduction
<1> QED
  BY <1>3 DEF S

LEMMA AncestorsOf ==
  ASSUME NEW t \in Tree, Founded(t), NEW w \in Id, NEW a \in Ancestors(t, w)
  PROVE  Ancestors(t, a) \subseteq Ancestors(t, w)
<1> DEFINE S == {x \in Id : \A b \in Ancestors(t, x) : Ancestors(t, b) \subseteq Ancestors(t, x)}
<1>1. ASSUME NEW x \in Id, t.parent[x] \in Id => t.parent[x] \in S
      PROVE  x \in S
  <2>1. CASE t.parent[x] = NoWin
    BY <2>1, AncestorsStep
  <2>2. CASE t.parent[x] # NoWin
    <3>1. t.parent[x] \in S
      BY <1>1, <2>2, TreeFields
    <3>2. Ancestors(t, x) = {t.parent[x]} \union Ancestors(t, t.parent[x])
      BY <2>2, AncestorsStep
    <3> QED
      BY <3>1, <3>2
  <2> QED
    BY <2>1, <2>2
<1>2. S \in SUBSET Id
  OBVIOUS
<1> HIDE DEF S
<1>3. S = Id
  BY <1>1, <1>2, TreeInduction
<1> QED
  BY <1>3 DEF S

\* Nothing lies in itself.
LEMMA NotOwnAncestor ==
  ASSUME NEW t \in Tree, Founded(t), NEW w \in Id
  PROVE  w \notin Ancestors(t, w)
<1> DEFINE S == {x \in Id : x \in Ancestors(t, x)}
<1>1. SUFFICES ASSUME S # {} PROVE FALSE
  OBVIOUS
<1>2. PICK x \in S : t.parent[x] \notin S
  BY <1>1 DEF Founded
<1> DEFINE q == t.parent[x]
<1>3. q \in Id /\ Ancestors(t, x) = {q} \union Ancestors(t, q)
  BY <1>2, AncestorsStep, TreeFields
<1>4. q \in Ancestors(t, x) /\ x # q
  BY <1>2, <1>3
<1>5. x \in Ancestors(t, q)
  BY <1>2, <1>3, <1>4
<1>6. q \in Ancestors(t, q)
  BY <1>3, <1>4, <1>5, AncestorsOf
<1> QED
  BY <1>2, <1>3, <1>6

\* All that a window of the tree lies in is part of the tree, with its parent.
LEMMA AncestorsLive ==
  ASSUME NEW t, TreeOK(t), NEW w \in t.live, NEW a \in Line(t, w)
  PROVE  /\ a \in t.live /\ Ancestors(t, a) \subseteq Ancestors(t, w)
         /\ a # Root => t.parent[a] \in t.live /\ t.parent[a] \in Ancestors(t, w)
<1> USE DEF TreeOK
<1>1. t.live \in SUBSET Id /\ w \in Id
  BY TreeFields
<1> DEFINE S == {x \in Id : x \in t.live => Ancestors(t, x) \subseteq t.live}
<1>2. ASSUME NEW x \in Id, t.parent[x] \in Id => t.parent[x] \in S
      PROVE  x \in S
  <2>1. SUFFICES ASSUME x \in t.live PROVE Ancestors(t, x) \subseteq t.live
    OBVIOUS
  <2>2. CASE t.parent[x] = NoWin
    BY <2>2, AncestorsStep
  <2>3. CASE t.parent[x] # NoWin
    <3>1. t.parent[x] \in t.live
      BY <2>1, <2>3
    <3>2. Ancestors(t, t.parent[x]) \subseteq t.live
      BY <1>1, <1>2, <3>1
    <3> QED
      BY <2>3, <3>1, <3>2, AncestorsStep
  <2> QED
    BY <2>2, <2>3
<1>3. S \in SUBSET Id
  OBVIOUS
<1> HIDE DEF S
<1>4. S = Id
  BY <1>2, <1>3, TreeInduction
<1>5. a \in t.live
  BY <1>1, <1>4 DEF S, Line
<1>6. Ancestors(t, a) \subseteq Ancestors(t, w)
  BY <1>1, AncestorsOf DEF Line
<1>7. ASSUME a # Root
      PROVE  t.parent[a] \in t.live /\ t.parent[a] \in Ancestors(t, w)
  <2>1. t.parent[a] \in t.live
    BY <1>5, <1>7
  <2>2. t.parent[a] \in Ancestors(t, a)
    BY <1>1, <1>5, <2>1, AncestorsStep, TreeFields
  <2>3. a = w \/ a \in Ancestors(t, w)
    BY DEF Line
  <2> QED
    BY <1>6, <2>1, <2>2, <2>3
<1> QED
  BY <1>5, <1>6, <1>7

\* The line of a window is the window and the line of its parent.
LEMMA LineStep ==
  ASSUME NEW t, TreeOK(t), NEW w \in t.live \ {Root}
  PROVE  /\ t.parent[w] \in t.live /\ t.parent[w] # w
         /\ Line(t, w) = {w} \union Line(t, t.parent[w])
         /\ Ancestors(t, w) = Line(t, t.parent[w])
<1>1. t.live \in SUBSET Id /\ NoWin \notin Id /\ t \in Tree /\ Founded(t) /\ t.parent[w] \in t.live
  BY TreeFields DEF TreeOK
<1>2. Ancestors(t, w) = {t.parent[w]} \union Ancestors(t, t.parent[w])
  BY <1>1, AncestorsStep
<1>3. w \notin Ancestors(t, w)
  BY <1>1, NotOwnAncestor
<1> QED
  BY <1>1, <1>2, <1>3 DEF Line

\* The places of a list without doubles.
LEMMA Places ==
  ASSUME NEW t, TreeOK(t), NEW w \in t.live \ {Root}
  PROVE  LET s == t.childs[t.parent[w]]
         IN  /\ s \in Seq(Id) /\ Nodup(s) /\ Len(s) \in Nat /\ DOMAIN s = 1 .. Len(s)
             /\ Place(t, w) \in 1 .. Len(s) /\ s[Place(t, w)] = w
             /\ \A i \in 1 .. Len(s) : s[i] = w => i = Place(t, w)
             /\ \A i \in 1 .. Len(s) : s[i] \in t.live \ {Root} /\ t.parent[s[i]] = t.parent[w]
<1> DEFINE q == t.parent[w]
           s == t.childs[q]
<1>1. q \in Id /\ q \in t.live
  BY LineStep, TreeFields DEF TreeOK
<1>2. s \in Seq(Id) /\ Nodup(s)
  BY <1>1, TreeFields DEF TreeOK
<1>3. Len(s) \in Nat /\ DOMAIN s = 1 .. Len(s)
  BY <1>2, LenProperties
<1>4. {s[i] : i \in DOMAIN s} = {x \in t.live : t.parent[x] = q}
  BY <1>1 DEF TreeOK, Childs
<1>5. \E i \in DOMAIN s : s[i] = w
  BY <1>4
<1>6. Place(t, w) \in DOMAIN s /\ s[Place(t, w)] = w
  BY <1>5 DEF Place
<1>7. \A i \in DOMAIN s : s[i] \in t.live /\ t.parent[s[i]] = q
  BY <1>4
<1>8. t.parent[Root] # q
  BY <1>1, TreeFields DEF TreeOK
<1> QED
  BY <1>2, <1>3, <1>6, <1>7, <1>8 DEF Nodup

\* Who is above and below whom among the childs of a window.
Higher(t, x, w) ==
  \E i, j \in DOMAIN t.childs[t.parent[w]] :
    i < j /\ t.childs[t.parent[w]][i] = x /\ t.childs[t.parent[w]][j] = w

LEMMA LeftMeans ==
  ASSUME NEW t, TreeOK(t), NEW w \in t.live \ {Root}, NEW x
  PROVE  x \in Left(t, w) <=> Higher(t, x, w)
<1> DEFINE s == t.childs[t.parent[w]]
<1>1. /\ Len(s) \in Nat /\ DOMAIN s = 1 .. Len(s)
      /\ Place(t, w) \in 1 .. Len(s) /\ s[Place(t, w)] = w
      /\ \A i \in 1 .. Len(s) : s[i] = w => i = Place(t, w)
  BY Places
<1>2. Left(t, w) = {s[i] : i \in 1 .. Place(t, w) - 1}
  BY DEF Left, Siblings
<1> HIDE DEF s
<1>3. x \in Left(t, w) <=> \E i \in 1 .. Place(t, w) - 1 : s[i] = x
  BY <1>2
<1>4. Higher(t, x, w) <=> \E i, j \in 1 .. Len(s) : i < j /\ s[i] = x /\ s[j] = w
  BY <1>1 DEF Higher, s
<1>5. ASSUME NEW i \in 1 .. Place(t, w) - 1, s[i] = x
      PROVE  Higher(t, x, w)
  <2>1. i \in 1 .. Len(s) /\ i < Place(t, w)
    BY <1>1
  <2> QED
    BY <1>1, <1>4, <1>5, <2>1
<1>6. ASSUME NEW i \in 1 .. Len(s), NEW j \in 1 .. Len(s), i < j, s[i] = x, s[j] = w
      PROVE  x \in Left(t, w)
  <2>1. j = Place(t, w)
    BY <1>1, <1>6
  <2>2. i \in 1 .. Place(t, w) - 1
    BY <1>1, <1>6, <2>1
  <2> QED
    BY <1>3, <1>6, <2>2
<1> QED
  BY <1>3, <1>4, <1>5, <1>6

LEMMA RightMeans ==
  ASSUME NEW t, TreeOK(t), NEW w \in t.live \ {Root}, NEW x
  PROVE  x \in Right(t, w) <=> x \in t.live \ {Root} /\ t.parent[x] = t.parent[w] /\ Higher(t, w, x)
<1> DEFINE s == t.childs[t.parent[w]]
<1>1. /\ Len(s) \in Nat /\ DOMAIN s = 1 .. Len(s)
      /\ Place(t, w) \in 1 .. Len(s) /\ s[Place(t, w)] = w
      /\ \A i \in 1 .. Len(s) : s[i] = w => i = Place(t, w)
      /\ \A i \in 1 .. Len(s) : s[i] \in t.live \ {Root} /\ t.parent[s[i]] = t.parent[w]
  BY Places
<1>2. Right(t, w) = {s[i] : i \in Place(t, w) + 1 .. Len(s)}
  BY DEF Right, Siblings
<1>3. t.parent[x] = t.parent[w] =>
        (Higher(t, w, x) <=> \E i, j \in 1 .. Len(s) : i < j /\ s[i] = w /\ s[j] = x)
  BY <1>1 DEF Higher
<1> HIDE DEF s
<1>4. x \in Right(t, w) <=> \E i \in Place(t, w) + 1 .. Len(s) : s[i] = x
  BY <1>2
<1>5. ASSUME NEW i \in Place(t, w) + 1 .. Len(s), s[i] = x
      PROVE  x \in t.live \ {Root} /\ t.parent[x] = t.parent[w] /\ Higher(t, w, x)
  <2>1. i \in 1 .. Len(s) /\ Place(t, w) < i
    BY <1>1
  <2>2. x \in t.live \ {Root} /\ t.parent[x] = t.parent[w]
    BY <1>1, <1>5, <2>1
  <2> QED
    BY <1>1, <1>3, <1>5, <2>1, <2>2
<1>6. ASSUME NEW i \in 1 .. Len(s), NEW j \in 1 .. Len(s), i < j, s[i] = w, s[j] = x
      PROVE  x \in Right(t, w)
  <2>1. i = Place(t, w)
    BY <1>1, <1>6
  <2>2. j \in Place(t, w) + 1 .. Len(s)
    BY <1>1, <1>6, <2>1
  <2> QED
    BY <1>4, <1>6, <2>2
<1> QED
  BY <1>3, <1>4, <1>5, <1>6

\* The childs of a window, seen from one of them.
LEMMA SiblingsOf ==
  ASSUME NEW t, TreeOK(t), NEW w \in t.live \ {Root}
  PROVE  /\ \A x \in Left(t, w) : /\ x \in t.live \ {Root} /\ t.parent[x] = t.parent[w] /\ x # w
                                  /\ w \in Right(t, x) /\ x \notin Right(t, w)
         /\ \A x \in Right(t, w) : /\ x \in t.live \ {Root} /\ t.parent[x] = t.parent[w] /\ x # w
                                   /\ w \in Left(t, x)
         /\ \A x \in t.live \ {Root} : t.parent[x] = t.parent[w] =>
              x = w \/ x \in Left(t, w) \/ x \in Right(t, w)
<1> DEFINE s == t.childs[t.parent[w]]
<1>1. /\ Len(s) \in Nat /\ DOMAIN s = 1 .. Len(s)
      /\ Place(t, w) \in 1 .. Len(s) /\ s[Place(t, w)] = w
      /\ \A i \in 1 .. Len(s) : s[i] = w => i = Place(t, w)
      /\ \A i \in 1 .. Len(s) : s[i] \in t.live \ {Root} /\ t.parent[s[i]] = t.parent[w]
      /\ Nodup(s)
  BY Places
<1>0. \A i, j \in 1 .. Len(s) : s[i] = s[j] => i = j
  BY <1>1 DEF Nodup
<1>2. \A x : t.parent[x] = t.parent[w] =>
        (Higher(t, w, x) <=> \E i, j \in 1 .. Len(s) : i < j /\ s[i] = w /\ s[j] = x)
  BY <1>1 DEF Higher
<1>3. \A x : Higher(t, x, w) <=> \E i, j \in 1 .. Len(s) : i < j /\ s[i] = x /\ s[j] = w
  BY <1>1 DEF Higher
<1>4. \A x \in t.live \ {Root} : t.parent[x] = t.parent[w] => \E i \in 1 .. Len(s) : s[i] = x
  BY Places
<1> HIDE DEF s
<1>5. ASSUME NEW x \in Left(t, w)
      PROVE  /\ x \in t.live \ {Root} /\ t.parent[x] = t.parent[w] /\ x # w
             /\ w \in Right(t, x) /\ x \notin Right(t, w)
  <2>1. PICK i, j \in 1 .. Len(s) : i < j /\ s[i] = x /\ s[j] = w
    BY <1>3, LeftMeans
  <2>2. x \in t.live \ {Root} /\ t.parent[x] = t.parent[w] /\ x # w
    BY <1>1, <2>1
  <2>3. w \in Right(t, x)
    BY <2>2, LeftMeans, RightMeans
  <2>4. ~Higher(t, w, x)
    <3> SUFFICES ASSUME NEW k \in 1 .. Len(s), NEW l \in 1 .. Len(s), k < l, s[k] = w, s[l] = x
                 PROVE  FALSE
      BY <1>2, <2>2
    <3>1. k = j /\ l = i
      BY <1>0, <2>1
    <3> QED
      BY <1>1, <2>1, <3>1
  <2> QED
    BY <2>2, <2>3, <2>4, RightMeans
<1>6. ASSUME NEW x \in Right(t, w)
      PROVE  /\ x \in t.live \ {Root} /\ t.parent[x] = t.parent[w] /\ x # w
             /\ w \in Left(t, x)
  <2>1. x \in t.live \ {Root} /\ t.parent[x] = t.parent[w] /\ Higher(t, w, x)
    BY RightMeans
  <2>2. PICK i, j \in 1 .. Len(s) : i < j /\ s[i] = w /\ s[j] = x
    BY <1>2, <2>1
  <2>3. x # w
    BY <1>1, <2>2
  <2> QED
    BY <2>1, <2>3, LeftMeans
<1>7. ASSUME NEW x \in t.live \ {Root}, t.parent[x] = t.parent[w]
      PROVE  x = w \/ x \in Left(t, w) \/ x \in Right(t, w)
  <2>1. PICK i \in 1 .. Len(s) : s[i] = x
    BY <1>4, <1>7
  <2>2. i = Place(t, w) \/ i < Place(t, w) \/ Place(t, w) < i
    BY <1>1
  <2> QED
    BY <1>1, <1>2, <1>3, <1>7, <2>1, <2>2, LeftMeans, RightMeans
<1> QED
  BY <1>5, <1>6, <1>7

-----------------------------------------------------------------------------
(* Windows on the screen.                                                  *)

\* A window has cells, its work area is part of it, and all of them are points.
LEMMA PosFacts ==
  ASSUME NEW t \in Tree, NEW w \in Id
  PROVE  /\ Pos(t, w) \subseteq Point /\ Work(t, w) \subseteq Pos(t, w)
         /\ t.at[w] \in Pos(t, w) /\ Pos(t, w) # {} /\ Full(t, w) \in Point
<1> DEFINE o == t.at[w]
           s == t.size[w]
           e == Edge(w)
<1>1. o \in Point /\ s \in Extent
  BY TreeFields
<1>2. e \in Nat \X Nat
  BY SizesAreExtents DEF Edge
<1>3. /\ o[1] \in Int /\ o[2] \in Int /\ s[1] \in Nat \ {0} /\ s[2] \in Nat \ {0}
      /\ e[1] \in Nat /\ e[2] \in Nat
  BY <1>1, <1>2, PointParts DEF Extent
<1>4. /\ Full(t, w) \in Point /\ Full(t, w)[1] = s[1] + (e[1] + e[1])
      /\ Full(t, w)[2] = s[2] + (e[2] + e[2])
  BY <1>3 DEF Full, Plus, Point
<1>5. Plus(o, e) \in Point /\ Plus(o, e)[1] = o[1] + e[1] /\ Plus(o, e)[2] = o[2] + e[2]
  BY <1>3 DEF Plus, Point
<1>6. s \in Point
  BY <1>1 DEF Extent, Point
<1> HIDE DEF o, s, e
<1>7. Pos(t, w) = Box(o, Full(t, w)) /\ Work(t, w) = Box(Plus(o, e), s)
  BY DEF Pos, Work, o, s, e
<1>8. Pos(t, w) \subseteq Point
  BY <1>1, <1>4, <1>7, BoxMeans
<1>9. Work(t, w) \subseteq Pos(t, w)
  <2> SUFFICES ASSUME NEW c \in Work(t, w) PROVE c \in Pos(t, w)
    OBVIOUS
  <2>1. /\ c \in Point /\ o[1] + e[1] <= c[1] /\ c[1] < o[1] + e[1] + s[1]
        /\ o[2] + e[2] <= c[2] /\ c[2] < o[2] + e[2] + s[2]
    BY <1>5, <1>6, <1>7, BoxMeans
  <2>2. c[1] \in Int /\ c[2] \in Int
    BY <2>1, PointParts
  <2>3. /\ o[1] <= c[1] /\ c[1] < o[1] + (s[1] + (e[1] + e[1]))
        /\ o[2] <= c[2] /\ c[2] < o[2] + (s[2] + (e[2] + e[2]))
    BY <1>3, <2>1, <2>2
  <2> QED
    BY <1>1, <1>4, <1>7, <2>1, <2>3, BoxMeans
<1>10. o \in Pos(t, w)
  <2>1. o[1] < o[1] + (s[1] + (e[1] + e[1])) /\ o[2] < o[2] + (s[2] + (e[2] + e[2]))
    BY <1>3
  <2> QED
    BY <1>1, <1>3, <1>4, <1>7, <2>1, BoxMeans
<1> QED
  BY <1>4, <1>8, <1>9, <1>10 DEF o

\* A cell lies in all that y lies in, which is open.
Inside(t, y, c) == \A a \in Ancestors(t, y) : t.is_open[a] /\ c \in Work(t, a)

\* An open window above covers it, and so does a child.
Covered(t, y, c) == \E a \in Line(t, y) : \E x \in Left(t, a) : t.is_open[x] /\ c \in Pos(t, x)
ByChild(t, y, c) == \E x \in Childs(t, y) : t.is_open[x] /\ c \in Pos(t, x) /\ c \in Work(t, y)

LEMMA BuildMeans ==
  ASSUME NEW t, NEW y, NEW c
  PROVE  c \in Build(t, y) <=>
           c \in Pos(t, y) /\ Inside(t, y, c) /\ ~Covered(t, y, c) /\ ~ByChild(t, y, c)
BY DEF Build, Inside, Covered, ByChild, Line

\* What is visible of a window lies in all that it lies in.
LEMMA BuildWithin ==
  ASSUME NEW t, TreeOK(t), NEW y \in t.live, NEW a \in Line(t, y), NEW c \in Build(t, y)
  PROVE  c \in Pos(t, a) /\ (a # y => t.is_open[a] /\ c \in Work(t, a))
<1>1. a \in Id /\ t \in Tree
  BY AncestorsLive, TreeFields DEF TreeOK
<1>2. c \in Pos(t, y) /\ Inside(t, y, c)
  BY BuildMeans
<1>3. a # y => t.is_open[a] /\ c \in Work(t, a)
  BY <1>2 DEF Line, Inside
<1> QED
  BY <1>1, <1>2, <1>3, PosFacts

\* Nothing that matters for the screen has changed of a window.
Same(t0, t, x) ==
  /\ t.is_open[x] <=> t0.is_open[x]
  /\ t0.is_open[x] => t.at[x] = t0.at[x] /\ t.size[x] = t0.size[x]

LEMMA SamePos ==
  ASSUME NEW t0, NEW t, NEW x, Same(t0, t, x), t0.is_open[x]
  PROVE  t.is_open[x] /\ Pos(t, x) = Pos(t0, x) /\ Work(t, x) = Work(t0, x)
BY DEF Same, Pos, Work, Full

\* Windows whose parents are the same lie in the same windows.
LEMMA SameAncestors ==
  ASSUME NEW t0 \in Tree, NEW t \in Tree, Founded(t0), Founded(t), NEW S \in SUBSET Id,
         \A x \in S : /\ t.parent[x] = t0.parent[x]
                      /\ t.parent[x] \in Id => t.parent[x] \in S
  PROVE  \A x \in S : Ancestors(t, x) = Ancestors(t0, x) /\ Line(t, x) = Line(t0, x)
<1> DEFINE A == {x \in Id : x \in S => Ancestors(t, x) = Ancestors(t0, x)}
<1>1. ASSUME NEW x \in Id, t.parent[x] \in Id => t.parent[x] \in A
      PROVE  x \in A
  <2>1. SUFFICES ASSUME x \in S PROVE Ancestors(t, x) = Ancestors(t0, x)
    OBVIOUS
  <2>2. CASE t.parent[x] = NoWin
    BY <2>1, <2>2, AncestorsStep
  <2>3. CASE t.parent[x] # NoWin
    <3>1. t.parent[x] \in Id /\ t.parent[x] \in S /\ t.parent[x] = t0.parent[x]
      BY <2>1, <2>3, TreeFields
    <3>2. Ancestors(t, t.parent[x]) = Ancestors(t0, t0.parent[x])
      BY <1>1, <3>1
    <3> QED
      BY <2>3, <3>1, <3>2, AncestorsStep
  <2> QED
    BY <2>2, <2>3
<1>2. A \in SUBSET Id
  OBVIOUS
<1> HIDE DEF A
<1>3. A = Id
  BY <1>1, <1>2, TreeInduction
<1>4. \A x \in S : Ancestors(t, x) = Ancestors(t0, x)
  BY <1>3 DEF A
<1> QED
  BY <1>4 DEF Line

-----------------------------------------------------------------------------
(* Rebuilding.                                                             *)

\* The rectangle list of y is what the tree says, and so is its is_hidden.
Exact(p, t, y) ==
  /\ p.vis[y] = IF t.is_open[y] THEN Build(t, y) ELSE {}
  /\ t.is_open[y] => (p.is_hidden[y] <=> p.vis[y] # Pos(t, y))

Regions(p, t) == \A y \in Id : Exact(p, t, y)

\* window_rebuild_recs() in a traversal of T leaves y out, though it is open.
Unmet(t, T, y, area) ==
  \E a \in Line(t, y) \intersect T : t.is_open[a] /\ Pos(t, a) \intersect area = {}

\* It is exact after window_rebuild_recs(): it is rebuilt, or was exact before.
Repairable(p, t, T, y, area) ==
  Exact(p, t, y) \/ (y \in T /\ t.is_open[y] /\ ~Unmet(t, T, y, area))

\* The fields of a picture.
LEMMA PicFields ==
  ASSUME NEW p \in Pic
  PROVE  /\ p.vis \in [Id -> SUBSET Point] /\ p.is_hidden \in [Id -> BOOLEAN]
         /\ p.is_dirty \in [Id -> BOOLEAN] /\ p.dirty \in [Id -> SUBSET Point]
         /\ p.bitmap \in [Id -> SUBSET Point]
         /\ p.screen \in [Display -> (Id \union {NoWin}) \X Point]
BY DEF Pic

\* What window_rebuild_recs() does.
LEMMA RebuildMeans ==
  ASSUME NEW p \in Pic, NEW t \in Tree, NEW T \in SUBSET Id, NEW area
  PROVE  /\ Rebuild(p, t, T, area) \in Pic
         /\ \A y \in Id : Repairable(p, t, T, y, area) => Exact(Rebuild(p, t, T, area), t, y)
         /\ \A y \in Id \ T : /\ Rebuild(p, t, T, area).vis[y] = p.vis[y]
                              /\ Rebuild(p, t, T, area).is_hidden[y] = p.is_hidden[y]
<1> DEFINE Meets(w) == Pos(t, w) \intersect area # {}
           met == {w \in T : /\ t.is_open[w] /\ Meets(w)
                             /\ \A a \in Ancestors(t, w) \intersect T : t.is_open[a] => Meets(a)}
           vis == [w \in Id |-> IF w \in met THEN Build(t, w) ELSE p.vis[w]]
           hid == [w \in Id |-> IF w \in met THEN vis[w] # Pos(t, w) ELSE p.is_hidden[w]]
           q == Rebuild(p, t, T, area)
<1>1. q = [p EXCEPT !.vis = vis, !.is_hidden = hid]
  BY DEF Rebuild
<1>2. \A y \in met : y \in T /\ t.is_open[y] /\ ~Unmet(t, T, y, area)
  BY DEF Unmet, Line
<1>3. \A y \in T : t.is_open[y] /\ ~Unmet(t, T, y, area) => y \in met
  BY DEF Unmet, Line
<1> HIDE DEF met, q
<1>4. \A y \in Id : Build(t, y) \subseteq Point
  BY BuildMeans, PosFacts
<1>5. vis \in [Id -> SUBSET Point] /\ hid \in [Id -> BOOLEAN]
  BY <1>4, PicFields
<1>6. q \in Pic /\ q.vis = vis /\ q.is_hidden = hid
  BY <1>1, <1>5 DEF Pic
<1>7. ASSUME NEW y \in Id, Repairable(p, t, T, y, area)
      PROVE  Exact(q, t, y)
  <2>1. CASE y \in met
    <3>1. q.vis[y] = Build(t, y) /\ (q.is_hidden[y] <=> q.vis[y] # Pos(t, y)) /\ t.is_open[y]
      BY <1>2, <1>6, <2>1
    <3> QED
      BY <3>1 DEF Exact
  <2>2. CASE y \notin met
    <3>1. q.vis[y] = p.vis[y] /\ q.is_hidden[y] = p.is_hidden[y]
      BY <1>6, <2>2
    <3>2. Exact(p, t, y)
      BY <1>3, <1>7, <2>2 DEF Repairable
    <3> QED
      BY <3>1, <3>2 DEF Exact
  <2> QED
    BY <2>1, <2>2
<1>8. \A y \in Id \ T : q.vis[y] = p.vis[y] /\ q.is_hidden[y] = p.is_hidden[y]
  BY <1>2, <1>6
<1> QED
  BY <1>6, <1>7, <1>8 DEF q

\* A window of the traversal whose region only differs in the area is repaired.
LEMMA RepairedInArea ==
  ASSUME NEW p \in Pic, NEW t0, NEW t, TreeOK(t0), TreeOK(t), NEW y \in t0.live \intersect t.live,
         NEW T \in SUBSET Id, NEW area, y \in T,
         Line(t, y) = Line(t0, y), \A a \in Line(t, y) : Same(t0, t, a),
         t.is_open[y] => \A c : c \in Build(t, y) /\ c \notin area <=> c \in Build(t0, y) /\ c \notin area,
         Exact(p, t0, y)
  PROVE  Repairable(p, t, T, y, area)
<1>1. SUFFICES ASSUME ~t.is_open[y] \/ Unmet(t, T, y, area)
               PROVE  Exact(p, t, y)
  BY DEF Repairable
<1>2. y \in Line(t, y)
  BY DEF Line
<1>3. CASE ~t.is_open[y]
  BY <1>2, <1>3 DEF Exact, Same
<1>4. CASE t.is_open[y] /\ Unmet(t, T, y, area)
  <2>1. PICK a \in Line(t, y) : t.is_open[a] /\ Pos(t, a) \intersect area = {}
    BY <1>4 DEF Unmet
  <2>2. Pos(t, a) = Pos(t0, a) /\ t0.is_open[y] /\ Pos(t, y) = Pos(t0, y)
    BY <1>2, <1>4, <2>1, SamePos DEF Same
  <2>3. \A c : c \in Build(t, y) => c \notin area
    BY <2>1, BuildWithin
  <2>4. \A c : c \in Build(t0, y) => c \notin area
    BY <2>1, <2>2, BuildWithin
  <2>5. Build(t, y) = Build(t0, y)
    BY <1>4, <2>3, <2>4
  <2> QED
    BY <1>4, <2>2, <2>5 DEF Exact
<1> QED
  BY <1>1, <1>3, <1>4

-----------------------------------------------------------------------------
(* Drawing keeps the regions.                                              *)

Kept(p, q) == q \in Pic /\ q.vis = p.vis /\ q.is_hidden = p.is_hidden

LEMMA KeptRegions ==
  ASSUME NEW p, NEW q, NEW t, Kept(p, q)
  PROVE  /\ q \in Pic
         /\ \A y \in Id : Exact(q, t, y) <=> Exact(p, t, y)
         /\ Regions(q, t) <=> Regions(p, t)
BY DEF Kept, Exact, Regions

LEMMA DisplayPoints == Display \subseteq Point
<1>1. ScreenSize \in Point /\ <<0, 0>> \in Point
  BY SizesAreExtents DEF Extent, Point
<1> QED
  BY <1>1, BoxMeans DEF Display

LEMMA CellsPoints ==
  ASSUME NEW t \in Tree, NEW w \in Id
  PROVE  /\ Cells(t, w) \subseteq Point /\ WorkCells(t, w) \subseteq Point
         /\ \A S : Hull(t, w, S) \subseteq Point
<1>1. Full(t, w) \in Point /\ <<0, 0>> \in Point /\ t.size[w] \in Point /\ Edge(w) \in Point
  BY PosFacts, SizesAreExtents, TreeFields DEF Extent, Point, Edge
<1>2. Cells(t, w) \subseteq Point /\ WorkCells(t, w) \subseteq Point
  BY <1>1, BoxMeans DEF Cells, WorkCells
<1> QED
  BY <1>2 DEF Hull

LEMMA SaveKeeps ==
  ASSUME NEW p \in Pic, NEW t \in Tree, NEW T, NEW area
  PROVE  Kept(p, Save(p, t, T, area))
<1> DEFINE Newer(w) == t.is_open[w] /\ p.is_dirty[w] /\ ~p.is_hidden[w]
           saved == {w \in T : Newer(w) /\ Pos(t, w) \intersect area # {}}
           Copied(w) == {r \in Cells(t, w) :
             IF Plus(r, t.at[w]) \in p.vis[w] THEN p.screen[Plus(r, t.at[w])] = <<w, r>>
                                              ELSE r \in p.bitmap[w]}
           bits == [w \in Id |-> IF w \in saved \ Container THEN Copied(w) ELSE p.bitmap[w]]
           dirt == [w \in Id |-> p.is_dirty[w] /\ ~(w \in T /\ (Newer(w) => w \in saved))]
<1>1. Save(p, t, T, area) = [p EXCEPT !.bitmap = bits, !.is_dirty = dirt]
  BY DEF Save
<1>2. \A w \in Id : Copied(w) \subseteq Point
  BY CellsPoints
<1> HIDE DEF Copied, saved, Newer
<1>3. bits \in [Id -> SUBSET Point]
  BY <1>2, PicFields
<1>4. dirt \in [Id -> BOOLEAN]
  OBVIOUS
<1> HIDE DEF bits, dirt
<1> QED
  BY <1>1, <1>3, <1>4 DEF Kept, Pic

\* Whose cell a cell of the screen shows, after it was drawn again.
LEMMA CellsShown ==
  /\ Stale \in (Id \union {NoWin}) \X Point
  /\ \A t \in Tree : \A w \in Id : \A c \in Point : /\ Minus(c, t.at[w]) \in Point
                                                    /\ <<w, Minus(c, t.at[w])>> \in (Id \union {NoWin}) \X Point
<1>1. Stale \in (Id \union {NoWin}) \X Point
  BY DEF Stale, Point
<1>2. ASSUME NEW t \in Tree, NEW w \in Id, NEW c \in Point
      PROVE  Minus(c, t.at[w]) \in Point
  BY PointMoves, TreeFields
<1> QED
  BY <1>1, <1>2

LEMMA RedrawKeeps ==
  ASSUME NEW p \in Pic, NEW t \in Tree, NEW T \in SUBSET Id, NEW area
  PROVE  Kept(p, Redraw(p, t, T, area))
<1> DEFINE opened == {w \in T : t.is_open[w]}
           Due(w, c) == c \in area \/ (~p.is_hidden[w] /\ Minus(c, t.at[w]) \in p.dirty[w])
           Copy(w, r) == IF r \in p.bitmap[w] THEN <<w, r>> ELSE Stale
           scr == [c \in Display |->
                    IF \E w \in opened : c \in p.vis[w] /\ Due(w, c)
                    THEN LET w == CHOOSE x \in opened : c \in p.vis[x] /\ Due(x, c)
                         IN  Copy(w, Minus(c, t.at[w]))
                    ELSE p.screen[c]]
           dirt == [w \in Id |-> IF w \in opened /\ ~p.is_hidden[w] THEN {} ELSE p.dirty[w]]
<1>1. Redraw(p, t, T, area) = [[p EXCEPT !.screen = scr] EXCEPT !.dirty = dirt]
  <2> DEFINE b == Blit(p, t, opened, Due)
  <2>1. b = [p EXCEPT !.screen = scr]
    BY DEF Blit
  <2>2. Redraw(p, t, T, area)
        = [b EXCEPT !.dirty = [w \in Id |-> IF w \in opened /\ ~p.is_hidden[w] THEN {} ELSE b.dirty[w]]]
    BY <2>1 DEF Redraw, Pic
  <2> HIDE DEF b, scr
  <2>3. b.dirty = p.dirty
    BY <2>1 DEF Pic
  <2> QED
    BY <2>1, <2>2, <2>3
<1>2. \A w \in Id, c \in Point : Copy(w, Minus(c, t.at[w])) \in (Id \union {NoWin}) \X Point
  BY CellsShown
<1>3. opened \subseteq Id
  OBVIOUS
<1> HIDE DEF Copy, opened
<1>4. ASSUME NEW c \in Display
      PROVE  scr[c] \in (Id \union {NoWin}) \X Point
  <2>1. CASE \E w \in opened : c \in p.vis[w] /\ Due(w, c)
    <3> DEFINE w == CHOOSE x \in opened : c \in p.vis[x] /\ Due(x, c)
    <3>1. w \in opened
      BY <2>1
    <3>2. scr[c] = Copy(w, Minus(c, t.at[w]))
      BY <2>1
    <3> HIDE DEF w
    <3> QED
      BY <1>2, <1>3, <3>1, <3>2, DisplayPoints
  <2>2. CASE ~\E w \in opened : c \in p.vis[w] /\ Due(w, c)
    <3>1. scr[c] = p.screen[c]
      BY <2>2
    <3> QED
      BY <3>1, PicFields
  <2> QED
    BY <2>1, <2>2
<1> HIDE DEF Due
<1>5. scr \in [Display -> (Id \union {NoWin}) \X Point]
  <2> DEFINE F(c) == scr[c]
  <2>1. scr = [c \in Display |-> F(c)]
    OBVIOUS
  <2> HIDE DEF scr
  <2> QED
    BY <1>4, <2>1
<1>6. dirt \in [Id -> SUBSET Point]
  BY PicFields
<1> HIDE DEF scr, dirt
<1> QED
  BY <1>1, <1>5, <1>6 DEF Kept, Pic

LEMMA PaintKeeps ==
  ASSUME NEW p \in Pic, NEW t \in Tree, NEW w \in Id, NEW part \in SUBSET Point
  PROVE  Kept(p, Paint(p, t, w, part))
<1> DEFINE scr == [c \in Display |-> IF p.screen[c] \in {w} \X part THEN Stale ELSE p.screen[c]]
           old == [p EXCEPT !.screen = scr]
           shown == [c \in Display |->
                      IF c \in Shift(part, t.at[w]) THEN <<w, Minus(c, t.at[w])>> ELSE scr[c]]
           less == [p.bitmap EXCEPT ![w] = @ \ part]
           more == [p.bitmap EXCEPT ![w] = @ \union part]
           dirty == [p.is_dirty EXCEPT ![w] = TRUE]
           hull == [p.dirty EXCEPT ![w] = IF t.is_open[w] THEN Hull(t, w, @ \union part) ELSE @]
<1>1. scr \in [Display -> (Id \union {NoWin}) \X Point]
  <2>1. \A c \in Display : scr[c] \in (Id \union {NoWin}) \X Point
    BY CellsShown, PicFields
  <2> QED
    BY <2>1
<1>2. shown \in [Display -> (Id \union {NoWin}) \X Point]
  <2>1. \A c \in Display : shown[c] \in (Id \union {NoWin}) \X Point
    BY <1>1, CellsShown, DisplayPoints
  <2> QED
    BY <2>1
<1>3. less \in [Id -> SUBSET Point] /\ more \in [Id -> SUBSET Point] /\ dirty \in [Id -> BOOLEAN]
  BY PicFields
<1>4. hull \in [Id -> SUBSET Point]
  BY PicFields, CellsPoints
<1>5. /\ old \in Pic /\ old.screen = scr /\ old.vis = p.vis /\ old.is_hidden = p.is_hidden
      /\ old.bitmap = p.bitmap /\ old.is_dirty = p.is_dirty /\ old.dirty = p.dirty
  BY <1>1 DEF Pic
<1>6. CASE t.is_open[w] /\ ~p.is_hidden[w]
  <2>1. Paint(p, t, w, part) = [old EXCEPT !.screen = shown, !.bitmap = less, !.is_dirty = dirty]
    BY <1>5, <1>6 DEF Paint
  <2> HIDE DEF old, shown, less, dirty
  <2> QED
    BY <1>2, <1>3, <1>5, <2>1 DEF Kept, Pic
<1>7. CASE ~(t.is_open[w] /\ ~p.is_hidden[w])
  <2>1. Paint(p, t, w, part) = [old EXCEPT !.bitmap = more, !.dirty = hull]
    BY <1>5, <1>7 DEF Paint
  <2> HIDE DEF old, more, hull
  <2> QED
    BY <1>3, <1>4, <1>5, <2>1 DEF Kept, Pic
<1> QED
  BY <1>6, <1>7

LEMMA FrameKeeps ==
  ASSUME NEW p \in Pic, NEW t \in Tree, NEW w \in Id
  PROVE  Kept(p, Frame(p, t, w))
<1> DEFINE frame == Cells(t, w) \ WorkCells(t, w)
           scr == [c \in Display |-> IF p.screen[c] \in {w} \X frame THEN Stale ELSE p.screen[c]]
           hull == [p.dirty EXCEPT ![w] = Hull(t, w, @ \union Cells(t, w))]
<1>1. frame \in SUBSET Point
  BY CellsPoints
<1>2. CASE w \notin Bordered \/ ~t.is_open[w]
  BY <1>2 DEF Frame, Kept
<1>3. CASE ~(w \notin Bordered \/ ~t.is_open[w]) /\ w \notin Container
  <2>1. Frame(p, t, w) = Paint(p, t, w, frame)
    BY <1>3 DEF Frame
  <2> HIDE DEF frame
  <2> QED
    BY <1>1, <2>1, PaintKeeps
<1>4. CASE ~(w \notin Bordered \/ ~t.is_open[w]) /\ w \in Container
  <2>1. scr \in [Display -> (Id \union {NoWin}) \X Point]
    <3>1. \A c \in Display : scr[c] \in (Id \union {NoWin}) \X Point
      BY CellsShown, PicFields
    <3> QED
      BY <3>1
  <2>2. hull \in [Id -> SUBSET Point]
    BY PicFields, CellsPoints
  <2>3. Frame(p, t, w) = [p EXCEPT !.screen = scr, !.dirty = hull]
    BY <1>4 DEF Frame, Pic
  <2> HIDE DEF scr, hull
  <2> QED
    BY <2>1, <2>2, <2>3 DEF Kept, Pic
<1> QED
  BY <1>2, <1>3, <1>4

LEMMA RefocusedKeeps ==
  ASSUME NEW p \in Pic, NEW t \in Tree, NEW q \in Refocused(p, t)
  PROVE  Kept(p, q)
<1>1. CASE q = p
  BY <1>1 DEF Kept
<1>2. ASSUME NEW a \in Bordered, NEW b \in Bordered, q = Frame(Frame(p, t, a), t, b)
      PROVE  Kept(p, q)
  <2>1. a \in Id /\ b \in Id
    BY WindowAssumption DEF Id
  <2>2. Kept(p, Frame(p, t, a))
    BY <2>1, FrameKeeps
  <2>3. Kept(Frame(p, t, a), q)
    BY <1>2, <2>1, <2>2, FrameKeeps DEF Kept
  <2> QED
    BY <2>2, <2>3 DEF Kept
<1>3. ASSUME NEW a \in Bordered, q = Frame(p, t, a)
      PROVE  Kept(p, q)
  <2>1. a \in Id
    BY WindowAssumption DEF Id
  <2> QED
    BY <1>3, <2>1, FrameKeeps
<1>4. \/ q = p
      \/ \E a \in Bordered : q = Frame(p, t, a)
      \/ \E a, b \in Bordered : q = Frame(Frame(p, t, a), t, b)
  BY DEF Refocused
<1> QED
  BY <1>1, <1>2, <1>3, <1>4

-----------------------------------------------------------------------------
(* Who is concerned when one window changes.                               *)

\* The subtree of w are those in whose line w is.
LEMMA SubtreeMeans ==
  ASSUME NEW t, NEW w, NEW x
  PROVE  x \in Subtree(t, w) <=> x \in t.live /\ w \in Line(t, x)
BY DEF Subtree, Line

\* The tree is the same but for the order of the childs.
Alike(t0, t) == t.live = t0.live /\ t.parent = t0.parent

LEMMA AlikeLines ==
  ASSUME NEW t0, NEW t, TreeOK(t0), TreeOK(t), Alike(t0, t)
  PROVE  /\ \A x \in Id : Ancestors(t, x) = Ancestors(t0, x) /\ Line(t, x) = Line(t0, x)
         /\ \A x \in Id : Subtree(t, x) = Subtree(t0, x)
<1>1. \A x \in Id : Ancestors(t, x) = Ancestors(t0, x) /\ Line(t, x) = Line(t0, x)
  <2>1. t0 \in Tree /\ t \in Tree /\ Founded(t0) /\ Founded(t) /\ t.live \subseteq Id
    BY TreeFields DEF TreeOK
  <2>2. \A x \in Id : t.parent[x] = t0.parent[x] /\ (t.parent[x] \in Id => t.parent[x] \in Id)
    BY DEF Alike
  <2> QED
    BY <2>1, <2>2, SameAncestors
<1>2. t.live \subseteq Id /\ t0.live = t.live
  BY TreeFields DEF TreeOK, Alike
<1> QED
  BY <1>1, <1>2 DEF Subtree

LEMMA AlikeLists ==
  ASSUME NEW t0, NEW t, TreeOK(t0), TreeOK(t), Alike(t0, t), t.childs = t0.childs
  PROVE  /\ \A x : Childs(t, x) = Childs(t0, x)
         /\ \A x \in t0.live : Left(t, x) = Left(t0, x)
         /\ \A x \in t0.live \ {Root} : /\ Right(t, x) = Right(t0, x)
                                        /\ Subtrees(t, Right(t, x)) = Subtrees(t0, Right(t0, x))
<1>0. t.live = t0.live /\ t.parent = t0.parent /\ t.live \subseteq Id
  BY TreeFields DEF Alike, TreeOK
<1>1. \A x : Childs(t, x) = Childs(t0, x)
  BY DEF Childs
<1>2. \A x, y : Higher(t, x, y) <=> Higher(t0, x, y)
  BY <1>0 DEF Higher
<1>3. ASSUME NEW x \in t0.live \ {Root}
      PROVE  /\ Left(t, x) = Left(t0, x) /\ Right(t, x) = Right(t0, x)
             /\ Right(t0, x) \subseteq Id
  <2>1. \A z : z \in Left(t, x) <=> z \in Left(t0, x)
    BY <1>0, <1>2, LeftMeans
  <2>2. \A z : z \in Right(t, x) <=> z \in Right(t0, x)
    BY <1>0, <1>2, RightMeans
  <2>3. Right(t0, x) \subseteq Id
    BY <1>0, RightMeans
  <2> QED
    BY <2>1, <2>2, <2>3
<1>4. Left(t, Root) = Left(t0, Root)
  BY DEF Left
<1>5. \A x \in t0.live : Left(t, x) = Left(t0, x)
  BY <1>3, <1>4
<1>6. ASSUME NEW x \in t0.live \ {Root}
      PROVE  Subtrees(t, Right(t, x)) = Subtrees(t0, Right(t0, x))
  <2>1. \A z \in Right(t0, x) : Subtree(t, z) = Subtree(t0, z)
    BY <1>3, AlikeLines
  <2> QED
    BY <1>3, <2>1 DEF Subtrees
<1> QED
  BY <1>1, <1>3, <1>5, <1>6

\* What is above the line of y and below or in w, while y is not: only w itself.
LEMMA AboveFrom ==
  ASSUME NEW t, TreeOK(t), NEW w \in t.live \ {Root}, NEW y \in t.live \ Subtree(t, w),
         NEW a \in Line(t, y), NEW x \in Left(t, a), x \in Subtree(t, w)
  PROVE  x = w /\ a \in Right(t, w) /\ y \in Subtrees(t, Right(t, w))
<1>1. a \in t.live \ {Root}
  BY AncestorsLive DEF Left
<1>2. x \in t.live \ {Root} /\ t.parent[x] = t.parent[a] /\ a \in Right(t, x)
  BY <1>1, SiblingsOf
<1>3. Ancestors(t, x) = Ancestors(t, a)
  BY <1>1, <1>2, LineStep
<1>4. x = w
  <2> SUFFICES ASSUME x # w PROVE FALSE
    OBVIOUS
  <2>1. w \in Ancestors(t, a)
    BY <1>3, SubtreeMeans DEF Line
  <2>2. w \in Line(t, y)
    BY <2>1, AncestorsLive DEF Line
  <2> QED
    BY <2>2, SubtreeMeans
<1>5. y \in Subtree(t, a)
  BY SubtreeMeans
<1> QED
  BY <1>2, <1>4, <1>5 DEF Subtrees

LEMMA ChildFrom ==
  ASSUME NEW t, TreeOK(t), NEW w \in t.live \ {Root}, NEW y \in t.live \ Subtree(t, w),
         NEW x \in Childs(t, y), x \in Subtree(t, w)
  PROVE  x = w /\ y = t.parent[w]
<1>1. x \in t.live /\ t.parent[x] = y /\ y \in Id /\ x \in t.live \ {Root}
  BY TreeFields DEF TreeOK
<1>2. Ancestors(t, x) = Line(t, y)
  BY <1>1, LineStep
<1> QED
  BY <1>1, <1>2, SubtreeMeans DEF Line

\* The parent is neither in the subtree of a child nor in that of its siblings, and
\* these lie in all that the child lies in.
LEMMA ParentApart ==
  ASSUME NEW t, TreeOK(t), NEW w \in t.live \ {Root}
  PROVE  /\ t.parent[w] \notin Subtree(t, w) /\ t.parent[w] \notin Subtrees(t, Right(t, w))
         /\ \A y \in Subtree(t, w) \union Subtrees(t, Right(t, w)) : Ancestors(t, w) \subseteq Ancestors(t, y)
         /\ Subtree(t, w) \subseteq t.live /\ Subtrees(t, Right(t, w)) \subseteq t.live
         /\ w \in Subtree(t, w)
<1> DEFINE q == t.parent[w]
<1>1. t \in Tree /\ Founded(t) /\ t.live \subseteq Id
  BY TreeFields DEF TreeOK
<1>2. ASSUME NEW x \in t.live \ {Root}, t.parent[x] = q
      PROVE  /\ q \notin Subtree(t, x) /\ Ancestors(t, x) = Ancestors(t, w)
             /\ \A y \in Subtree(t, x) : Ancestors(t, w) \subseteq Ancestors(t, y)
  <2>1. Ancestors(t, x) = Line(t, q) /\ Ancestors(t, w) = Line(t, q)
    BY <1>2, LineStep
  <2>2. x \notin Ancestors(t, x)
    BY <1>1, NotOwnAncestor
  <2>3. q \notin Subtree(t, x)
    BY <2>1, <2>2, SubtreeMeans
  <2>4. \A y \in Subtree(t, x) : Ancestors(t, x) \subseteq Ancestors(t, y)
    BY SubtreeMeans, AncestorsLive
  <2> QED
    BY <2>1, <2>3, <2>4
<1>3. \A x \in Right(t, w) : x \in t.live \ {Root} /\ t.parent[x] = q
  BY RightMeans
<1>4. q \notin Subtree(t, w) /\ \A y \in Subtree(t, w) : Ancestors(t, w) \subseteq Ancestors(t, y)
  BY <1>2
<1>5. q \notin Subtrees(t, Right(t, w))
      /\ \A y \in Subtrees(t, Right(t, w)) : Ancestors(t, w) \subseteq Ancestors(t, y)
  BY <1>2, <1>3 DEF Subtrees
<1>6. Subtree(t, w) \subseteq t.live /\ Subtrees(t, Right(t, w)) \subseteq t.live
  BY DEF Subtree, Subtrees
<1>7. w \in Subtree(t, w)
  BY DEF Subtree
<1> QED
  BY <1>4, <1>5, <1>6, <1>7

\* The line of y, with all that matters of it, is the same.
SameLine(t0, t, y) ==
  /\ Ancestors(t, y) = Ancestors(t0, y) /\ Line(t, y) = Line(t0, y)
  /\ \A a \in Line(t, y) : Same(t0, t, a)

\* The line of y is the same, and so is what covers the cell, as far as it matters.
LEMMA SameCell ==
  ASSUME NEW t0, NEW t, NEW y, NEW c, SameLine(t0, t, y), t.is_open[y],
         Inside(t, y, c) => /\ Covered(t, y, c) <=> Covered(t0, y, c)
                            /\ ByChild(t, y, c) <=> ByChild(t0, y, c)
  PROVE  c \in Build(t, y) <=> c \in Build(t0, y)
<1>1. y \in Line(t, y) /\ Ancestors(t, y) \subseteq Line(t, y)
  BY DEF Line
<1>2. Pos(t, y) = Pos(t0, y)
  BY <1>1, SamePos DEF SameLine, Same
<1>3. Inside(t, y, c) <=> Inside(t0, y, c)
  <2>1. \A a \in Ancestors(t, y) : /\ t.is_open[a] <=> t0.is_open[a]
                                   /\ t0.is_open[a] => Work(t, a) = Work(t0, a)
    BY <1>1, SamePos DEF SameLine, Same
  <2> QED
    BY <2>1 DEF Inside, SameLine
<1> QED
  BY <1>2, <1>3, BuildMeans

-----------------------------------------------------------------------------
(* One window changes, with its subtree.                                   *)

\* Outside of its subtree nothing changes but by w itself.
Elsewhere(t0, t, w) ==
  /\ Alike(t0, t) /\ t.childs = t0.childs
  /\ \A x \in Id \ Subtree(t0, w) : Same(t0, t, x)

\* All that w takes or gives up is in the area.
Within(t0, t, w, area) ==
  /\ t0.is_open[w] => Pos(t0, w) \subseteq area
  /\ t.is_open[w] => Pos(t, w) \subseteq area

LEMMA LineElsewhere ==
  ASSUME NEW t0, NEW t, TreeOK(t0), TreeOK(t), NEW w \in t0.live \ {Root}, Elsewhere(t0, t, w),
         NEW y \in t0.live \ Subtree(t0, w)
  PROVE  SameLine(t0, t, y)
<1>1. y \in Id
  BY TreeFields DEF TreeOK
<1>2. Ancestors(t, y) = Ancestors(t0, y) /\ Line(t, y) = Line(t0, y)
  BY <1>1, AlikeLines DEF Elsewhere
<1>3. ASSUME NEW a \in Line(t0, y)
      PROVE  Same(t0, t, a)
  <2>1. a \in t0.live /\ Ancestors(t0, a) \subseteq Ancestors(t0, y) /\ t0.live \subseteq Id
    BY AncestorsLive, TreeFields DEF TreeOK
  <2>2. Line(t0, a) \subseteq Line(t0, y)
    BY <2>1 DEF Line
  <2>3. a \notin Subtree(t0, w)
    BY <2>2, SubtreeMeans
  <2> QED
    BY <2>1, <2>3 DEF Elsewhere
<1> QED
  BY <1>2, <1>3 DEF SameLine

\* A cell of another window is as visible as before, unless w covers or uncovers it,
\* which it can do for the windows below it and for its parent.
LEMMA CellElsewhere ==
  ASSUME NEW t0, NEW t, TreeOK(t0), TreeOK(t), NEW w \in t0.live \ {Root}, Elsewhere(t0, t, w),
         NEW y \in t0.live \ Subtree(t0, w), t.is_open[y],
         NEW area, Within(t0, t, w, area), NEW c,
         \/ c \notin area
         \/ y \notin Subtrees(t0, Right(t0, w)) /\ y # t0.parent[w]
         \/ \E b \in Ancestors(t0, w) : ~t0.is_open[b]
  PROVE  c \in Build(t, y) <=> c \in Build(t0, y)
<1>1. t.live = t0.live /\ t.parent = t0.parent /\ t.childs = t0.childs /\ t0.live \subseteq Id
      /\ Alike(t0, t)
  BY TreeFields DEF Elsewhere, Alike, TreeOK
<1>2. SameLine(t0, t, y)
  BY LineElsewhere
<1>3. /\ Childs(t, y) = Childs(t0, y) /\ Line(t, y) = Line(t0, y)
      /\ \A a \in Line(t0, y) : Left(t, a) = Left(t0, a)
  BY <1>1, <1>2, AlikeLists, AncestorsLive DEF SameLine
<1>4. \A b \in Ancestors(t0, w) : b \in Id /\ Same(t0, t, b)
  <2>1. \A b \in Ancestors(t0, w) : b \in t0.live /\ Ancestors(t0, b) \subseteq Ancestors(t0, w)
    BY AncestorsLive DEF Line
  <2>2. w \notin Ancestors(t0, w)
    BY <1>1, NotOwnAncestor DEF TreeOK
  <2>3. \A b \in Ancestors(t0, w) : b \notin Subtree(t0, w)
    BY <2>1, <2>2, SubtreeMeans DEF Line
  <2> QED
    BY <1>1, <2>1, <2>3 DEF Elsewhere
<1>5. SUFFICES ASSUME Inside(t, y, c)
               PROVE  /\ Covered(t, y, c) <=> Covered(t0, y, c)
                      /\ ByChild(t, y, c) <=> ByChild(t0, y, c)
  BY <1>2, SameCell
<1>6. \/ c \notin area
      \/ y \notin Subtrees(t0, Right(t0, w)) /\ y # t0.parent[w]
  <2>1. SUFFICES ASSUME NEW b \in Ancestors(t0, w), ~t0.is_open[b],
                        y \in Subtrees(t0, Right(t0, w)) \/ y = t0.parent[w]
                 PROVE  FALSE
    OBVIOUS
  <2>2. ~t.is_open[b]
    BY <1>4, <2>1 DEF Same
  <2>3. Ancestors(t, y) = Ancestors(t0, y)
    BY <1>2 DEF SameLine
  <2>4. CASE y \in Subtrees(t0, Right(t0, w))
    BY <1>5, <2>2, <2>3, <2>4, ParentApart DEF Inside
  <2>5. CASE y = t0.parent[w]
    <3>1. b \in Line(t0, y)
      BY <2>5, LineStep
    <3> QED
      BY <1>5, <2>2, <2>3, <3>1 DEF Inside, Line
  <2> QED
    BY <2>1, <2>4, <2>5
<1>7. c \notin area => ~(t0.is_open[w] /\ c \in Pos(t0, w)) /\ ~(t.is_open[w] /\ c \in Pos(t, w))
  BY DEF Within
<1>8. \A x \in Id \ Subtree(t0, w) : (t.is_open[x] /\ c \in Pos(t, x)) <=> (t0.is_open[x] /\ c \in Pos(t0, x))
  BY SamePos DEF Elsewhere, Same
<1>9. ASSUME NEW a \in Line(t0, y), NEW x \in Left(t0, a)
      PROVE  (t.is_open[x] /\ c \in Pos(t, x)) <=> (t0.is_open[x] /\ c \in Pos(t0, x))
  <2>1. CASE x \in Subtree(t0, w)
    BY <1>6, <1>7, <2>1, AboveFrom
  <2>2. CASE x \notin Subtree(t0, w)
    <3>1. a \in t0.live \ {Root}
      BY AncestorsLive DEF Left
    <3>2. x \in Id
      BY <1>1, <3>1, SiblingsOf
    <3> QED
      BY <1>8, <2>2, <3>2
  <2> QED
    BY <2>1, <2>2
<1>10. Covered(t, y, c) <=> Covered(t0, y, c)
  BY <1>3, <1>9 DEF Covered
<1>11. Work(t, y) = Work(t0, y)
  BY <1>2, SamePos DEF SameLine, Line, Same
<1>12. ASSUME NEW x \in Childs(t0, y)
       PROVE  (t.is_open[x] /\ c \in Pos(t, x)) <=> (t0.is_open[x] /\ c \in Pos(t0, x))
  <2>1. CASE x \in Subtree(t0, w)
    BY <1>6, <1>7, <2>1, ChildFrom
  <2>2. CASE x \notin Subtree(t0, w)
    <3>1. x \in Id
      BY <1>1 DEF TreeOK
    <3> QED
      BY <1>8, <2>2, <3>1
  <2> QED
    BY <2>1, <2>2
<1>13. ByChild(t, y, c) <=> ByChild(t0, y, c)
  BY <1>3, <1>11, <1>12 DEF ByChild
<1> QED
  BY <1>10, <1>13

\* So another window stays exact, or the traversals of the windows below w and of
\* its parent repair it.
LEMMA ExactElsewhere ==
  ASSUME NEW t0, NEW t, TreeOK(t0), TreeOK(t), NEW w \in t0.live \ {Root}, Elsewhere(t0, t, w),
         NEW y \in t0.live \ Subtree(t0, w), NEW area, Within(t0, t, w, area),
         NEW p \in Pic, Exact(p, t0, y), NEW T \in SUBSET Id, Subtrees(t0, Right(t0, w)) \subseteq T
  PROVE  /\ y # t0.parent[w] => Repairable(p, t, T, y, area)
         /\ y = t0.parent[w] => Repairable(p, t, {y}, y, area)
         /\ (\E b \in Ancestors(t0, w) : ~t0.is_open[b]) => Exact(p, t, y)
<1>1. SameLine(t0, t, y)
  BY LineElsewhere
<1>2. y \in Line(t, y) /\ Same(t0, t, y) /\ y \in Id /\ t.live = t0.live
  BY <1>1, TreeFields DEF SameLine, Line, TreeOK, Elsewhere, Alike
<1>3. ASSUME t.is_open[y] => \A c : c \in Build(t, y) <=> c \in Build(t0, y)
      PROVE  Exact(p, t, y)
  <2>1. CASE ~t.is_open[y]
    BY <1>2, <2>1 DEF Exact, Same
  <2>2. CASE t.is_open[y]
    <3>1. Build(t, y) = Build(t0, y)
      BY <1>3, <2>2
    <3>2. t0.is_open[y] /\ Pos(t, y) = Pos(t0, y)
      BY <1>2, <2>2, SamePos DEF Same
    <3> QED
      BY <2>2, <3>1, <3>2 DEF Exact
  <2> QED
    BY <2>1, <2>2
<1>4. CASE \E b \in Ancestors(t0, w) : ~t0.is_open[b]
  BY <1>3, <1>4, CellElsewhere DEF Repairable
<1>5. CASE y \notin Subtrees(t0, Right(t0, w)) /\ y # t0.parent[w]
  BY <1>3, <1>5, CellElsewhere DEF Repairable
<1>6. ASSUME NEW U \in SUBSET Id, y \in U
      PROVE  Repairable(p, t, U, y, area)
  <2>1. t.is_open[y] => \A c : c \in Build(t, y) /\ c \notin area <=> c \in Build(t0, y) /\ c \notin area
    BY CellElsewhere
  <2>2. Line(t, y) = Line(t0, y) /\ (\A a \in Line(t, y) : Same(t0, t, a)) /\ y \in t0.live \intersect t.live
    BY <1>1, <1>2 DEF SameLine
  <2> QED
    BY <1>6, <2>1, <2>2, RepairedInArea
<1>7. ASSUME y \in Subtrees(t0, Right(t0, w))
      PROVE  Repairable(p, t, T, y, area) /\ y # t0.parent[w]
  BY <1>6, <1>7, ParentApart
<1>8. ASSUME y = t0.parent[w]
      PROVE  Repairable(p, t, {y}, y, area)
  BY <1>2, <1>6
<1>9. (\E b \in Ancestors(t0, w) : ~t0.is_open[b]) => Exact(p, t, y)
  BY <1>3, CellElsewhere
<1> QED
  BY <1>4, <1>5, <1>7, <1>8, <1>9

\* Rebuilding the windows of T, then the parent.
LEMMA RebuiltTwice ==
  ASSUME NEW p \in Pic, NEW t \in Tree, NEW T \in SUBSET Id, NEW q \in Id \ T, NEW area,
         \A y \in Id \ {q} : Repairable(p, t, T, y, area),
         Repairable(p, t, {q}, q, area)
  PROVE  LET r == Rebuild(Rebuild(p, t, T, area), t, {q}, area) IN r \in Pic /\ Regions(r, t)
<1> DEFINE m == Rebuild(p, t, T, area)
           r == Rebuild(m, t, {q}, area)
<1>1. /\ m \in Pic /\ (\A y \in Id \ {q} : Exact(m, t, y))
      /\ m.vis[q] = p.vis[q] /\ m.is_hidden[q] = p.is_hidden[q]
  BY RebuildMeans
<1> HIDE DEF m
<1>2. Repairable(m, t, {q}, q, area)
  BY <1>1 DEF Repairable, Exact
<1>3. \A y \in Id \ {q} : Repairable(m, t, {q}, y, area)
  BY <1>1 DEF Repairable
<1>4. r \in Pic /\ \A y \in Id : Exact(r, t, y)
  BY <1>1, <1>2, <1>3, RebuildMeans
<1> QED
  BY <1>4 DEF Regions, m

-----------------------------------------------------------------------------
(* Opening.                                                                *)

\* A change of places and sizes, and of who is open, leaves the tree a tree.
LEMMA SameShape ==
  ASSUME NEW t0, TreeOK(t0), NEW t \in Tree, Alike(t0, t), t.childs = t0.childs,
         \A x \in Id \ t0.live : ~t.is_open[x],
         t.is_open[Root], t.at[Root] = t0.at[Root], t.size[Root] = t0.size[Root]
  PROVE  TreeOK(t)
BY DEF TreeOK, Alike, Founded, Childs

\* Nothing that w lies in is below it or below its siblings.
LEMMA AncestorsApart ==
  ASSUME NEW t, TreeOK(t), NEW w \in t.live \ {Root}, NEW a \in Ancestors(t, w)
  PROVE  a \notin Subtree(t, w) /\ a \notin Subtrees(t, Right(t, w))
<1>1. t \in Tree /\ Founded(t) /\ t.live \subseteq Id
  BY TreeFields DEF TreeOK
<1>2. Line(t, a) \subseteq Ancestors(t, w)
  BY <1>1, AncestorsLive DEF Line
<1>3. ASSUME NEW x \in t.live \ {Root}, t.parent[x] = t.parent[w]
      PROVE  a \notin Subtree(t, x)
  <2>1. Ancestors(t, x) = Ancestors(t, w)
    BY <1>3, LineStep
  <2>2. x \notin Ancestors(t, x)
    BY <1>1, NotOwnAncestor
  <2> QED
    BY <1>2, <2>1, <2>2, SubtreeMeans
<1>4. a \notin Subtree(t, w)
  BY <1>3
<1>5. \A x \in Right(t, w) : a \notin Subtree(t, x)
  BY <1>3, RightMeans
<1> QED
  BY <1>4, <1>5 DEF Subtrees

\* window_open() of a closed window, wherever it is and whatever its size: all
\* regions are exact again.
LEMMA OpenStep ==
  ASSUME NEW t0, NEW t, TreeOK(t0), TreeOK(t), NEW w \in t0.live \ {Root}, Elsewhere(t0, t, w),
         ~t0.is_open[w], t.is_open[w],
         \A x \in Subtree(t0, w) \ {w} : t.is_open[x] <=> t0.is_open[x],
         NEW p \in Pic, Regions(p, t0)
  PROVE  OpenedPic(p, t, w) \in Pic /\ Regions(OpenedPic(p, t, w), t)
<1> DEFINE q == t.parent[w]
           area == Pos(t, w)
           T == Subtrees(t, {w} \union Right(t, w))
           saved == Save(p, t, Subtrees(t, Right(t, w)) \union {q}, area)
           built == Rebuild(saved, t, T, area)
           again == Rebuild(built, t, {q}, area)
<1>1. /\ t \in Tree /\ w \in Id /\ t.live = t0.live /\ t.parent = t0.parent /\ w \in t.live \ {Root}
      /\ t.live \subseteq Id /\ q \in Id /\ Alike(t0, t)
  BY LineStep, TreeFields DEF TreeOK, Elsewhere, Alike
<1>2. /\ Subtree(t, w) = Subtree(t0, w) /\ Subtrees(t, Right(t, w)) = Subtrees(t0, Right(t0, w))
      /\ \A y \in Id : Line(t, y) = Line(t0, y) /\ Ancestors(t, y) = Ancestors(t0, y)
  BY <1>1, AlikeLines, AlikeLists DEF Elsewhere
<1>3. T = Subtree(t, w) \union Subtrees(t, Right(t, w))
  BY DEF Subtrees
<1>4. T \in SUBSET Id /\ q \notin T
  BY <1>1, <1>3, ParentApart
<1>5. Kept(p, saved)
  BY <1>1, SaveKeeps
<1> HIDE DEF T, saved, q
<1>6. saved \in Pic /\ \A y \in Id : Exact(saved, t0, y)
  BY <1>5, KeptRegions DEF Regions
<1>7. Within(t0, t, w, area)
  BY DEF Within
<1>8. \A y \in t0.live \ Subtree(t0, w) :
        /\ y # q => Repairable(saved, t, T, y, area)
        /\ y = q => Repairable(saved, t, {y}, y, area)
  <2>1. Subtrees(t0, Right(t0, w)) \subseteq T /\ q = t0.parent[w]
    BY <1>1, <1>2, <1>3 DEF q
  <2> HIDE DEF area
  <2> QED
    BY <1>1, <1>4, <1>6, <1>7, <2>1, ExactElsewhere
<1>9. \A y \in Id \ t0.live : Exact(saved, t, y)
  <2>1. \A y \in Id \ t0.live : ~t0.is_open[y] /\ ~t.is_open[y]
    BY <1>1 DEF TreeOK
  <2> QED
    BY <1>6, <2>1 DEF Exact
<1>10. Repairable(saved, t, T, w, area)
  <2>1. w \in T
    BY <1>1, <1>3, ParentApart
  <2>2. ASSUME NEW a \in Line(t, w) \intersect T, Pos(t, a) \intersect area = {}
        PROVE  FALSE
    <3>1. a = w
      BY <1>1, <1>3, <2>2, AncestorsApart DEF Line
    <3> QED
      BY <1>1, <2>2, <3>1, PosFacts
  <2> QED
    BY <2>1, <2>2 DEF Repairable, Unmet
<1>11. ASSUME NEW y \in Subtree(t0, w), y # w
       PROVE  Repairable(saved, t, T, y, area)
  <2>1. /\ y \in t.live /\ y \in Id /\ w \in Ancestors(t0, y) /\ w \in Line(t, y) /\ y \in T
        /\ t.is_open[y] <=> t0.is_open[y]
    BY <1>1, <1>2, <1>3, <1>11, SubtreeMeans DEF Line
  <2>2. Exact(saved, t0, y)
    BY <1>6, <2>1
  <2>3. saved.vis[y] = {}
    <3>1. \A c : ~Inside(t0, y, c)
      BY <2>1 DEF Inside
    <3>2. Build(t0, y) = {}
      BY <3>1, BuildMeans
    <3> QED
      BY <2>2, <3>2 DEF Exact
  <2>4. t.is_open[y] => saved.is_hidden[y]
    <3>1. Pos(t0, y) # {}
      BY <2>1, PosFacts DEF TreeOK
    <3> QED
      BY <2>1, <2>2, <2>3, <3>1, PicFields, <1>6 DEF Exact
  <2>5. CASE ~t.is_open[y]
    BY <2>3, <2>5 DEF Repairable, Exact
  <2>6. CASE t.is_open[y] /\ ~Unmet(t, T, y, area)
    BY <2>1, <2>6 DEF Repairable
  <2>7. CASE t.is_open[y] /\ Unmet(t, T, y, area)
    <3>1. PICK a \in Line(t, y) : Pos(t, a) \intersect area = {}
      BY <2>7 DEF Unmet
    <3>2. \A c : c \notin Build(t, y)
      BY <2>1, <3>1, BuildWithin
    <3>3. Build(t, y) = {} /\ Pos(t, y) # {}
      BY <1>1, <2>1, <3>2, PosFacts
    <3> QED
      BY <2>3, <2>4, <2>7, <3>3 DEF Repairable, Exact
  <2> QED
    BY <2>5, <2>6, <2>7
<1>12. q \in t0.live /\ q \notin Subtree(t0, w)
  BY <1>1, <1>2, LineStep, ParentApart DEF q
<1>13. \A y \in Id \ {q} : Repairable(saved, t, T, y, area)
  BY <1>8, <1>9, <1>10, <1>11 DEF Repairable
<1>14. Repairable(saved, t, {q}, q, area)
  BY <1>8, <1>12
<1>15. again \in Pic /\ Regions(again, t)
  BY <1>1, <1>4, <1>6, <1>13, <1>14, RebuiltTwice
<1>16. OpenedPic(p, t, w) = Frame(Redraw(again, t, Subtree(t, w), area), t, w)
  BY DEF OpenedPic, q, T, saved
<1> HIDE DEF again
<1> DEFINE drawn == Redraw(again, t, Subtree(t, w), area)
<1>17. Kept(again, drawn)
  BY <1>1, <1>3, <1>4, <1>15, RedrawKeeps
<1> HIDE DEF drawn
<1>18. drawn \in Pic /\ Regions(drawn, t)
  BY <1>15, <1>17, KeptRegions
<1>19. Kept(drawn, Frame(drawn, t, w))
  BY <1>1, <1>18, FrameKeeps
<1> QED
  BY <1>16, <1>18, <1>19, KeptRegions DEF drawn

-----------------------------------------------------------------------------
(* Closing.                                                                *)

\* The tree after window_close().
LEMMA ClosedTreeOK ==
  ASSUME NEW t, TreeOK(t), NEW w \in t.live \ {Root}
  PROVE  /\ TreeOK(ClosedTree(t, w)) /\ Alike(t, ClosedTree(t, w))
         /\ ClosedTree(t, w).childs = t.childs
         /\ ClosedTree(t, w).at = t.at /\ ClosedTree(t, w).size = t.size
         /\ \A x \in Id : ClosedTree(t, w).is_open[x] <=> t.is_open[x] /\ ~(x = w /\ Mapped(t, w))
<1> DEFINE u == ClosedTree(t, w)
<1>1. t \in Tree /\ w \in Id
  BY TreeFields DEF TreeOK
<1>2. /\ u \in Tree /\ Alike(t, u) /\ u.childs = t.childs /\ u.at = t.at /\ u.size = t.size
      /\ \A x \in Id : u.is_open[x] <=> t.is_open[x] /\ ~(x = w /\ Mapped(t, w))
  <2>1. CASE ~Mapped(t, w)
    BY <1>1, <2>1 DEF ClosedTree, Alike
  <2>2. CASE Mapped(t, w)
    <3>1. u = [t EXCEPT !.is_open = [t.is_open EXCEPT ![w] = FALSE]]
      BY <1>1, <2>2 DEF ClosedTree, Tree
    <3>2. [t.is_open EXCEPT ![w] = FALSE] \in [Id -> BOOLEAN]
      BY <1>1, TreeFields
    <3>3. /\ u \in Tree /\ Alike(t, u) /\ u.childs = t.childs /\ u.at = t.at /\ u.size = t.size
          /\ u.is_open = [t.is_open EXCEPT ![w] = FALSE]
      BY <1>1, <3>1, <3>2 DEF Tree, Alike
    <3> QED
      BY <1>1, <2>2, <3>3, TreeFields
  <2> QED
    BY <2>1, <2>2
<1> HIDE DEF u
<1>3. (\A x \in Id \ t.live : ~u.is_open[x]) /\ u.is_open[Root]
  BY <1>2 DEF TreeOK, Id
<1>4. TreeOK(u)
  BY <1>2, <1>3, SameShape
<1> QED
  BY <1>2, <1>4 DEF u

\* window_close(): all regions are exact again.
LEMMA CloseStep ==
  ASSUME NEW t, TreeOK(t), NEW w \in t.live \ {Root}, t.is_open[w], NEW p \in Pic, Regions(p, t)
  PROVE  ClosedPic(p, t, w) \in Pic /\ Regions(ClosedPic(p, t, w), ClosedTree(t, w))
<1> DEFINE gone == {x \in Subtree(t, w) : Mapped(t, x)}
           saved == Save(p, t, gone, UNION {Pos(t, x) : x \in gone})
           t1 == ClosedTree(t, w)
           lower == Subtrees(t, Right(t, w))
           area == Pos(t, w)
           shut == Shut(saved, w, gone)
           q == t.parent[w]
           built == Rebuild(Rebuild(shut, t1, lower, area), t1, {q}, area)
<1>1. t \in Tree /\ w \in Id /\ t.live \subseteq Id /\ q \in t.live /\ q \in Id
  BY LineStep, TreeFields DEF TreeOK
<1>2. /\ TreeOK(t1) /\ t1 \in Tree /\ Alike(t, t1) /\ t1.childs = t.childs
      /\ t1.live = t.live /\ t1.at = t.at /\ t1.size = t.size
      /\ \A x \in Id : t1.is_open[x] <=> t.is_open[x] /\ ~(x = w /\ Mapped(t, w))
  BY ClosedTreeOK DEF TreeOK, Alike
<1>3. CASE gone = {}
  <2>1. w \notin gone /\ w \in Subtree(t, w)
    BY <1>3, ParentApart
  <2>2. t1 = t
    BY <2>1 DEF ClosedTree
  <2>3. ClosedPic(p, t, w) = p
    BY <1>3 DEF ClosedPic
  <2> QED
    BY <2>2, <2>3
<1>4. CASE gone # {}
  <2>1. PICK x \in gone : TRUE
    BY <1>4
  <2>2. Mapped(t, w)
    <3>1. x \in t.live /\ w \in Line(t, x) /\ Mapped(t, x)
      BY <2>1, SubtreeMeans
    <3>2. Line(t, w) \subseteq Line(t, x)
      BY <3>1, AncestorsLive DEF Line
    <3> QED
      BY <3>1, <3>2 DEF Mapped, Line
  <2>3. ~t1.is_open[w] /\ \A y \in Id \ {w} : t1.is_open[y] <=> t.is_open[y]
    BY <1>1, <1>2, <2>2
  <2>4. Kept(p, saved)
    BY <1>1, SaveKeeps
  <2>5. ClosedPic(p, t, w) = Redraw(built, t1, lower \union {q}, area)
    BY <1>4 DEF ClosedPic
  <2>6. /\ \A y \in Id : y \in gone <=> y \in t.live /\ w \in Line(t, y) /\ Mapped(t, y)
        /\ w \in gone
    BY <1>1, <2>2, SubtreeMeans DEF Line
  <2> HIDE DEF saved, gone, t1
  <2>7. saved \in Pic /\ \A y \in Id : Exact(saved, t, y)
    BY <2>4, KeptRegions DEF Regions
  <2>8. /\ shut \in Pic
        /\ \A y \in Id : /\ shut.vis[y] = IF y \in gone THEN {} ELSE saved.vis[y]
                         /\ shut.is_hidden[y] <=> saved.is_hidden[y] \/ y \in gone \ {w}
    <3> DEFINE vis == [y \in Id |-> IF y \in gone THEN {} ELSE saved.vis[y]]
               hid == [y \in Id |-> saved.is_hidden[y] \/ y \in gone \ {w}]
    <3>1. shut = [saved EXCEPT !.vis = vis, !.is_hidden = hid]
      BY DEF Shut
    <3>2. vis \in [Id -> SUBSET Point] /\ hid \in [Id -> BOOLEAN]
      BY <2>7, PicFields
    <3>3. shut \in Pic /\ shut.vis = vis /\ shut.is_hidden = hid
      <4> HIDE DEF vis, hid
      <4> QED
        BY <2>7, <3>1, <3>2 DEF Pic
    <3>4. \A y \in Id : shut.vis[y] = IF y \in gone THEN {} ELSE saved.vis[y]
      BY <3>3
    <3>5. \A y \in Id : shut.is_hidden[y] = (saved.is_hidden[y] \/ y \in gone \ {w})
      BY <3>3
    <3> HIDE DEF shut
    <3> QED
      BY <3>3, <3>4, <3>5, <2>7, PicFields
  <2> HIDE DEF shut
  <2>9. Elsewhere(t, t1, w)
    <3>1. \A y \in Id \ {w} : Same(t, t1, y)
      BY <1>2, <2>3 DEF Same
    <3>2. w \in Subtree(t, w)
      BY ParentApart
    <3> QED
      BY <1>2, <3>1, <3>2 DEF Elsewhere
  <2>10. Within(t, t1, w, area)
    BY <2>3 DEF Within
  <2>11. ASSUME NEW y \in t.live \ Subtree(t, w)
         PROVE  /\ y # q => Repairable(shut, t1, lower, y, area)
                /\ y = q => Repairable(shut, t1, {y}, y, area)
    <3>1. y \in Id /\ y \notin gone
      BY <1>1, <2>6, <2>11, SubtreeMeans
    <3>2. Exact(shut, t, y)
      BY <2>7, <2>8, <3>1 DEF Exact
    <3>3. lower \in SUBSET Id
      BY <1>1, ParentApart
    <3>4. Subtrees(t, Right(t, w)) \subseteq lower /\ q = t.parent[w]
      OBVIOUS
    <3>5. TreeOK(t1) /\ shut \in Pic
      BY <1>2, <2>8
    <3> HIDE DEF area, lower, q
    <3>6. q = t.parent[w]
      BY <3>4
    <3>7. y # t.parent[w] => Repairable(shut, t1, lower, y, area)
      BY <2>9, <2>10, <2>11, <3>2, <3>3, <3>4, <3>5, ExactElsewhere
    <3>8. y = t.parent[w] => Repairable(shut, t1, {y}, y, area)
      BY <2>9, <2>10, <2>11, <3>2, <3>3, <3>4, <3>5, ExactElsewhere
    <3> QED
      BY <3>6, <3>7, <3>8
  <2>12. ASSUME NEW y \in Id \ t.live
         PROVE  Exact(shut, t1, y)
    <3>1. ~t.is_open[y] /\ ~t1.is_open[y] /\ y \notin gone
      BY <1>2, <2>6 DEF TreeOK
    <3> QED
      BY <2>7, <2>8, <3>1 DEF Exact
  <2>13. Exact(shut, t1, w)
    BY <1>1, <2>3, <2>6, <2>8 DEF Exact
  <2>14. ASSUME NEW y \in Subtree(t, w), y # w
         PROVE  Exact(shut, t1, y)
    <3>1. /\ y \in Id /\ y \in t.live /\ w \in Line(t, y) /\ w \in Ancestors(t, y)
          /\ Ancestors(t1, y) = Ancestors(t, y)
          /\ t1.is_open[y] <=> t.is_open[y]
      BY <1>1, <1>2, <2>3, <2>14, SubtreeMeans, AlikeLines DEF Line
    <3>2. Build(t1, y) = {}
      <4>1. \A c : ~Inside(t1, y, c)
        BY <2>3, <3>1 DEF Inside
      <4> QED
        BY <4>1, BuildMeans
    <3>3. Pos(t1, y) # {} /\ Pos(t, y) # {}
      BY <1>1, <1>2, <3>1, PosFacts
    <3>4. CASE y \in gone
      BY <2>8, <2>14, <3>1, <3>2, <3>3, <3>4 DEF Exact
    <3>5. CASE y \notin gone
      <4>1. ~t.is_open[y] \/ \E a \in Ancestors(t, y) : ~t.is_open[a]
        BY <2>6, <3>1, <3>5 DEF Mapped
      <4>2. ~t.is_open[y] \/ Build(t, y) = {}
        <5>1. (\E a \in Ancestors(t, y) : ~t.is_open[a]) => \A c : ~Inside(t, y, c)
          BY DEF Inside
        <5> QED
          BY <4>1, <5>1, BuildMeans
      <4>3. Exact(saved, t, y) /\ shut.vis[y] = saved.vis[y] /\ (shut.is_hidden[y] <=> saved.is_hidden[y])
        BY <2>7, <2>8, <3>1, <3>5
      <4> QED
        BY <3>1, <3>2, <3>3, <4>2, <4>3 DEF Exact
    <3> QED
      BY <3>4, <3>5
  <2>15. q \notin Subtree(t, w) /\ q \notin lower /\ lower \in SUBSET Id
    BY <1>1, ParentApart
  <2>16. \A y \in Id \ {q} : Repairable(shut, t1, lower, y, area)
    BY <2>11, <2>12, <2>13, <2>14 DEF Repairable
  <2>17. Repairable(shut, t1, {q}, q, area)
    BY <1>1, <2>11, <2>15
  <2>18. built \in Pic /\ Regions(built, t1)
    <3> HIDE DEF area, q, lower
    <3> QED
      BY <1>1, <1>2, <2>8, <2>15, <2>16, <2>17, RebuiltTwice
  <2>19. lower \union {q} \in SUBSET Id
    BY <1>1, <2>15
  <2> HIDE DEF built, area, q, lower
  <2>20. Kept(built, ClosedPic(p, t, w))
    BY <1>2, <2>5, <2>18, <2>19, RedrawKeeps
  <2>21. ClosedPic(p, t, w) \in Pic /\ Regions(ClosedPic(p, t, w), t1)
    BY <2>18, <2>20, KeptRegions
  <2> QED
    BY <2>21 DEF t1
<1> QED
  BY <1>3, <1>4

-----------------------------------------------------------------------------
(* Moving.                                                                 *)

\* The tree after window_move_one() for the windows of S.
LEMMA MovedTree ==
  ASSUME NEW t, TreeOK(t), NEW S \in SUBSET Id, Root \notin S, NEW d \in Point
  PROVE  /\ TreeOK(Moved(t, S, d)) /\ Alike(t, Moved(t, S, d))
         /\ Moved(t, S, d).childs = t.childs
         /\ Moved(t, S, d).is_open = t.is_open /\ Moved(t, S, d).size = t.size
         /\ \A x \in Id : Moved(t, S, d).at[x] = IF x \in S /\ t.is_open[x] THEN Plus(t.at[x], d)
                                                                         ELSE t.at[x]
<1> DEFINE at == [x \in Id |-> IF x \in S /\ t.is_open[x] THEN Plus(t.at[x], d) ELSE t.at[x]]
           u == Moved(t, S, d)
<1>1. t \in Tree /\ Root \in Id
  BY DEF TreeOK, Id
<1>2. u = [t EXCEPT !.at = at]
  BY <1>1 DEF Moved, Tree
<1>3. at \in [Id -> Point]
  BY <1>1, TreeFields, PointMoves
<1>4. at[Root] = t.at[Root] /\ \A x \in Id : at[x] = IF x \in S /\ t.is_open[x] THEN Plus(t.at[x], d)
                                                                               ELSE t.at[x]
  BY <1>1
<1> HIDE DEF at, u
<1>5. /\ u \in Tree /\ u.live = t.live /\ u.parent = t.parent /\ u.childs = t.childs
      /\ u.is_open = t.is_open /\ u.size = t.size /\ u.at = at
  BY <1>1, <1>2, <1>3 DEF Tree
<1>6. /\ Alike(t, u) /\ \A x \in Id \ t.live : ~u.is_open[x]
      /\ u.is_open[Root] /\ u.at[Root] = t.at[Root] /\ u.size[Root] = t.size[Root]
  BY <1>4, <1>5 DEF Alike, TreeOK
<1>7. TreeOK(u)
  BY <1>5, <1>6, SameShape
<1> QED
  BY <1>4, <1>5, <1>6, <1>7 DEF u

\* A window that is moved by d, with its work area.
Shifted(t0, t, x, d) ==
  \A c \in Point : /\ Plus(c, d) \in Pos(t, x) <=> c \in Pos(t0, x)
                   /\ Plus(c, d) \in Work(t, x) <=> c \in Work(t0, x)

LEMMA PlusTwice ==
  ASSUME NEW a \in Point, NEW b \in Point, NEW d \in Point
  PROVE  Plus(Plus(a, d), b) = Plus(Plus(a, b), d)
<1>1. a[1] \in Int /\ a[2] \in Int /\ b[1] \in Int /\ b[2] \in Int /\ d[1] \in Int /\ d[2] \in Int
  BY PointParts
<1>2. Plus(Plus(a, d), b) = <<(a[1] + d[1]) + b[1], (a[2] + d[2]) + b[2]>>
  BY DEF Plus
<1>3. Plus(Plus(a, b), d) = <<(a[1] + b[1]) + d[1], (a[2] + b[2]) + d[2]>>
  BY DEF Plus
<1>4. (a[1] + d[1]) + b[1] = (a[1] + b[1]) + d[1] /\ (a[2] + d[2]) + b[2] = (a[2] + b[2]) + d[2]
  BY <1>1
<1> QED
  BY <1>2, <1>3, <1>4

LEMMA MovedShifts ==
  ASSUME NEW t0 \in Tree, NEW t \in Tree, NEW x \in Id, NEW d \in Point,
         t.at[x] = Plus(t0.at[x], d), t.size[x] = t0.size[x]
  PROVE  Shifted(t0, t, x, d)
<1>1. /\ t0.at[x] \in Point /\ t0.size[x] \in Point /\ Edge(x) \in Point
      /\ Full(t0, x) \in Point /\ Full(t, x) = Full(t0, x)
  <2>1. t0.size[x] \in Point
    BY TreeFields DEF Extent, Point
  <2>2. Edge(x) \in Point
    BY SizesAreExtents DEF Edge
  <2>3. Full(t, x) = Full(t0, x)
    BY DEF Full
  <2> QED
    BY <2>1, <2>2, <2>3, PosFacts, TreeFields
<1>2. /\ Pos(t, x) = Box(Plus(t0.at[x], d), Full(t0, x)) /\ Pos(t0, x) = Box(t0.at[x], Full(t0, x))
      /\ Work(t, x) = Box(Plus(Plus(t0.at[x], Edge(x)), d), t0.size[x])
      /\ Work(t0, x) = Box(Plus(t0.at[x], Edge(x)), t0.size[x])
  BY <1>1, PlusTwice DEF Pos, Work
<1>3. Plus(t0.at[x], Edge(x)) \in Point
  BY <1>1, PointMoves
<1> QED
  BY <1>1, <1>2, <1>3, BoxMoves DEF Shifted

\* Sets of points that are moved.
LEMMA ShiftMeans ==
  ASSUME NEW S \in SUBSET Point, NEW d \in Point
  PROVE  /\ Shift(S, d) \in SUBSET Point
         /\ \A c \in Point : Plus(c, d) \in Shift(S, d) <=> c \in S
<1>1. Shift(S, d) \in SUBSET Point
  BY PointMoves DEF Shift
<1>2. ASSUME NEW c \in Point, Plus(c, d) \in Shift(S, d)
      PROVE  c \in S
  <2>1. PICK b \in S : Plus(c, d) = Plus(b, d)
    BY <1>2 DEF Shift
  <2>2. c = Minus(Plus(c, d), d) /\ b = Minus(Plus(b, d), d)
    BY PointMoves
  <2> QED
    BY <2>1, <2>2
<1>3. \A c \in S : Plus(c, d) \in Shift(S, d)
  BY DEF Shift
<1> QED
  BY <1>1, <1>2, <1>3

\* Two sets of points that differ by a move.
LEMMA ShiftEqual ==
  ASSUME NEW S \in SUBSET Point, NEW R \in SUBSET Point, NEW d \in Point,
         \A c \in Point : Plus(c, d) \in R <=> c \in S
  PROVE  R = Shift(S, d)
<1>1. ASSUME NEW b \in Point
      PROVE  b \in R <=> b \in Shift(S, d)
  <2>1. Minus(b, d) \in Point /\ Plus(Minus(b, d), d) = b
    BY PointMoves
  <2> QED
    BY <2>1, ShiftMeans
<1> QED
  BY <1>1, ShiftMeans

\* Of two windows in which a third lies, one lies in the other.
LEMMA LineChain ==
  ASSUME NEW t, TreeOK(t), NEW y \in t.live, NEW a \in Line(t, y), NEW b \in Line(t, y)
  PROVE  a \in Line(t, b) \/ b \in Line(t, a)
<1> DEFINE S == {x \in Id : x \in t.live => \A u, v \in Line(t, x) : u \in Line(t, v) \/ v \in Line(t, u)}
<1>1. t \in Tree /\ Founded(t) /\ t.live \subseteq Id
  BY TreeFields DEF TreeOK
<1>2. ASSUME NEW x \in Id, t.parent[x] \in Id => t.parent[x] \in S
      PROVE  x \in S
  <2>1. SUFFICES ASSUME x \in t.live, NEW u \in Line(t, x), NEW v \in Line(t, x)
                 PROVE  u \in Line(t, v) \/ v \in Line(t, u)
    OBVIOUS
  <2>2. CASE u = x \/ v = x
    BY <2>2
  <2>3. CASE u # x /\ v # x
    <3>1. x # Root
      <4>1. Ancestors(t, Root) = {}
        BY <1>1, AncestorsStep DEF TreeOK, Id
      <4> QED
        BY <2>3, <4>1 DEF Line
    <3>2. t.parent[x] \in t.live /\ Line(t, x) = {x} \union Line(t, t.parent[x])
      BY <2>1, <3>1, LineStep
    <3> QED
      BY <1>1, <1>2, <2>3, <3>2
  <2> QED
    BY <2>2, <2>3
<1>3. S \in SUBSET Id
  OBVIOUS
<1> HIDE DEF S
<1>4. S = Id
  BY <1>1, <1>2, <1>3, TreeInduction
<1> QED
  BY <1>1, <1>4 DEF S

\* Without what covers w before or after, a cell of a window in its subtree is as
\* visible after the move as the cell it comes from was before.
LEMMA MovedCell ==
  ASSUME NEW t0, NEW t, TreeOK(t0), TreeOK(t), NEW w \in t0.live \ {Root}, NEW d \in Point,
         Elsewhere(t0, t, w), t.is_open = t0.is_open,
         \A x \in Subtree(t0, w) : t0.is_open[x] => Shifted(t0, t, x, d),
         ~IsHidden(t0, w), ~IsHidden(t, w), t0.is_open[w],
         NEW y \in Subtree(t0, w), t0.is_open[y], NEW c \in Point
  PROVE  Plus(c, d) \in Build(t, y) <=> c \in Build(t0, y)
<1> DEFINE e == Plus(c, d)
<1>1. /\ t0 \in Tree /\ t \in Tree /\ t0.live \subseteq Id /\ w \in Id /\ y \in Id /\ y \in t0.live
      /\ w \in Line(t0, y) /\ Alike(t0, t) /\ t.childs = t0.childs
  BY TreeFields, SubtreeMeans DEF TreeOK, Elsewhere
<1>2. /\ \A x \in Id : Ancestors(t, x) = Ancestors(t0, x) /\ Line(t, x) = Line(t0, x)
      /\ \A x \in t0.live : Left(t, x) = Left(t0, x)
      /\ \A x : Childs(t, x) = Childs(t0, x)
  BY <1>1, AlikeLines, AlikeLists
<1>3. CASE \E a \in Ancestors(t0, y) : ~t0.is_open[a]
  <2>1. \A b : ~Inside(t0, y, b) /\ ~Inside(t, y, b)
    BY <1>1, <1>2, <1>3 DEF Inside
  <2> QED
    BY <2>1, BuildMeans
<1>4. CASE \A a \in Ancestors(t0, y) : t0.is_open[a]
  <2>1. ASSUME NEW a \in Ancestors(t0, w), NEW b
        PROVE  /\ b \in Pos(t0, w) => b \in Work(t0, a)
               /\ b \in Pos(t, w) => b \in Work(t, a)
    BY <1>1, <1>2 DEF IsHidden
  <2>2. ASSUME NEW a \in Line(t0, w), NEW x \in Left(t0, a), t0.is_open[x], NEW b
        PROVE  ~(b \in Pos(t0, w) /\ b \in Pos(t0, x)) /\ ~(b \in Pos(t, w) /\ b \in Pos(t, x))
    <3>1. a \in t0.live
      BY AncestorsLive
    <3>2. x \in UNION {Left(t0, z) : z \in {w} \union Ancestors(t0, w)}
      BY <2>2 DEF Line
    <3>3. x \in UNION {Left(t, z) : z \in {w} \union Ancestors(t, w)}
      BY <1>1, <1>2, <2>2, <3>1 DEF Line
    <3>4. Pos(t0, x) \intersect Pos(t0, w) = {}
      BY <2>2, <3>2 DEF IsHidden
    <3>5. Pos(t, x) \intersect Pos(t, w) = {}
      BY <2>2, <3>3 DEF IsHidden
    <3> QED
      BY <3>4, <3>5
  <2>3. /\ \A x \in Line(t0, y) : x \in Subtree(t0, w) => Shifted(t0, t, x, d)
        /\ y \in Subtree(t0, w) /\ w \in Subtree(t0, w)
    BY <1>4, ParentApart DEF Line
  <2>4. ASSUME NEW a \in Ancestors(t0, y)
        PROVE  a \in Subtree(t0, w) \/ a \in Ancestors(t0, w)
    <3>1. a \in t0.live /\ a \in Line(t0, y)
      BY AncestorsLive, <1>1 DEF Line
    <3>2. a \in Line(t0, w) \/ w \in Line(t0, a)
      BY <1>1, <3>1, LineChain
    <3>3. a = w \/ a \in Ancestors(t0, w) \/ w \in Line(t0, a)
      BY <3>2 DEF Line
    <3> QED
      BY <2>3, <3>1, <3>3, SubtreeMeans
  <2>5. e \in Pos(t, y) <=> c \in Pos(t0, y)
    BY <2>3 DEF Shifted, Line
  <2>6. /\ c \in Pos(t0, y) /\ Inside(t0, y, c) => c \in Pos(t0, w)
        /\ e \in Pos(t, y) /\ Inside(t, y, e) => e \in Pos(t, w)
    <3>1. Work(t0, w) \subseteq Pos(t0, w) /\ Work(t, w) \subseteq Pos(t, w)
      BY <1>1, PosFacts
    <3> QED
      BY <1>1, <1>2, <3>1 DEF Inside, Line
  <2>7. e \in Pos(t, w) <=> c \in Pos(t0, w)
    BY <1>1, <2>3 DEF Shifted
  <2>8. ASSUME c \in Pos(t0, w)
        PROVE  Inside(t, y, e) <=> Inside(t0, y, c)
    <3>1. \A a \in Ancestors(t0, y) : e \in Work(t, a) <=> c \in Work(t0, a)
      <4> SUFFICES ASSUME NEW a \in Ancestors(t0, y) PROVE e \in Work(t, a) <=> c \in Work(t0, a)
        OBVIOUS
      <4>1. CASE a \in Subtree(t0, w)
        BY <2>3, <4>1 DEF Shifted, Line
      <4>2. CASE a \in Ancestors(t0, w)
        BY <2>1, <2>7, <2>8, <4>2
      <4> QED
        BY <2>4, <4>1, <4>2
    <3> QED
      BY <1>1, <1>2, <3>1 DEF Inside
  <2>9. ASSUME NEW x \in Subtree(t0, w), t0.is_open[x]
        PROVE  e \in Pos(t, x) <=> c \in Pos(t0, x)
    BY <2>9 DEF Shifted
  <2>10. ASSUME c \in Pos(t0, w), NEW a \in Line(t0, y), NEW x \in Left(t0, a), t0.is_open[x]
         PROVE  e \in Pos(t, x) <=> c \in Pos(t0, x)
    <3>1. a \in t0.live \ {Root}
      BY <1>1, AncestorsLive DEF Left
    <3>2. CASE a \in Line(t0, w)
      BY <2>2, <2>7, <2>10, <3>2
    <3>3. CASE a \notin Line(t0, w)
      <4>1. w \in Line(t0, a) /\ a # w
        BY <1>1, <3>3, LineChain DEF Line
      <4>2. x \in t0.live \ {Root} /\ t0.parent[x] = t0.parent[a]
        BY <3>1, SiblingsOf
      <4>3. w \in Ancestors(t0, x)
        BY <3>1, <4>1, <4>2, LineStep DEF Line
      <4>4. x \in Subtree(t0, w)
        BY <4>2, <4>3, SubtreeMeans DEF Line
      <4> QED
        BY <2>9, <2>10, <4>4
    <3> QED
      BY <3>2, <3>3
  <2>11. c \in Pos(t0, w) => (Covered(t, y, e) <=> Covered(t0, y, c))
    <3>1. /\ Line(t, y) = Line(t0, y) /\ \A a \in Line(t0, y) : Left(t, a) = Left(t0, a)
      BY <1>1, <1>2, AncestorsLive
    <3> QED
      BY <2>10, <3>1 DEF Covered
  <2>12. ByChild(t, y, e) <=> ByChild(t0, y, c)
    <3>1. e \in Work(t, y) <=> c \in Work(t0, y)
      BY <2>3 DEF Shifted, Line
    <3>2. ASSUME NEW x \in Childs(t0, y), t0.is_open[x]
          PROVE  e \in Pos(t, x) <=> c \in Pos(t0, x)
      <4>1. x \in t0.live \ {Root} /\ t0.parent[x] = y
        BY <1>1, TreeFields DEF TreeOK
      <4>2. w \in Ancestors(t0, x)
        BY <1>1, <4>1, LineStep
      <4>3. x \in Subtree(t0, w)
        BY <4>1, <4>2, SubtreeMeans DEF Line
      <4> QED
        BY <2>9, <3>2, <4>3
    <3> QED
      BY <1>2, <3>1, <3>2 DEF ByChild
  <2> HIDE DEF e
  <2>13. ASSUME c \in Build(t0, y)
         PROVE  e \in Build(t, y)
    BY <2>5, <2>6, <2>8, <2>11, <2>12, <2>13, BuildMeans
  <2>14. ASSUME e \in Build(t, y)
         PROVE  c \in Build(t0, y)
    BY <2>5, <2>6, <2>7, <2>8, <2>11, <2>12, <2>14, BuildMeans
  <2> QED
    BY <2>13, <2>14 DEF e
<1> QED
  BY <1>3, <1>4

\* All windows lie in the root window, which is the screen.
LEMMA RootAbove ==
  ASSUME NEW t, TreeOK(t), NEW w \in t.live
  PROVE  /\ Root \in Line(t, w)
         /\ w # Root => Root \in Ancestors(t, w)
         /\ Pos(t, Root) = Display /\ Work(t, Root) = Display /\ Ancestors(t, Root) = {}
         /\ Left(t, Root) = {}
<1> DEFINE S == {x \in Id : x \in t.live => Root \in Line(t, x)}
<1>1. t \in Tree /\ Founded(t) /\ t.live \subseteq Id /\ Root \in Id
  BY TreeFields DEF TreeOK, Id
<1>2. ASSUME NEW x \in Id, t.parent[x] \in Id => t.parent[x] \in S
      PROVE  x \in S
  <2>1. SUFFICES ASSUME x \in t.live, x # Root PROVE Root \in Line(t, x)
    BY DEF Line
  <2>2. t.parent[x] \in t.live /\ Line(t, x) = {x} \union Line(t, t.parent[x])
    BY <2>1, LineStep
  <2> QED
    BY <1>1, <1>2, <2>2
<1>3. S \in SUBSET Id
  OBVIOUS
<1> HIDE DEF S
<1>4. S = Id
  BY <1>1, <1>2, <1>3, TreeInduction
<1>5. Root \in Line(t, w)
  BY <1>1, <1>4 DEF S
<1>6. w # Root => Root \in Ancestors(t, w)
  BY <1>5 DEF Line
<1>7. /\ t.at[Root] = <<0, 0>> /\ t.size[Root] = ScreenSize /\ Edge(Root) = <<0, 0>>
      /\ ScreenSize \in Point
  BY WindowAssumption, SizesAreExtents DEF TreeOK, Edge, Extent, Point
<1>8. Full(t, Root) = ScreenSize /\ Plus(t.at[Root], Edge(Root)) = <<0, 0>>
  <2>1. Plus(<<0, 0>>, <<0, 0>>) = <<0, 0>>
    BY DEF Plus
  <2>2. Plus(ScreenSize, <<0, 0>>) = <<ScreenSize[1] + 0, ScreenSize[2] + 0>>
    BY DEF Plus
  <2>3. ScreenSize[1] + 0 = ScreenSize[1] /\ ScreenSize[2] + 0 = ScreenSize[2]
        /\ ScreenSize = <<ScreenSize[1], ScreenSize[2]>>
    BY <1>7, PointParts
  <2> QED
    BY <1>7, <2>1, <2>2, <2>3 DEF Full
<1>9. Pos(t, Root) = Display /\ Work(t, Root) = Display
  BY <1>7, <1>8 DEF Pos, Work, Display
<1>10. Ancestors(t, Root) = {} /\ Left(t, Root) = {}
  BY <1>1, AncestorsStep DEF TreeOK, Left
<1> QED
  BY <1>5, <1>6, <1>9, <1>10

\* The screen is copied when a window moves by d that is covered neither before nor after.
LEMMA ScreenMoved ==
  ASSUME NEW t, TreeOK(t), NEW w \in t.live \ {Root}, ~IsHidden(t, w), NEW t1, NEW d \in Point,
         Shifted(t, t1, w, d), NEW p \in Pic, NEW q,
         q = [p EXCEPT !.screen = [c \in Display |->
                IF c \in Pos(t1, w) THEN p.screen[Minus(c, d)] ELSE p.screen[c]]]
  PROVE  /\ Kept(p, q) /\ q.bitmap = p.bitmap
         /\ \A c \in Display : q.screen[c] = IF c \in Pos(t1, w) THEN p.screen[Minus(c, d)] ELSE p.screen[c]
<1> DEFINE new == Pos(t1, w)
           scr == [c \in Display |-> IF c \in new THEN p.screen[Minus(c, d)] ELSE p.screen[c]]
<1>1. Pos(t, w) \subseteq Display
  <2>1. Root \in Ancestors(t, w) /\ Work(t, Root) = Display
    BY RootAbove
  <2> QED
    BY <2>1 DEF IsHidden
<1>2. ASSUME NEW c \in Display
      PROVE  scr[c] \in (Id \union {NoWin}) \X Point
  <2>1. c \in Point /\ Minus(c, d) \in Point /\ Plus(Minus(c, d), d) = c
    BY DisplayPoints, PointMoves
  <2>2. c \in new => Minus(c, d) \in Pos(t, w)
    BY <2>1 DEF Shifted
  <2> HIDE DEF new
  <2>3. scr[c] = IF c \in new THEN p.screen[Minus(c, d)] ELSE p.screen[c]
    OBVIOUS
  <2> HIDE DEF scr
  <2> QED
    BY <1>1, <2>2, <2>3, PicFields
<1>3. scr \in [Display -> (Id \union {NoWin}) \X Point]
  <2> DEFINE F(c) == scr[c]
  <2>1. scr = [c \in Display |-> F(c)]
    OBVIOUS
  <2> HIDE DEF scr
  <2> QED
    BY <1>2, <2>1
<1>4. q = [p EXCEPT !.screen = scr]
  OBVIOUS
<1>5. \A c \in Display : scr[c] = IF c \in new THEN p.screen[Minus(c, d)] ELSE p.screen[c]
  OBVIOUS
<1> HIDE DEF scr
<1>6. Kept(p, q) /\ q.bitmap = p.bitmap /\ q.screen = scr
  BY <1>3, <1>4 DEF Kept, Pic
<1> QED
  BY <1>5, <1>6

\* window_move() of an open window, covered or not: all regions are exact again.
LEMMA MoveStep ==
  ASSUME NEW t, TreeOK(t), NEW w \in t.live \ {Root}, t.is_open[w], NEW d \in Point,
         NEW p \in Pic, Regions(p, t)
  PROVE  /\ TreeOK(Moved(t, Subtree(t, w), d))
         /\ MovedPic(p, t, w, d) \in Pic /\ Regions(MovedPic(p, t, w, d), Moved(t, Subtree(t, w), d))
<1> DEFINE t1 == Moved(t, Subtree(t, w), d)
           old == Pos(t, w)
           new == Pos(t1, w)
           area == old \union new
           q == t.parent[w]
           lower == Subtrees(t, Right(t, w))
           covered == IsHidden(t, w) \/ IsHidden(t1, w)
           saved == Save(Save(p, t, Subtree(t, w), old), t, lower \union {q}, new)
           placed == IF covered THEN saved
                     ELSE [saved EXCEPT !.vis = [x \in Id |->
                             IF x \in Subtree(t, w) /\ t.is_open[x] THEN Shift(@[x], d) ELSE @[x]]]
           T == IF covered THEN lower \union Subtree(t, w) ELSE lower
           built == Rebuild(Rebuild(placed, t1, T, area), t1, {q}, area)
           drawn == IF covered THEN Redraw(built, t1, Subtree(t, w), new)
                    ELSE [built EXCEPT !.screen = [c \in Display |->
                            IF c \in new THEN @[Minus(c, d)] ELSE @[c]]]
<1>1. /\ t \in Tree /\ w \in Id /\ t.live \subseteq Id /\ q \in t.live /\ q \in Id
      /\ Subtree(t, w) \in SUBSET Id /\ lower \in SUBSET Id
      /\ q \notin Subtree(t, w) /\ q \notin lower /\ w \in Subtree(t, w)
  BY LineStep, TreeFields, ParentApart DEF TreeOK
<1>2. Root \notin Subtree(t, w)
  BY RootAbove, SubtreeMeans DEF Line
<1>3. /\ TreeOK(t1) /\ Alike(t, t1) /\ t1.childs = t.childs /\ t1.is_open = t.is_open /\ t1.size = t.size
      /\ \A x \in Id : t1.at[x] = IF x \in Subtree(t, w) /\ t.is_open[x] THEN Plus(t.at[x], d) ELSE t.at[x]
      /\ t1 \in Tree /\ t1.live = t.live
  BY <1>1, <1>2, MovedTree DEF TreeOK, Alike
<1>4. MovedPic(p, t, w, d) = Redraw(drawn, t1, lower \union {q}, old)
  BY DEF MovedPic
<1>5. Kept(p, saved)
  <2> DEFINE first == Save(p, t, Subtree(t, w), old)
  <2>1. Kept(p, first)
    BY <1>1, SaveKeeps
  <2> HIDE DEF first
  <2>2. Kept(first, saved)
    BY <1>1, <2>1, SaveKeeps DEF first, Kept
  <2> QED
    BY <2>1, <2>2 DEF Kept
<1> HIDE DEF t1, saved
<1>6. saved \in Pic /\ \A y \in Id : Exact(saved, t, y)
  BY <1>5, KeptRegions DEF Regions
<1>7. \A x \in Subtree(t, w) : t.is_open[x] => Shifted(t, t1, x, d)
  BY <1>1, <1>3, MovedShifts
<1>8. Elsewhere(t, t1, w)
  BY <1>3 DEF Elsewhere, Same
<1>9. Within(t, t1, w, area)
  BY DEF Within
<1>10. /\ placed \in Pic
       /\ \A y \in Id \ Subtree(t, w) : Exact(placed, t, y)
       /\ covered => placed = saved
       /\ ~covered => \A y \in Subtree(t, w) :
            /\ placed.vis[y] = IF t.is_open[y] THEN Shift(saved.vis[y], d) ELSE saved.vis[y]
            /\ placed.is_hidden[y] = saved.is_hidden[y]
  <2>1. CASE covered
    BY <1>6, <2>1
  <2>2. CASE ~covered
    <3> DEFINE vis == [x \in Id |-> IF x \in Subtree(t, w) /\ t.is_open[x]
                                    THEN Shift(saved.vis[x], d) ELSE saved.vis[x]]
    <3>1. vis \in [Id -> SUBSET Point]
      <4>1. \A x \in Id : saved.vis[x] \in SUBSET Point
        BY <1>6, PicFields
      <4>2. \A x \in Id : Shift(saved.vis[x], d) \in SUBSET Point
        BY <4>1, ShiftMeans
      <4> QED
        BY <4>1, <4>2
    <3>2. placed = [saved EXCEPT !.vis = vis]
      BY <1>6, <2>2 DEF Pic
    <3>3. placed \in Pic /\ placed.vis = vis /\ placed.is_hidden = saved.is_hidden
      <4> HIDE DEF vis, placed
      <4> QED
        BY <1>6, <3>1, <3>2 DEF Pic
    <3>4. \A y \in Id : placed.vis[y] = vis[y] /\ placed.is_hidden[y] = saved.is_hidden[y]
      BY <3>3
    <3>5. \A y \in Id \ Subtree(t, w) : placed.vis[y] = saved.vis[y]
      BY <3>4
    <3>6. \A y \in Id \ Subtree(t, w) : Exact(placed, t, y)
      <4> HIDE DEF placed, vis
      <4> QED
        BY <1>6, <3>4, <3>5 DEF Exact
    <3>7. \A y \in Subtree(t, w) :
            /\ placed.vis[y] = IF t.is_open[y] THEN Shift(saved.vis[y], d) ELSE saved.vis[y]
            /\ placed.is_hidden[y] = saved.is_hidden[y]
      BY <1>1, <3>4
    <3> QED
      BY <2>2, <3>3, <3>6, <3>7
  <2> QED
    BY <2>1, <2>2
<1> HIDE DEF placed
<1>11. T \in SUBSET Id /\ q \in Id \ T /\ lower \subseteq T
  BY <1>1
<1>12. ASSUME NEW y \in Subtree(t, w)
       PROVE  Repairable(placed, t1, T, y, area)
  <2>1. y \in t.live /\ y \in Id /\ w \in Line(t, y) /\ Line(t1, y) = Line(t, y) /\ w \in Line(t1, y)
    BY <1>1, <1>3, <1>12, SubtreeMeans, AlikeLines
  <2>2. Exact(saved, t, y)
    BY <1>6, <2>1
  <2>3. CASE ~t.is_open[y]
    <3>1. placed.vis[y] = {}
      BY <1>10, <1>12, <2>2, <2>3 DEF Exact
    <3> QED
      BY <1>3, <2>3, <3>1 DEF Repairable, Exact
  <2>4. CASE t.is_open[y] /\ covered
    <3>1. CASE ~Unmet(t1, T, y, area)
      BY <1>3, <1>12, <2>4, <3>1 DEF Repairable
    <3>2. CASE Unmet(t1, T, y, area)
      <4>1. PICK a \in Line(t1, y) \intersect T : t1.is_open[a] /\ Pos(t1, a) \intersect area = {}
        BY <3>2 DEF Unmet
      <4>2. \A c : c \notin Build(t1, y)
        BY <1>3, <2>1, <4>1, BuildWithin
      <4>3. CASE a \in Subtree(t, w)
        <5>1. Shifted(t, t1, a, d) /\ Shifted(t, t1, w, d)
          BY <1>1, <1>3, <1>7, <4>1, <4>3
        <5>2. ASSUME NEW c \in Build(t, y)
              PROVE  FALSE
          <6>1. c \in Pos(t, a) /\ c \in Pos(t, w)
            BY <2>1, <4>1, BuildWithin
          <6>2. c \in Point
            BY <1>1, <6>1, PosFacts
          <6>3. Plus(c, d) \in Pos(t1, a) /\ Plus(c, d) \in new
            BY <5>1, <6>1, <6>2 DEF Shifted
          <6> QED
            BY <4>1, <6>3
        <5>3. Build(t, y) = {} /\ Build(t1, y) = {}
          BY <4>2, <5>2
        <5>4. Pos(t, y) # {} /\ Pos(t1, y) # {}
          BY <1>1, <1>3, <2>1, PosFacts
        <5> QED
          BY <1>3, <1>10, <2>2, <2>4, <5>3, <5>4 DEF Repairable, Exact
      <4>4. CASE a \in lower
        <5>1. a \notin Line(t, w)
          <6>1. a # w
            <7>1. \A x \in Right(t, w) : x \in t.live \ {Root} /\ t.parent[x] = t.parent[w] /\ x # w
              BY SiblingsOf
            <7>2. PICK x \in Right(t, w) : a \in Subtree(t, x)
              BY <4>4 DEF Subtrees
            <7>3. Ancestors(t, x) = Ancestors(t, w) /\ x \notin Ancestors(t, x)
              BY <7>1, <1>1, LineStep, NotOwnAncestor DEF TreeOK
            <7>4. x \in Line(t, a)
              BY <7>2, SubtreeMeans
            <7> QED
              BY <7>1, <7>3, <7>4 DEF Line
          <6>2. a \notin Ancestors(t, w)
            BY <4>4, AncestorsApart
          <6> QED
            BY <6>1, <6>2 DEF Line
        <5>2. w \in Line(t, a)
          BY <2>1, <4>1, <5>1, LineChain
        <5>3. a \in t.live
          BY <2>1, <4>1, AncestorsLive
        <5>4. a \in Subtree(t, w)
          BY <5>2, <5>3, SubtreeMeans
        <5> QED
          BY <4>3, <5>4
      <4> QED
        BY <4>1, <4>3, <4>4
    <3> QED
      BY <3>1, <3>2
  <2>5. CASE t.is_open[y] /\ ~covered
    <3>1. \A c \in Point : Plus(c, d) \in Build(t1, y) <=> c \in Build(t, y)
      BY <1>3, <1>7, <1>8, <1>12, <2>5, MovedCell
    <3>2. Build(t1, y) \subseteq Point /\ Build(t, y) \subseteq Point
          /\ Pos(t1, y) \subseteq Point /\ Pos(t, y) \subseteq Point
      BY <1>1, <1>3, <2>1, BuildMeans, PosFacts
    <3>3. \A c \in Point : Plus(c, d) \in Pos(t1, y) <=> c \in Pos(t, y)
      BY <1>7, <1>12, <2>5 DEF Shifted
    <3>4. Build(t1, y) = Shift(Build(t, y), d)
      BY <3>1, <3>2, ShiftEqual
    <3>5. Build(t1, y) = Pos(t1, y) <=> Build(t, y) = Pos(t, y)
      <4>1. ASSUME Build(t1, y) = Pos(t1, y), NEW c \in Point
            PROVE  c \in Build(t, y) <=> c \in Pos(t, y)
        BY <3>1, <3>3, <4>1
      <4>2. Pos(t1, y) = Shift(Pos(t, y), d)
        BY <3>2, <3>3, ShiftEqual
      <4> QED
        BY <3>2, <3>4, <4>1, <4>2
    <3>6. placed.vis[y] = Shift(saved.vis[y], d) /\ placed.is_hidden[y] = saved.is_hidden[y]
      BY <1>10, <1>12, <2>5
    <3>7. saved.vis[y] = Build(t, y) /\ (saved.is_hidden[y] <=> saved.vis[y] # Pos(t, y))
      BY <2>2, <2>5 DEF Exact
    <3>8. placed.vis[y] = Build(t1, y) /\ (placed.is_hidden[y] <=> placed.vis[y] # Pos(t1, y))
      BY <3>4, <3>5, <3>6, <3>7
    <3> QED
      BY <1>3, <2>5, <3>8 DEF Repairable, Exact
  <2> QED
    BY <2>3, <2>4, <2>5
<1>13. ASSUME NEW y \in t.live \ Subtree(t, w)
       PROVE  /\ y # q => Repairable(placed, t1, T, y, area)
              /\ y = q => Repairable(placed, t1, {y}, y, area)
  <2>1. Exact(placed, t, y) /\ placed \in Pic /\ TreeOK(t1)
    BY <1>1, <1>3, <1>10, <1>13
  <2>2. Subtrees(t, Right(t, w)) \subseteq T /\ q = t.parent[w]
    BY <1>11
  <2>3. T \in SUBSET Id
    BY <1>11
  <2> HIDE DEF area, T, q
  <2>4. y # t.parent[w] => Repairable(placed, t1, T, y, area)
    BY <1>8, <1>9, <1>13, <2>1, <2>2, <2>3, ExactElsewhere
  <2>5. y = t.parent[w] => Repairable(placed, t1, {y}, y, area)
    BY <1>8, <1>9, <1>13, <2>1, <2>2, <2>3, ExactElsewhere
  <2> QED
    BY <2>2, <2>4, <2>5
<1>14. ASSUME NEW y \in Id \ t.live
       PROVE  Exact(placed, t1, y)
  <2>1. ~t.is_open[y] /\ ~t1.is_open[y] /\ y \notin Subtree(t, w)
    BY <1>3, SubtreeMeans DEF TreeOK
  <2> QED
    BY <1>10, <2>1 DEF Exact
<1>15. \A y \in Id \ {q} : Repairable(placed, t1, T, y, area)
  BY <1>12, <1>13, <1>14 DEF Repairable
<1>16. Repairable(placed, t1, {q}, q, area)
  BY <1>1, <1>13
<1>17. built \in Pic /\ Regions(built, t1)
  <2> HIDE DEF T, area, q
  <2> QED
    BY <1>3, <1>10, <1>11, <1>15, <1>16, RebuiltTwice
<1> HIDE DEF built
<1>18. Kept(built, drawn)
  <2>1. CASE covered
    <3>1. drawn = Redraw(built, t1, Subtree(t, w), new)
      BY <2>1
    <3> HIDE DEF drawn, new
    <3> QED
      BY <1>1, <1>3, <1>17, <3>1, RedrawKeeps
  <2>2. CASE ~covered
    <3>1. drawn = [built EXCEPT !.screen = [c \in Display |->
                     IF c \in new THEN built.screen[Minus(c, d)] ELSE built.screen[c]]]
      BY <1>17, <2>2 DEF Pic
    <3>2. Shifted(t, t1, w, d)
      BY <1>1, <1>7
    <3> HIDE DEF drawn
    <3> QED
      BY <1>17, <2>2, <3>1, <3>2, ScreenMoved
  <2> QED
    BY <2>1, <2>2
<1> HIDE DEF drawn
<1>19. drawn \in Pic /\ Regions(drawn, t1)
  BY <1>17, <1>18, KeptRegions
<1>20. Kept(drawn, MovedPic(p, t, w, d))
  <2>1. lower \union {q} \in SUBSET Id
    BY <1>1
  <2> HIDE DEF lower, q, old
  <2> QED
    BY <1>3, <1>4, <1>19, <2>1, RedrawKeeps
<1>21. MovedPic(p, t, w, d) \in Pic /\ Regions(MovedPic(p, t, w, d), t1)
  BY <1>19, <1>20, KeptRegions
<1> QED
  BY <1>3, <1>21 DEF t1

-----------------------------------------------------------------------------
(* Lists of childs.                                                        *)

\* u stands before v in the list s.
Before(s, u, v) == \E i, j \in DOMAIN s : i < j /\ s[i] = u /\ s[j] = v
Elements(s) == {s[i] : i \in DOMAIN s}

\* Taking a window out of a list.
LEMMA WithoutMeans ==
  ASSUME NEW s \in Seq(Id), Nodup(s), NEW x
  PROVE  /\ Without(s, x) \in Seq(Id) /\ Nodup(Without(s, x))
         /\ Elements(Without(s, x)) = Elements(s) \ {x}
         /\ \A u, v : Before(Without(s, x), u, v) <=> Before(s, u, v) /\ u # x /\ v # x
         /\ x \notin Elements(s) => Without(s, x) = s
<1>1. Len(s) \in Nat /\ DOMAIN s = 1 .. Len(s) /\ \A i \in 1 .. Len(s) : s[i] \in Id
  BY LenProperties, ElementOfSeq
<1>2. CASE x \notin Elements(s)
  <2>1. Without(s, x) = s
    BY <1>2 DEF Without, Elements
  <2>2. \A u, v : Before(s, u, v) => u # x /\ v # x
    BY <1>2 DEF Before, Elements
  <2> QED
    BY <1>2, <2>1, <2>2
<1>3. CASE x \in Elements(s)
  <2> DEFINE k == CHOOSE i \in DOMAIN s : s[i] = x
             n == Len(s)
             a == SubSeq(s, 1, k - 1)
             b == SubSeq(s, k + 1, n)
             r == Without(s, x)
  <2>1. \E i \in DOMAIN s : s[i] = x
    BY <1>3 DEF Elements
  <2>2. k \in 1 .. n /\ s[k] = x
    BY <1>1, <2>1
  <2>3. r = a \o b
    BY <2>1 DEF Without
  <2>4. \A i \in 1 .. n : s[i] = x => i = k
    BY <1>1, <2>2 DEF Nodup
  <2> HIDE DEF k, r, n
  <2>5. n \in Nat /\ k \in Nat /\ k >= 1 /\ k <= n
    BY <1>1, <2>2 DEF n
  <2>6. /\ a \in Seq(Id) /\ Len(a) = k - 1
        /\ \A i \in 1 .. k - 1 : a[i] = s[i]
    BY <1>1, <2>5, SubSeqProperties DEF n
  <2>7. /\ b \in Seq(Id) /\ Len(b) = n - k
        /\ \A i \in 1 .. n - k : b[i] = s[k + i]
    <3>1. s \in Seq(Id) /\ k + 1 \in 1 .. Len(s) + 1 /\ n \in k .. Len(s)
      BY <1>1, <2>5 DEF n
    <3>2. b \in Seq(Id) /\ Len(b) = n - (k + 1) + 1
      BY <2>5, <3>1, SubSeqProperties
    <3>3. n - (k + 1) + 1 = n - k
      BY <2>5
    <3>4. \A i \in 1 .. n - (k + 1) + 1 : b[i] = s[(k + 1) + i - 1]
      BY <2>5, <3>1, SubSeqProperties
    <3>5. \A i \in 1 .. n - k : (k + 1) + i - 1 = k + i
      BY <2>5
    <3> HIDE DEF b
    <3> QED
      BY <3>2, <3>3, <3>4, <3>5
  <2> HIDE DEF a, b
  <2>8. /\ r \in Seq(Id) /\ Len(r) = n - 1 /\ DOMAIN r = 1 .. n - 1
        /\ \A i \in 1 .. n - 1 : r[i] = IF i < k THEN s[i] ELSE s[i + 1]
    <3>1. r \in Seq(Id) /\ Len(r) = Len(a) + Len(b)
          /\ \A i \in 1 .. Len(a) + Len(b) : r[i] = IF i <= Len(a) THEN a[i] ELSE b[i - Len(a)]
      BY <2>3, <2>6, <2>7, ConcatProperties
    <3>2. Len(a) + Len(b) = n - 1
      BY <2>5, <2>6, <2>7
    <3>3. ASSUME NEW i \in 1 .. n - 1
          PROVE  r[i] = IF i < k THEN s[i] ELSE s[i + 1]
      <4>1. r[i] = IF i <= k - 1 THEN a[i] ELSE b[i - (k - 1)]
        BY <2>6, <3>1, <3>2, <3>3
      <4>2. CASE i < k
        <5>1. i \in 1 .. k - 1 /\ i <= k - 1
          BY <2>5, <3>3, <4>2
        <5> QED
          BY <2>6, <4>1, <4>2, <5>1
      <4>3. CASE ~(i < k)
        <5>1. ~(i <= k - 1) /\ i - (k - 1) \in 1 .. n - k /\ k + (i - (k - 1)) = i + 1
          BY <2>5, <3>3, <4>3
        <5> QED
          BY <2>7, <4>1, <4>3, <5>1
      <4> QED
        BY <4>2, <4>3
    <3>4. DOMAIN r = 1 .. n - 1
      BY <3>1, <3>2, LenProperties
    <3> QED
      BY <3>1, <3>2, <3>3, <3>4
  <2>9. \A i, j \in 1 .. n : s[i] = s[j] => i = j
    BY <1>1 DEF Nodup, n
  <2>10. ASSUME NEW i \in 1 .. n - 1
         PROVE  \E j \in 1 .. n : /\ j # k /\ r[i] = s[j]
                                  /\ j = IF i < k THEN i ELSE i + 1
    <3>1. CASE i < k
      BY <2>5, <2>8, <2>10, <3>1
    <3>2. CASE ~(i < k)
      BY <2>5, <2>8, <2>10, <3>2
    <3> QED
      BY <3>1, <3>2
  <2>11. ASSUME NEW j \in 1 .. n, j # k
         PROVE  \E i \in 1 .. n - 1 : /\ r[i] = s[j]
                                      /\ i = IF j < k THEN j ELSE j - 1
    <3>1. CASE j < k
      BY <2>5, <2>8, <2>11, <3>1
    <3>2. CASE ~(j < k)
      <4>1. j - 1 \in 1 .. n - 1 /\ ~(j - 1 < k) /\ (j - 1) + 1 = j
        BY <2>5, <2>11, <3>2
      <4>2. r[j - 1] = s[(j - 1) + 1]
        BY <2>8, <4>1
      <4> QED
        BY <3>2, <4>1, <4>2
    <3> QED
      BY <3>1, <3>2
  <2>12. Nodup(r)
    <3> SUFFICES ASSUME NEW i \in 1 .. n - 1, NEW j \in 1 .. n - 1, r[i] = r[j]
                 PROVE  i = j
      BY <2>8 DEF Nodup
    <3>1. PICK i2 \in 1 .. n : r[i] = s[i2] /\ i2 = IF i < k THEN i ELSE i + 1
      BY <2>10
    <3>2. PICK j2 \in 1 .. n : r[j] = s[j2] /\ j2 = IF j < k THEN j ELSE j + 1
      BY <2>10
    <3>3. i2 = j2
      BY <2>9, <3>1, <3>2
    <3> QED
      BY <2>5, <3>1, <3>2, <3>3
  <2>13. \A z : z \in Elements(r) <=> \E i \in 1 .. n - 1 : r[i] = z
    BY <2>8 DEF Elements
  <2>14. \A z : z \in Elements(s) <=> \E i \in 1 .. n : s[i] = z
    BY <1>1 DEF Elements, n
  <2>15. Elements(r) = Elements(s) \ {x}
    <3>1. ASSUME NEW z \in Elements(r)
          PROVE  z \in Elements(s) \ {x}
      <4>1. PICK i \in 1 .. n - 1 : r[i] = z
        BY <2>13, <3>1
      <4>2. PICK j \in 1 .. n : j # k /\ r[i] = s[j]
        BY <2>10
      <4> QED
        BY <2>4, <2>14, <4>1, <4>2 DEF n
    <3>2. ASSUME NEW z \in Elements(s), z # x
          PROVE  z \in Elements(r)
      <4>1. PICK j \in 1 .. n : s[j] = z
        BY <2>14, <3>2
      <4>2. j # k
        BY <2>2, <3>2, <4>1
      <4>3. PICK i \in 1 .. n - 1 : r[i] = s[j]
        BY <2>11, <4>2
      <4> QED
        BY <2>13, <4>1, <4>3
    <3> QED
      BY <3>1, <3>2
  <2>16. ASSUME NEW u, NEW v
         PROVE  Before(r, u, v) <=> Before(s, u, v) /\ u # x /\ v # x
    <3>1. Before(r, u, v) <=> \E i, j \in 1 .. n - 1 : i < j /\ r[i] = u /\ r[j] = v
      BY <2>8 DEF Before
    <3>2. Before(s, u, v) <=> \E i, j \in 1 .. n : i < j /\ s[i] = u /\ s[j] = v
      BY <1>1 DEF Before, n
    <3>3. ASSUME NEW i \in 1 .. n - 1, NEW j \in 1 .. n - 1, i < j, r[i] = u, r[j] = v
          PROVE  Before(s, u, v) /\ u # x /\ v # x
      <4>1. PICK i2 \in 1 .. n : i2 # k /\ r[i] = s[i2] /\ i2 = IF i < k THEN i ELSE i + 1
        BY <2>10
      <4>2. PICK j2 \in 1 .. n : j2 # k /\ r[j] = s[j2] /\ j2 = IF j < k THEN j ELSE j + 1
        BY <2>10
      <4>3. i2 < j2
        BY <2>5, <3>3, <4>1, <4>2
      <4>4. s[i2] # x /\ s[j2] # x
        BY <2>4, <4>1, <4>2 DEF n
      <4> QED
        BY <3>2, <3>3, <4>1, <4>2, <4>3, <4>4
    <3>4. ASSUME NEW i \in 1 .. n, NEW j \in 1 .. n, i < j, s[i] = u, s[j] = v, u # x, v # x
          PROVE  Before(r, u, v)
      <4>1. i # k /\ j # k
        BY <2>2, <3>4
      <4>2. PICK i2 \in 1 .. n - 1 : r[i2] = s[i] /\ i2 = IF i < k THEN i ELSE i - 1
        BY <2>11, <4>1
      <4>3. PICK j2 \in 1 .. n - 1 : r[j2] = s[j] /\ j2 = IF j < k THEN j ELSE j - 1
        BY <2>11, <4>1
      <4>4. i2 < j2
        BY <2>5, <3>4, <4>1, <4>2, <4>3
      <4> QED
        BY <3>1, <3>4, <4>2, <4>3, <4>4
    <3> QED
      BY <3>1, <3>2, <3>3, <3>4
  <2> QED
    BY <1>3, <2>8, <2>12, <2>15, <2>16 DEF r
<1> QED
  BY <1>2, <1>3

\* Putting a window in front of a list or at its end.
LEMMA JoinMeans ==
  ASSUME NEW s \in Seq(Id), NEW r \in Seq(Id), Nodup(s), Nodup(r), Elements(s) \intersect Elements(r) = {}
  PROVE  /\ s \o r \in Seq(Id) /\ Nodup(s \o r) /\ Elements(s \o r) = Elements(s) \union Elements(r)
         /\ \A u, v : Before(s \o r, u, v) <=> \/ Before(s, u, v) \/ Before(r, u, v)
                                               \/ u \in Elements(s) /\ v \in Elements(r)
<1> DEFINE m == Len(s)
           n == Len(r)
           q == s \o r
<1>1. /\ m \in Nat /\ n \in Nat /\ DOMAIN s = 1 .. m /\ DOMAIN r = 1 .. n
      /\ q \in Seq(Id) /\ Len(q) = m + n /\ DOMAIN q = 1 .. m + n
      /\ \A i \in 1 .. m + n : q[i] = IF i <= m THEN s[i] ELSE r[i - m]
  BY ConcatProperties, LenProperties
<1> HIDE DEF m, n, q
<1>2. /\ \A i \in 1 .. m : i \in 1 .. m + n /\ q[i] = s[i]
      /\ \A i \in 1 .. n : m + i \in 1 .. m + n /\ q[m + i] = r[i]
  <2>1. \A i \in 1 .. m : i \in 1 .. m + n /\ i <= m
    BY <1>1
  <2>2. \A i \in 1 .. n : m + i \in 1 .. m + n /\ ~(m + i <= m) /\ (m + i) - m = i
    BY <1>1
  <2> QED
    BY <1>1, <2>1, <2>2
<1>3. ASSUME NEW i \in 1 .. m + n
      PROVE  i \in 1 .. m \/ \E j \in 1 .. n : i = m + j
  <2>1. i <= m => i \in 1 .. m
    BY <1>1
  <2>2. ~(i <= m) => i - m \in 1 .. n /\ i = m + (i - m)
    BY <1>1
  <2> QED
    BY <2>1, <2>2
<1>4. /\ \A i, j \in 1 .. m : s[i] = s[j] => i = j
      /\ \A i, j \in 1 .. n : r[i] = r[j] => i = j
      /\ \A i \in 1 .. m, j \in 1 .. n : s[i] # r[j]
  <2>1. /\ \A i, j \in 1 .. m : s[i] = s[j] => i = j
        /\ \A i, j \in 1 .. n : r[i] = r[j] => i = j
    BY <1>1 DEF Nodup
  <2>2. ASSUME NEW i \in 1 .. m, NEW j \in 1 .. n
        PROVE  s[i] # r[j]
    <3>1. s[i] \in Elements(s) /\ r[j] \in Elements(r)
      BY <1>1 DEF Elements
    <3> QED
      BY <3>1
  <2> QED
    BY <2>1, <2>2
<1>5. Nodup(q)
  <2> SUFFICES ASSUME NEW i \in 1 .. m + n, NEW j \in 1 .. m + n, q[i] = q[j] PROVE i = j
    BY <1>1 DEF Nodup
  <2>1. CASE i \in 1 .. m /\ j \in 1 .. m
    BY <1>2, <1>4, <2>1
  <2>2. CASE (\E k \in 1 .. n : i = m + k) /\ (\E k \in 1 .. n : j = m + k)
    BY <1>2, <1>4, <2>2
  <2>3. CASE i \in 1 .. m /\ (\E k \in 1 .. n : j = m + k)
    BY <1>2, <1>4, <2>3
  <2>4. CASE j \in 1 .. m /\ (\E k \in 1 .. n : i = m + k)
    BY <1>2, <1>4, <2>4
  <2> QED
    BY <1>3, <2>1, <2>2, <2>3, <2>4
<1>6. /\ \A z : z \in Elements(s) <=> \E i \in 1 .. m : s[i] = z
      /\ \A z : z \in Elements(r) <=> \E i \in 1 .. n : r[i] = z
      /\ \A z : z \in Elements(q) <=> \E i \in 1 .. m + n : q[i] = z
  BY <1>1 DEF Elements
<1>7. Elements(q) = Elements(s) \union Elements(r)
  BY <1>2, <1>3, <1>6
<1>8. ASSUME NEW u, NEW v
      PROVE  Before(q, u, v) <=> \/ Before(s, u, v) \/ Before(r, u, v)
                                 \/ u \in Elements(s) /\ v \in Elements(r)
  <2>1. /\ Before(q, u, v) <=> \E i, j \in 1 .. m + n : i < j /\ q[i] = u /\ q[j] = v
        /\ Before(s, u, v) <=> \E i, j \in 1 .. m : i < j /\ s[i] = u /\ s[j] = v
        /\ Before(r, u, v) <=> \E i, j \in 1 .. n : i < j /\ r[i] = u /\ r[j] = v
    BY <1>1 DEF Before
  <2>2. ASSUME NEW i \in 1 .. m + n, NEW j \in 1 .. m + n, i < j, q[i] = u, q[j] = v
        PROVE  Before(s, u, v) \/ Before(r, u, v) \/ (u \in Elements(s) /\ v \in Elements(r))
    <3>1. CASE i \in 1 .. m /\ j \in 1 .. m
      BY <1>2, <2>1, <2>2, <3>1
    <3>2. CASE i \in 1 .. m /\ \E k \in 1 .. n : j = m + k
      BY <1>2, <1>6, <2>2, <3>2
    <3>3. ASSUME NEW k \in 1 .. n, i = m + k, NEW l \in 1 .. n, j = m + l
          PROVE  Before(r, u, v)
      <4>1. k < l
        BY <1>1, <2>2, <3>3
      <4> QED
        BY <1>2, <2>1, <2>2, <3>3, <4>1
    <3>4. ASSUME NEW k \in 1 .. n, i = m + k, j \in 1 .. m
          PROVE  FALSE
      BY <1>1, <2>2, <3>4
    <3> QED
      BY <1>3, <3>1, <3>2, <3>3, <3>4
  <2>3. Before(s, u, v) => Before(q, u, v)
    BY <1>2, <2>1
  <2>4. Before(r, u, v) => Before(q, u, v)
    <3> SUFFICES ASSUME NEW i \in 1 .. n, NEW j \in 1 .. n, i < j, r[i] = u, r[j] = v
                 PROVE  Before(q, u, v)
      BY <2>1
    <3>1. m + i < m + j
      BY <1>1
    <3> QED
      BY <1>2, <2>1, <3>1
  <2>5. ASSUME u \in Elements(s), v \in Elements(r)
        PROVE  Before(q, u, v)
    <3>1. PICK i \in 1 .. m : s[i] = u
      BY <1>6, <2>5
    <3>2. PICK j \in 1 .. n : r[j] = v
      BY <1>6, <2>5
    <3>3. i < m + j
      BY <1>1
    <3> QED
      BY <1>2, <2>1, <3>1, <3>2, <3>3
  <2> QED
    BY <2>1, <2>2, <2>3, <2>4, <2>5
<1> QED
  BY <1>1, <1>5, <1>7, <1>8 DEF q

\* A list of one window.
LEMMA OneMeans ==
  ASSUME NEW w \in Id
  PROVE  /\ <<w>> \in Seq(Id) /\ Nodup(<<w>>) /\ Elements(<<w>>) = {w}
         /\ \A u, v : ~Before(<<w>>, u, v)
<1>1. <<w>> \in Seq(Id) /\ DOMAIN <<w>> = {1} /\ <<w>>[1] = w
  BY SMT
<1> QED
  BY <1>1 DEF Nodup, Elements, Before

-----------------------------------------------------------------------------
(* Restacking.                                                             *)

\* The childs of q in another order.
Reordered(t0, t, q, s) ==
  /\ Alike(t0, t) /\ t.childs = [t0.childs EXCEPT ![q] = s]
  /\ t.is_open = t0.is_open /\ t.at = t0.at /\ t.size = t0.size

LEMMA ReorderedTree ==
  ASSUME NEW t, TreeOK(t), NEW q \in Id, NEW s \in Seq(Id), Nodup(s), Elements(s) = Childs(t, q)
  PROVE  /\ TreeOK([t EXCEPT !.childs[q] = s])
         /\ Reordered(t, [t EXCEPT !.childs[q] = s], q, s)
<1> DEFINE list == [t.childs EXCEPT ![q] = s]
           u == [t EXCEPT !.childs[q] = s]
<1>1. t \in Tree
  BY DEF TreeOK
<1>2. list \in [Id -> Seq(Id)] /\ list[q] = s /\ \A x \in Id \ {q} : list[x] = t.childs[x]
  BY <1>1, TreeFields
<1>3. u = [t EXCEPT !.childs = list]
  BY <1>1 DEF Tree
<1> HIDE DEF list, u
<1>4. /\ u \in Tree /\ u.live = t.live /\ u.parent = t.parent /\ u.childs = list
      /\ u.is_open = t.is_open /\ u.size = t.size /\ u.at = t.at
  BY <1>1, <1>2, <1>3 DEF Tree
<1>5. ASSUME NEW x \in Id
      PROVE  Nodup(u.childs[x]) /\ Childs(u, x) = Childs(t, x)
  <2>1. Childs(u, x) = Elements(u.childs[x]) /\ Childs(t, x) = Elements(t.childs[x])
    BY DEF Childs, Elements
  <2>2. CASE x = q
    BY <1>2, <1>4, <2>1, <2>2
  <2>3. CASE x # q
    <3>1. u.childs[x] = t.childs[x]
      BY <1>2, <1>4, <2>3
    <3> QED
      BY <2>1, <3>1 DEF TreeOK
  <2> QED
    BY <2>2, <2>3
<1>6. TreeOK(u)
  BY <1>4, <1>5 DEF TreeOK, Founded
<1>7. Reordered(t, u, q, s)
  BY <1>4 DEF Reordered, Alike, list
<1> QED
  BY <1>6, <1>7 DEF u

\* A cell is as visible as before if the same of the windows above are around it.
LEMMA LeftCell ==
  ASSUME NEW t0, NEW t, TreeOK(t0), TreeOK(t), Alike(t0, t),
         t.is_open = t0.is_open, t.at = t0.at, t.size = t0.size, NEW y \in t0.live, NEW c,
         \A a \in Line(t0, y) : \A x :
           x \in Left(t, a) /\ c \in Pos(t0, x) <=> x \in Left(t0, a) /\ c \in Pos(t0, x)
  PROVE  c \in Build(t, y) <=> c \in Build(t0, y)
<1>1. \A x : Pos(t, x) = Pos(t0, x) /\ Work(t, x) = Work(t0, x)
  BY DEF Pos, Work, Full
<1>0. y \in Id
  BY TreeFields DEF TreeOK
<1>2. /\ y \in Id /\ Ancestors(t, y) = Ancestors(t0, y) /\ Line(t, y) = Line(t0, y)
      /\ Childs(t, y) = Childs(t0, y)
  <2>1. Ancestors(t, y) = Ancestors(t0, y) /\ Line(t, y) = Line(t0, y)
    BY <1>0, AlikeLines
  <2>2. Childs(t, y) = {x \in t.live : t.parent[x] = y} /\ Childs(t0, y) = {x \in t0.live : t0.parent[x] = y}
    BY <1>0 DEF TreeOK
  <2> QED
    BY <1>0, <2>1, <2>2 DEF Alike
<1>3. Inside(t, y, c) <=> Inside(t0, y, c)
  BY <1>1, <1>2 DEF Inside
<1>4. ByChild(t, y, c) <=> ByChild(t0, y, c)
  BY <1>1, <1>2 DEF ByChild
<1>5. Covered(t, y, c) <=> Covered(t0, y, c)
  BY <1>1, <1>2 DEF Covered
<1> QED
  BY <1>1, <1>3, <1>4, <1>5, BuildMeans

\* w goes up or down past the windows of Z; then these, w and their subtrees are
\* rebuilt where w is.
LEMMA RestackStep ==
  ASSUME NEW t0, NEW t, TreeOK(t0), TreeOK(t), Alike(t0, t),
         t.is_open = t0.is_open, t.at = t0.at, t.size = t0.size,
         NEW w \in t0.live \ {Root}, NEW Z \in SUBSET t0.live,
         \A a \in t0.live \ {w}, x \in Id \ {w} : x \in Left(t, a) <=> x \in Left(t0, a),
         \A a \in t0.live \ (Z \union {w}) : w \in Left(t, a) <=> w \in Left(t0, a),
         NEW p \in Pic, Regions(p, t0)
  PROVE  LET q == Rebuild(p, t, Subtrees(t0, Z \union {w}), Pos(t0, w)) IN q \in Pic /\ Regions(q, t)
<1> DEFINE T == Subtrees(t0, Z \union {w})
           area == Pos(t0, w)
<1>1. /\ t \in Tree /\ t0.live \subseteq Id /\ w \in Id /\ t.live = t0.live
      /\ T \in SUBSET Id
  BY TreeFields DEF TreeOK, Subtrees, Subtree, Alike
<1>2. ASSUME NEW y \in t0.live
      PROVE  /\ y \in Id /\ Line(t, y) = Line(t0, y) /\ \A a \in Line(t0, y) : a \in t0.live
             /\ \A a \in Line(t0, y) : \A x \in Left(t, a) \union Left(t0, a) : x \in Id
  <2>1. y \in Id /\ Line(t, y) = Line(t0, y)
    BY <1>1, AlikeLines
  <2>2. \A a \in Line(t0, y) : a \in t0.live
    BY AncestorsLive
  <2>3. ASSUME NEW a \in Line(t0, y), NEW x \in Left(t, a) \union Left(t0, a)
        PROVE  x \in Id
    <3>1. a \in t0.live \ {Root}
      BY <2>2, <2>3 DEF Left
    <3> QED
      BY <1>1, <2>3, <3>1, SiblingsOf
  <2> QED
    BY <2>1, <2>2, <2>3
<1>3. ASSUME NEW y \in t0.live \ Subtree(t0, w), NEW c, c \notin area \/ y \notin T
      PROVE  c \in Build(t, y) <=> c \in Build(t0, y)
  <2>1. ASSUME NEW a \in Line(t0, y), NEW x
        PROVE  x \in Left(t, a) /\ c \in Pos(t0, x) <=> x \in Left(t0, a) /\ c \in Pos(t0, x)
    <3>1. a \in t0.live /\ a # w /\ (x \in Left(t, a) \union Left(t0, a) => x \in Id)
      BY <1>2, SubtreeMeans
    <3>2. CASE x # w
      BY <3>1, <3>2
    <3>3. CASE x = w /\ c \notin area
      BY <3>3
    <3>4. CASE x = w /\ y \notin T
      <4>1. a \notin Z
        <5>1. y \in Subtree(t0, a)
          BY SubtreeMeans
        <5> QED
          BY <3>4, <5>1 DEF Subtrees
      <4> QED
        BY <3>1, <3>4, <4>1
    <3> QED
      BY <1>3, <3>2, <3>3, <3>4
  <2> HIDE DEF area, T
  <2> QED
    BY <2>1, LeftCell
<1>4. ASSUME NEW y \in Subtree(t0, w), NEW c, c \notin area
      PROVE  c \notin Build(t, y) /\ c \notin Build(t0, y)
  <2>1. /\ y \in t0.live /\ w \in Line(t0, y) /\ y \in t.live /\ w \in Line(t, y)
    BY <1>1, <1>2, SubtreeMeans
  <2>2. Pos(t, w) = area
    BY DEF Pos, Full
  <2> QED
    BY <1>4, <2>1, <2>2, BuildWithin
<1>5. \A x : Same(t0, t, x) /\ Pos(t, x) = Pos(t0, x)
  BY DEF Same, Pos, Full
<1>6. ASSUME NEW y \in t0.live, y \in T
      PROVE  Repairable(p, t, T, y, area)
  <2>1. t.is_open[y] => \A c : c \in Build(t, y) /\ c \notin area <=> c \in Build(t0, y) /\ c \notin area
    BY <1>3, <1>4
  <2>2. /\ y \in t0.live \intersect t.live /\ Line(t, y) = Line(t0, y) /\ Exact(p, t0, y)
        /\ \A a \in Line(t, y) : Same(t0, t, a)
    BY <1>1, <1>2, <1>5 DEF Regions
  <2> HIDE DEF area, T
  <2> QED
    BY <1>1, <1>6, <2>1, <2>2, RepairedInArea
<1>7. ASSUME NEW y \in Id, y \notin T
      PROVE  Exact(p, t, y)
  <2>1. Exact(p, t0, y) /\ Pos(t, y) = Pos(t0, y)
    BY <1>5, <1>7 DEF Regions
  <2>2. CASE ~t0.is_open[y]
    BY <2>1, <2>2 DEF Exact
  <2>3. CASE t0.is_open[y]
    <3>1. y \in t0.live
      BY <1>7, <2>3 DEF TreeOK
    <3>2. y \notin Subtree(t0, w)
      BY <1>7 DEF Subtrees
    <3>3. \A c : c \in Build(t, y) <=> c \in Build(t0, y)
      BY <1>3, <1>7, <3>1, <3>2
    <3>4. Build(t, y) = Build(t0, y)
      BY <3>3
    <3> QED
      BY <2>1, <2>3, <3>4 DEF Exact
  <2> QED
    BY <2>2, <2>3
<1>8. ASSUME NEW y \in Id
      PROVE  Repairable(p, t, T, y, area)
  <2>1. CASE y \in T
    <3>1. y \in t0.live
      BY <2>1 DEF Subtrees, Subtree
    <3> QED
      BY <1>6, <2>1, <3>1
  <2>2. CASE y \notin T
    BY <1>7, <2>2 DEF Repairable
  <2> QED
    BY <2>1, <2>2
<1> HIDE DEF area, T
<1>9. Rebuild(p, t, T, area) \in Pic /\ \A y \in Id : Exact(Rebuild(p, t, T, area), t, y)
  BY <1>1, <1>8, RebuildMeans
<1> QED
  BY <1>9 DEF Regions, T, area

\* The tree after w_topDown(): only w has changed its place among its siblings.
Restacked(t0, t, w) ==
  /\ TreeOK(t) /\ Alike(t0, t) /\ t.is_open = t0.is_open /\ t.at = t0.at /\ t.size = t0.size
  /\ \A a \in t0.live \ {w}, x \in Id \ {w} : x \in Left(t, a) <=> x \in Left(t0, a)

LEMMA TopDownTree ==
  ASSUME TreeOK(tree), NEW w \in Window, TopDown(w)
  PROVE  /\ w \in tree.live \ {Root} /\ w \in Id /\ Restacked(tree, tree', w)
         /\ ToTop(w) => \A a \in tree.live \ (Left(tree, w) \union {w}) : w \in Left(tree', a) <=> w \in Left(tree, a)
         /\ ToBottom(w) =>
              /\ Left(tree, w) = {}
              /\ \A a \in tree.live \ (Right(tree, w) \union {w}) : w \in Left(tree', a) <=> w \in Left(tree, a)
<1> DEFINE q == tree.parent[w]
           s == tree.childs[q]
           r == Without(s, w)
<1>1. /\ w \in tree.live \ {Root} /\ tree \in Tree /\ q \in Id /\ w \in Id /\ tree.live \subseteq Id
      /\ q \in tree.live
  <2>1. w \in tree.live \ {Root}
    BY WindowAssumption DEF TopDown
  <2> QED
    BY <2>1, LineStep, TreeFields DEF TreeOK
<1>2. /\ s \in Seq(Id) /\ Nodup(s) /\ Elements(s) = Childs(tree, q) /\ w \in Elements(s)
      /\ Childs(tree, q) = {x \in tree.live : tree.parent[x] = q}
  <2>1. s \in Seq(Id) /\ Nodup(s)
    BY <1>1, Places
  <2>2. Elements(s) = Childs(tree, q)
    BY DEF Elements, Childs
  <2>3. Childs(tree, q) = {x \in tree.live : tree.parent[x] = q}
    BY <1>1 DEF TreeOK
  <2> QED
    BY <1>1, <2>1, <2>2, <2>3
<1> HIDE DEF s
<1>3. /\ r \in Seq(Id) /\ Nodup(r) /\ Elements(r) = Elements(s) \ {w}
      /\ \A u, v : Before(r, u, v) <=> Before(s, u, v) /\ u # w /\ v # w
  BY <1>2, WithoutMeans
<1> HIDE DEF r
<1>4. /\ <<w>> \in Seq(Id) /\ Nodup(<<w>>) /\ Elements(<<w>>) = {w} /\ \A u, v : ~Before(<<w>>, u, v)
  BY <1>1, OneMeans
<1>5. /\ <<w>> \o r \in Seq(Id) /\ Nodup(<<w>> \o r) /\ Elements(<<w>> \o r) = Elements(s)
      /\ \A u, v : Before(<<w>> \o r, u, v) <=> Before(r, u, v) \/ (u = w /\ v \in Elements(s) /\ v # w)
  <2> DEFINE one == <<w>>
  <2>0. /\ one \in Seq(Id) /\ Nodup(one) /\ Elements(one) = {w} /\ \A u, v : ~Before(one, u, v)
    BY <1>4
  <2> HIDE DEF one
  <2>1. Elements(one) \intersect Elements(r) = {}
    BY <1>3, <2>0
  <2>2. /\ one \o r \in Seq(Id) /\ Nodup(one \o r) /\ Elements(one \o r) = Elements(one) \union Elements(r)
        /\ \A u, v : Before(one \o r, u, v) <=> \/ Before(one, u, v) \/ Before(r, u, v)
                                                \/ u \in Elements(one) /\ v \in Elements(r)
    BY <1>3, <2>0, <2>1, JoinMeans
  <2>3. /\ one \o r \in Seq(Id) /\ Nodup(one \o r) /\ Elements(one \o r) = Elements(s)
        /\ \A u, v : Before(one \o r, u, v) <=> Before(r, u, v) \/ (u = w /\ v \in Elements(s) /\ v # w)
    BY <1>2, <1>3, <2>0, <2>2
  <2> QED
    BY <2>3 DEF one
<1>6. /\ r \o <<w>> \in Seq(Id) /\ Nodup(r \o <<w>>) /\ Elements(r \o <<w>>) = Elements(s)
      /\ \A u, v : Before(r \o <<w>>, u, v) <=> Before(r, u, v) \/ (v = w /\ u \in Elements(s) /\ u # w)
  <2> DEFINE one == <<w>>
  <2>0. /\ one \in Seq(Id) /\ Nodup(one) /\ Elements(one) = {w} /\ \A u, v : ~Before(one, u, v)
    BY <1>4
  <2> HIDE DEF one
  <2>1. Elements(r) \intersect Elements(one) = {}
    BY <1>3, <2>0
  <2>2. /\ r \o one \in Seq(Id) /\ Nodup(r \o one) /\ Elements(r \o one) = Elements(r) \union Elements(one)
        /\ \A u, v : Before(r \o one, u, v) <=> \/ Before(r, u, v) \/ Before(one, u, v)
                                                \/ u \in Elements(r) /\ v \in Elements(one)
    BY <1>3, <2>0, <2>1, JoinMeans
  <2>3. /\ r \o one \in Seq(Id) /\ Nodup(r \o one) /\ Elements(r \o one) = Elements(s)
        /\ \A u, v : Before(r \o one, u, v) <=> Before(r, u, v) \/ (v = w /\ u \in Elements(s) /\ u # w)
    BY <1>2, <1>3, <2>0, <2>2
  <2> QED
    BY <2>3 DEF one
<1>7. ASSUME NEW n \in Seq(Id), Nodup(n), Elements(n) = Elements(s),
             tree' = [tree EXCEPT !.childs[q] = n],
             \A u, v : u # w /\ v # w => (Before(n, u, v) <=> Before(s, u, v))
      PROVE  /\ TreeOK(tree') /\ Alike(tree, tree') /\ tree'.is_open = tree.is_open
             /\ tree'.at = tree.at /\ tree'.size = tree.size /\ tree' \in Tree
             /\ \A x, a : Higher(tree, x, a) <=> Before(tree.childs[tree.parent[a]], x, a)
             /\ \A a \in Childs(tree, q) : \A x : Higher(tree', x, a) <=> Before(n, x, a)
             /\ \A a \in tree.live \ {w}, x \in Id \ {w} : x \in Left(tree', a) <=> x \in Left(tree, a)
             /\ \A a \in tree.live \ Childs(tree, q) : \A x : x \in Left(tree', a) <=> x \in Left(tree, a)
  <2>1. TreeOK(tree') /\ Reordered(tree, tree', q, n)
    BY <1>1, <1>2, <1>7, ReorderedTree
  <2>2. PICK N : N = tree'
    OBVIOUS
  <2>3. /\ TreeOK(N) /\ N.live = tree.live /\ N.parent = tree.parent
        /\ N.childs = [tree.childs EXCEPT ![q] = n]
    BY <2>1, <2>2 DEF Reordered, Alike
  <2>4. \A x, a : Higher(tree, x, a) <=> Before(tree.childs[tree.parent[a]], x, a)
    BY DEF Higher, Before
  <2>5. \A x, a : Higher(N, x, a) <=> Before(N.childs[N.parent[a]], x, a)
    BY DEF Higher, Before
  <2>6. N.childs[q] = n /\ \A x \in Id \ {q} : N.childs[x] = tree.childs[x]
    BY <1>1, <2>3, TreeFields
  <2>7. \A a \in Childs(tree, q) : \A x : Higher(N, x, a) <=> Before(n, x, a)
    BY <1>2, <2>3, <2>5, <2>6
  <2>8. \A a \in tree.live \ {Root} : \A x : tree.parent[a] # q => (Higher(N, x, a) <=> Higher(tree, x, a))
    <3>1. \A a \in tree.live \ {Root} : tree.parent[a] \in Id
      BY <1>1, LineStep
    <3> QED
      BY <2>3, <2>4, <2>5, <2>6, <3>1
  <2>9. ASSUME NEW a \in tree.live, NEW x, (a # w /\ x # w) \/ a \notin Childs(tree, q)
        PROVE  x \in Left(N, a) <=> x \in Left(tree, a)
    <3>1. CASE a = Root
      BY <3>1 DEF Left
    <3>2. CASE a # Root
      <4>1. (x \in Left(N, a) <=> Higher(N, x, a)) /\ (x \in Left(tree, a) <=> Higher(tree, x, a))
        BY <2>3, <3>2, LeftMeans
      <4>2. CASE tree.parent[a] # q
        BY <2>8, <3>2, <4>1, <4>2
      <4>3. CASE tree.parent[a] = q
        <5>1. a \in Childs(tree, q) /\ a # w /\ x # w
          BY <1>2, <2>9, <4>3
        <5>2. Higher(tree, x, a) <=> Before(s, x, a)
          BY <2>4, <4>3 DEF s
        <5> QED
          BY <1>7, <2>7, <4>1, <5>1, <5>2
      <4> QED
        BY <4>2, <4>3
    <3> QED
      BY <3>1, <3>2
  <2>10. tree' \in Tree
    BY <2>1 DEF TreeOK
  <2> QED
    BY <2>1, <2>2, <2>4, <2>7, <2>9, <2>10 DEF Reordered
<1>8. CASE ToTop(w)
  <2>1. tree' = [tree EXCEPT !.childs[q] = <<w>> \o r]
    BY <1>8 DEF ToTop, r, s
  <2>3. PICK N : N = tree'
    OBVIOUS
  <2>4. /\ Restacked(tree, N, w)
        /\ \A x, a : Higher(tree, x, a) <=> Before(tree.childs[tree.parent[a]], x, a)
        /\ \A a \in Childs(tree, q) : \A x : Higher(N, x, a) <=> Before(<<w>> \o r, x, a)
        /\ \A a \in tree.live \ Childs(tree, q) : \A x : x \in Left(N, a) <=> x \in Left(tree, a)
    <3>1. \A u, v : u # w /\ v # w => (Before(<<w>> \o r, u, v) <=> Before(s, u, v))
      BY <1>3, <1>5
    <3> QED
      BY <1>5, <1>7, <2>1, <2>3, <3>1 DEF Restacked
  <2>6. ASSUME NEW a \in tree.live \ (Left(tree, w) \union {w})
        PROVE  w \in Left(N, a) <=> w \in Left(tree, a)
    <3>1. CASE a \notin Childs(tree, q)
      BY <2>4, <3>1
    <3>2. CASE a \in Childs(tree, q)
      <4>1. a \in tree.live \ {Root} /\ tree.parent[a] = q
        BY <1>1, <1>2, <3>2, TreeFields DEF TreeOK
      <4>2. a \in Right(tree, w)
        BY <1>1, <2>6, <4>1, SiblingsOf
      <4>3. w \in Left(tree, a)
        BY <1>1, <4>2, SiblingsOf
      <4>4. Before(<<w>> \o r, w, a)
        BY <1>2, <1>5, <2>6, <3>2
      <4>5. w \in Left(N, a)
        <5>1. Higher(N, w, a) /\ N.live = tree.live /\ TreeOK(N)
          BY <2>4, <3>2, <4>4 DEF Alike, Restacked
        <5> QED
          BY <4>1, <5>1, LeftMeans
      <4> QED
        BY <4>3, <4>5
    <3> QED
      BY <3>1, <3>2
  <2>7. ~ToBottom(w)
    BY <1>8 DEF ToTop, ToBottom
  <2> QED
    BY <1>1, <2>3, <2>4, <2>6, <2>7
<1>9. CASE ToBottom(w)
  <2>1. tree' = [tree EXCEPT !.childs[q] = r \o <<w>>] /\ Left(tree, w) = {}
    BY <1>9 DEF ToBottom, r, s
  <2>3. PICK N : N = tree'
    OBVIOUS
  <2>4. /\ Restacked(tree, N, w)
        /\ \A a \in tree.live \ Childs(tree, q) : \A x : x \in Left(N, a) <=> x \in Left(tree, a)
    <3>1. \A u, v : u # w /\ v # w => (Before(r \o <<w>>, u, v) <=> Before(s, u, v))
      BY <1>3, <1>6
    <3> QED
      BY <1>6, <1>7, <2>1, <2>3, <3>1 DEF Restacked
  <2>6. \A a \in Childs(tree, q) : a # w => a \in Right(tree, w)
    <3> SUFFICES ASSUME NEW a \in Childs(tree, q), a # w PROVE a \in Right(tree, w)
      OBVIOUS
    <3>1. a \in tree.live \ {Root} /\ tree.parent[a] = q
      BY <1>1, <1>2, TreeFields DEF TreeOK
    <3> QED
      BY <1>1, <2>1, <3>1, SiblingsOf
  <2>7. \A a \in tree.live \ (Right(tree, w) \union {w}) : w \in Left(N, a) <=> w \in Left(tree, a)
    BY <2>4, <2>6
  <2>8. ~ToTop(w)
    BY <2>1 DEF ToTop
  <2> QED
    BY <1>1, <2>1, <2>3, <2>4, <2>7, <2>8
<1> QED
  BY <1>8, <1>9 DEF TopDown

\* w_topDown(): all regions are exact again.
LEMMA TopDownStep ==
  ASSUME TreeOK(tree), pic \in Pic, Regions(pic, tree), NEW w \in Window, TopDown(w)
  PROVE  /\ TreeOK(tree') /\ pic' \in Pic /\ Regions(pic', tree')
         /\ tree'.live = tree.live /\ tree'.parent = tree.parent
         /\ tree'.at = tree.at /\ tree'.is_open = tree.is_open
<1>1. w \in tree.live \ {Root} /\ tree \in Tree /\ w \in Id /\ tree.live \subseteq Id
  BY TopDownTree, TreeFields DEF TreeOK
<1>2. PICK N : N = tree'
  OBVIOUS
<1>3. Restacked(tree, N, w) /\ N \in Tree
  BY <1>2, TopDownTree DEF Restacked, TreeOK
<1>4. CASE ToTop(w)
  <2> DEFINE above == Left(tree, w)
             all == Subtrees(tree, above \union {w})
             saved == Save(pic, tree, all, Pos(tree, w))
             built == Rebuild(saved, tree', all, Pos(tree, w))
  <2>1. pic' = Redraw(built, tree', Subtree(tree, w), Pos(tree, w))
    BY <1>4 DEF ToTop
  <2>2. above \in SUBSET tree.live
    BY <1>1, SiblingsOf
  <2>3. \A a \in tree.live \ (above \union {w}) : w \in Left(N, a) <=> w \in Left(tree, a)
    BY <1>2, <1>4, TopDownTree
  <2>4. Kept(pic, saved)
    BY <1>1, SaveKeeps
  <2> HIDE DEF saved, above
  <2>5. saved \in Pic /\ Regions(saved, tree)
    BY <2>4, KeptRegions
  <2>6. built \in Pic /\ Regions(built, N)
    BY <1>1, <1>2, <1>3, <2>2, <2>3, <2>5, RestackStep DEF Restacked
  <2> HIDE DEF built
  <2>7. Kept(built, pic')
    <3>1. Subtree(tree, w) \in SUBSET Id
      BY <1>1 DEF Subtree
    <3> QED
      BY <1>2, <1>3, <2>1, <2>6, <3>1, RedrawKeeps
  <2>8. pic' \in Pic /\ Regions(pic', N)
    <3>1. PICK P : P = pic'
      OBVIOUS
    <3> QED
      BY <2>6, <2>7, <3>1, KeptRegions
  <2> QED
    BY <1>2, <1>3, <2>8 DEF Restacked, Alike, Regions, Exact
<1>5. CASE ToBottom(w)
  <2> DEFINE below == Right(tree, w)
             all == Subtrees(tree, below \union {w})
             saved == Save(pic, tree, Subtree(tree, w), Pos(tree, w))
             built == Rebuild(saved, tree', all, Pos(tree, w))
  <2>1. pic' = IF below = {} THEN pic
               ELSE Redraw(built, tree', Subtrees(tree, below), Pos(tree, w))
    BY <1>5 DEF ToBottom
  <2>2. below \in SUBSET tree.live
    BY <1>1, SiblingsOf
  <2>3. /\ Left(tree, w) = {}
        /\ \A a \in tree.live \ (below \union {w}) : w \in Left(N, a) <=> w \in Left(tree, a)
    BY <1>2, <1>5, TopDownTree
  <2>4. CASE below # {}
    <3>1. Kept(pic, saved)
      BY <1>1, SaveKeeps
    <3>2. pic' = Redraw(built, tree', Subtrees(tree, below), Pos(tree, w))
      BY <2>1, <2>4
    <3>3. Subtrees(tree, below) \in SUBSET Id
      BY <1>1 DEF Subtrees, Subtree
    <3> HIDE DEF saved, below
    <3>4. saved \in Pic /\ Regions(saved, tree)
      BY <3>1, KeptRegions
    <3>5. built \in Pic /\ Regions(built, N)
      BY <1>1, <1>2, <1>3, <2>2, <2>3, <3>4, RestackStep DEF Restacked
    <3> HIDE DEF built
    <3>6. Kept(built, pic')
      BY <1>2, <1>3, <3>2, <3>3, <3>5, RedrawKeeps
    <3>7. pic' \in Pic /\ Regions(pic', N)
      <4>1. PICK P : P = pic'
        OBVIOUS
      <4> QED
        BY <3>5, <3>6, <4>1, KeptRegions
    <3> QED
      BY <1>2, <1>3, <3>7 DEF Restacked, Alike, Regions, Exact
  <2>5. CASE below = {}
    <3>1. ASSUME NEW a \in tree.live, NEW x
          PROVE  x \in Left(N, a) <=> x \in Left(tree, a)
      <4>1. N.live = tree.live /\ N.parent = tree.parent /\ TreeOK(N)
        BY <1>3 DEF Restacked, Alike
      <4>2. \A y \in tree.live \ {Root} : tree.parent[y] = tree.parent[w] => y = w
        BY <1>1, <2>3, <2>5, SiblingsOf
      <4>3. Left(N, w) = {}
        BY <1>1, <4>1, <4>2, SiblingsOf
      <4>4. CASE a = w
        BY <2>3, <4>3, <4>4
      <4>5. CASE a # w
        <5>1. x \in Left(N, a) \union Left(tree, a) => x \in Id
          BY <1>1, <4>1, SiblingsOf DEF Left
        <5> QED
          BY <1>3, <2>3, <2>5, <4>5, <5>1 DEF Restacked
      <4> QED
        BY <4>4, <4>5
    <3>2. ASSUME NEW y \in tree.live
          PROVE  Build(N, y) = Build(tree, y)
      <4>1. \A a \in Line(tree, y) : a \in tree.live
        BY AncestorsLive
      <4>2. \A c : c \in Build(N, y) <=> c \in Build(tree, y)
        BY <1>3, <3>1, <4>1, LeftCell DEF Restacked
      <4> QED
        BY <4>2
    <3>3. Regions(pic, N)
      <4> SUFFICES ASSUME NEW y \in Id PROVE Exact(pic, N, y)
        BY DEF Regions
      <4>1. Exact(pic, tree, y) /\ Pos(N, y) = Pos(tree, y)
        BY <1>3 DEF Regions, Pos, Full, Restacked
      <4>2. tree.is_open[y] => y \in tree.live
        BY DEF TreeOK
      <4> QED
        BY <1>3, <3>2, <4>1, <4>2 DEF Exact, Restacked
    <3>4. pic' = pic
      BY <2>1, <2>5
    <3> QED
      BY <1>2, <1>3, <3>3, <3>4 DEF Alike, Restacked
  <2> QED
    BY <2>4, <2>5
<1> QED
  BY <1>4, <1>5 DEF TopDown

-----------------------------------------------------------------------------
(* Creating and deleting.                                                  *)

\* The tree with a new window on top of the childs of par.
Created(t, w, par, s) ==
  [t EXCEPT !.live = @ \union {w}, !.parent[w] = par,
            !.childs[par] = <<w>> \o @, !.childs[w] = <<>>,
            !.is_open[w] = FALSE, !.at[w] = <<0, 0>>, !.size[w] = s]

LEMMA CreatedTree ==
  ASSUME NEW t, TreeOK(t), NEW w \in Window \ t.live, NEW par \in t.live, NEW s \in Extent, NEW u,
         u = Created(t, w, par, s)
  PROVE  /\ TreeOK(u) /\ u.live = t.live \union {w}
         /\ u.parent[w] = par /\ u.at[w] = <<0, 0>> /\ ~u.is_open[w]
         /\ \A x \in Id \ {w} : /\ u.parent[x] = t.parent[x] /\ u.is_open[x] = t.is_open[x]
                                /\ u.at[x] = t.at[x] /\ u.size[x] = t.size[x]
                                /\ Childs(u, x) = Childs(t, x) \union (IF x = par THEN {w} ELSE {})
         /\ \A a \in t.live \ {Root}, x \in Id \ {w} : x \in Left(u, a) <=> x \in Left(t, a)
<1>1. /\ t \in Tree /\ w \in Id /\ w # Root /\ w # Background /\ par \in Id /\ par # w
      /\ t.live \subseteq Id /\ NoWin \notin Id /\ <<0, 0>> \in Point
  BY WindowAssumption, TreeFields, SizesAreExtents DEF TreeOK, Id
<1> DEFINE c == t.childs[par]
           one == <<w>>
           first == one \o c
           parent == [t.parent EXCEPT ![w] = par]
           childs == [[t.childs EXCEPT ![par] = first] EXCEPT ![w] = <<>>]
           is_open == [t.is_open EXCEPT ![w] = FALSE]
           at == [t.at EXCEPT ![w] = <<0, 0>>]
           size == [t.size EXCEPT ![w] = s]
<1>2. c \in Seq(Id) /\ Nodup(c) /\ Elements(c) = Childs(t, par) /\ Childs(t, par) = {x \in t.live : t.parent[x] = par}
  BY <1>1, TreeFields DEF TreeOK, Elements, Childs
<1>3. one \in Seq(Id) /\ Nodup(one) /\ Elements(one) = {w} /\ \A y, z : ~Before(one, y, z)
  BY <1>1, OneMeans
<1> HIDE DEF c, one
<1>4. /\ first \in Seq(Id) /\ Nodup(first) /\ Elements(first) = {w} \union Elements(c)
      /\ \A y, z : Before(first, y, z) <=> Before(c, y, z) \/ (y = w /\ z \in Elements(c))
  <2>1. Elements(one) \intersect Elements(c) = {}
    BY <1>2, <1>3
  <2>2. /\ first \in Seq(Id) /\ Nodup(first) /\ Elements(first) = Elements(one) \union Elements(c)
        /\ \A y, z : Before(first, y, z) <=> \/ Before(one, y, z) \/ Before(c, y, z)
                                             \/ y \in Elements(one) /\ z \in Elements(c)
    BY <1>2, <1>3, <2>1, JoinMeans
  <2> QED
    BY <1>3, <2>2
<1>5. u = [live |-> t.live \union {w}, parent |-> parent, childs |-> childs,
           is_open |-> is_open, at |-> at, size |-> size]
  BY <1>1 DEF Tree, c, one, Created
<1> HIDE DEF first
<1>6. /\ parent \in [Id -> Id \union {NoWin}] /\ childs \in [Id -> Seq(Id)]
      /\ is_open \in [Id -> BOOLEAN] /\ at \in [Id -> Point] /\ size \in [Id -> Extent]
      /\ parent[w] = par /\ childs[w] = <<>> /\ childs[par] = first /\ is_open[w] = FALSE
      /\ at[w] = <<0, 0>> /\ size[w] = s
  <2>1. <<>> \in Seq(Id)
    BY SMT
  <2> QED
    BY <1>1, <1>4, <2>1, TreeFields
<1>7. \A x \in Id \ {w} : /\ parent[x] = t.parent[x] /\ is_open[x] = t.is_open[x]
                          /\ at[x] = t.at[x] /\ size[x] = t.size[x]
                          /\ childs[x] = IF x = par THEN first ELSE t.childs[x]
  BY <1>1, TreeFields
<1> HIDE DEF parent, childs, is_open, at, size
<1>8. /\ u \in Tree /\ u.live = t.live \union {w} /\ u.parent = parent /\ u.childs = childs
      /\ u.is_open = is_open /\ u.at = at /\ u.size = size
  BY <1>1, <1>5, <1>6 DEF Tree
<1>9. ASSUME NEW x \in Id
      PROVE  t.parent[x] # w
  <2>1. CASE x \in t.live \ {Root}
    BY <1>1, <2>1, LineStep
  <2>2. CASE x \notin t.live \ {Root}
    <3>1. t.parent[x] = NoWin
      BY <2>2 DEF TreeOK
    <3> QED
      BY <1>1, <3>1
  <2> QED
    BY <2>1, <2>2
<1>10. Founded(u)
  <2> SUFFICES ASSUME NEW S \in SUBSET Id, S # {} PROVE \E x \in S : u.parent[x] \notin S
    BY DEF Founded
  <2>1. CASE S = {w}
    BY <1>1, <1>6, <1>8, <2>1
  <2>2. CASE S # {w}
    <3>1. S \ {w} # {} /\ S \ {w} \in SUBSET Id
      BY <2>2
    <3>2. PICK x \in S \ {w} : t.parent[x] \notin S \ {w}
      BY <3>1 DEF TreeOK, Founded
    <3> QED
      BY <1>7, <1>8, <1>9, <3>2
  <2> QED
    BY <2>1, <2>2
<1>11. ASSUME NEW x \in Id
       PROVE  /\ Nodup(u.childs[x]) /\ Childs(u, x) = {z \in u.live : u.parent[z] = x}
              /\ x # w => Childs(u, x) = Childs(t, x) \union (IF x = par THEN {w} ELSE {})
  <2>1. Childs(u, x) = Elements(u.childs[x]) /\ Childs(t, x) = Elements(t.childs[x])
    BY DEF Childs, Elements
  <2>2. Childs(t, x) = {z \in t.live : t.parent[z] = x} /\ Nodup(t.childs[x])
    BY DEF TreeOK
  <2>3. CASE x = par
    <3>1. {z \in u.live : u.parent[z] = par} = {w} \union {z \in t.live : t.parent[z] = par}
      BY <1>1, <1>6, <1>7, <1>8
    <3>2. u.childs[x] = first /\ Childs(t, x) = Elements(c)
      BY <1>2, <1>6, <1>8, <2>3
    <3>3. Childs(u, x) = {w} \union Elements(c) /\ Nodup(u.childs[x])
      BY <1>4, <2>1, <3>2
    <3>4. {z \in u.live : u.parent[z] = x} = {w} \union Elements(c)
      BY <1>2, <2>3, <3>1
    <3>5. Childs(t, x) \union (IF x = par THEN {w} ELSE {}) = {w} \union Elements(c)
      BY <2>3, <3>2
    <3> QED
      BY <3>3, <3>4, <3>5
  <2>4. CASE x = w
    <3>1. u.childs[x] = <<>>
      BY <1>6, <1>8, <2>4
    <3>2. Nodup(<<>>) /\ Elements(<<>>) = {}
      BY DEF Nodup, Elements
    <3>3. {z \in u.live : u.parent[z] = w} = {}
      <4> SUFFICES ASSUME NEW z \in u.live PROVE u.parent[z] # w
        OBVIOUS
      <4>1. CASE z = w
        BY <1>1, <1>6, <1>8, <4>1
      <4>2. CASE z # w
        <5>1. z \in Id \ {w} /\ u.parent[z] = t.parent[z]
          BY <1>1, <1>7, <1>8, <4>2
        <5> QED
          BY <1>9, <5>1
      <4> QED
        BY <4>1, <4>2
    <3> QED
      BY <2>1, <2>4, <3>1, <3>2, <3>3
  <2>5. CASE x # par /\ x # w
    <3>1. u.childs[x] = t.childs[x]
      BY <1>7, <1>8, <2>5
    <3>2. {z \in u.live : u.parent[z] = x} = {z \in t.live : t.parent[z] = x}
      BY <1>1, <1>6, <1>7, <1>8, <2>5
    <3> QED
      BY <2>1, <2>2, <2>5, <3>1, <3>2
  <2> QED
    BY <2>3, <2>4, <2>5
<1>12. TreeOK(u)
  <2>1. {Root, Background} \subseteq Id /\ {Root, Background} \subseteq t.live
    BY DEF Id, TreeOK
  <2>2. /\ u.parent[Root] = NoWin /\ u.parent[Background] = Root /\ u.is_open[Root]
        /\ u.at[Root] = <<0, 0>> /\ u.size[Root] = ScreenSize
    BY <1>1, <1>7, <1>8, <2>1 DEF TreeOK
  <2>3. ASSUME NEW x \in u.live \ {Root}
        PROVE  u.parent[x] \in u.live
    <3>1. CASE x = w
      BY <1>6, <1>8, <3>1
    <3>2. CASE x # w
      <4>1. x \in t.live \ {Root} /\ x \in Id \ {w}
        BY <1>1, <1>8, <3>2
      <4>2. u.parent[x] = t.parent[x] /\ t.parent[x] \in t.live
        BY <1>7, <1>8, <4>1, LineStep
      <4> QED
        BY <1>8, <4>2
    <3> QED
      BY <3>1, <3>2
  <2>4. \A x \in Id \ u.live : u.parent[x] = NoWin /\ ~u.is_open[x]
    BY <1>7, <1>8 DEF TreeOK
  <2> QED
    BY <1>8, <1>10, <1>11, <2>1, <2>2, <2>3, <2>4 DEF TreeOK
<1>13. ASSUME NEW a \in t.live \ {Root}, NEW x \in Id \ {w}
       PROVE  x \in Left(u, a) <=> x \in Left(t, a)
  <2>1. /\ x \in Left(u, a) <=> Higher(u, x, a)
        /\ x \in Left(t, a) <=> Higher(t, x, a)
        /\ a \in Id \ {w} /\ t.parent[a] \in Id /\ t.parent[a] # w /\ u.parent[a] = t.parent[a]
    BY <1>1, <1>7, <1>8, <1>9, <1>12, LeftMeans, LineStep
  <2>2. /\ Higher(u, x, a) <=> Before(u.childs[t.parent[a]], x, a)
        /\ Higher(t, x, a) <=> Before(t.childs[t.parent[a]], x, a)
    BY <2>1 DEF Higher, Before
  <2>3. CASE t.parent[a] = par
    <3>1. u.childs[t.parent[a]] = first /\ t.childs[t.parent[a]] = c
      BY <1>6, <1>8, <2>3 DEF c
    <3> QED
      BY <1>4, <2>1, <2>2, <3>1
  <2>4. CASE t.parent[a] # par
    <3>1. u.childs[t.parent[a]] = t.childs[t.parent[a]]
      BY <1>7, <1>8, <2>1, <2>4
    <3> QED
      BY <2>1, <2>2, <3>1
  <2> QED
    BY <2>3, <2>4
<1>14. \A x \in Id \ {w} : /\ u.parent[x] = t.parent[x] /\ u.is_open[x] = t.is_open[x]
                           /\ u.at[x] = t.at[x] /\ u.size[x] = t.size[x]
                           /\ Childs(u, x) = Childs(t, x) \union (IF x = par THEN {w} ELSE {})
  BY <1>7, <1>8, <1>11
<1>15. u.live = t.live \union {w} /\ u.parent[w] = par /\ u.at[w] = <<0, 0>> /\ ~u.is_open[w]
  BY <1>6, <1>8
<1> QED
  BY <1>12, <1>13, <1>14, <1>15

\* client_create(): the regions stay exact.
LEMMA CreateStep ==
  ASSUME TreeOK(tree), pic \in Pic, Regions(pic, tree),
         NEW w \in Window, NEW par \in Id, NEW s \in Sizes, Create(w, par, s)
  PROVE  /\ TreeOK(tree') /\ pic' \in Pic /\ Regions(pic', tree')
<1>1. PICK u : u = tree'
  OBVIOUS
<1>2. PICK q : q = pic'
  OBVIOUS
<1>3. /\ w \in Window \ tree.live /\ par \in tree.live /\ s \in Extent
      /\ w \in Id /\ tree \in Tree /\ tree.live \subseteq Id /\ w # Root
  BY SizesAreExtents, WindowAssumption, TreeFields DEF Create, TreeOK, Id
<1>4. u = Created(tree, w, par, s)
  BY <1>1 DEF Create, Created
<1>5. /\ TreeOK(u) /\ u.live = tree.live \union {w} /\ ~u.is_open[w]
      /\ \A x \in Id \ {w} : /\ u.parent[x] = tree.parent[x] /\ u.is_open[x] = tree.is_open[x]
                             /\ u.at[x] = tree.at[x] /\ u.size[x] = tree.size[x]
                             /\ Childs(u, x) = Childs(tree, x) \union (IF x = par THEN {w} ELSE {})
      /\ \A a \in tree.live \ {Root}, x \in Id \ {w} : x \in Left(u, a) <=> x \in Left(tree, a)
  BY <1>3, <1>4, CreatedTree
<1>6. q = [pic EXCEPT !.vis[w] = {}, !.is_hidden[w] = FALSE, !.is_dirty[w] = FALSE,
                      !.dirty[w] = {}, !.bitmap[w] = Cells(u, w)]
  BY <1>1, <1>2 DEF Create
<1> HIDE <1>1, <1>2
<1>7. /\ q \in Pic /\ q.vis[w] = {}
      /\ \A y \in Id \ {w} : q.vis[y] = pic.vis[y] /\ q.is_hidden[y] = pic.is_hidden[y]
  <2> DEFINE vis == [pic.vis EXCEPT ![w] = {}]
             hid == [pic.is_hidden EXCEPT ![w] = FALSE]
             isd == [pic.is_dirty EXCEPT ![w] = FALSE]
             dirty == [pic.dirty EXCEPT ![w] = {}]
             bits == [pic.bitmap EXCEPT ![w] = Cells(u, w)]
  <2>1. Cells(u, w) \in SUBSET Point
    BY <1>3, <1>5, CellsPoints DEF TreeOK
  <2>2. /\ vis \in [Id -> SUBSET Point] /\ hid \in [Id -> BOOLEAN] /\ isd \in [Id -> BOOLEAN]
        /\ dirty \in [Id -> SUBSET Point] /\ bits \in [Id -> SUBSET Point]
    BY <2>1, PicFields
  <2>3. vis[w] = {} /\ \A y \in Id \ {w} : vis[y] = pic.vis[y] /\ hid[y] = pic.is_hidden[y]
    BY <1>3, PicFields
  <2>4. q = [pic EXCEPT !.vis = vis, !.is_hidden = hid, !.is_dirty = isd, !.dirty = dirty, !.bitmap = bits]
    BY <1>6 DEF Pic
  <2> HIDE DEF vis, hid, isd, dirty, bits
  <2>5. q \in Pic /\ q.vis = vis /\ q.is_hidden = hid
    BY <2>2, <2>4 DEF Pic
  <2> QED
    BY <2>3, <2>5
<1>8. ASSUME NEW y \in tree.live
      PROVE  Exact(q, u, y)
  <2>1. y \in Id \ {w} /\ Same(tree, u, y) /\ Pos(u, y) = Pos(tree, y)
    BY <1>3, <1>5, <1>8 DEF Same, Pos, Full
  <2>2. Ancestors(u, y) = Ancestors(tree, y) /\ Line(u, y) = Line(tree, y)
    <3>1. u \in Tree /\ Founded(u) /\ Founded(tree) /\ tree.live \in SUBSET Id
      BY <1>3, <1>5 DEF TreeOK
    <3>2. \A x \in tree.live : /\ u.parent[x] = tree.parent[x]
                               /\ u.parent[x] \in Id => u.parent[x] \in tree.live
      BY <1>3, <1>5, TreeFields DEF TreeOK
    <3> QED
      BY <1>3, <3>1, <3>2, SameAncestors
  <2>3. \A a \in Line(tree, y) : a \in tree.live
    BY AncestorsLive
  <2>4. \A x \in Id \ {w} : Same(tree, u, x) /\ Pos(u, x) = Pos(tree, x) /\ Work(u, x) = Work(tree, x)
    BY <1>5 DEF Same, Pos, Full, Work
  <2>5. SameLine(tree, u, y)
    BY <1>3, <2>2, <2>3, <2>4 DEF SameLine
  <2>6. ASSUME NEW c
        PROVE  Covered(u, y, c) <=> Covered(tree, y, c)
    <3>1. ASSUME NEW a \in Line(tree, y), NEW x
          PROVE  x \in Left(u, a) /\ u.is_open[x] /\ c \in Pos(u, x) <=>
                 x \in Left(tree, a) /\ tree.is_open[x] /\ c \in Pos(tree, x)
      <4>1. CASE a = Root
        BY <4>1 DEF Left
      <4>2. CASE a # Root
        <5>1. a \in tree.live \ {Root} /\ a \in u.live \ {Root}
          BY <1>5, <2>3, <4>2
        <5>2. x \in Left(tree, a) => x \in Id \ {w}
          BY <1>3, <5>1, SiblingsOf
        <5>3. x \in Left(u, a) => x \in Id
          BY <1>3, <1>5, <5>1, SiblingsOf
        <5>4. CASE x = w
          BY <1>5, <5>2, <5>4
        <5>5. CASE x # w
          <6>1. CASE x \in Id
            <7>1. x \in Left(u, a) <=> x \in Left(tree, a)
              BY <1>5, <5>1, <5>5, <6>1
            <7> QED
              BY <1>5, <2>4, <5>5, <6>1, <7>1
          <6> QED
            BY <5>2, <5>3, <6>1
        <5> QED
          BY <5>4, <5>5
      <4> QED
        BY <4>1, <4>2
    <3> QED
      BY <2>2, <3>1 DEF Covered
  <2>7. ASSUME NEW c
        PROVE  ByChild(u, y, c) <=> ByChild(tree, y, c)
    <3>1. Childs(u, y) \subseteq Childs(tree, y) \union {w} /\ Childs(tree, y) \subseteq Childs(u, y)
      BY <1>5, <2>1
    <3>2. Childs(tree, y) \subseteq Id \ {w}
      BY <1>3, <2>1 DEF TreeOK
    <3> QED
      BY <1>5, <2>1, <2>4, <3>1, <3>2 DEF ByChild
  <2>8. u.is_open[y] => \A c : c \in Build(u, y) <=> c \in Build(tree, y)
    BY <2>5, <2>6, <2>7, SameCell
  <2>9. u.is_open[y] => Build(u, y) = Build(tree, y)
    BY <2>8
  <2>10. Exact(pic, tree, y) /\ u.is_open[y] = tree.is_open[y]
    BY <1>5, <2>1 DEF Regions
  <2> QED
    BY <1>7, <2>1, <2>9, <2>10 DEF Exact
<1>9. ASSUME NEW y \in Id \ tree.live
      PROVE  Exact(q, u, y)
  <2>1. CASE y = w
    BY <1>5, <1>7, <2>1 DEF Exact
  <2>2. CASE y # w
    <3>1. ~tree.is_open[y] /\ ~u.is_open[y]
      BY <1>5, <2>2 DEF TreeOK
    <3>2. Exact(pic, tree, y)
      BY DEF Regions
    <3> QED
      BY <1>7, <2>2, <3>1, <3>2 DEF Exact
  <2> QED
    BY <2>1, <2>2
<1>10. Regions(q, u)
  BY <1>8, <1>9 DEF Regions
<1> QED
  BY <1>1, <1>2, <1>5, <1>7, <1>10

\* The tree without w and its subtree.
Deleted(t, w) ==
  LET gone == Subtree(t, w)
  IN  [live |-> t.live \ gone,
       parent |-> [x \in Id |-> IF x \in gone THEN NoWin ELSE t.parent[x]],
       childs |-> [x \in Id |-> IF x \in gone THEN <<>> ELSE Without(t.childs[x], w)],
       is_open |-> [x \in Id |-> x \notin gone /\ t.is_open[x]],
       at |-> [x \in Id |-> IF x \in gone THEN <<0, 0>> ELSE t.at[x]],
       size |-> [x \in Id |-> IF x \in gone THEN ScreenSize ELSE t.size[x]]]

LEMMA DeletedTree ==
  ASSUME NEW t, TreeOK(t), NEW w \in Window, w \in t.live, NEW u, u = Deleted(t, w)
  PROVE  /\ TreeOK(u) /\ u.live = t.live \ Subtree(t, w) /\ w \in Subtree(t, w)
         /\ \A x \in Id \ Subtree(t, w) : /\ u.parent[x] = t.parent[x] /\ u.is_open[x] = t.is_open[x]
                                          /\ u.at[x] = t.at[x] /\ u.size[x] = t.size[x]
                                          /\ Childs(u, x) = Childs(t, x) \ {w}
         /\ \A x \in Subtree(t, w) : ~u.is_open[x]
         /\ \A x \in u.live : Ancestors(u, x) = Ancestors(t, x) /\ Line(u, x) = Line(t, x)
         /\ \A a \in u.live \ {Root} : \A x : x \in Left(u, a) <=> x \in Left(t, a) /\ x # w
<1> DEFINE gone == Subtree(t, w)
<1>1. /\ t \in Tree /\ w \in Id /\ w # Root /\ w # Background /\ t.live \subseteq Id /\ NoWin \notin Id
      /\ gone \subseteq t.live /\ w \in gone /\ w \in t.live \ {Root} /\ {Root, Background} \subseteq t.live
      /\ Founded(t)
  BY WindowAssumption, TreeFields, SubtreeMeans DEF TreeOK, Id, Line
<1>2. Root \notin gone /\ Background \notin gone
  <2>1. Line(t, Root) = {Root}
    BY <1>1, RootAbove DEF Line
  <2>2. Line(t, Background) = {Background} \union Line(t, Root)
    <3>1. Background \in t.live \ {Root} /\ t.parent[Background] = Root
      BY <1>1 DEF TreeOK, Root, Background
    <3> QED
      BY <3>1, LineStep
  <2> QED
    BY <1>1, <2>1, <2>2, SubtreeMeans
<1>3. \A x \in t.live \ {Root} : t.parent[x] \in t.live /\ (x \in gone <=> x = w \/ t.parent[x] \in gone)
  <2> SUFFICES ASSUME NEW x \in t.live \ {Root}
               PROVE  t.parent[x] \in t.live /\ (x \in gone <=> x = w \/ t.parent[x] \in gone)
    OBVIOUS
  <2>1. t.parent[x] \in t.live /\ Line(t, x) = {x} \union Line(t, t.parent[x])
    BY LineStep
  <2> QED
    BY <2>1, SubtreeMeans
<1>4. \A x \in Id : /\ t.childs[x] \in Seq(Id) /\ Nodup(t.childs[x])
                    /\ Without(t.childs[x], w) \in Seq(Id) /\ Nodup(Without(t.childs[x], w))
                    /\ Elements(Without(t.childs[x], w)) = Elements(t.childs[x]) \ {w}
                    /\ \A y, z : Before(Without(t.childs[x], w), y, z) <=> Before(t.childs[x], y, z) /\ y # w /\ z # w
  <2> SUFFICES ASSUME NEW x \in Id
               PROVE  /\ t.childs[x] \in Seq(Id) /\ Nodup(t.childs[x])
                      /\ Without(t.childs[x], w) \in Seq(Id) /\ Nodup(Without(t.childs[x], w))
                      /\ Elements(Without(t.childs[x], w)) = Elements(t.childs[x]) \ {w}
                      /\ \A y, z : Before(Without(t.childs[x], w), y, z) <=> Before(t.childs[x], y, z) /\ y # w /\ z # w
    OBVIOUS
  <2>1. t.childs[x] \in Seq(Id) /\ Nodup(t.childs[x])
    BY <1>1, TreeFields DEF TreeOK
  <2> QED
    BY <2>1, WithoutMeans
<1> DEFINE parent == [x \in Id |-> IF x \in gone THEN NoWin ELSE t.parent[x]]
           childs == [x \in Id |-> IF x \in gone THEN <<>> ELSE Without(t.childs[x], w)]
           is_open == [x \in Id |-> x \notin gone /\ t.is_open[x]]
           at == [x \in Id |-> IF x \in gone THEN <<0, 0>> ELSE t.at[x]]
           size == [x \in Id |-> IF x \in gone THEN ScreenSize ELSE t.size[x]]
<1>5. u = [live |-> t.live \ gone, parent |-> parent, childs |-> childs,
           is_open |-> is_open, at |-> at, size |-> size]
  BY DEF Deleted
<1>6. /\ parent \in [Id -> Id \union {NoWin}] /\ is_open \in [Id -> BOOLEAN]
      /\ at \in [Id -> Point] /\ size \in [Id -> Extent]
  BY <1>1, TreeFields, SizesAreExtents
<1>7. childs \in [Id -> Seq(Id)]
  <2>1. <<>> \in Seq(Id)
    BY SMT
  <2> QED
    BY <1>4, <2>1
<1>8. /\ \A x \in Id \ gone : /\ parent[x] = t.parent[x] /\ is_open[x] = t.is_open[x]
                              /\ at[x] = t.at[x] /\ size[x] = t.size[x]
                              /\ childs[x] = Without(t.childs[x], w)
      /\ \A x \in Id : x \in gone => parent[x] = NoWin /\ ~is_open[x] /\ childs[x] = <<>>
  BY <1>1, TreeFields
<1> HIDE DEF parent, childs, is_open, at, size
<1>9. /\ u \in Tree /\ u.live = t.live \ gone /\ u.parent = parent /\ u.childs = childs
      /\ u.is_open = is_open /\ u.at = at /\ u.size = size
  BY <1>1, <1>5, <1>6, <1>7 DEF Tree
<1> HIDE DEF gone
<1>10. \A x \in u.live \ {Root} : x \in t.live \ {Root} /\ u.parent[x] = t.parent[x] /\ u.parent[x] \in u.live
  BY <1>1, <1>3, <1>8, <1>9
<1>11. Founded(u)
  <2> SUFFICES ASSUME NEW S \in SUBSET Id, S # {} PROVE \E x \in S : u.parent[x] \notin S
    BY DEF Founded
  <2>1. CASE \E x \in S : x \in gone
    BY <1>1, <1>8, <1>9, <2>1
  <2>2. CASE ~\E x \in S : x \in gone
    <3>1. PICK x \in S : t.parent[x] \notin S
      BY <1>1 DEF Founded
    <3> QED
      BY <1>8, <1>9, <2>2, <3>1
  <2> QED
    BY <2>1, <2>2
<1>12. ASSUME NEW x \in Id
       PROVE  /\ Nodup(u.childs[x]) /\ Childs(u, x) = {z \in u.live : u.parent[z] = x}
              /\ x \notin gone => Childs(u, x) = Childs(t, x) \ {w}
  <2>1. Childs(u, x) = Elements(u.childs[x]) /\ Childs(t, x) = Elements(t.childs[x])
    BY DEF Childs, Elements
  <2>2. Childs(t, x) = {z \in t.live : t.parent[z] = x} /\ t.parent[Root] = NoWin
    BY DEF TreeOK
  <2>3. CASE x \in gone
    <3>1. u.childs[x] = <<>> /\ Nodup(<<>>) /\ Elements(<<>>) = {}
      BY <1>8, <1>9, <2>3 DEF Nodup, Elements
    <3>2. {z \in u.live : u.parent[z] = x} = {}
      <4> SUFFICES ASSUME NEW z \in u.live PROVE u.parent[z] # x
        OBVIOUS
      <4>1. CASE z = Root
        BY <1>1, <1>2, <1>8, <1>9, <2>2, <4>1
      <4>2. CASE z # Root
        BY <1>9, <1>10, <2>3, <4>2
      <4> QED
        BY <4>1, <4>2
    <3> QED
      BY <2>1, <2>3, <3>1, <3>2
  <2>4. CASE x \notin gone
    <3>1. u.childs[x] = Without(t.childs[x], w)
      BY <1>8, <1>9, <2>4
    <3>2. Nodup(u.childs[x]) /\ Childs(u, x) = Childs(t, x) \ {w}
      BY <1>4, <2>1, <3>1
    <3>3. ASSUME NEW z
          PROVE  z \in u.live /\ u.parent[z] = x <=> z \in t.live /\ t.parent[z] = x /\ z # w
      <4>1. CASE z \in t.live \ {Root}
        <5>1. z \in gone => (z = w \/ t.parent[z] # x)
          BY <1>3, <2>4, <4>1
        <5>2. z \notin gone => u.parent[z] = t.parent[z] /\ z # w
          BY <1>1, <1>8, <1>9, <4>1
        <5> QED
          BY <1>1, <1>9, <4>1, <5>1, <5>2
      <4>2. CASE z = Root
        <5>1. u.parent[Root] = NoWin /\ t.parent[Root] = NoWin /\ x # NoWin
          BY <1>1, <1>2, <1>8, <1>9, <2>2
        <5> QED
          BY <4>2, <5>1
      <4>3. CASE z \notin t.live
        BY <1>9, <4>3
      <4> QED
        BY <4>1, <4>2, <4>3
    <3>4. Childs(t, x) \ {w} = {z \in u.live : u.parent[z] = x}
      BY <2>2, <3>3
    <3> QED
      BY <3>2, <3>4
  <2> QED
    BY <2>3, <2>4
<1>13. TreeOK(u)
  <2>1. /\ u.parent[Root] = NoWin /\ u.parent[Background] = Root /\ u.is_open[Root]
        /\ u.at[Root] = <<0, 0>> /\ u.size[Root] = ScreenSize
        /\ {Root, Background} \subseteq u.live
    BY <1>1, <1>2, <1>8, <1>9 DEF TreeOK
  <2>2. \A x \in Id \ u.live : u.parent[x] = NoWin /\ ~u.is_open[x]
    BY <1>8, <1>9 DEF TreeOK
  <2> QED
    BY <1>9, <1>10, <1>11, <1>12, <2>1, <2>2 DEF TreeOK
<1>14. \A x \in u.live : Ancestors(u, x) = Ancestors(t, x) /\ Line(u, x) = Line(t, x)
  <2>1. \A x \in u.live : /\ u.parent[x] = t.parent[x]
                          /\ u.parent[x] \in Id => u.parent[x] \in u.live
    BY <1>1, <1>8, <1>9, <1>10 DEF TreeOK
  <2>2. u.live \in SUBSET Id
    BY <1>1, <1>9
  <2> QED
    BY <1>1, <1>9, <1>11, <2>1, <2>2, SameAncestors
<1>15. ASSUME NEW a \in u.live \ {Root}, NEW x
       PROVE  x \in Left(u, a) <=> x \in Left(t, a) /\ x # w
  <2>1. /\ x \in Left(u, a) <=> Higher(u, x, a)
        /\ x \in Left(t, a) <=> Higher(t, x, a)
        /\ t.parent[a] \in Id \ gone /\ u.parent[a] = t.parent[a] /\ a # w
    BY <1>1, <1>9, <1>10, <1>13, LeftMeans
  <2>2. /\ Higher(u, x, a) <=> Before(u.childs[t.parent[a]], x, a)
        /\ Higher(t, x, a) <=> Before(t.childs[t.parent[a]], x, a)
    BY <2>1 DEF Higher, Before
  <2>3. u.childs[t.parent[a]] = Without(t.childs[t.parent[a]], w)
    BY <1>8, <1>9, <2>1
  <2>4. t.parent[a] \in Id
    BY <2>1
  <2>5. Before(Without(t.childs[t.parent[a]], w), x, a)
        <=> Before(t.childs[t.parent[a]], x, a) /\ x # w /\ a # w
    BY <1>4, <2>4
  <2> QED
    BY <2>1, <2>2, <2>3, <2>5
<1>16. \A x \in Id \ gone : /\ u.parent[x] = t.parent[x] /\ u.is_open[x] = t.is_open[x]
                            /\ u.at[x] = t.at[x] /\ u.size[x] = t.size[x]
                            /\ Childs(u, x) = Childs(t, x) \ {w}
  BY <1>8, <1>9, <1>12
<1>17. u.live = t.live \ gone /\ w \in gone /\ \A x \in gone : ~u.is_open[x]
  BY <1>1, <1>8, <1>9
<1> QED
  BY <1>13, <1>14, <1>15, <1>16, <1>17 DEF gone

\* Once w is out of sight, taking it out changes no other region.
LEMMA DeletedRegions ==
  ASSUME NEW t, TreeOK(t), NEW w \in Window, w \in t.live, ~Mapped(t, w), NEW u, u = Deleted(t, w),
         NEW y \in u.live, NEW p, Exact(p, t, y)
  PROVE  Exact(p, u, y)
<1> DEFINE gone == Subtree(t, w)
<1>1. /\ TreeOK(u) /\ u.live = t.live \ gone /\ w \in gone
      /\ \A x \in Id \ gone : /\ u.parent[x] = t.parent[x] /\ u.is_open[x] = t.is_open[x]
                              /\ u.at[x] = t.at[x] /\ u.size[x] = t.size[x]
                              /\ Childs(u, x) = Childs(t, x) \ {w}
      /\ \A x \in u.live : Ancestors(u, x) = Ancestors(t, x) /\ Line(u, x) = Line(t, x)
      /\ \A a \in u.live \ {Root} : \A x : x \in Left(u, a) <=> x \in Left(t, a) /\ x # w
  BY DeletedTree
<1>2. /\ t.live \subseteq Id /\ y \in Id \ gone /\ y \in t.live /\ w \in t.live \ {Root} /\ w \in Id
      /\ t \in Tree /\ w # Root
  BY <1>1, TreeFields, WindowAssumption DEF TreeOK, Id
<1> HIDE DEF gone
<1>3. \A x \in Id \ gone : Same(t, u, x) /\ Pos(u, x) = Pos(t, x) /\ Work(u, x) = Work(t, x)
  BY <1>1 DEF Same, Pos, Full, Work
<1>4. \A a \in Line(t, y) : a \in u.live /\ a \in t.live /\ a \in Id \ gone
  <2>1. \A a \in Line(u, y) : a \in u.live
    BY <1>1, AncestorsLive
  <2> QED
    BY <1>1, <1>2, <2>1
<1>5. SameLine(t, u, y)
  BY <1>1, <1>3, <1>4 DEF SameLine
<1>6. ASSUME NEW c, u.is_open[y], Inside(u, y, c)
      PROVE  (Covered(u, y, c) <=> Covered(t, y, c)) /\ (ByChild(u, y, c) <=> ByChild(t, y, c))
  <2>1. \A b \in Ancestors(t, y) : t.is_open[b]
    BY <1>1, <1>4, <1>6 DEF Inside, Line
  <2>2. t.is_open[y]
    BY <1>1, <1>2, <1>6
  <2>3. ASSUME NEW a \in Line(t, y), NEW x
        PROVE  x \in Left(u, a) /\ u.is_open[x] /\ c \in Pos(u, x) <=>
               x \in Left(t, a) /\ t.is_open[x] /\ c \in Pos(t, x)
    <3>1. CASE a = Root
      BY <3>1 DEF Left
    <3>2. CASE a # Root
      <4>1. a \in u.live \ {Root} /\ a \in t.live \ {Root}
        BY <1>4, <3>2
      <4>2. CASE x = w
        <5>1. x \notin Left(u, a)
          BY <1>1, <4>1, <4>2
        <5>2. ASSUME w \in Left(t, a), t.is_open[w]
              PROVE  FALSE
          <6>1. t.parent[w] = t.parent[a]
            BY <4>1, <5>2, SiblingsOf
          <6>2. Ancestors(t, w) = Ancestors(t, a)
            BY <1>2, <4>1, <6>1, LineStep
          <6>3. Ancestors(t, a) \subseteq Ancestors(t, y)
            BY <1>2, AncestorsLive
          <6> QED
            BY <2>1, <5>2, <6>2, <6>3 DEF Mapped
        <5> QED
          BY <4>2, <5>1, <5>2
      <4>3. CASE x # w
        <5>1. x \in Left(u, a) <=> x \in Left(t, a)
          BY <1>1, <4>1, <4>3
        <5>2. x \in Left(u, a) => x \in Id \ gone
          <6>1. x \in Left(u, a) => x \in u.live
            BY <1>1, <4>1, SiblingsOf
          <6> QED
            BY <1>1, <1>2, <6>1
        <5> QED
          BY <1>1, <1>3, <5>1, <5>2
      <4> QED
        BY <4>2, <4>3
    <3> QED
      BY <3>1, <3>2
  <2>4. Covered(u, y, c) <=> Covered(t, y, c)
    BY <1>5, <2>3 DEF Covered, SameLine
  <2>5. ASSUME NEW x
        PROVE  x \in Childs(u, y) /\ u.is_open[x] /\ c \in Pos(u, x) <=>
               x \in Childs(t, y) /\ t.is_open[x] /\ c \in Pos(t, x)
    <3>1. Childs(u, y) = Childs(t, y) \ {w}
      BY <1>1, <1>2
    <3>2. CASE x = w
      <4>1. ASSUME w \in Childs(t, y), t.is_open[w]
            PROVE  FALSE
        <5>1. t.parent[w] = y
          BY <1>2, <4>1 DEF TreeOK
        <5>2. Ancestors(t, w) = Line(t, y)
          BY <1>2, <5>1, LineStep
        <5> QED
          BY <2>1, <2>2, <4>1, <5>2 DEF Mapped, Line
      <4> QED
        BY <3>1, <3>2, <4>1
    <3>3. CASE x # w
      <4>1. x \in Childs(u, y) <=> x \in Childs(t, y)
        BY <3>1, <3>3
      <4>2. x \in Childs(u, y) => x \in Id \ gone
        <5>1. x \in Childs(u, y) => x \in u.live
          BY <1>1, <1>2 DEF TreeOK
        <5> QED
          BY <1>1, <1>2, <5>1
      <4> QED
        BY <1>1, <1>3, <4>1, <4>2
    <3> QED
      BY <3>2, <3>3
  <2>6. ByChild(u, y, c) <=> ByChild(t, y, c)
    BY <1>2, <1>3, <2>5 DEF ByChild
  <2> QED
    BY <2>4, <2>6
<1>7. u.is_open[y] => \A c : c \in Build(u, y) <=> c \in Build(t, y)
  BY <1>5, <1>6, SameCell
<1>8. u.is_open[y] => Build(u, y) = Build(t, y)
  BY <1>7
<1> QED
  BY <1>1, <1>2, <1>3, <1>8 DEF Exact

\* client_delete(): the regions of the windows that stay are exact.
LEMMA DeleteStep ==
  ASSUME TreeOK(tree), pic \in Pic, Regions(pic, tree), NEW w \in Window, Delete(w)
  PROVE  /\ TreeOK(tree') /\ pic' \in Pic /\ Regions(pic', tree')
<1> DEFINE gone == Subtree(tree, w)
           t1 == IF tree.is_open[w] THEN ClosedTree(tree, w) ELSE tree
<1>1. PICK u : u = tree'
  OBVIOUS
<1>2. PICK q : q = pic'
  OBVIOUS
<1>3. w \in tree.live \ {Root} /\ tree \in Tree /\ tree.live \subseteq Id /\ w \in Id /\ w \in gone
  BY WindowAssumption, TreeFields, SubtreeMeans DEF Delete, TreeOK, Id, Line
<1>4. /\ TreeOK(t1) /\ Alike(tree, t1) /\ t1.childs = tree.childs
      /\ t1.at = tree.at /\ t1.size = tree.size
      /\ \A x \in Id \ {w} : t1.is_open[x] = tree.is_open[x]
      /\ ~Mapped(t1, w)
  <2>1. CASE tree.is_open[w]
    <3>1. /\ TreeOK(t1) /\ Alike(tree, t1) /\ t1.childs = tree.childs
          /\ t1.at = tree.at /\ t1.size = tree.size /\ t1 \in Tree
          /\ \A x \in Id : t1.is_open[x] <=> tree.is_open[x] /\ ~(x = w /\ Mapped(tree, w))
      BY <1>3, <2>1, ClosedTreeOK DEF TreeOK
    <3>2. ~Mapped(t1, w)
      <4>1. CASE Mapped(tree, w)
        BY <1>3, <3>1, <4>1 DEF Mapped
      <4>2. CASE ~Mapped(tree, w)
        BY <2>1, <4>2 DEF ClosedTree
      <4> QED
        BY <4>1, <4>2
    <3> HIDE DEF t1
    <3>3. \A x \in Id : t1.is_open[x] \in BOOLEAN /\ tree.is_open[x] \in BOOLEAN
      BY <1>3, <3>1, TreeFields
    <3>4. \A x \in Id \ {w} : t1.is_open[x] = tree.is_open[x]
      BY <3>1, <3>3
    <3> QED
      BY <3>1, <3>2, <3>4
  <2>2. CASE ~tree.is_open[w]
    BY <2>2 DEF Mapped, Alike
  <2> QED
    BY <2>1, <2>2
<1>5. PICK p : /\ p \in IF tree.is_open[w] THEN Refocused(ClosedPic(pic, tree, w), t1) ELSE {pic}
               /\ q = [vis |-> [x \in Id |-> IF x \in gone THEN {} ELSE p.vis[x]],
                       is_hidden |-> [x \in Id |-> x \notin gone /\ p.is_hidden[x]],
                       is_dirty |-> [x \in Id |-> x \notin gone /\ p.is_dirty[x]],
                       dirty |-> [x \in Id |-> IF x \in gone THEN {} ELSE p.dirty[x]],
                       bitmap |-> [x \in Id |-> IF x \in gone THEN Display ELSE p.bitmap[x]],
                       screen |-> [c \in Display |->
                                     IF p.screen[c][1] \in gone THEN Stale ELSE p.screen[c]]]
  BY <1>2 DEF Delete
<1>6. p \in Pic /\ Regions(p, t1)
  <2>1. CASE tree.is_open[w]
    <3>1. ClosedPic(pic, tree, w) \in Pic /\ Regions(ClosedPic(pic, tree, w), t1)
      BY <1>3, <2>1, CloseStep
    <3>2. Kept(ClosedPic(pic, tree, w), p)
      BY <1>4, <1>5, <2>1, <3>1, RefocusedKeeps DEF TreeOK
    <3> QED
      BY <3>1, <3>2, KeptRegions
  <2>2. CASE ~tree.is_open[w]
    BY <1>5, <2>2
  <2> QED
    BY <2>1, <2>2
<1>7. /\ q \in Pic /\ \A y \in Id : /\ y \in gone => q.vis[y] = {}
                                    /\ y \notin gone => q.vis[y] = p.vis[y]
                                    /\ y \notin gone => q.is_hidden[y] = p.is_hidden[y]
  <2> DEFINE vis == [x \in Id |-> IF x \in gone THEN {} ELSE p.vis[x]]
             hid == [x \in Id |-> x \notin gone /\ p.is_hidden[x]]
             isd == [x \in Id |-> x \notin gone /\ p.is_dirty[x]]
             dirty == [x \in Id |-> IF x \in gone THEN {} ELSE p.dirty[x]]
             bits == [x \in Id |-> IF x \in gone THEN Display ELSE p.bitmap[x]]
             scr == [c \in Display |-> IF p.screen[c][1] \in gone THEN Stale ELSE p.screen[c]]
  <2>1. /\ vis \in [Id -> SUBSET Point] /\ hid \in [Id -> BOOLEAN] /\ isd \in [Id -> BOOLEAN]
        /\ dirty \in [Id -> SUBSET Point] /\ bits \in [Id -> SUBSET Point]
    BY <1>6, PicFields, DisplayPoints
  <2>2. scr \in [Display -> (Id \union {NoWin}) \X Point]
    BY <1>6, PicFields, CellsShown
  <2>3. \A y \in Id : /\ y \in gone => vis[y] = {}
                      /\ y \notin gone => vis[y] = p.vis[y]
                      /\ y \notin gone => hid[y] = p.is_hidden[y]
    BY <1>6, PicFields
  <2>4. q = [vis |-> vis, is_hidden |-> hid, is_dirty |-> isd, dirty |-> dirty, bitmap |-> bits, screen |-> scr]
    BY <1>5
  <2> HIDE DEF vis, hid, isd, dirty, bits, scr
  <2>5. q \in Pic /\ q.vis = vis /\ q.is_hidden = hid
    BY <2>1, <2>2, <2>4 DEF Pic
  <2> QED
    BY <2>3, <2>5
<1>8. u = Deleted(t1, w)
  <2>1. Subtree(t1, w) = gone
    BY <1>3, <1>4, AlikeLines
  <2>2. u = [live |-> tree.live \ gone,
             parent |-> [x \in Id |-> IF x \in gone THEN NoWin ELSE tree.parent[x]],
             childs |-> [x \in Id |-> IF x \in gone THEN <<>> ELSE Without(tree.childs[x], w)],
             is_open |-> [x \in Id |-> x \notin gone /\ tree.is_open[x]],
             at |-> [x \in Id |-> IF x \in gone THEN <<0, 0>> ELSE tree.at[x]],
             size |-> [x \in Id |-> IF x \in gone THEN ScreenSize ELSE tree.size[x]]]
    BY <1>1 DEF Delete
  <2>3. [x \in Id |-> x \notin gone /\ tree.is_open[x]] = [x \in Id |-> x \notin gone /\ t1.is_open[x]]
    <3>1. \A x \in Id : (x \notin gone /\ tree.is_open[x]) = (x \notin gone /\ t1.is_open[x])
      BY <1>3, <1>4
    <3> QED
      BY <3>1
  <2> HIDE DEF gone, t1
  <2> QED
    BY <1>4, <2>1, <2>2, <2>3 DEF Deleted, Alike
<1>9. Subtree(t1, w) = gone /\ w \in t1.live
  BY <1>3, <1>4, AlikeLines DEF Alike
<1>10. /\ TreeOK(u) /\ u.live = t1.live \ gone
       /\ \A x \in gone : ~u.is_open[x]
  BY <1>4, <1>8, <1>9, DeletedTree
<1>11. ASSUME NEW y \in Id
       PROVE  Exact(q, u, y)
  <2>1. CASE y \in u.live
    <3>1. Exact(p, u, y)
      BY <1>4, <1>6, <1>8, <1>9, <2>1, DeletedRegions DEF Regions
    <3>2. y \notin gone
      BY <1>10, <2>1
    <3> QED
      BY <1>7, <3>1, <3>2 DEF Exact
  <2>2. CASE y \notin u.live
    <3>1. ~u.is_open[y]
      BY <1>10, <2>2 DEF TreeOK
    <3>2. CASE y \in gone
      BY <1>7, <3>1, <3>2 DEF Exact
    <3>3. CASE y \notin gone
      <4>1. y \notin t1.live
        BY <1>10, <2>2, <3>3
      <4>2. Exact(p, t1, y) /\ ~t1.is_open[y]
        BY <1>4, <1>6, <4>1 DEF Regions, TreeOK
      <4> QED
        BY <1>7, <3>1, <3>3, <4>2 DEF Exact
    <3> QED
      BY <3>2, <3>3
  <2> QED
    BY <2>1, <2>2
<1> QED
  BY <1>1, <1>2, <1>7, <1>10, <1>11 DEF Regions

\* The tree after window_open().
LEMMA OpenedTreeOK ==
  ASSUME NEW t, TreeOK(t), NEW w \in t.live \ {Root}, NEW x \in Point
  PROVE  /\ TreeOK(OpenedTree(t, w, x)) /\ Alike(t, OpenedTree(t, w, x))
         /\ OpenedTree(t, w, x).childs = t.childs
         /\ OpenedTree(t, w, x).at[w] = x /\ OpenedTree(t, w, x).is_open[w]
         /\ \A y \in Id \ {w} :
              /\ OpenedTree(t, w, x).is_open[y] <=> t.is_open[y]
              /\ OpenedTree(t, w, x).at[y] = IF y \in Subtree(t, w) /\ t.is_open[y]
                                             THEN Plus(t.at[y], Minus(x, t.at[w])) ELSE t.at[y]
         /\ OpenedTree(t, w, x).size = t.size
         /\ Elsewhere(t, OpenedTree(t, w, x), w)
<1> DEFINE S == Subtree(t, w) \ {w}
           d == Minus(x, t.at[w])
           m == Moved(t, S, d)
           u == OpenedTree(t, w, x)
<1>1. t \in Tree /\ t.live \subseteq Id /\ w \in Id /\ w \in Subtree(t, w)
  BY TreeFields, ParentApart DEF TreeOK
<1>2. t.at[w] \in Point
  BY <1>1, TreeFields
<1>3. d \in Point
  BY <1>2, PointMoves
<1>4. S \in SUBSET Id
  BY <1>1, SubtreeMeans
<1>5. Root \notin S
  <2>1. Ancestors(t, Root) = {} /\ Root \in t.live
    BY RootAbove DEF TreeOK
  <2> QED
    BY <2>1, SubtreeMeans DEF Line
<1>6. u = [m EXCEPT !.at[w] = x, !.is_open[w] = TRUE]
  BY DEF OpenedTree
<1> HIDE DEF S, d, m
<1>7. /\ TreeOK(m) /\ Alike(t, m) /\ m.childs = t.childs
      /\ m.is_open = t.is_open /\ m.size = t.size
      /\ \A y \in Id : m.at[y] = IF y \in S /\ t.is_open[y] THEN Plus(t.at[y], d) ELSE t.at[y]
  BY <1>3, <1>4, <1>5, MovedTree DEF m
<1>8. m \in Tree
  BY <1>7 DEF TreeOK
<1> DEFINE at == [m.at EXCEPT ![w] = x]
           is_open == [m.is_open EXCEPT ![w] = TRUE]
<1>9. at \in [Id -> Point] /\ is_open \in [Id -> BOOLEAN]
  BY <1>8, TreeFields
<1>10. /\ at[w] = x /\ is_open[w]
       /\ \A y \in Id \ {w} : at[y] = m.at[y] /\ is_open[y] = m.is_open[y]
  BY <1>1, <1>8, TreeFields
<1>11. u = [live |-> m.live, parent |-> m.parent, childs |-> m.childs,
            is_open |-> is_open, at |-> at, size |-> m.size]
  BY <1>6, <1>8 DEF Tree
<1> HIDE DEF at, is_open, u
<1>12. /\ u \in Tree /\ u.live = t.live /\ u.parent = t.parent /\ u.childs = t.childs
       /\ u.is_open = is_open /\ u.at = at /\ u.size = t.size
  BY <1>7, <1>8, <1>9, <1>11, TreeFields DEF Tree, Alike
<1>13. Alike(t, u)
  BY <1>12 DEF Alike
<1>14. \A y \in Id \ {w} : /\ u.is_open[y] <=> t.is_open[y]
                           /\ u.at[y] = IF y \in Subtree(t, w) /\ t.is_open[y]
                                        THEN Plus(t.at[y], Minus(x, t.at[w])) ELSE t.at[y]
  BY <1>7, <1>10, <1>12 DEF S, d
<1>15. TreeOK(u)
  <2>1. Root \in Id \ {w} /\ Root \notin Subtree(t, w)
    BY <1>5 DEF S, Id
  <2>2. u.is_open[Root] /\ u.at[Root] = t.at[Root] /\ u.size[Root] = t.size[Root]
    BY <1>12, <1>14, <2>1 DEF TreeOK
  <2>3. \A y \in Id \ t.live : ~u.is_open[y]
    BY <1>14 DEF TreeOK
  <2> QED
    BY <1>12, <1>13, <2>2, <2>3, SameShape
<1>16. Elsewhere(t, u, w)
  <2>1. \A y \in Id \ Subtree(t, w) : Same(t, u, y)
    BY <1>1, <1>12, <1>14 DEF Same
  <2> QED
    BY <1>12, <1>13, <2>1 DEF Elsewhere
<1> QED
  BY <1>10, <1>12, <1>13, <1>14, <1>15, <1>16 DEF u

\* The place a client gives to a window, from the corner of its parent's work area.
LEMMA PlaceGiven ==
  ASSUME NEW t \in Tree, NEW q \in Id, NEW x \in Point
  PROVE  /\ Plus(t.at[q], Edge(q)) \in Point
         /\ Plus(x, Plus(t.at[q], Edge(q))) \in Point
<1>1. t.at[q] \in Point /\ Edge(q) \in Point
  BY TreeFields, SizesAreExtents DEF Edge
<1>2. Plus(t.at[q], Edge(q)) \in Point
  BY <1>1, PointMoves
<1> QED
  BY <1>2, PointMoves

\* client_open(): all regions are exact again.
LEMMA OpenAction ==
  ASSUME TreeOK(tree), pic \in Pic, Regions(pic, tree),
         NEW w \in Window, NEW x \in Positions, Open(w, x)
  PROVE  TreeOK(tree') /\ pic' \in Pic /\ Regions(pic', tree')
<1> DEFINE pos == Plus(x, Plus(tree.at[tree.parent[w]], Edge(tree.parent[w])))
<1>1. PICK u : u = tree'
  OBVIOUS
<1>2. PICK q : q = pic'
  OBVIOUS
<1>3. /\ w \in tree.live \ {Root} /\ tree \in Tree /\ tree.live \subseteq Id
      /\ tree.parent[w] \in Id /\ ~tree.is_open[w]
  BY WindowAssumption, TreeFields DEF Open, TreeOK
<1>4. x \in Point
  BY SizesAreExtents
<1>5. pos \in Point
  BY <1>3, <1>4, PlaceGiven
<1>6. u = OpenedTree(tree, w, pos) /\ q \in Refocused(OpenedPic(pic, u, w), u)
  BY <1>1, <1>2 DEF Open
<1> HIDE DEF pos
<1>7. /\ TreeOK(u) /\ Elsewhere(tree, u, w) /\ u.is_open[w]
      /\ \A y \in Id \ {w} : u.is_open[y] <=> tree.is_open[y]
  BY <1>3, <1>5, <1>6, OpenedTreeOK
<1>8. \A y \in Subtree(tree, w) \ {w} : u.is_open[y] <=> tree.is_open[y]
  BY <1>3, <1>7, SubtreeMeans
<1>9. OpenedPic(pic, u, w) \in Pic /\ Regions(OpenedPic(pic, u, w), u)
  BY <1>3, <1>7, <1>8, OpenStep
<1>10. Kept(OpenedPic(pic, u, w), q)
  BY <1>6, <1>7, <1>9, RefocusedKeeps DEF TreeOK
<1> QED
  BY <1>1, <1>2, <1>7, <1>9, <1>10, KeptRegions

\* client_close(): all regions are exact again.
LEMMA CloseAction ==
  ASSUME TreeOK(tree), pic \in Pic, Regions(pic, tree), NEW w \in Window, Close(w)
  PROVE  TreeOK(tree') /\ pic' \in Pic /\ Regions(pic', tree')
<1>1. PICK u : u = tree'
  OBVIOUS
<1>2. PICK q : q = pic'
  OBVIOUS
<1>3. /\ w \in tree.live \ {Root} /\ tree.is_open[w]
      /\ u = ClosedTree(tree, w) /\ q \in Refocused(ClosedPic(pic, tree, w), u)
  BY <1>1, <1>2, WindowAssumption DEF Close
<1>4. TreeOK(u)
  BY <1>3, ClosedTreeOK
<1>5. ClosedPic(pic, tree, w) \in Pic /\ Regions(ClosedPic(pic, tree, w), u)
  BY <1>3, CloseStep
<1>6. Kept(ClosedPic(pic, tree, w), q)
  BY <1>3, <1>4, <1>5, RefocusedKeeps DEF TreeOK
<1> QED
  BY <1>1, <1>2, <1>4, <1>5, <1>6, KeptRegions

\* client_move(): all regions are exact again.
LEMMA MoveAction ==
  ASSUME TreeOK(tree), pic \in Pic, Regions(pic, tree),
         NEW w \in Window, NEW x \in Positions, Move(w, x)
  PROVE  TreeOK(tree') /\ pic' \in Pic /\ Regions(pic', tree')
<1> DEFINE d == Minus(Plus(x, Plus(tree.at[tree.parent[w]], Edge(tree.parent[w]))), tree.at[w])
           S == Subtree(tree, w)
<1>1. PICK u : u = tree'
  OBVIOUS
<1>2. PICK q : q = pic'
  OBVIOUS
<1>3. /\ w \in tree.live \ {Root} /\ tree \in Tree /\ tree.live \subseteq Id /\ w \in Id
      /\ tree.parent[w] \in Id /\ tree.is_open[w]
  BY WindowAssumption, TreeFields DEF Move, TreeOK
<1>4. tree.at[w] \in Point /\ x \in Point
  BY <1>3, TreeFields, SizesAreExtents
<1>5. d \in Point
  BY <1>3, <1>4, PlaceGiven, PointMoves
<1>6. /\ u = Moved(tree, S, d)
      /\ q \in Refocused(IF d = <<0, 0>> THEN pic ELSE MovedPic(pic, tree, w, d), u)
  BY <1>1, <1>2 DEF Move
<1>7. S \in SUBSET Id /\ Root \notin S
  <2>1. Ancestors(tree, Root) = {} /\ Root \in tree.live
    BY RootAbove DEF TreeOK
  <2> QED
    BY <1>3, <2>1, SubtreeMeans DEF Line
<1> HIDE DEF d, S
<1>8. PICK p : p = IF d = <<0, 0>> THEN pic ELSE MovedPic(pic, tree, w, d)
  OBVIOUS
<1>9. TreeOK(u) /\ p \in Pic /\ Regions(p, u)
  <2>1. CASE d = <<0, 0>>
    <3>1. /\ TreeOK(u) /\ Alike(tree, u) /\ u.childs = tree.childs
          /\ u.is_open = tree.is_open /\ u.size = tree.size
          /\ \A y \in Id : u.at[y] = IF y \in S /\ tree.is_open[y] THEN Plus(tree.at[y], d) ELSE tree.at[y]
      BY <1>5, <1>6, <1>7, MovedTree
    <3>2. \A a \in Point : Plus(a, <<0, 0>>) = a
      BY DEF Plus, Point
    <3>3. u.at = tree.at
      <4>1. u.at \in [Id -> Point] /\ tree.at \in [Id -> Point]
        BY <1>3, <3>1, TreeFields DEF TreeOK
      <4>2. \A y \in Id : u.at[y] = tree.at[y]
        BY <2>1, <3>1, <3>2, <4>1
      <4> QED
        BY <4>1, <4>2
    <3>4. u = tree
      <4>1. u = [live |-> u.live, parent |-> u.parent, childs |-> u.childs,
                 is_open |-> u.is_open, at |-> u.at, size |-> u.size]
        BY <3>1 DEF TreeOK, Tree
      <4>2. tree = [live |-> tree.live, parent |-> tree.parent, childs |-> tree.childs,
                    is_open |-> tree.is_open, at |-> tree.at, size |-> tree.size]
        BY <1>3 DEF Tree
      <4> QED
        BY <3>1, <3>3, <4>1, <4>2 DEF Alike
    <3> QED
      BY <1>8, <2>1, <3>4
  <2>2. CASE d # <<0, 0>>
    BY <1>3, <1>5, <1>6, <1>8, <2>2, MoveStep DEF S
  <2> QED
    BY <2>1, <2>2
<1>10. Kept(p, q)
  BY <1>6, <1>8, <1>9, RefocusedKeeps DEF TreeOK
<1> QED
  BY <1>1, <1>2, <1>9, <1>10, KeptRegions

\* The new bitmap of client_resize() changes no region.
LEMMA ResizedPicKeeps ==
  ASSUME NEW p \in Pic, NEW t \in Tree, NEW w \in Id, NEW s \in Extent
  PROVE  Kept(p, ResizedPic(p, t, w, s))
<1> DEFINE t1 == [t EXCEPT !.size[w] = s]
           copied == WorkCells(t, w) \intersect WorkCells(t1, w)
           new == IF w \in Container THEN Cells(t1, w)
                  ELSE (p.bitmap[w] \intersect copied) \union (Cells(t1, w) \ copied)
           bits == [p.bitmap EXCEPT ![w] = new]
<1>1. t1 \in Tree
  <2>1. [t.size EXCEPT ![w] = s] \in [Id -> Extent]
    BY TreeFields
  <2> QED
    BY <2>1 DEF Tree
<1>2. ResizedPic(p, t, w, s) = [p EXCEPT !.bitmap = bits]
  BY DEF ResizedPic, Pic
<1> HIDE DEF t1
<1>3. Cells(t1, w) \subseteq Point
  BY <1>1, CellsPoints
<1> HIDE DEF copied
<1>4. new \in SUBSET Point
  BY <1>3, PicFields
<1> HIDE DEF new
<1>5. bits \in [Id -> SUBSET Point]
  BY <1>4, PicFields
<1> HIDE DEF bits
<1> QED
  BY <1>2, <1>5 DEF Kept, Pic

\* The tree after a change of the size of w.
Sized(t, w, s) == [t EXCEPT !.size[w] = s]

LEMMA SizedTree ==
  ASSUME NEW t, TreeOK(t), NEW w \in t.live \ {Root}, NEW s \in Extent
  PROVE  /\ TreeOK(Sized(t, w, s)) /\ Elsewhere(t, Sized(t, w, s), w)
         /\ Sized(t, w, s).is_open = t.is_open /\ Sized(t, w, s).at = t.at
         /\ Sized(t, w, s).size = [t.size EXCEPT ![w] = s]
         /\ Sized(t, w, s).parent = t.parent /\ Sized(t, w, s).live = t.live
<1> DEFINE size == [t.size EXCEPT ![w] = s]
           u == Sized(t, w, s)
<1>1. t \in Tree /\ w \in Id /\ w \in Subtree(t, w) /\ Root \in Id
  BY TreeFields, ParentApart DEF TreeOK, Id
<1>2. size \in [Id -> Extent] /\ \A x \in Id \ {w} : size[x] = t.size[x]
  BY <1>1, TreeFields
<1>3. u = [t EXCEPT !.size = size]
  BY <1>1 DEF Sized, Tree
<1> HIDE DEF u, size
<1>4. /\ u \in Tree /\ u.live = t.live /\ u.parent = t.parent /\ u.childs = t.childs
      /\ u.is_open = t.is_open /\ u.at = t.at /\ u.size = size
  BY <1>1, <1>2, <1>3, TreeFields DEF Tree
<1>5. Alike(t, u)
  BY <1>4 DEF Alike
<1>6. TreeOK(u)
  <2>1. u.is_open[Root] /\ u.at[Root] = t.at[Root] /\ u.size[Root] = t.size[Root]
    BY <1>1, <1>2, <1>4 DEF TreeOK
  <2>2. \A x \in Id \ t.live : ~u.is_open[x]
    BY <1>4 DEF TreeOK
  <2> QED
    BY <1>4, <1>5, <2>1, <2>2, SameShape
<1>7. \A x \in Id \ Subtree(t, w) : Same(t, u, x)
  BY <1>1, <1>2, <1>4 DEF Same
<1> QED
  BY <1>4, <1>5, <1>6, <1>7 DEF Elsewhere, u, size

\* The size of a window that is out of sight changes no region.
LEMMA SizedRegions ==
  ASSUME NEW t, TreeOK(t), NEW w \in t.live \ {Root}, ~Mapped(t, w), NEW s \in Extent,
         NEW p \in Pic, Regions(p, t)
  PROVE  Regions(p, Sized(t, w, s))
<1>1. PICK u : u = Sized(t, w, s)
  OBVIOUS
<1>2. /\ TreeOK(u) /\ Elsewhere(t, u, w) /\ u.is_open = t.is_open /\ t \in Tree
      /\ t.live \subseteq Id /\ w \in Id /\ u.live = t.live /\ Alike(t, u)
  <2>1. TreeOK(u) /\ Elsewhere(t, u, w) /\ u.is_open = t.is_open /\ u.live = t.live
    BY <1>1, SizedTree
  <2>2. t \in Tree /\ t.live \subseteq Id
    BY TreeFields DEF TreeOK
  <2> QED
    BY <2>1, <2>2 DEF Elsewhere
<1>3. ASSUME NEW y \in Id
      PROVE  Exact(p, u, y)
  <2>1. CASE ~t.is_open[y]
    BY <1>2, <2>1 DEF Exact, Regions
  <2>2. CASE t.is_open[y] /\ y \in Subtree(t, w)
    <3>1. w \in Line(t, y) /\ y \in t.live
      BY <2>2, SubtreeMeans
    <3>2. Ancestors(t, w) \subseteq Ancestors(t, y) /\ (w # y => w \in Ancestors(t, y))
      BY <3>1, AncestorsLive DEF Line
    <3>3. \E b \in Ancestors(t, y) : ~t.is_open[b]
      BY <2>2, <3>2 DEF Mapped
    <3>4. Ancestors(u, y) = Ancestors(t, y)
      BY <1>2, AlikeLines
    <3>5. \E b \in Ancestors(u, y) : ~u.is_open[b]
      BY <1>2, <3>3, <3>4
    <3>6. Build(t, y) = {} /\ Build(u, y) = {}
      BY <3>3, <3>5 DEF Build
    <3>7. Pos(t, y) # {} /\ Pos(u, y) # {}
      BY <1>2, PosFacts DEF TreeOK
    <3> QED
      BY <1>2, <2>2, <3>6, <3>7 DEF Exact, Regions
  <2>3. CASE t.is_open[y] /\ y \notin Subtree(t, w)
    <3>1. y \in t.live \ Subtree(t, w)
      BY <2>3 DEF TreeOK
    <3>2. CASE t.is_open[w]
      <4>1. \E b \in Ancestors(t, w) : ~t.is_open[b]
        BY <3>2 DEF Mapped
      <4> DEFINE area == Pos(t, w) \union Pos(u, w)
                 T == Subtrees(t, Right(t, w))
      <4>2. Within(t, u, w, area)
        BY DEF Within
      <4>3. T \in SUBSET Id
        BY <1>2, ParentApart
      <4>4. Exact(p, t, y)
        BY DEF Regions
      <4> HIDE DEF area, T
      <4> QED
        BY <1>2, <3>1, <4>1, <4>2, <4>3, <4>4, ExactElsewhere DEF T
    <3>3. CASE ~t.is_open[w]
      <4>1. Within(t, u, w, {})
        BY <1>2, <3>3 DEF Within
      <4>2. \A c : c \in Build(u, y) <=> c \in Build(t, y)
        BY <1>2, <2>3, <3>1, <4>1, CellElsewhere
      <4>3. Build(u, y) = Build(t, y)
        BY <4>2
      <4>4. Same(t, u, y)
        BY <1>2, <2>3 DEF Elsewhere
      <4>5. Pos(u, y) = Pos(t, y)
        BY <2>3, <4>4, SamePos
      <4> QED
        BY <1>2, <2>3, <4>3, <4>5 DEF Exact, Regions
    <3> QED
      BY <3>2, <3>3
  <2> QED
    BY <2>1, <2>2, <2>3
<1> QED
  BY <1>1, <1>3 DEF Regions

\* client_resize(): all regions are exact again.
LEMMA ResizeAction ==
  ASSUME TreeOK(tree), pic \in Pic, Regions(pic, tree),
         NEW w \in Window, NEW s \in Sizes, Resize(w, s)
  PROVE  TreeOK(tree') /\ pic' \in Pic /\ Regions(pic', tree')
<1> DEFINE c == ClosedTree(tree, w)
<1>1. PICK u : u = tree'
  OBVIOUS
<1>2. PICK q : q = pic'
  OBVIOUS
<1>3. /\ w \in tree.live \ {Root} /\ tree \in Tree /\ tree.live \subseteq Id /\ w \in Id
      /\ s \in Extent
  BY WindowAssumption, SizesAreExtents, TreeFields DEF Resize, TreeOK
<1>4. u = Sized(tree, w, s)
  BY <1>1 DEF Resize, Sized
<1>5. /\ TreeOK(u) /\ u.is_open = tree.is_open /\ u.at = tree.at
      /\ u.size = [tree.size EXCEPT ![w] = s] /\ Alike(tree, u) /\ u.childs = tree.childs
  BY <1>3, <1>4, SizedTree DEF Elsewhere
<1>6. CASE tree.is_open[w]
  <2>1. PICK p : /\ p \in Refocused(ClosedPic(pic, tree, w), c)
                 /\ IF Mapped(tree, w)
                    THEN q \in Refocused(OpenedPic(ResizedPic(p, c, w, s), u, w), u)
                    ELSE q = ResizedPic(p, c, w, s)
    BY <1>1, <1>2, <1>6 DEF Resize
  <2>2. /\ TreeOK(c) /\ Alike(tree, c) /\ c.childs = tree.childs /\ c.at = tree.at /\ c.size = tree.size
        /\ \A x \in Id : c.is_open[x] <=> tree.is_open[x] /\ ~(x = w /\ Mapped(tree, w))
    BY <1>3, ClosedTreeOK
  <2>3. ClosedPic(pic, tree, w) \in Pic /\ Regions(ClosedPic(pic, tree, w), c)
    BY <1>3, <1>6, CloseStep
  <2>4. ~Mapped(tree, w) => c = tree
    BY DEF ClosedTree
  <2> HIDE DEF c
  <2>5. c \in Tree /\ w \in c.live \ {Root}
    BY <1>3, <2>2 DEF TreeOK, Alike
  <2>6. p \in Pic /\ Regions(p, c)
    BY <2>1, <2>3, <2>5, RefocusedKeeps, KeptRegions
  <2>7. PICK new : new = ResizedPic(p, c, w, s)
    OBVIOUS
  <2>8. new \in Pic /\ Regions(new, c)
    BY <1>3, <2>5, <2>6, <2>7, ResizedPicKeeps, KeptRegions
  <2>9. ~Mapped(c, w)
    <3>1. CASE Mapped(tree, w)
      BY <1>3, <2>2, <3>1 DEF Mapped
    <3>2. CASE ~Mapped(tree, w)
      BY <2>4, <3>2
    <3> QED
      BY <3>1, <3>2
  <2>10. Regions(new, Sized(c, w, s))
    BY <1>3, <2>2, <2>5, <2>8, <2>9, SizedRegions
  <2>11. CASE Mapped(tree, w)
    <3>1. PICK t2 : t2 = Sized(c, w, s)
      OBVIOUS
    <3>2. /\ TreeOK(t2) /\ t2.is_open = c.is_open /\ t2.at = c.at
          /\ t2.size = [c.size EXCEPT ![w] = s] /\ Alike(c, t2) /\ t2.childs = c.childs
      BY <1>3, <2>2, <2>5, <3>1, SizedTree DEF Elsewhere
    <3>3. Alike(t2, u) /\ u.childs = t2.childs /\ u.at = t2.at /\ u.size = t2.size /\ w \in t2.live \ {Root}
      BY <1>5, <2>2, <2>5, <3>2 DEF Alike
    <3>4. \A x \in Id \ {w} : u.is_open[x] <=> t2.is_open[x]
      BY <1>5, <2>2, <3>2
    <3>5. ~t2.is_open[w] /\ u.is_open[w]
      BY <1>3, <1>5, <1>6, <2>2, <2>11, <3>2
    <3>6. w \in Subtree(t2, w) /\ Subtree(t2, w) \subseteq Id
      BY <3>2, <3>3, ParentApart, TreeFields DEF TreeOK
    <3>7. Elsewhere(t2, u, w)
      <4>1. \A x \in Id \ Subtree(t2, w) : Same(t2, u, x)
        BY <3>3, <3>4, <3>6 DEF Same
      <4> QED
        BY <3>3, <4>1 DEF Elsewhere
    <3>8. \A x \in Subtree(t2, w) \ {w} : u.is_open[x] <=> t2.is_open[x]
      BY <3>4, <3>6
    <3>9. OpenedPic(new, u, w) \in Pic /\ Regions(OpenedPic(new, u, w), u)
      BY <1>5, <2>8, <2>10, <3>1, <3>2, <3>3, <3>5, <3>7, <3>8, OpenStep
    <3>10. Kept(OpenedPic(new, u, w), q)
      BY <1>5, <2>1, <2>7, <2>11, <3>9, RefocusedKeeps DEF TreeOK
    <3> QED
      BY <1>1, <1>2, <1>5, <3>9, <3>10, KeptRegions
  <2>12. CASE ~Mapped(tree, w)
    BY <1>1, <1>2, <1>4, <1>5, <2>1, <2>4, <2>7, <2>8, <2>10, <2>12
  <2> QED
    BY <2>11, <2>12
<1>7. CASE ~tree.is_open[w]
  <2>1. q = ResizedPic(pic, tree, w, s)
    BY <1>1, <1>2, <1>7 DEF Resize
  <2>2. Kept(pic, q)
    BY <1>3, <2>1, ResizedPicKeeps
  <2>3. Regions(pic, u)
    BY <1>3, <1>4, <1>7, SizedRegions DEF Mapped
  <2> QED
    BY <1>1, <1>2, <1>5, <2>2, <2>3, KeptRegions
<1> QED
  BY <1>6, <1>7

\* A drawing request, client_plot() and its likes, changes no region.
LEMMA DrawStep ==
  ASSUME TreeOK(tree), pic \in Pic, Regions(pic, tree),
         NEW w \in Id, NEW part \in Parts(w), Draw(w, part)
  PROVE  TreeOK(tree') /\ pic' \in Pic /\ Regions(pic', tree')
<1>1. tree \in Tree /\ tree' = tree /\ pic' = Paint(pic, tree, w, part)
  BY DEF Draw, TreeOK
<1>2. part \in SUBSET Point
  <2>1. WorkCells(tree, w) \subseteq Point
    BY <1>1, CellsPoints
  <2>2. Edge(w) \in Point
    BY SizesAreExtents DEF Edge
  <2> QED
    BY <2>1, <2>2 DEF Parts
<1>3. PICK q : q = pic'
  OBVIOUS
<1>4. Kept(pic, q)
  BY <1>1, <1>2, <1>3, PaintKeeps
<1>5. q \in Pic /\ Regions(q, tree)
  BY <1>4, KeptRegions
<1> QED
  BY <1>1, <1>3, <1>5

\* event_mousemove() changes no region.
LEMMA MouseMoveStep ==
  ASSUME TreeOK(tree), pic \in Pic, Regions(pic, tree), MouseMove
  PROVE  TreeOK(tree') /\ pic' \in Pic /\ Regions(pic', tree')
<1>1. tree \in Tree /\ tree' = tree
  BY DEF MouseMove, TreeOK
<1>2. PICK q : q = pic'
  OBVIOUS
<1>3. q \in Refocused(pic, tree)
  BY <1>2 DEF MouseMove
<1>4. q \in Pic /\ Regions(q, tree)
  BY <1>1, <1>3, RefocusedKeeps, KeptRegions
<1> QED
  BY <1>1, <1>2, <1>4

\* windowRedrawAllIfDirty() changes no region.
LEMMA RedrawAllStep ==
  ASSUME TreeOK(tree), pic \in Pic, Regions(pic, tree), RedrawAllIfDirty
  PROVE  TreeOK(tree') /\ pic' \in Pic /\ Regions(pic', tree')
<1> DEFINE Due(w, c) == tree.is_open[w] /\ Minus(c, tree.at[w]) \in pic.dirty[w]
           Copy(w, r) == IF r \in pic.bitmap[w] THEN <<w, r>> ELSE Stale
           scr == [c \in Display |->
                    IF \E w \in tree.live : c \in pic.vis[w] /\ Due(w, c)
                    THEN LET w == CHOOSE x \in tree.live : c \in pic.vis[x] /\ Due(x, c)
                         IN  Copy(w, Minus(c, tree.at[w]))
                    ELSE pic.screen[c]]
           dirt == [w \in Id |-> {}]
           q == [[pic EXCEPT !.screen = scr] EXCEPT !.dirty = dirt]
<1>1. pic' = q /\ tree' = tree
  BY DEF RedrawAllIfDirty, Blit, Pic
<1>2. tree \in Tree /\ tree.live \subseteq Id
  BY TreeFields DEF TreeOK
<1>3. \A w \in Id, c \in Point : Copy(w, Minus(c, tree.at[w])) \in (Id \union {NoWin}) \X Point
  BY <1>2, CellsShown
<1> HIDE DEF Copy, Due
<1>4. ASSUME NEW c \in Display
      PROVE  scr[c] \in (Id \union {NoWin}) \X Point
  <2>1. CASE \E w \in tree.live : c \in pic.vis[w] /\ Due(w, c)
    <3> DEFINE w == CHOOSE x \in tree.live : c \in pic.vis[x] /\ Due(x, c)
    <3>1. w \in tree.live
      BY <2>1
    <3>2. scr[c] = Copy(w, Minus(c, tree.at[w]))
      BY <2>1
    <3> HIDE DEF w
    <3>3. w \in Id /\ c \in Point
      BY <1>2, <3>1, DisplayPoints
    <3>4. Copy(w, Minus(c, tree.at[w])) \in (Id \union {NoWin}) \X Point
      BY <1>3, <3>3
    <3> QED
      BY <3>2, <3>4
  <2>2. CASE ~\E w \in tree.live : c \in pic.vis[w] /\ Due(w, c)
    <3>1. scr[c] = pic.screen[c]
      BY <2>2
    <3> QED
      BY <3>1, PicFields
  <2> QED
    BY <2>1, <2>2
<1>5. scr \in [Display -> (Id \union {NoWin}) \X Point]
  <2> DEFINE F(c) == scr[c]
  <2>1. scr = [c \in Display |-> F(c)]
    OBVIOUS
  <2> HIDE DEF scr
  <2> QED
    BY <1>4, <2>1
<1>6. dirt \in [Id -> SUBSET Point]
  OBVIOUS
<1> HIDE DEF scr, dirt
<1>7. Kept(pic, q)
  BY <1>5, <1>6 DEF Kept, Pic
<1> HIDE DEF q
<1>8. q \in Pic /\ Regions(q, tree)
  BY <1>7, KeptRegions
<1> QED
  BY <1>1, <1>8

\* The first tree, with the root window and the background.
LEMMA InitTree ==
  ASSUME Init
  PROVE  TreeOK(tree)
<1>1. /\ tree.live = {Root, Background}
      /\ tree.parent = [w \in Id |-> IF w = Background THEN Root ELSE NoWin]
      /\ tree.childs = [w \in Id |-> IF w = Root THEN <<Background>> ELSE <<>>]
      /\ tree.is_open = [w \in Id |-> w \in {Root, Background}]
      /\ tree.at = [w \in Id |-> <<0, 0>>]
      /\ tree.size = [w \in Id |-> ScreenSize]
  BY DEF Init
<1>2. Root \in Id /\ Background \in Id /\ Root # Background /\ NoWin \notin Id
  BY WindowAssumption DEF Id, Root, Background
<1>3. tree \in Tree
  <2>1. /\ tree.live \in SUBSET Id /\ tree.parent \in [Id -> Id \union {NoWin}]
        /\ tree.is_open \in [Id -> BOOLEAN]
        /\ tree.at \in [Id -> Point] /\ tree.size \in [Id -> Extent]
    BY <1>1, <1>2, SizesAreExtents
  <2>2. <<Background>> \in Seq(Id) /\ <<>> \in Seq(Id)
    BY <1>2
  <2>3. tree.childs \in [Id -> Seq(Id)]
    BY <1>1, <2>2
  <2>4. tree = [live |-> tree.live, parent |-> tree.parent, childs |-> tree.childs,
                is_open |-> tree.is_open, at |-> tree.at, size |-> tree.size]
    BY DEF Init
  <2> QED
    BY <2>1, <2>3, <2>4 DEF Tree
<1>4. Founded(tree)
  <2> SUFFICES ASSUME NEW S \in SUBSET Id, S # {} PROVE \E x \in S : tree.parent[x] \notin S
    BY DEF Founded
  <2>1. CASE Root \in S
    BY <1>1, <1>2, <2>1
  <2>2. CASE Root \notin S
    BY <1>1, <1>2, <2>2
  <2> QED
    BY <2>1, <2>2
<1>5. ASSUME NEW w \in Id
      PROVE  Nodup(tree.childs[w]) /\ Childs(tree, w) = {x \in tree.live : tree.parent[x] = w}
  <2>1. CASE w = Root
    <3>1. tree.childs[w] = <<Background>>
      BY <1>1, <1>2, <2>1
    <3>2. Nodup(<<Background>>) /\ Elements(<<Background>>) = {Background}
      BY <1>2, OneMeans
    <3>3. Childs(tree, w) = {Background}
      BY <3>1, <3>2 DEF Childs, Elements
    <3>4. {x \in tree.live : tree.parent[x] = w} = {Background}
      BY <1>1, <1>2, <2>1
    <3> QED
      BY <3>1, <3>2, <3>3, <3>4
  <2>2. CASE w # Root
    <3>1. tree.childs[w] = <<>>
      BY <1>1, <2>2
    <3>2. Nodup(tree.childs[w]) /\ Childs(tree, w) = {}
      BY <3>1 DEF Nodup, Childs
    <3> QED
      BY <1>1, <1>2, <2>2, <3>2
  <2> QED
    BY <2>1, <2>2
<1> QED
  BY <1>1, <1>2, <1>3, <1>4, <1>5 DEF TreeOK

\* At first the background is all that is visible.
LEMMA InitRegions ==
  ASSUME Init
  PROVE  pic \in Pic /\ Regions(pic, tree)
<1>1. /\ pic.vis = [w \in Id |-> IF w = Background THEN Display ELSE {}]
      /\ pic.is_hidden = [w \in Id |-> w = Root]
      /\ pic.is_dirty = [w \in Id |-> FALSE]
      /\ pic.dirty = [w \in Id |-> {}]
      /\ pic.bitmap = [w \in Id |-> Display]
      /\ pic.screen = [c \in Display |-> <<Background, c>>]
      /\ pic = [vis |-> pic.vis, is_hidden |-> pic.is_hidden, is_dirty |-> pic.is_dirty,
                dirty |-> pic.dirty, bitmap |-> pic.bitmap, screen |-> pic.screen]
  BY DEF Init
<1>2. Root \in Id /\ Background \in Id /\ Root # Background /\ NoWin \notin Id
  BY WindowAssumption DEF Id, Root, Background
<1>3. pic \in Pic
  <2>1. /\ pic.vis \in [Id -> SUBSET Point] /\ pic.is_hidden \in [Id -> BOOLEAN]
        /\ pic.is_dirty \in [Id -> BOOLEAN] /\ pic.dirty \in [Id -> SUBSET Point]
        /\ pic.bitmap \in [Id -> SUBSET Point]
    BY <1>1, <1>2, DisplayPoints
  <2>2. pic.screen \in [Display -> (Id \union {NoWin}) \X Point]
    BY <1>1, <1>2, DisplayPoints
  <2> QED
    BY <1>1, <2>1, <2>2 DEF Pic
<1>4. /\ TreeOK(tree) /\ tree \in Tree /\ tree.live = {Root, Background}
      /\ \A w \in Id : tree.is_open[w] <=> w \in {Root, Background}
      /\ tree.parent[Background] = Root
      /\ tree.at[Background] = <<0, 0>> /\ tree.size[Background] = ScreenSize
      /\ tree.childs[Root] = <<Background>> /\ tree.childs[Background] = <<>>
  BY <1>2, InitTree DEF Init, TreeOK
<1>5. /\ Pos(tree, Root) = Display /\ Work(tree, Root) = Display
      /\ Ancestors(tree, Root) = {} /\ Left(tree, Root) = {}
  BY <1>2, <1>4, RootAbove
<1>6. Pos(tree, Background) = Display
  <2>1. Edge(Background) = <<0, 0>>
    BY WindowAssumption DEF Edge
  <2>2. ScreenSize \in Point /\ Plus(<<0, 0>>, <<0, 0>>) = <<0, 0>>
    BY SizesAreExtents DEF Point, Extent, Plus
  <2>3. Plus(ScreenSize, <<0, 0>>) = ScreenSize
    BY <2>2 DEF Plus, Point
  <2> QED
    BY <1>4, <2>1, <2>2, <2>3 DEF Pos, Full, Display
<1>7. Childs(tree, Root) = {Background} /\ Childs(tree, Background) = {}
  BY <1>2, <1>4 DEF TreeOK
<1>8. Ancestors(tree, Background) = {Root} /\ Line(tree, Background) = {Root, Background}
  BY <1>2, <1>4, <1>5, LineStep DEF Line
<1>9. \A x : x \notin Left(tree, Background)
  <2>1. \A x : ~Higher(tree, x, Background)
    BY <1>2, <1>4, OneMeans DEF Higher, Before
  <2> QED
    BY <1>2, <1>4, <2>1, LeftMeans
<1>10. \A c : c \notin Build(tree, Root)
  <2> SUFFICES ASSUME NEW c, c \in Build(tree, Root) PROVE FALSE
    OBVIOUS
  <2>1. c \in Pos(tree, Root) /\ ~ByChild(tree, Root, c)
    BY BuildMeans
  <2> QED
    BY <1>2, <1>4, <1>5, <1>6, <1>7, <2>1 DEF ByChild
<1>11. \A c : c \in Build(tree, Background) <=> c \in Display
  <2> TAKE c
  <2>1. c \in Display => Inside(tree, Background, c)
    BY <1>2, <1>4, <1>5, <1>8 DEF Inside
  <2>2. ~Covered(tree, Background, c)
    BY <1>5, <1>8, <1>9 DEF Covered
  <2>3. ~ByChild(tree, Background, c)
    BY <1>7 DEF ByChild
  <2> QED
    BY <1>6, <2>1, <2>2, <2>3, BuildMeans
<1>12. ASSUME NEW y \in Id
       PROVE  Exact(pic, tree, y)
  <2>1. CASE y = Root
    <3>1. Build(tree, Root) = {}
      BY <1>10
    <3>2. pic.vis[Root] = {} /\ pic.is_hidden[Root]
      BY <1>1, <1>2
    <3>3. Pos(tree, Root) # {}
      BY <1>2, <1>4, PosFacts
    <3> QED
      BY <2>1, <3>1, <3>2, <3>3 DEF Exact
  <2>2. CASE y = Background
    <3>1. Build(tree, Background) = Display
      BY <1>11
    <3>2. pic.vis[Background] = Display /\ ~pic.is_hidden[Background]
      BY <1>1, <1>2
    <3> QED
      BY <1>4, <1>6, <2>2, <3>1, <3>2 DEF Exact
  <2>3. CASE y \notin {Root, Background}
    BY <1>1, <1>4, <2>3 DEF Exact
  <2> QED
    BY <2>1, <2>2, <2>3
<1> QED
  BY <1>3, <1>12 DEF Regions

-----------------------------------------------------------------------------
(* What holds in every state.                                              *)

\* The windows form a tree, and every rectangle list is what the tree says.
SInv == TreeOK(tree) /\ pic \in Pic /\ Regions(pic, tree)

LEMMA InvInit == Init => SInv
  BY InitTree, InitRegions DEF SInv

LEMMA InvStep == SInv /\ [Next]_vars => SInv'
<1> SUFFICES ASSUME SInv, [Next]_vars PROVE SInv'
  OBVIOUS
<1>1. TreeOK(tree) /\ pic \in Pic /\ Regions(pic, tree)
  BY DEF SInv
<1>2. CASE Next
  <2>1. CASE \E w \in Window : \E par \in Id, s \in Sizes : Create(w, par, s)
    BY <1>1, <2>1, CreateStep DEF SInv
  <2>2. CASE \E w \in Window : \E x \in Positions : Open(w, x)
    BY <1>1, <2>2, OpenAction DEF SInv
  <2>3. CASE \E w \in Window : \E x \in Positions : Move(w, x)
    BY <1>1, <2>3, MoveAction DEF SInv
  <2>4. CASE \E w \in Window : Close(w)
    BY <1>1, <2>4, CloseAction DEF SInv
  <2>5. CASE \E w \in Window : Delete(w)
    BY <1>1, <2>5, DeleteStep DEF SInv
  <2>6. CASE \E w \in Window : TopDown(w)
    BY <1>1, <2>6, TopDownStep DEF SInv
  <2>7. CASE \E w \in Window : \E s \in Sizes : Resize(w, s)
    BY <1>1, <2>7, ResizeAction DEF SInv
  <2>8. CASE \E w \in Id : \E part \in Parts(w) : Draw(w, part)
    BY <1>1, <2>8, DrawStep DEF SInv
  <2>9. CASE MouseMove
    BY <1>1, <2>9, MouseMoveStep DEF SInv
  <2>10. CASE RedrawAllIfDirty
    BY <1>1, <2>10, RedrawAllStep DEF SInv
  <2> QED
    BY <1>2, <2>1, <2>2, <2>3, <2>4, <2>5, <2>6, <2>7, <2>8, <2>9, <2>10 DEF Next
<1>3. CASE UNCHANGED vars
  BY <1>1, <1>3 DEF SInv, vars
<1> QED
  BY <1>2, <1>3

\* After any requests the windows form a tree, and the rectangle list of each, that
\* is only rebuilt where window_open() and its likes think it necessary, is the one
\* that window_build_recs() would compute from the whole tree.
THEOREM RegionsCorrect == Spec => []SInv
<1>1. Init => SInv
  BY InvInit
<1>2. SInv /\ [Next]_vars => SInv'
  BY InvStep
<1> QED
  BY <1>1, <1>2, PTL DEF Spec

\* is_hidden, by which a drawing request goes to the screen or to the bitmap, tells
\* whether any cell of an open window is out of sight.
THEOREM HiddenCorrect == Spec => []HiddenExact
<1>1. SInv => HiddenExact
  <2> SUFFICES ASSUME SInv, NEW w \in tree.live, tree.is_open[w]
               PROVE  pic.is_hidden[w] <=> pic.vis[w] # Pos(tree, w)
    BY DEF HiddenExact
  <2>1. w \in Id
    BY TreeFields DEF SInv, TreeOK
  <2> QED
    BY <2>1 DEF SInv, Regions, Exact
<1> QED
  BY <1>1, RegionsCorrect, PTL

-----------------------------------------------------------------------------
(* window_find() and the rectangle lists.                                  *)

\* A set of natural numbers has a least one.
LEMMA LeastExists ==
  ASSUME NEW S \in SUBSET Nat, S # {}
  PROVE  \E x \in S : \A y \in S : x <= y
<1>1. \E x \in S : \A y \in S : ~(<<y, x>> \in OpToRel(<, Nat))
  BY WFMin, NatLessThanWellFounded
<1>2. \A x \in S, y \in S : y < x => <<y, x>> \in OpToRel(<, Nat)
  BY DEF OpToRel
<1>3. \A x \in S, y \in S : ~(y < x) => x <= y
  OBVIOUS
<1> QED
  BY <1>1, <1>2, <1>3

\* Following nx as long as one is in G: the recursion defines something, since where
\* it ends is in every set around the start that nx does not lead out of.
LEMMA Followed ==
  ASSUME NEW G \in SUBSET Id, NEW nx, \A w \in G : nx[w] \in Id
  PROVE  \E f : f = [w \in Id |-> IF w \in G THEN f[nx[w]] ELSE w]
<1> DEFINE Closed(S) == \A x \in S : x \in G => nx[x] \in S
           R(w) == {y \in Id : \A S \in SUBSET Id : w \in S /\ Closed(S) => y \in S}
           End(w) == CHOOSE y : y \in R(w) \ G
           F == [w \in Id |-> End(w)]
<1>1. ASSUME NEW w \in G
      PROVE  R(w) \ G = R(nx[w]) \ G
  <2>1. w \in Id /\ nx[w] \in Id
    OBVIOUS
  <2>2. R(nx[w]) \subseteq R(w)
    BY <2>1
  <2>3. nx[w] \in R(nx[w]) /\ {w} \union R(nx[w]) \in SUBSET Id
    BY <2>1
  <2>4. Closed({w} \union R(nx[w]))
    <3> SUFFICES ASSUME NEW x \in {w} \union R(nx[w]), x \in G
                 PROVE  nx[x] \in R(nx[w])
      OBVIOUS
    <3>1. CASE x = w
      BY <2>3, <3>1
    <3>2. CASE x \in R(nx[w])
      BY <2>1, <3>2
    <3> QED
      BY <3>1, <3>2
  <2>5. R(w) \subseteq {w} \union R(nx[w])
    BY <2>3, <2>4
  <2> HIDE DEF R
  <2> QED
    BY <2>2, <2>5
<1>2. ASSUME NEW w \in Id \ G
      PROVE  R(w) \ G = {w}
  <2>1. {w} \in SUBSET Id /\ Closed({w})
    OBVIOUS
  <2>2. \A y \in R(w) : y = w
    BY <2>1
  <2>3. w \in R(w)
    OBVIOUS
  <2> QED
    BY <2>2, <2>3
<1> HIDE DEF R
<1>3. \A w \in Id : End(w) = IF w \in G THEN F[nx[w]] ELSE w
  <2> SUFFICES ASSUME NEW w \in Id PROVE End(w) = IF w \in G THEN F[nx[w]] ELSE w
    OBVIOUS
  <2>1. CASE w \in G
    <3>1. F[nx[w]] = End(nx[w])
      BY <2>1
    <3>2. R(w) \ G = R(nx[w]) \ G
      BY <1>1, <2>1
    <3> QED
      BY <2>1, <3>1, <3>2
  <2>2. CASE w \notin G
    <3>1. R(w) \ G = {w}
      BY <1>2, <2>2
    <3> QED
      BY <2>2, <3>1
  <2> QED
    BY <2>1, <2>2
<1>4. F = [w \in Id |-> IF w \in G THEN F[nx[w]] ELSE w]
  <2> HIDE DEF End
  <2>1. \A w \in Id : F[w] = End(w)
    OBVIOUS
  <2>2. F = [w \in Id |-> F[w]]
    OBVIOUS
  <2> HIDE DEF F
  <2> QED
    BY <1>3, <2>1, <2>2
<1> HIDE DEF F
<1> QED
  BY <1>4

\* An open window around c, and the topmost of them among the childs of a window.
HitBy(t, x, c) == t.is_open[x] /\ c \in Pos(t, x)
Topmost(t, w, c) == {x \in Childs(t, w) : HitBy(t, x, c) /\ \A y \in Left(t, x) : ~HitBy(t, y, c)}
\* The search goes on below w.
GoesOn(t, w, c) == c \in Work(t, w) /\ Topmost(t, w, c) # {}

LEMMA SearchExists ==
  ASSUME NEW t, TreeOK(t), NEW c
  PROVE  \E f : /\ f = [w \in Id |-> IF GoesOn(t, w, c) THEN f[CHOOSE x \in Topmost(t, w, c) : TRUE] ELSE w]
                /\ Found(t, c) = f[Root]
<1> DEFINE G == {w \in Id : GoesOn(t, w, c)}
           Next0(w) == CHOOSE x \in Topmost(t, w, c) : TRUE
           nx == [w \in Id |-> Next0(w)]
           Rec(f) == f = [w \in Id |-> IF GoesOn(t, w, c) THEN f[Next0(w)] ELSE w]
           find == CHOOSE f : Rec(f)
<1>1. \A w \in G : Next0(w) \in Topmost(t, w, c)
  BY DEF GoesOn
<1>2. \A w \in Id : Topmost(t, w, c) \subseteq Id
  BY TreeFields DEF Topmost, TreeOK
<1>3. Found(t, c) = find[Root]
  BY DEF Found, GoesOn, Topmost, HitBy
<1> HIDE DEF Next0
<1>4. G \in SUBSET Id /\ \A w \in G : nx[w] \in Id
  BY <1>1, <1>2
<1>5. PICK f : f = [w \in Id |-> IF w \in G THEN f[nx[w]] ELSE w]
  <2> HIDE DEF G, nx
  <2> QED
    BY <1>4, Followed
<1>6. Rec(f)
  <2>1. \A w \in Id : (IF w \in G THEN f[nx[w]] ELSE w) = (IF GoesOn(t, w, c) THEN f[Next0(w)] ELSE w)
    OBVIOUS
  <2>2. [w \in Id |-> IF w \in G THEN f[nx[w]] ELSE w]
        = [w \in Id |-> IF GoesOn(t, w, c) THEN f[Next0(w)] ELSE w]
    <3> HIDE DEF G, nx
    <3> QED
      BY <2>1
  <2> HIDE DEF G, nx
  <2> QED
    BY <1>5, <2>2
<1>7. Rec(find)
  <2> HIDE DEF Rec
  <2> QED
    BY <1>6
<1> HIDE DEF find
<1> QED
  BY <1>3, <1>7 DEF Next0

\* The childs of a window have it as their parent and are not the root.
LEMMA ChildsMeans ==
  ASSUME NEW t, TreeOK(t), NEW w \in Id, NEW x \in Childs(t, w)
  PROVE  x \in t.live \ {Root} /\ t.parent[x] = w /\ x \in Id
<1>1. t \in Tree /\ t.parent[Root] = NoWin /\ Childs(t, w) = {z \in t.live : t.parent[z] = w}
  BY DEF TreeOK
<1>2. NoWin \notin Id /\ t.live \subseteq Id
  BY <1>1, TreeFields
<1> QED
  BY <1>1, <1>2

\* The search has one way to go, if it has any.
LEMMA TopmostOne ==
  ASSUME NEW t, TreeOK(t), NEW w \in Id, NEW c, NEW x \in Topmost(t, w, c), NEW y \in Topmost(t, w, c)
  PROVE  x = y
<1>1. /\ x \in t.live \ {Root} /\ t.parent[x] = w
      /\ y \in t.live \ {Root} /\ t.parent[y] = w
  BY ChildsMeans DEF Topmost
<1>2. x = y \/ y \in Left(t, x) \/ x \in Left(t, y)
  BY <1>1, SiblingsOf
<1> QED
  BY <1>2 DEF Topmost

LEMMA TopmostExists ==
  ASSUME NEW t, TreeOK(t), NEW w \in Id, NEW c, NEW x \in Childs(t, w), HitBy(t, x, c)
  PROVE  Topmost(t, w, c) # {}
<1> DEFINE s == t.childs[w]
           J == {i \in DOMAIN s : HitBy(t, s[i], c)}
<1>1. s \in Seq(Id) /\ Nodup(s)
  BY TreeFields DEF TreeOK
<1>2. Childs(t, w) = {s[i] : i \in DOMAIN s}
  BY DEF Childs
<1> HIDE DEF s
<1>3. J \in SUBSET Nat /\ J # {}
  BY <1>1, <1>2
<1>4. PICK i \in J : \A j \in J : i <= j
  BY <1>3, LeastExists
<1>5. s[i] \in Childs(t, w) /\ HitBy(t, s[i], c)
  BY <1>2
<1>6. s[i] \in t.live \ {Root} /\ t.parent[s[i]] = w
  BY <1>5, ChildsMeans
<1>7. ASSUME NEW y \in Left(t, s[i]), HitBy(t, y, c)
      PROVE  FALSE
  <2>1. Higher(t, y, s[i])
    BY <1>6, LeftMeans
  <2>2. PICK k, j \in DOMAIN s : k < j /\ s[k] = y /\ s[j] = s[i]
    BY <1>6, <2>1 DEF Higher, s
  <2>3. j = i
    BY <1>1, <2>2 DEF Nodup
  <2>4. k \in J
    BY <1>7, <2>2
  <2>5. i <= k /\ k < i /\ i \in Nat /\ k \in Nat
    BY <1>3, <1>4, <2>2, <2>3, <2>4
  <2> QED
    BY <2>5
<1>8. s[i] \in Topmost(t, w, c)
  BY <1>5, <1>7 DEF Topmost
<1> QED
  BY <1>8

\* The search, from the root, comes by all that a window lies in of which the cell is
\* visible, and ends there.
LEMMA VisibleFound ==
  ASSUME NEW t, TreeOK(t), NEW c, NEW f,
         f = [w \in Id |-> IF GoesOn(t, w, c) THEN f[CHOOSE x \in Topmost(t, w, c) : TRUE] ELSE w],
         NEW y \in t.live, t.is_open[y], c \in Build(t, y)
  PROVE  f[Root] = y
<1>1. t \in Tree /\ Founded(t) /\ t.live \subseteq Id /\ Root \in Id /\ y \in Id
  BY TreeFields DEF TreeOK, Id
<1>2. c \in Pos(t, y) /\ Inside(t, y, c) /\ ~Covered(t, y, c) /\ ~ByChild(t, y, c)
  BY BuildMeans
<1>3. \A a \in Line(t, y) : HitBy(t, a, c) /\ (a # y => c \in Work(t, a))
  BY <1>2, BuildWithin DEF HitBy, Line
<1>4. \A w \in Id : f[w] = IF GoesOn(t, w, c) THEN f[CHOOSE x \in Topmost(t, w, c) : TRUE] ELSE w
  <2> DEFINE F(w) == IF GoesOn(t, w, c) THEN f[CHOOSE x \in Topmost(t, w, c) : TRUE] ELSE w
  <2>1. f = [w \in Id |-> F(w)]
    OBVIOUS
  <2> HIDE DEF F
  <2>2. \A w \in Id : f[w] = F(w)
    BY <2>1
  <2> QED
    BY <2>2 DEF F
<1>5. f[y] = y
  <2>1. ~GoesOn(t, y, c)
    BY <1>2 DEF GoesOn, Topmost, ByChild, HitBy
  <2> QED
    BY <1>1, <1>4, <2>1
<1>6. ASSUME NEW x \in Line(t, y) \ {Root}
      PROVE  t.parent[x] \in Line(t, y) /\ f[t.parent[x]] = f[x]
  <2> DEFINE q == t.parent[x]
  <2>1. x \in t.live \ {Root} /\ q \in t.live /\ q \in Ancestors(t, y)
    BY AncestorsLive
  <2>2. q \in Line(t, y) /\ q # y /\ q \in Id
    BY <1>1, <2>1, NotOwnAncestor DEF Line
  <2>3. x \in Childs(t, q)
    BY <2>1, <2>2 DEF TreeOK
  <2>4. \A z \in Left(t, x) : ~HitBy(t, z, c)
    BY <1>2 DEF Covered, HitBy
  <2>5. x \in Topmost(t, q, c)
    BY <1>3, <2>3, <2>4 DEF Topmost
  <2>6. GoesOn(t, q, c)
    BY <1>3, <2>2, <2>5 DEF GoesOn
  <2>7. (CHOOSE z \in Topmost(t, q, c) : TRUE) = x
    <3>1. \A z \in Topmost(t, q, c) : z = x
      BY <2>2, <2>5, TopmostOne
    <3> QED
      BY <2>5, <3>1
  <2> HIDE DEF q
  <2>8. f[q] = f[x]
    BY <1>4, <2>2, <2>6, <2>7
  <2> QED
    BY <2>2, <2>8 DEF q
<1> DEFINE S == {x \in Id : x \in Line(t, y) => f[x] = f[Root]}
<1>7. ASSUME NEW x \in Id, t.parent[x] \in Id => t.parent[x] \in S
      PROVE  x \in S
  <2>1. SUFFICES ASSUME x \in Line(t, y), x # Root PROVE f[x] = f[Root]
    OBVIOUS
  <2>2. t.parent[x] \in Line(t, y) /\ f[t.parent[x]] = f[x]
    BY <1>6, <2>1
  <2>3. t.parent[x] \in Id
    BY <1>1, <2>2, AncestorsIn DEF Line
  <2> QED
    BY <1>7, <2>2, <2>3
<1>8. S = Id
  <2>1. S \in SUBSET Id
    OBVIOUS
  <2> HIDE DEF S
  <2> QED
    BY <1>1, <1>7, <2>1, TreeInduction
<1>9. y \in Line(t, y)
  BY DEF Line
<1> QED
  BY <1>1, <1>5, <1>8, <1>9

\* There are finitely many windows.
LEMMA IdFinite == IsFiniteSet(Id)
<1>1. IsFiniteSet(Window \union {Root})
  BY WindowAssumption, FS_AddElement
<1>2. IsFiniteSet((Window \union {Root}) \union {Background})
  BY <1>1, FS_AddElement
<1>3. Id = (Window \union {Root}) \union {Background}
  BY DEF Id
<1> QED
  BY <1>2, <1>3

\* The search ends in a window of which the cell is visible: as it goes down, the
\* windows around grow in number.
LEMMA FoundVisible ==
  ASSUME NEW t, TreeOK(t), NEW c \in Display, NEW f,
         f = [w \in Id |-> IF GoesOn(t, w, c) THEN f[CHOOSE x \in Topmost(t, w, c) : TRUE] ELSE w]
  PROVE  f[Root] \in t.live /\ t.is_open[f[Root]] /\ c \in Build(t, f[Root])
<1> DEFINE Reached == {x \in t.live : /\ HitBy(t, x, c) /\ Inside(t, x, c) /\ ~Covered(t, x, c)
                                      /\ f[x] = f[Root]}
           Below(x) == Cardinality(Id) - Cardinality(Ancestors(t, x))
<1>1. t \in Tree /\ Founded(t) /\ t.live \subseteq Id /\ Root \in Id /\ Root \in t.live /\ t.is_open[Root]
  BY TreeFields DEF TreeOK, Id
<1>2. \A w \in Id : f[w] = IF GoesOn(t, w, c) THEN f[CHOOSE x \in Topmost(t, w, c) : TRUE] ELSE w
  <2> DEFINE F(w) == IF GoesOn(t, w, c) THEN f[CHOOSE x \in Topmost(t, w, c) : TRUE] ELSE w
  <2>1. f = [w \in Id |-> F(w)]
    OBVIOUS
  <2> HIDE DEF F
  <2>2. \A w \in Id : f[w] = F(w)
    BY <2>1
  <2> QED
    BY <2>2 DEF F
<1>3. Root \in Reached
  <2>1. Pos(t, Root) = Display /\ Ancestors(t, Root) = {} /\ Left(t, Root) = {}
    BY <1>1, RootAbove
  <2>2. HitBy(t, Root, c) /\ Inside(t, Root, c) /\ ~Covered(t, Root, c)
    BY <1>1, <2>1 DEF HitBy, Inside, Covered, Line
  <2> QED
    BY <1>1, <2>2
<1>4. ASSUME NEW x \in Id
      PROVE  /\ Below(x) \in Nat /\ IsFiniteSet(Ancestors(t, x))
             /\ Cardinality(Ancestors(t, x)) \in Nat /\ Cardinality(Id) \in Nat
  <2>1. Ancestors(t, x) \in SUBSET Id
    BY <1>1, AncestorsIn
  <2>2. IsFiniteSet(Ancestors(t, x)) /\ Cardinality(Ancestors(t, x)) <= Cardinality(Id)
    BY <2>1, IdFinite, FS_Subset
  <2>3. Cardinality(Ancestors(t, x)) \in Nat /\ Cardinality(Id) \in Nat
    BY <2>2, IdFinite, FS_CardinalityType
  <2> QED
    BY <2>2, <2>3
<1> DEFINE S == {Below(x) : x \in Reached}
<1>5. S \in SUBSET Nat /\ S # {}
  <2>1. Reached \subseteq Id
    BY <1>1
  <2> HIDE DEF Reached, Below
  <2> QED
    BY <1>3, <1>4, <2>1
<1>6. PICK n \in S : \A m \in S : n <= m
  <2> HIDE DEF S
  <2> QED
    BY <1>5, LeastExists
<1>7. PICK x \in Reached : n = Below(x)
  BY <1>6
<1>8. x \in t.live /\ x \in Id /\ HitBy(t, x, c) /\ Inside(t, x, c) /\ ~Covered(t, x, c) /\ f[x] = f[Root]
  BY <1>1, <1>7
<1>9. ~GoesOn(t, x, c)
  <2> SUFFICES ASSUME GoesOn(t, x, c) PROVE FALSE
    OBVIOUS
  <2> DEFINE y == CHOOSE z \in Topmost(t, x, c) : TRUE
  <2>1. y \in Topmost(t, x, c) /\ c \in Work(t, x)
    BY DEF GoesOn
  <2>2. f[y] = f[x]
    BY <1>2, <1>8
  <2> HIDE DEF y
  <2>3. /\ y \in Childs(t, x) /\ HitBy(t, y, c)
        /\ \A z \in Left(t, y) : ~HitBy(t, z, c)
    BY <2>1 DEF Topmost
  <2>4. y \in t.live \ {Root} /\ t.parent[y] = x /\ y \in Id
    BY <1>8, <2>3, ChildsMeans
  <2>5. Ancestors(t, y) = Line(t, x) /\ Line(t, y) = {y} \union Line(t, x)
    BY <2>4, LineStep
  <2>6. Inside(t, y, c)
    BY <1>8, <2>1, <2>5 DEF Inside, Line, HitBy
  <2>7. ~Covered(t, y, c)
    BY <1>8, <2>3, <2>5 DEF Covered, HitBy
  <2>8. y \in Reached
    BY <1>8, <2>2, <2>3, <2>4, <2>6, <2>7
  <2>9. Cardinality(Ancestors(t, y)) = Cardinality(Ancestors(t, x)) + 1
    <3>1. x \notin Ancestors(t, x) /\ IsFiniteSet(Ancestors(t, x))
      BY <1>1, <1>4, <1>8, NotOwnAncestor
    <3>2. Ancestors(t, y) = Ancestors(t, x) \union {x}
      BY <2>5 DEF Line
    <3> QED
      BY <3>1, <3>2, FS_AddElement
  <2>10. n <= Below(y)
    BY <1>6, <2>8
  <2> QED
    BY <1>4, <1>7, <1>8, <2>4, <2>9, <2>10
<1>10. f[x] = x
  BY <1>2, <1>8, <1>9
<1>11. ~ByChild(t, x, c)
  <2> SUFFICES ASSUME NEW z \in Childs(t, x), t.is_open[z], c \in Pos(t, z), c \in Work(t, x)
               PROVE  FALSE
    BY DEF ByChild
  <2>1. Topmost(t, x, c) # {}
    BY <1>8, TopmostExists DEF HitBy
  <2> QED
    BY <1>9, <2>1 DEF GoesOn
<1>12. c \in Build(t, x) /\ t.is_open[x]
  BY <1>8, <1>11, BuildMeans DEF HitBy
<1> QED
  BY <1>8, <1>10, <1>12

\* A cell is in the rectangle list of the window that window_find() finds by searching
\* the tree, and in no other; no list goes beyond the screen.
THEOREM VisibleCorrect == Spec => []VisibleExact
<1>1. SInv => VisibleExact
  <2> SUFFICES ASSUME SInv PROVE VisibleExact
    OBVIOUS
  <2>1. TreeOK(tree) /\ tree \in Tree /\ tree.live \subseteq Id
    BY TreeFields DEF SInv, TreeOK
  <2>2. \A w \in Id : pic.vis[w] = IF tree.is_open[w] THEN Build(tree, w) ELSE {}
    BY DEF SInv, Regions, Exact
  <2>3. \A w \in Id : tree.is_open[w] => w \in tree.live
    BY <2>1 DEF TreeOK
  <2>4. ASSUME NEW c \in Display
        PROVE  \A w \in Id : c \in pic.vis[w] <=> w = Found(tree, c)
    <3>1. PICK f : /\ f = [w \in Id |-> IF GoesOn(tree, w, c)
                                        THEN f[CHOOSE x \in Topmost(tree, w, c) : TRUE] ELSE w]
                   /\ Found(tree, c) = f[Root]
      BY <2>1, SearchExists
    <3>2. f[Root] \in tree.live /\ tree.is_open[f[Root]] /\ c \in Build(tree, f[Root])
      BY <2>1, <3>1, FoundVisible
    <3>3. \A w \in tree.live : tree.is_open[w] /\ c \in Build(tree, w) => w = f[Root]
      BY <2>1, <3>1, VisibleFound
    <3> QED
      BY <2>1, <2>2, <2>3, <3>1, <3>2, <3>3
  <2>5. ASSUME NEW w \in Id, NEW c \in pic.vis[w]
        PROVE  c \in Display
    <3>1. w \in tree.live /\ c \in Build(tree, w)
      BY <2>2, <2>3
    <3>2. Root \in Line(tree, w) /\ Pos(tree, Root) = Display
      BY <2>1, <3>1, RootAbove
    <3> QED
      BY <2>1, <3>1, <3>2, BuildWithin
  <2> QED
    BY <2>4, <2>5 DEF VisibleExact
<1> QED
  BY <1>1, RegionsCorrect, PTL

-----------------------------------------------------------------------------
(* Where the windows are.                                                  *)

\* An open window is where its client has last put it, also below a closed one.
Placed(t, put) ==
  \A y \in t.live \ {Root} : t.is_open[y] /\ put[y] # Astray =>
    Minus(t.at[y], t.at[t.parent[y]]) = Plus(put[y], Edge(t.parent[y]))

\* The distance of two windows that are moved together.
LEMMA MovedTogether ==
  ASSUME NEW a \in Point, NEW b \in Point, NEW d \in Point
  PROVE  /\ Minus(Plus(a, d), Plus(b, d)) = Minus(a, b)
         /\ Minus(Plus(a, b), a) = b
         /\ Plus(a, Plus(b, d)) = Plus(b, Plus(a, d))
         /\ Plus(a, Minus(b, a)) = b
<1>1. /\ a[1] \in Int /\ a[2] \in Int /\ b[1] \in Int /\ b[2] \in Int /\ d[1] \in Int /\ d[2] \in Int
      /\ b = <<b[1], b[2]>>
  BY PointParts
<1>2. /\ Plus(a, d) = <<a[1] + d[1], a[2] + d[2]>> /\ Plus(b, d) = <<b[1] + d[1], b[2] + d[2]>>
      /\ Plus(a, b) = <<a[1] + b[1], a[2] + b[2]>>
  BY DEF Plus
<1>3. Minus(Plus(a, d), Plus(b, d)) = <<(a[1] + d[1]) - (b[1] + d[1]), (a[2] + d[2]) - (b[2] + d[2])>>
  BY <1>2 DEF Minus
<1>4. Minus(Plus(a, b), a) = <<(a[1] + b[1]) - a[1], (a[2] + b[2]) - a[2]>>
  BY <1>2 DEF Minus
<1>5. /\ Plus(a, Plus(b, d)) = <<a[1] + (b[1] + d[1]), a[2] + (b[2] + d[2])>>
      /\ Plus(b, Plus(a, d)) = <<b[1] + (a[1] + d[1]), b[2] + (a[2] + d[2])>>
  BY DEF Plus
<1>6. Plus(a, Minus(b, a)) = <<a[1] + (b[1] - a[1]), a[2] + (b[2] - a[2])>>
  BY DEF Plus, Minus
<1>7. /\ (a[1] + d[1]) - (b[1] + d[1]) = a[1] - b[1] /\ (a[2] + d[2]) - (b[2] + d[2]) = a[2] - b[2]
      /\ (a[1] + b[1]) - a[1] = b[1] /\ (a[2] + b[2]) - a[2] = b[2]
      /\ a[1] + (b[1] + d[1]) = b[1] + (a[1] + d[1]) /\ a[2] + (b[2] + d[2]) = b[2] + (a[2] + d[2])
      /\ a[1] + (b[1] - a[1]) = b[1] /\ a[2] + (b[2] - a[2]) = b[2]
  BY <1>1
<1>8. Minus(a, b) = <<a[1] - b[1], a[2] - b[2]>>
  BY DEF Minus
<1> QED
  BY <1>1, <1>3, <1>4, <1>5, <1>6, <1>7, <1>8

\* window_open() and window_move(): w is put where the client says, and all the open
\* windows below it go with it, those below a closed one astray.
LEMMA PutPlaced ==
  ASSUME NEW t, NEW u, TreeOK(t), TreeOK(u), Alike(t, u), NEW w \in t.live \ {Root},
         NEW d \in Point, NEW x \in Point, Placed(t, asked),
         \A y \in Id \ {w} : u.is_open[y] <=> t.is_open[y],
         u.at[w] = Plus(x, Plus(t.at[t.parent[w]], Edge(t.parent[w]))),
         u.at[w] = Plus(t.at[w], d),
         \A y \in Id \ {w} : u.at[y] = IF y \in Subtree(t, w) /\ t.is_open[y]
                                       THEN Plus(t.at[y], d) ELSE t.at[y]
  PROVE  Placed(u, Put(t, w, x))
<1>1. t \in Tree /\ t.live \subseteq Id /\ \A y \in Id : t.at[y] \in Point /\ Edge(y) \in Point
  BY TreeFields, SizesAreExtents DEF TreeOK, Edge
<1>2. u.live = t.live /\ u.parent = t.parent
  BY DEF Alike
<1> SUFFICES ASSUME NEW y \in t.live \ {Root}, u.is_open[y], Put(t, w, x)[y] # Astray
             PROVE  Minus(u.at[y], u.at[t.parent[y]]) = Plus(Put(t, w, x)[y], Edge(t.parent[y]))
  BY <1>2 DEF Placed
<1> DEFINE q == t.parent[y]
<1>3. q \in t.live /\ q # y /\ Line(t, y) = {y} \union Line(t, q) /\ q \in Id /\ y \in Id
  BY <1>1, LineStep
<1>4. q \in Subtree(t, w) <=> w \in Line(t, q)
  BY <1>3, SubtreeMeans
<1>5. y \in Subtree(t, w) <=> w = y \/ w \in Line(t, q)
  BY <1>3, SubtreeMeans
<1>6. t.at[y] \in Point /\ t.at[q] \in Point /\ Edge(q) \in Point
  BY <1>1, <1>3
<1>7. CASE y = w
  <2>1. Put(t, w, x)[y] = x
    BY <1>3, <1>7 DEF Put
  <2>2. q \notin Subtree(t, w) /\ q # w
    BY <1>3, <1>7, ParentApart
  <2>3. u.at[q] = t.at[q]
    BY <1>3, <2>2
  <2>4. Plus(x, Plus(t.at[q], Edge(q))) = Plus(t.at[q], Plus(x, Edge(q)))
    BY <1>6, MovedTogether
  <2>5. Plus(x, Edge(q)) \in Point
    BY <1>6, PointMoves
  <2>6. Minus(Plus(t.at[q], Plus(x, Edge(q))), t.at[q]) = Plus(x, Edge(q))
    BY <1>6, <2>5, MovedTogether
  <2> QED
    BY <1>7, <2>1, <2>3, <2>4, <2>6
<1>8. CASE y # w /\ y \in Subtree(t, w)
  <2>1. t.is_open[y]
    BY <1>3, <1>8
  <2>2. q = w \/ t.is_open[q]
    BY <1>3, <1>8, <2>1 DEF Put
  <2>3. Put(t, w, x)[y] = asked[y]
    BY <1>3, <1>8, <2>2 DEF Put
  <2>4. u.at[y] = Plus(t.at[y], d)
    BY <1>3, <1>8, <2>1
  <2>5. u.at[q] = Plus(t.at[q], d)
    BY <1>3, <1>4, <1>5, <1>8, <2>2
  <2>6. Minus(u.at[y], u.at[q]) = Minus(t.at[y], t.at[q])
    BY <1>6, <2>4, <2>5, MovedTogether
  <2>7. Minus(t.at[y], t.at[q]) = Plus(asked[y], Edge(q))
    BY <2>1, <2>3 DEF Placed
  <2> QED
    BY <2>3, <2>6, <2>7
<1>9. CASE y \notin Subtree(t, w)
  <2>1. y # w /\ q # w /\ q \notin Subtree(t, w)
    BY <1>3, <1>4, <1>5, <1>9 DEF Line
  <2>2. Put(t, w, x)[y] = asked[y]
    BY <1>3, <1>9, <2>1 DEF Put
  <2>3. u.at[y] = t.at[y] /\ u.at[q] = t.at[q] /\ t.is_open[y]
    BY <1>3, <1>9, <2>1
  <2>4. Minus(t.at[y], t.at[q]) = Plus(asked[y], Edge(q))
    BY <2>2, <2>3 DEF Placed
  <2> QED
    BY <2>2, <2>3, <2>4
<1> QED
  BY <1>7, <1>8, <1>9

\* Where no window that stays open is moved, all are where they were put.
LEMMA StayPlaced ==
  ASSUME NEW t, NEW u, TreeOK(t), TreeOK(u), NEW put, NEW put1, Placed(t, put),
         \A y \in u.live \ {Root} : u.is_open[y] =>
           /\ y \in t.live /\ t.is_open[y] /\ put1[y] = put[y] /\ u.parent[y] = t.parent[y]
           /\ u.at[y] = t.at[y] /\ u.at[t.parent[y]] = t.at[t.parent[y]]
  PROVE  Placed(u, put1)
  BY DEF Placed

LEMMA OpenPlaced ==
  ASSUME TreeOK(tree), TreeOK(tree'), Placed(tree, asked),
         NEW w \in Window, NEW x \in Positions, Open(w, x)
  PROVE  Placed(tree', asked')
<1> DEFINE pos == Plus(x, Plus(tree.at[tree.parent[w]], Edge(tree.parent[w])))
           d == Minus(pos, tree.at[w])
<1>1. PICK u : u = tree'
  OBVIOUS
<1>2. /\ w \in tree.live \ {Root} /\ tree \in Tree /\ tree.live \subseteq Id /\ w \in Id
      /\ tree.parent[w] \in Id /\ ~tree.is_open[w]
  BY WindowAssumption, TreeFields DEF Open, TreeOK
<1>3. x \in Point /\ tree.at[w] \in Point
  BY <1>2, TreeFields, SizesAreExtents
<1>4. pos \in Point
  BY <1>2, <1>3, PlaceGiven
<1>5. u = OpenedTree(tree, w, pos) /\ asked' = Put(tree, w, x)
  BY <1>1 DEF Open
<1> HIDE DEF pos
<1>6. /\ TreeOK(u) /\ Alike(tree, u) /\ u.at[w] = pos
      /\ \A y \in Id \ {w} :
           /\ u.is_open[y] <=> tree.is_open[y]
           /\ u.at[y] = IF y \in Subtree(tree, w) /\ tree.is_open[y] THEN Plus(tree.at[y], d) ELSE tree.at[y]
  BY <1>2, <1>4, <1>5, OpenedTreeOK
<1>7. d \in Point /\ Plus(tree.at[w], d) = pos
  BY <1>3, <1>4, PointMoves, MovedTogether
<1> HIDE DEF d
<1>8. Placed(u, Put(tree, w, x))
  BY <1>2, <1>3, <1>6, <1>7, PutPlaced DEF pos
<1> QED
  BY <1>1, <1>5, <1>8

LEMMA MovePlaced ==
  ASSUME TreeOK(tree), TreeOK(tree'), Placed(tree, asked),
         NEW w \in Window, NEW x \in Positions, Move(w, x)
  PROVE  Placed(tree', asked')
<1> DEFINE pos == Plus(x, Plus(tree.at[tree.parent[w]], Edge(tree.parent[w])))
           d == Minus(pos, tree.at[w])
           S == Subtree(tree, w)
<1>1. PICK u : u = tree'
  OBVIOUS
<1>2. /\ w \in tree.live \ {Root} /\ tree \in Tree /\ tree.live \subseteq Id /\ w \in Id
      /\ tree.parent[w] \in Id /\ tree.is_open[w] /\ w \in S
  BY WindowAssumption, TreeFields, ParentApart DEF Move, TreeOK
<1>3. x \in Point /\ tree.at[w] \in Point
  BY <1>2, TreeFields, SizesAreExtents
<1>4. pos \in Point
  BY <1>2, <1>3, PlaceGiven
<1>5. u = Moved(tree, S, d) /\ asked' = Put(tree, w, x)
  BY <1>1 DEF Move
<1>6. S \in SUBSET Id /\ Root \notin S
  <2>1. Ancestors(tree, Root) = {} /\ Root \in tree.live
    BY RootAbove DEF TreeOK
  <2> QED
    BY <1>2, <2>1, SubtreeMeans DEF Line
<1> HIDE DEF pos
<1>7. d \in Point /\ Plus(tree.at[w], d) = pos
  BY <1>3, <1>4, PointMoves, MovedTogether
<1> HIDE DEF d, S
<1>8. /\ TreeOK(u) /\ Alike(tree, u) /\ u.is_open = tree.is_open
      /\ \A y \in Id : u.at[y] = IF y \in S /\ tree.is_open[y] THEN Plus(tree.at[y], d) ELSE tree.at[y]
  BY <1>5, <1>6, <1>7, MovedTree
<1>9. u.at[w] = pos
  BY <1>2, <1>7, <1>8
<1>10. Placed(u, Put(tree, w, x))
  BY <1>2, <1>3, <1>7, <1>8, <1>9, PutPlaced DEF pos, S
<1> QED
  BY <1>1, <1>5, <1>10

LEMMA ClosePlaced ==
  ASSUME TreeOK(tree), TreeOK(tree'), Placed(tree, asked), asked \in [Id -> Point \union {Astray}],
         NEW w \in Window, Close(w)
  PROVE  Placed(tree', asked')
<1>1. PICK u : u = tree'
  OBVIOUS
<1>2. PICK put : put = asked'
  OBVIOUS
<1>3. /\ w \in tree.live \ {Root} /\ w \in Id /\ u = ClosedTree(tree, w)
      /\ put = IF u.is_open[w] THEN asked ELSE [asked EXCEPT ![w] = <<0, 0>>]
  BY <1>1, <1>2, WindowAssumption DEF Close, Id
<1>4. /\ TreeOK(u) /\ Alike(tree, u) /\ u.at = tree.at
      /\ \A x \in Id : u.is_open[x] <=> tree.is_open[x] /\ ~(x = w /\ Mapped(tree, w))
  BY <1>3, ClosedTreeOK
<1>5. u.live \subseteq Id /\ u.live = tree.live /\ u.parent = tree.parent
  BY <1>4, TreeFields DEF TreeOK, Alike
<1>6. \A y \in u.live : u.is_open[y] => put[y] = asked[y] /\ tree.is_open[y]
  BY <1>3, <1>4, <1>5
<1>7. Placed(u, put)
  BY <1>4, <1>5, <1>6, StayPlaced
<1> QED
  BY <1>1, <1>2, <1>7

LEMMA DeletePlaced ==
  ASSUME TreeOK(tree), TreeOK(tree'), Placed(tree, asked), NEW w \in Window, Delete(w)
  PROVE  Placed(tree', asked')
<1>1. PICK u : u = tree'
  OBVIOUS
<1>2. PICK put : put = asked'
  OBVIOUS
<1>3. /\ w \in tree.live /\ u = Deleted(tree, w)
      /\ put = [x \in Id |-> IF x \in Subtree(tree, w) THEN <<0, 0>> ELSE asked[x]]
  BY <1>1, <1>2 DEF Delete, Deleted
<1>4. /\ TreeOK(u) /\ u.live = tree.live \ Subtree(tree, w)
      /\ \A x \in Id \ Subtree(tree, w) : /\ u.parent[x] = tree.parent[x] /\ u.at[x] = tree.at[x]
                                          /\ u.is_open[x] = tree.is_open[x]
  BY <1>3, DeletedTree
<1>5. tree.live \subseteq Id
  BY TreeFields DEF TreeOK
<1>6. ASSUME NEW y \in u.live \ {Root}, u.is_open[y]
      PROVE  /\ y \in tree.live /\ tree.is_open[y] /\ put[y] = asked[y] /\ u.parent[y] = tree.parent[y]
             /\ u.at[y] = tree.at[y] /\ u.at[tree.parent[y]] = tree.at[tree.parent[y]]
  <2>1. y \in Id \ Subtree(tree, w) /\ y \in tree.live
    BY <1>4, <1>5
  <2>2. u.parent[y] \in u.live
    BY <1>4 DEF TreeOK
  <2>3. tree.parent[y] \in Id \ Subtree(tree, w)
    BY <1>4, <1>5, <2>1, <2>2
  <2> QED
    BY <1>3, <1>4, <1>6, <2>1, <2>3
<1>7. Placed(u, put)
  BY <1>4, <1>6, StayPlaced
<1> QED
  BY <1>1, <1>2, <1>7

LEMMA CreatePlaced ==
  ASSUME TreeOK(tree), TreeOK(tree'), Placed(tree, asked),
         NEW w \in Window, NEW par \in Id, NEW s \in Sizes, Create(w, par, s)
  PROVE  Placed(tree', asked')
<1>1. PICK u : u = tree'
  OBVIOUS
<1>2. PICK put : put = asked'
  OBVIOUS
<1>3. /\ w \in Window \ tree.live /\ par \in tree.live /\ s \in Extent
      /\ u = Created(tree, w, par, s) /\ put = asked
  BY <1>1, <1>2, SizesAreExtents DEF Create, Created
<1>4. /\ TreeOK(u) /\ u.live = tree.live \union {w} /\ ~u.is_open[w]
      /\ \A x \in Id \ {w} : /\ u.parent[x] = tree.parent[x] /\ u.is_open[x] = tree.is_open[x]
                             /\ u.at[x] = tree.at[x]
  BY <1>3, CreatedTree
<1>5. tree.live \subseteq Id
  BY TreeFields DEF TreeOK
<1>6. ASSUME NEW y \in u.live \ {Root}, u.is_open[y]
      PROVE  /\ y \in tree.live /\ tree.is_open[y] /\ put[y] = asked[y] /\ u.parent[y] = tree.parent[y]
             /\ u.at[y] = tree.at[y] /\ u.at[tree.parent[y]] = tree.at[tree.parent[y]]
  <2>1. y \in Id \ {w} /\ y \in tree.live
    BY <1>4, <1>5, <1>6
  <2>2. tree.parent[y] \in tree.live
    BY <2>1 DEF TreeOK
  <2>3. tree.parent[y] \in Id \ {w}
    BY <1>3, <1>5, <2>2
  <2> QED
    BY <1>3, <1>4, <1>6, <2>1, <2>3
<1>7. Placed(u, put)
  BY <1>4, <1>6, StayPlaced
<1> QED
  BY <1>1, <1>2, <1>7

\* The other requests move no window.
LEMMA StillPlaced ==
  ASSUME TreeOK(tree), TreeOK(tree'), Placed(tree, asked),
         tree'.live = tree.live, tree'.parent = tree.parent, tree'.at = tree.at,
         tree'.is_open = tree.is_open, asked' = asked
  PROVE  Placed(tree', asked')
  BY DEF Placed

PInv == SInv /\ Placed(tree, asked) /\ asked \in [Id -> Point \union {Astray}]

LEMMA PlacedInit == Init => PInv
<1> SUFFICES ASSUME Init PROVE PInv
  OBVIOUS
<1>1. SInv
  BY InvInit
<1>2. asked = [w \in Id |-> <<0, 0>>] /\ asked \in [Id -> Point \union {Astray}]
  BY SizesAreExtents DEF Init
<1>3. Placed(tree, asked)
  <2> SUFFICES ASSUME NEW y \in tree.live \ {Root}
               PROVE  Minus(tree.at[y], tree.at[tree.parent[y]]) = Plus(asked[y], Edge(tree.parent[y]))
    BY DEF Placed
  <2>1. Root \in Id /\ Background \in Id /\ y = Background /\ tree.parent[y] = Root
    BY DEF Init, Id
  <2>2. tree.at[y] = <<0, 0>> /\ tree.at[Root] = <<0, 0>> /\ asked[y] = <<0, 0>>
    BY <1>2, <2>1 DEF Init
  <2>3. Edge(Root) = <<0, 0>>
    BY WindowAssumption DEF Edge
  <2>4. Minus(<<0, 0>>, <<0, 0>>) = Plus(<<0, 0>>, <<0, 0>>)
    BY DEF Minus, Plus
  <2> QED
    BY <2>1, <2>2, <2>3, <2>4
<1> QED
  BY <1>1, <1>2, <1>3 DEF PInv

\* What is remembered is a place, or that the window is astray.
LEMMA AskedStep ==
  ASSUME NEW S, Positions \union {<<0, 0>>} \subseteq S, asked \in [Id -> S \union {Astray}], Next
  PROVE  asked' \in [Id -> S \union {Astray}]
<1>1. <<0, 0>> \in S /\ Positions \subseteq S
  OBVIOUS
<1>2. \A t, w : \A x \in S : Put(t, w, x) \in [Id -> S \union {Astray}]
  BY DEF Put
<1>3. CASE \E w \in Window : \E x \in Positions : Open(w, x) \/ Move(w, x)
  BY <1>1, <1>2, <1>3 DEF Open, Move
<1>4. CASE \E w \in Window : Close(w)
  BY <1>1, <1>4 DEF Close
<1>5. CASE \E w \in Window : Delete(w)
  <2>1. PICK w \in Window : asked' = [x \in Id |-> IF x \in Subtree(tree, w) THEN <<0, 0>> ELSE asked[x]]
    BY <1>5 DEF Delete
  <2> QED
    BY <1>1, <2>1
<1>6. CASE \/ \E w \in Window : \/ \E par \in Id, s \in Sizes : Create(w, par, s)
                                \/ TopDown(w)
                                \/ \E s \in Sizes : Resize(w, s)
           \/ \E w \in Id : \E part \in Parts(w) : Draw(w, part)
           \/ MouseMove
           \/ RedrawAllIfDirty
  <2>1. \A w, par, s : Create(w, par, s) => asked' = asked
    BY DEF Create
  <2>2. \A w : TopDown(w) => asked' = asked
    BY DEF TopDown
  <2>3. \A w, s : Resize(w, s) => asked' = asked
    BY DEF Resize
  <2>4. \A w, part : Draw(w, part) => asked' = asked
    BY DEF Draw
  <2>5. MouseMove \/ RedrawAllIfDirty => asked' = asked
    BY DEF MouseMove, RedrawAllIfDirty
  <2> QED
    BY <1>6, <2>1, <2>2, <2>3, <2>4, <2>5
<1> QED
  BY <1>3, <1>4, <1>5, <1>6 DEF Next

LEMMA PlacedStep == PInv /\ [Next]_vars => PInv'
<1> SUFFICES ASSUME PInv, [Next]_vars PROVE PInv'
  OBVIOUS
<1>1. SInv /\ Placed(tree, asked) /\ asked \in [Id -> Point \union {Astray}]
  BY DEF PInv
<1>2. SInv'
  BY <1>1, InvStep
<1>3. TreeOK(tree) /\ TreeOK(tree') /\ pic \in Pic /\ Regions(pic, tree)
  BY <1>1, <1>2 DEF SInv
<1>4. CASE Next
  <2>1. asked' \in [Id -> Point \union {Astray}]
    <3>1. Positions \union {<<0, 0>>} \subseteq Point
      BY SizesAreExtents
    <3> QED
      BY <1>1, <1>4, <3>1, AskedStep
  <2>2. Placed(tree', asked')
    <3>1. CASE \E w \in Window : \E par \in Id, s \in Sizes : Create(w, par, s)
      BY <1>1, <1>3, <3>1, CreatePlaced
    <3>2. CASE \E w \in Window : \E x \in Positions : Open(w, x)
      BY <1>1, <1>3, <3>2, OpenPlaced
    <3>3. CASE \E w \in Window : \E x \in Positions : Move(w, x)
      BY <1>1, <1>3, <3>3, MovePlaced
    <3>4. CASE \E w \in Window : Close(w)
      BY <1>1, <1>3, <3>4, ClosePlaced
    <3>5. CASE \E w \in Window : Delete(w)
      BY <1>1, <1>3, <3>5, DeletePlaced
    <3>6. CASE \E w \in Window : TopDown(w)
      <4>1. PICK w \in Window : TopDown(w)
        BY <3>6
      <4>2. /\ tree'.live = tree.live /\ tree'.parent = tree.parent
            /\ tree'.at = tree.at /\ tree'.is_open = tree.is_open
        BY <1>3, <4>1, TopDownStep
      <4>3. asked' = asked
        BY <4>1 DEF TopDown
      <4> QED
        BY <1>1, <1>3, <4>2, <4>3, StillPlaced
    <3>7. CASE \E w \in Window : \E s \in Sizes : Resize(w, s)
      <4>1. PICK w \in Window, s \in Sizes : Resize(w, s)
        BY <3>7
      <4>2. /\ w \in tree.live \ {Root} /\ s \in Extent
            /\ tree' = Sized(tree, w, s) /\ asked' = asked
        BY <4>1, WindowAssumption, SizesAreExtents DEF Resize, Sized
      <4>3. /\ tree'.live = tree.live /\ tree'.parent = tree.parent
            /\ tree'.at = tree.at /\ tree'.is_open = tree.is_open
        BY <1>3, <4>2, SizedTree
      <4> QED
        BY <1>1, <1>3, <4>2, <4>3, StillPlaced
    <3>8. CASE tree' = tree /\ asked' = asked
      BY <1>1, <3>8
    <3> QED
      BY <1>4, <3>1, <3>2, <3>3, <3>4, <3>5, <3>6, <3>7, <3>8 DEF Next, Draw, MouseMove, RedrawAllIfDirty
  <2> QED
    BY <1>2, <2>1, <2>2 DEF PInv
<1>5. CASE UNCHANGED vars
  BY <1>1, <1>2, <1>5 DEF PInv, vars
<1> QED
  BY <1>4, <1>5

\* A window in sight is where its client has last put it, whatever was closed, moved
\* and opened around it since, unless it was moved with a window while one between
\* the two was closed: window_open() moves "the childs that were pseudo-closed".
THEOREM PlacesCorrect == Spec => []InPlace
<1>1. Init => PInv
  BY PlacedInit
<1>2. PInv /\ [Next]_vars => PInv'
  BY PlacedStep
<1>3. PInv => InPlace
  BY DEF PInv, Placed, InPlace, Mapped
<1> QED
  BY <1>1, <1>2, <1>3, PTL DEF Spec

-----------------------------------------------------------------------------
(* What the screen shows.                                                  *)

\* A cell is in the list of one window, which is open.
LEMMA OneOwner ==
  ASSUME NEW p, NEW t, TreeOK(t), Regions(p, t), NEW y \in Id, NEW c \in p.vis[y]
  PROVE  /\ y \in t.live /\ t.is_open[y] /\ c \in Build(t, y) /\ c \in Pos(t, y)
         /\ \A x \in Id : c \in p.vis[x] => x = y
<1>1. PICK f : /\ f = [w \in Id |-> IF GoesOn(t, w, c) THEN f[CHOOSE x \in Topmost(t, w, c) : TRUE] ELSE w]
               /\ Found(t, c) = f[Root]
  BY SearchExists
<1>2. ASSUME NEW x \in Id, c \in p.vis[x]
      PROVE  /\ x \in t.live /\ t.is_open[x] /\ c \in Build(t, x) /\ c \in Pos(t, x)
             /\ f[Root] = x
  <2>1. t.is_open[x] /\ c \in Build(t, x)
    BY <1>2 DEF Regions, Exact
  <2>2. x \in t.live
    BY <2>1 DEF TreeOK
  <2> QED
    BY <1>1, <2>1, <2>2, VisibleFound, BuildMeans
<1> QED
  BY <1>2

\* What window_redraw_contents_rect() leaves: it copies the cells of the area, and
\* what is dirty of windows in full sight.
Redrawn(p, t, T, area, q) ==
  /\ q.bitmap = p.bitmap /\ q.is_dirty = p.is_dirty
  /\ \A y \in Id : q.dirty[y] = IF y \in T /\ t.is_open[y] /\ ~p.is_hidden[y] THEN {} ELSE p.dirty[y]
  /\ \A c \in Display, y \in Id : c \in p.vis[y] =>
       LET r == Minus(c, t.at[y])
       IN  q.screen[c] = IF y \in T /\ (c \in area \/ (~p.is_hidden[y] /\ r \in p.dirty[y]))
                         THEN IF r \in p.bitmap[y] THEN <<y, r>> ELSE Stale
                         ELSE p.screen[c]

LEMMA RedrawDrawn ==
  ASSUME NEW p \in Pic, NEW t, TreeOK(t), Regions(p, t), NEW T \in SUBSET Id, NEW area, NEW q,
         q = Redraw(p, t, T, area)
  PROVE  Redrawn(p, t, T, area, q)
<1> DEFINE opened == {w \in T : t.is_open[w]}
           Due(w, c) == c \in area \/ (~p.is_hidden[w] /\ Minus(c, t.at[w]) \in p.dirty[w])
           Copy(w, r) == IF r \in p.bitmap[w] THEN <<w, r>> ELSE Stale
           scr == [c \in Display |->
                    IF \E w \in opened : c \in p.vis[w] /\ Due(w, c)
                    THEN LET w == CHOOSE x \in opened : c \in p.vis[x] /\ Due(x, c)
                         IN  Copy(w, Minus(c, t.at[w]))
                    ELSE p.screen[c]]
           dirt == [w \in Id |-> IF w \in opened /\ ~p.is_hidden[w] THEN {} ELSE p.dirty[w]]
<1>1. q.bitmap = p.bitmap /\ q.is_dirty = p.is_dirty /\ q.screen = scr /\ q.dirty = dirt
  <2> DEFINE b == Blit(p, t, opened, Due)
  <2>1. b = [p EXCEPT !.screen = scr]
    BY DEF Blit
  <2>2. q = [b EXCEPT !.dirty = [w \in Id |-> IF w \in opened /\ ~p.is_hidden[w] THEN {} ELSE b.dirty[w]]]
    BY <2>1 DEF Redraw, Pic
  <2> HIDE DEF b, scr
  <2>3. b.dirty = p.dirty
    BY <2>1 DEF Pic
  <2>4. q = [[p EXCEPT !.screen = scr] EXCEPT !.dirty = dirt]
    BY <2>1, <2>2, <2>3
  <2> HIDE DEF dirt
  <2> QED
    BY <2>4 DEF Pic
<1>2. \A y \in Id : q.dirty[y] = IF y \in T /\ t.is_open[y] /\ ~p.is_hidden[y] THEN {} ELSE p.dirty[y]
  BY <1>1
<1>3. ASSUME NEW c \in Display, NEW y \in Id, c \in p.vis[y]
      PROVE  q.screen[c] = IF y \in T /\ Due(y, c) THEN Copy(y, Minus(c, t.at[y])) ELSE p.screen[c]
  <2>1. t.is_open[y] /\ \A x \in Id : c \in p.vis[x] => x = y
    BY <1>3, OneOwner
  <2>2. opened \subseteq Id /\ (y \in opened <=> y \in T)
    BY <2>1
  <2> HIDE DEF opened, Due, Copy
  <2>3. CASE y \in opened /\ Due(y, c)
    <3> DEFINE w == CHOOSE x \in opened : c \in p.vis[x] /\ Due(x, c)
    <3>1. w \in opened /\ c \in p.vis[w]
      BY <1>3, <2>3
    <3>2. scr[c] = Copy(w, Minus(c, t.at[w]))
      BY <1>3, <2>3
    <3> HIDE DEF w
    <3>3. w = y
      BY <2>1, <2>2, <3>1
    <3> QED
      BY <1>1, <2>2, <2>3, <3>2, <3>3
  <2>4. CASE ~(y \in opened /\ Due(y, c))
    <3>1. ~\E w \in opened : c \in p.vis[w] /\ Due(w, c)
      BY <2>1, <2>2, <2>4
    <3>2. scr[c] = p.screen[c]
      BY <3>1
    <3> QED
      BY <1>1, <2>2, <2>4, <3>2
  <2> QED
    BY <2>3, <2>4
<1> HIDE DEF Due, Copy
<1>4. \A c \in Display, y \in Id : c \in p.vis[y] =>
        q.screen[c] = IF y \in T /\ Due(y, c) THEN Copy(y, Minus(c, t.at[y])) ELSE p.screen[c]
  BY <1>3
<1> QED
  BY <1>1, <1>2, <1>4 DEF Redrawn, Due, Copy

\* What window_save_contents() leaves: it touches the bitmaps only.
Newer(p, t, w) == t.is_open[w] /\ p.is_dirty[w] /\ ~p.is_hidden[w]
Copied(p, t, w) == {r \in Cells(t, w) :
  IF Plus(r, t.at[w]) \in p.vis[w] THEN p.screen[Plus(r, t.at[w])] = <<w, r>> ELSE r \in p.bitmap[w]}
Saved(p, t, T, area, q) ==
  /\ q.screen = p.screen /\ q.dirty = p.dirty
  /\ \A w \in Id :
       LET saved == w \in T /\ Newer(p, t, w) /\ Pos(t, w) \intersect area # {}
       IN  /\ q.bitmap[w] = IF saved /\ w \notin Container THEN Copied(p, t, w) ELSE p.bitmap[w]
           /\ q.is_dirty[w] <=> p.is_dirty[w] /\ ~(w \in T /\ (Newer(p, t, w) => saved))

LEMMA SaveDrawn ==
  ASSUME NEW p \in Pic, NEW t \in Tree, NEW T, NEW area, NEW q, q = Save(p, t, T, area)
  PROVE  Saved(p, t, T, area, q)
<1> DEFINE saved == {w \in T : Newer(p, t, w) /\ Pos(t, w) \intersect area # {}}
           bits == [w \in Id |-> IF w \in saved \ Container THEN Copied(p, t, w) ELSE p.bitmap[w]]
           dirt == [w \in Id |-> p.is_dirty[w] /\ ~(w \in T /\ (Newer(p, t, w) => w \in saved))]
<1>1. q = [p EXCEPT !.bitmap = bits, !.is_dirty = dirt]
  BY DEF Save, Newer, Copied
<1>2. \A w \in Id : bits[w] = IF w \in saved /\ w \notin Container THEN Copied(p, t, w) ELSE p.bitmap[w]
  <2> HIDE DEF saved
  <2> QED
    OBVIOUS
<1>3. \A w \in Id : dirt[w] = (p.is_dirty[w] /\ ~(w \in T /\ (Newer(p, t, w) => w \in saved)))
  <2> HIDE DEF saved
  <2> QED
    OBVIOUS
<1>4. q.screen = p.screen /\ q.dirty = p.dirty /\ q.bitmap = bits /\ q.is_dirty = dirt
  <2> HIDE DEF bits, dirt
  <2> QED
    BY <1>1 DEF Pic
<1>5. \A w \in Id : q.bitmap[w] = IF w \in saved /\ w \notin Container THEN Copied(p, t, w) ELSE p.bitmap[w]
  BY <1>2, <1>4
<1>6. \A w \in Id : q.is_dirty[w] <=> p.is_dirty[w] /\ ~(w \in T /\ (Newer(p, t, w) => w \in saved))
  BY <1>3, <1>4
<1>7. \A w : w \in saved <=> w \in T /\ Newer(p, t, w) /\ Pos(t, w) \intersect area # {}
  OBVIOUS
<1> HIDE DEF bits, dirt, saved
<1> QED
  BY <1>4, <1>5, <1>6, <1>7 DEF Saved

\* window_rebuild_recs() touches neither the screen nor the bitmaps.
LEMMA RebuildDrawn ==
  ASSUME NEW p \in Pic, NEW t, NEW T, NEW area, NEW q, q = Rebuild(p, t, T, area)
  PROVE  q.screen = p.screen /\ q.dirty = p.dirty /\ q.bitmap = p.bitmap /\ q.is_dirty = p.is_dirty
<1>1. \E v, h : q = [p EXCEPT !.vis = v, !.is_hidden = h]
  BY DEF Rebuild
<1> QED
  BY <1>1 DEF Pic

\* What a drawing request leaves, on the screen or in the bitmap.
Direct(p, t, w) == t.is_open[w] /\ ~p.is_hidden[w]
Painted(p, t, w, part, q) ==
  /\ \A c \in Display :
       q.screen[c] = IF Direct(p, t, w) /\ c \in Shift(part, t.at[w]) THEN <<w, Minus(c, t.at[w])>>
                     ELSE IF p.screen[c] \in {w} \X part THEN Stale ELSE p.screen[c]
  /\ q.bitmap = [p.bitmap EXCEPT ![w] = IF Direct(p, t, w) THEN @ \ part ELSE @ \union part]
  /\ q.is_dirty = IF Direct(p, t, w) THEN [p.is_dirty EXCEPT ![w] = TRUE] ELSE p.is_dirty
  /\ q.dirty = IF ~Direct(p, t, w) /\ t.is_open[w]
               THEN [p.dirty EXCEPT ![w] = Hull(t, w, @ \union part)] ELSE p.dirty

LEMMA PaintDrawn ==
  ASSUME NEW p \in Pic, NEW t \in Tree, NEW w \in Id, NEW part, NEW q, q = Paint(p, t, w, part)
  PROVE  Painted(p, t, w, part, q)
<1> DEFINE scr == [c \in Display |-> IF p.screen[c] \in {w} \X part THEN Stale ELSE p.screen[c]]
           old == [p EXCEPT !.screen = scr]
           shown == [c \in Display |->
                      IF c \in Shift(part, t.at[w]) THEN <<w, Minus(c, t.at[w])>> ELSE scr[c]]
<1>1. /\ old.screen = scr /\ old.vis = p.vis /\ old.is_hidden = p.is_hidden
      /\ old.bitmap = p.bitmap /\ old.is_dirty = p.is_dirty /\ old.dirty = p.dirty
      /\ old = [vis |-> p.vis, is_hidden |-> p.is_hidden, is_dirty |-> p.is_dirty,
                dirty |-> p.dirty, bitmap |-> p.bitmap, screen |-> scr]
  <2> HIDE DEF scr
  <2> QED
    BY DEF Pic
<1>2. CASE t.is_open[w] /\ ~p.is_hidden[w]
  <2>1. q = [old EXCEPT !.screen = shown, !.bitmap = [p.bitmap EXCEPT ![w] = @ \ part],
                        !.is_dirty = [p.is_dirty EXCEPT ![w] = TRUE]]
    BY <1>1, <1>2 DEF Paint
  <2> HIDE DEF old, shown, scr
  <2>2. /\ q.screen = shown /\ q.bitmap = [p.bitmap EXCEPT ![w] = @ \ part]
        /\ q.is_dirty = [p.is_dirty EXCEPT ![w] = TRUE] /\ q.dirty = p.dirty
    BY <1>1, <2>1
  <2>3. \A c \in Display :
          q.screen[c] = IF c \in Shift(part, t.at[w]) THEN <<w, Minus(c, t.at[w])>>
                        ELSE IF p.screen[c] \in {w} \X part THEN Stale ELSE p.screen[c]
    BY <2>2 DEF shown, scr
  <2>4. Direct(p, t, w)
    BY <1>2 DEF Direct
  <2> QED
    BY <2>2, <2>3, <2>4 DEF Painted
<1>3. CASE ~(t.is_open[w] /\ ~p.is_hidden[w])
  <2>1. q = [old EXCEPT !.bitmap = [p.bitmap EXCEPT ![w] = @ \union part],
                        !.dirty = [p.dirty EXCEPT ![w] = IF t.is_open[w] THEN Hull(t, w, @ \union part) ELSE @]]
    BY <1>1, <1>3 DEF Paint
  <2> HIDE DEF old, shown, scr
  <2>2. /\ q.screen = scr /\ q.bitmap = [p.bitmap EXCEPT ![w] = @ \union part]
        /\ q.dirty = [p.dirty EXCEPT ![w] = IF t.is_open[w] THEN Hull(t, w, @ \union part) ELSE @]
        /\ q.is_dirty = p.is_dirty
    BY <1>1, <2>1
  <2>3. ~t.is_open[w] => q.dirty = p.dirty
    BY <2>2, PicFields
  <2>4. \A c \in Display : q.screen[c] = IF p.screen[c] \in {w} \X part THEN Stale ELSE p.screen[c]
    BY <2>2 DEF scr
  <2>5. q.dirty = IF t.is_open[w] THEN [p.dirty EXCEPT ![w] = Hull(t, w, @ \union part)] ELSE p.dirty
    BY <2>2, <2>3
  <2>6. ~Direct(p, t, w)
    BY <1>3 DEF Direct
  <2> HIDE DEF scr
  <2> QED
    BY <2>2, <2>4, <2>5, <2>6 DEF Painted
<1> QED
  BY <1>2, <1>3

\* All between a window and what it lies in is there.
LEMMA LineChild ==
  ASSUME NEW t, TreeOK(t), NEW y \in t.live, NEW z \in Ancestors(t, y)
  PROVE  \E x \in Line(t, y) : x \in t.live \ {Root} /\ t.parent[x] = z
<1> DEFINE S == {u \in Id : u \in t.live => \A v \in Ancestors(t, u) :
                              \E x \in Line(t, u) : x \in t.live \ {Root} /\ t.parent[x] = v}
<1>1. t \in Tree /\ Founded(t) /\ t.live \subseteq Id
  BY TreeFields DEF TreeOK
<1>2. ASSUME NEW u \in Id, t.parent[u] \in Id => t.parent[u] \in S
      PROVE  u \in S
  <2>1. SUFFICES ASSUME u \in t.live, NEW v \in Ancestors(t, u)
                 PROVE  \E x \in Line(t, u) : x \in t.live \ {Root} /\ t.parent[x] = v
    OBVIOUS
  <2>2. u # Root
    BY <2>1, RootAbove
  <2>3. /\ t.parent[u] \in t.live /\ Line(t, u) = {u} \union Line(t, t.parent[u])
        /\ Ancestors(t, u) = Line(t, t.parent[u])
    BY <2>1, <2>2, LineStep
  <2>4. CASE v = t.parent[u]
    BY <2>1, <2>2, <2>3, <2>4
  <2>5. CASE v # t.parent[u]
    <3>1. v \in Ancestors(t, t.parent[u])
      BY <2>1, <2>3, <2>5 DEF Line
    <3> QED
      BY <1>1, <1>2, <2>3, <3>1
  <2> QED
    BY <2>4, <2>5
<1>3. S \in SUBSET Id
  OBVIOUS
<1> HIDE DEF S
<1>4. S = Id
  BY <1>1, <1>2, <1>3, TreeInduction
<1> QED
  BY <1>1, <1>4 DEF S

\* Where a window is not covered but by its own childs, only these and what lies in
\* them is visible, or the window.
LEMMA InFront ==
  ASSUME NEW t, TreeOK(t), NEW w \in t.live, t.is_open[w], NEW c \in Pos(t, w),
         Inside(t, w, c), ~Covered(t, w, c),
         NEW y \in t.live, t.is_open[y], c \in Build(t, y)
  PROVE  w \in Line(t, y)
<1> DEFINE S == {x \in Id : x \in Line(t, w) => x \in Line(t, y)}
<1>1. t \in Tree /\ Founded(t) /\ t.live \subseteq Id
  BY TreeFields DEF TreeOK
<1>2. Inside(t, y, c) /\ ~Covered(t, y, c) /\ ~ByChild(t, y, c) /\ c \in Pos(t, y)
  BY BuildMeans
<1>3. \A x \in Line(t, w) : t.is_open[x] /\ c \in Pos(t, x)
  <2>1. \A x \in Ancestors(t, w) : x \in Id /\ t.is_open[x] /\ c \in Work(t, x)
    BY <1>1, AncestorsIn DEF Inside
  <2> QED
    BY <1>1, <2>1, PosFacts DEF Line
<1>4. \A x \in Line(t, y) : t.is_open[x] /\ c \in Pos(t, x)
  <2>1. \A x \in Ancestors(t, y) : x \in Id /\ t.is_open[x] /\ c \in Work(t, x)
    BY <1>1, <1>2, AncestorsIn DEF Inside
  <2> QED
    BY <1>1, <1>2, <2>1, PosFacts DEF Line
<1>5. ASSUME NEW x \in Id, t.parent[x] \in Id => t.parent[x] \in S
      PROVE  x \in S
  <2> SUFFICES ASSUME x \in Line(t, w), x \notin Line(t, y) PROVE FALSE
    OBVIOUS
  <2>1. x \in t.live /\ x # Root
    BY AncestorsLive, RootAbove
  <2> DEFINE z == t.parent[x]
  <2>2. z \in t.live /\ z \in Ancestors(t, w) /\ z \in Line(t, w) /\ z \in Id
    BY <1>1, <2>1, AncestorsLive DEF Line
  <2>3. z \in Line(t, y)
    BY <1>5, <2>2
  <2>4. CASE z = y
    <3>1. x \in Childs(t, y) /\ t.is_open[x] /\ c \in Pos(t, x)
      BY <1>1, <1>3, <2>1, <2>4 DEF TreeOK
    <3>2. c \in Work(t, y)
      BY <2>2, <2>4 DEF Inside
    <3> QED
      BY <1>2, <3>1, <3>2 DEF ByChild
  <2>5. CASE z # y
    <3>1. z \in Ancestors(t, y)
      BY <2>3, <2>5 DEF Line
    <3>2. PICK v \in Line(t, y) : v \in t.live \ {Root} /\ t.parent[v] = z
      BY <3>1, LineChild
    <3>3. v # x
      BY <3>2
    <3>4. x \in Left(t, v) \/ v \in Left(t, x)
      BY <2>1, <3>2, <3>3, SiblingsOf
    <3>5. CASE x \in Left(t, v)
      BY <1>2, <1>3, <3>2, <3>5 DEF Covered
    <3>6. CASE v \in Left(t, x)
      BY <1>4, <3>2, <3>6 DEF Covered
    <3> QED
      BY <3>4, <3>5, <3>6
  <2> QED
    BY <2>4, <2>5
<1>6. S \in SUBSET Id
  OBVIOUS
<1> HIDE DEF S
<1>7. S = Id
  BY <1>1, <1>5, <1>6, TreeInduction
<1>8. w \in Line(t, w) /\ w \in Id
  BY <1>1 DEF Line
<1> QED
  BY <1>7, <1>8 DEF S

\* What comes into sight of another window when w changes was covered by w before, and
\* belongs to the windows below w or to its parent.
LEMMA Exposed ==
  ASSUME NEW t0, NEW t, TreeOK(t0), TreeOK(t), NEW w \in t0.live \ {Root}, Elsewhere(t0, t, w),
         NEW y \in t0.live \ Subtree(t0, w), t.is_open[y], NEW c \in Build(t, y)
  PROVE  /\ t0.is_open[y] /\ t.at[y] = t0.at[y] /\ Pos(t, y) = Pos(t0, y)
         /\ \/ c \in Build(t0, y)
            \/ /\ t0.is_open[w] /\ c \in Pos(t0, w)
               /\ y \in Subtrees(t0, Right(t0, w)) \/ y = t0.parent[w]
<1>1. /\ t.live = t0.live /\ t.parent = t0.parent /\ t.childs = t0.childs /\ t0.live \subseteq Id
      /\ Alike(t0, t) /\ t0 \in Tree
  BY TreeFields DEF Elsewhere, Alike, TreeOK
<1>2. SameLine(t0, t, y)
  BY LineElsewhere
<1>3. /\ Childs(t, y) = Childs(t0, y) /\ Line(t, y) = Line(t0, y)
      /\ \A a \in Line(t0, y) : Left(t, a) = Left(t0, a)
  BY <1>1, <1>2, AlikeLists, AncestorsLive DEF SameLine
<1>4. t0.is_open[y] /\ t.at[y] = t0.at[y] /\ Pos(t, y) = Pos(t0, y) /\ Work(t, y) = Work(t0, y)
  <2>1. Same(t0, t, y)
    BY <1>2 DEF SameLine, Line
  <2> QED
    BY <2>1, SamePos DEF Same
<1>5. ASSUME ~(t0.is_open[w] /\ c \in Pos(t0, w))
      PROVE  c \in Build(t0, y)
  <2>1. \A x \in Id \ Subtree(t0, w) : (t0.is_open[x] /\ c \in Pos(t0, x)) => (t.is_open[x] /\ c \in Pos(t, x))
    BY <1>1, SamePos DEF Elsewhere, Same
  <2>2. Inside(t, y, c) /\ ~Covered(t, y, c) /\ ~ByChild(t, y, c) /\ c \in Pos(t, y)
    BY BuildMeans
  <2>3. Inside(t0, y, c)
    <3>1. \A a \in Ancestors(t0, y) : Same(t0, t, a)
      BY <1>2 DEF SameLine, Line
    <3> QED
      BY <1>2, <2>2, <3>1, SamePos DEF Inside, SameLine, Same
  <2>4. ~Covered(t0, y, c)
    <3> SUFFICES ASSUME NEW a \in Line(t0, y), NEW x \in Left(t0, a), t0.is_open[x], c \in Pos(t0, x)
                 PROVE  FALSE
      BY DEF Covered
    <3>1. CASE x \in Subtree(t0, w)
      BY <1>5, <3>1, AboveFrom
    <3>2. CASE x \notin Subtree(t0, w)
      <4>1. a \in t0.live \ {Root}
        BY AncestorsLive DEF Left
      <4>2. x \in Id
        BY <1>1, <4>1, SiblingsOf
      <4> QED
        BY <1>3, <2>1, <2>2, <3>2, <4>2 DEF Covered
    <3> QED
      BY <3>1, <3>2
  <2>5. ~ByChild(t0, y, c)
    <3> SUFFICES ASSUME NEW x \in Childs(t0, y), t0.is_open[x], c \in Pos(t0, x), c \in Work(t0, y)
                 PROVE  FALSE
      BY DEF ByChild
    <3>1. CASE x \in Subtree(t0, w)
      BY <1>5, <3>1, ChildFrom
    <3>2. CASE x \notin Subtree(t0, w)
      <4>1. x \in Id
        BY <1>1 DEF TreeOK
      <4> QED
        BY <1>3, <1>4, <2>1, <2>2, <3>2, <4>1 DEF ByChild
    <3> QED
      BY <3>1, <3>2
  <2> QED
    BY <1>4, <2>2, <2>3, <2>4, <2>5, BuildMeans
<1>6. ASSUME y \notin Subtrees(t0, Right(t0, w)), y # t0.parent[w]
      PROVE  c \in Build(t0, y)
  <2> DEFINE area == Pos(t0, w) \union Pos(t, w)
  <2>1. Within(t0, t, w, area)
    BY DEF Within
  <2> HIDE DEF area
  <2> QED
    BY <1>6, <2>1, CellElsewhere
<1> QED
  BY <1>4, <1>5, <1>6

\* A cell of the screen shows the cell of y that lies there, or nothing anybody knows.
Genuine(s, t, y, c) == s = Stale \/ s = <<y, Minus(c, t.at[y])>>
Shown(p, t) == \A c \in Display, y \in Id : c \in p.vis[y] => Genuine(p.screen[c], t, y, c)

\* The bitmaps are as large as the windows.
Held(p, t) == \A y \in t.live : p.bitmap[y] \subseteq Cells(t, y)

\* Who draws again what has come into sight makes the screen genuine.
LEMMA RedrawShows ==
  ASSUME NEW p \in Pic, NEW t, TreeOK(t), Regions(p, t), NEW T \in SUBSET Id, NEW area,
         \A c \in Display, y \in Id :
           c \in p.vis[y] /\ ~(y \in T /\ c \in area) => Genuine(p.screen[c], t, y, c)
  PROVE  Shown(Redraw(p, t, T, area), t)
<1> DEFINE q == Redraw(p, t, T, area)
<1>1. t \in Tree
  BY DEF TreeOK
<1>2. q.vis = p.vis
  BY <1>1, RedrawKeeps DEF Kept
<1>0. q = Redraw(p, t, T, area)
  OBVIOUS
<1> HIDE DEF q
<1>3. \A c \in Display, y \in Id : c \in p.vis[y] =>
        LET r == Minus(c, t.at[y])
        IN  q.screen[c] = IF y \in T /\ (c \in area \/ (~p.is_hidden[y] /\ r \in p.dirty[y]))
                          THEN IF r \in p.bitmap[y] THEN <<y, r>> ELSE Stale
                          ELSE p.screen[c]
  <2>1. Redrawn(p, t, T, area, q)
    BY <1>0, RedrawDrawn
  <2> QED
    BY <2>1 DEF Redrawn
<1>4. ASSUME NEW c \in Display, NEW y \in Id, c \in q.vis[y]
      PROVE  Genuine(q.screen[c], t, y, c)
  <2>1. \/ q.screen[c] = <<y, Minus(c, t.at[y])>> \/ q.screen[c] = Stale
        \/ q.screen[c] = p.screen[c] /\ ~(y \in T /\ c \in area)
    BY <1>2, <1>3, <1>4
  <2> QED
    BY <1>2, <1>4, <2>1 DEF Genuine
<1> QED
  BY <1>4 DEF Shown, q

LEMMA SaveHolds ==
  ASSUME NEW p \in Pic, NEW t, TreeOK(t), NEW T, NEW area, Held(p, t)
  PROVE  Held(Save(p, t, T, area), t)
<1> DEFINE q == Save(p, t, T, area)
<1>1. t \in Tree /\ t.live \subseteq Id
  BY TreeFields DEF TreeOK
<1>0. q = Save(p, t, T, area)
  OBVIOUS
<1> HIDE DEF q
<1>2. Saved(p, t, T, area, q)
  BY <1>0, <1>1, SaveDrawn
<1>3. \A w \in Id : Copied(p, t, w) \subseteq Cells(t, w)
  BY DEF Copied
<1> QED
  BY <1>1, <1>2, <1>3 DEF Held, q, Saved

\* What is moved by the corner of a window.
LEMMA CellsAt ==
  ASSUME NEW t \in Tree, NEW w \in Id, NEW c \in Point
  PROVE  /\ c \in Pos(t, w) <=> Minus(c, t.at[w]) \in Cells(t, w)
         /\ Minus(c, t.at[w]) \in Point /\ Plus(Minus(c, t.at[w]), t.at[w]) = c
         /\ \A S \in SUBSET Point : c \in Shift(S, t.at[w]) <=> Minus(c, t.at[w]) \in S
<1> DEFINE o == t.at[w]
           b == Minus(c, o)
<1>1. o \in Point /\ Full(t, w) \in Point /\ <<0, 0>> \in Point
  BY TreeFields, PosFacts, SizesAreExtents
<1>2. b \in Point /\ Plus(b, o) = c
  BY <1>1, PointMoves
<1>3. Plus(<<0, 0>>, o) = o
  <2>1. Plus(<<0, 0>>, o) = <<0 + o[1], 0 + o[2]>>
    BY DEF Plus
  <2>2. o[1] \in Int /\ o[2] \in Int /\ o = <<o[1], o[2]>>
    BY <1>1, PointParts
  <2> HIDE DEF o
  <2> QED
    BY <2>1, <2>2
<1> HIDE DEF o, b
<1>4. Plus(b, o) \in Box(Plus(<<0, 0>>, o), Full(t, w)) <=> b \in Box(<<0, 0>>, Full(t, w))
  BY <1>1, <1>2, BoxMoves
<1>5. c \in Pos(t, w) <=> b \in Cells(t, w)
  BY <1>2, <1>3, <1>4 DEF Pos, Cells, o
<1>6. \A S \in SUBSET Point : c \in Shift(S, o) <=> b \in S
  BY <1>1, <1>2, ShiftMeans
<1> QED
  BY <1>2, <1>5, <1>6 DEF o, b

\* A drawing request makes stale what it makes out of date.
LEMMA PaintShows ==
  ASSUME NEW p \in Pic, NEW t, TreeOK(t), Regions(p, t), NEW w \in Id, NEW part \in SUBSET Cells(t, w),
         Shown(p, t), Held(p, t)
  PROVE  Shown(Paint(p, t, w, part), t) /\ Held(Paint(p, t, w, part), t)
<1> DEFINE q == Paint(p, t, w, part)
           direct == Direct(p, t, w)
<1>1. t \in Tree /\ t.live \subseteq Id
  BY TreeFields DEF TreeOK
<1>2. part \in SUBSET Point
  BY <1>1, CellsPoints
<1>3. q.vis = p.vis
  BY <1>1, <1>2, PaintKeeps DEF Kept
<1>0. q = Paint(p, t, w, part)
  OBVIOUS
<1> HIDE DEF q
<1>4. /\ \A c \in Display :
           q.screen[c] = IF direct /\ c \in Shift(part, t.at[w]) THEN <<w, Minus(c, t.at[w])>>
                         ELSE IF p.screen[c] \in {w} \X part THEN Stale ELSE p.screen[c]
      /\ q.bitmap = [p.bitmap EXCEPT ![w] = IF direct THEN @ \ part ELSE @ \union part]
  <2>1. Painted(p, t, w, part, q)
    BY <1>0, <1>1, PaintDrawn
  <2> QED
    BY <2>1 DEF Painted
<1>5. direct => p.vis[w] = Pos(t, w)
  BY DEF Regions, Exact, Direct
<1> HIDE DEF direct
<1>6. ASSUME NEW c \in Display, NEW y \in Id, c \in q.vis[y]
      PROVE  Genuine(q.screen[c], t, y, c)
  <2>1. Genuine(p.screen[c], t, y, c)
    BY <1>3, <1>6 DEF Shown
  <2>2. CASE direct /\ c \in Shift(part, t.at[w])
    <3>1. c \in Point /\ Minus(c, t.at[w]) \in part
      BY <1>1, <1>2, <2>2, CellsAt, DisplayPoints
    <3>2. c \in Pos(t, w)
      BY <1>1, <3>1, CellsAt
    <3>3. w = y
      BY <1>3, <1>5, <1>6, <2>2, <3>2, OneOwner
    <3> QED
      BY <1>4, <2>2, <3>3 DEF Genuine
  <2>3. CASE ~(direct /\ c \in Shift(part, t.at[w]))
    BY <1>4, <2>1, <2>3 DEF Genuine
  <2> QED
    BY <2>2, <2>3
<1>7. ASSUME NEW y \in t.live
      PROVE  q.bitmap[y] \subseteq Cells(t, y)
  <2>1. p.bitmap[y] \subseteq Cells(t, y) /\ y \in Id
    BY <1>1 DEF Held
  <2>2. q.bitmap[y] = p.bitmap[y] \/ (y = w /\ q.bitmap[y] \subseteq p.bitmap[y] \union part)
    BY <1>1, <1>4, PicFields
  <2> QED
    BY <2>1, <2>2
<1> QED
  BY <1>6, <1>7 DEF Shown, Held, q

LEMMA FrameShows ==
  ASSUME NEW p \in Pic, NEW t, TreeOK(t), Regions(p, t), NEW w \in Id, Shown(p, t), Held(p, t)
  PROVE  Shown(Frame(p, t, w), t) /\ Held(Frame(p, t, w), t)
<1> DEFINE frame == Cells(t, w) \ WorkCells(t, w)
           scr == [c \in Display |-> IF p.screen[c] \in {w} \X frame THEN Stale ELSE p.screen[c]]
<1>1. CASE w \notin Bordered \/ ~t.is_open[w]
  BY <1>1 DEF Frame
<1>2. CASE ~(w \notin Bordered \/ ~t.is_open[w]) /\ w \notin Container
  <2>1. Frame(p, t, w) = Paint(p, t, w, frame)
    BY <1>2 DEF Frame
  <2>2. frame \in SUBSET Cells(t, w)
    OBVIOUS
  <2> HIDE DEF frame
  <2> QED
    BY <2>1, <2>2, PaintShows
<1>3. CASE ~(w \notin Bordered \/ ~t.is_open[w]) /\ w \in Container
  <2> DEFINE q == Frame(p, t, w)
  <2>1. q.screen = scr /\ q.vis = p.vis /\ q.bitmap = p.bitmap
    <3>1. q = [p EXCEPT !.screen = scr, !.dirty[w] = Hull(t, w, @ \union Cells(t, w))]
      BY <1>3 DEF Frame
    <3> HIDE DEF scr, q
    <3> QED
      BY <3>1 DEF Pic
  <2> HIDE DEF q
  <2>2. \A c \in Display : q.screen[c] = Stale \/ q.screen[c] = p.screen[c]
    BY <2>1
  <2> QED
    BY <2>1, <2>2 DEF Shown, Held, Genuine, q
<1> QED
  BY <1>1, <1>2, <1>3

LEMMA RefocusedShows ==
  ASSUME NEW p \in Pic, NEW t, TreeOK(t), Regions(p, t), NEW q \in Refocused(p, t), Shown(p, t), Held(p, t)
  PROVE  Shown(q, t) /\ Held(q, t)
<1>1. t \in Tree
  BY DEF TreeOK
<1>2. ASSUME NEW a \in Bordered, NEW b \in Bordered, q = Frame(Frame(p, t, a), t, b)
      PROVE  Shown(q, t) /\ Held(q, t)
  <2>1. a \in Id /\ b \in Id
    BY WindowAssumption DEF Id
  <2> DEFINE m == Frame(p, t, a)
  <2>2. m \in Pic /\ Regions(m, t) /\ Shown(m, t) /\ Held(m, t)
    BY <1>1, <2>1, FrameKeeps, FrameShows, KeptRegions
  <2> HIDE DEF m
  <2>3. q = Frame(m, t, b)
    BY <1>2 DEF m
  <2> QED
    BY <2>1, <2>2, <2>3, FrameShows
<1>3. ASSUME NEW a \in Bordered, q = Frame(p, t, a)
      PROVE  Shown(q, t) /\ Held(q, t)
  <2>1. a \in Id
    BY WindowAssumption DEF Id
  <2> QED
    BY <1>3, <1>1, <2>1, FrameShows
<1>4. \/ q = p
      \/ \E a \in Bordered : q = Frame(p, t, a)
      \/ \E a, b \in Bordered : q = Frame(Frame(p, t, a), t, b)
  BY DEF Refocused
<1> QED
  BY <1>2, <1>3, <1>4

\* The sizes are what a bitmap depends on.
LEMMA HeldSame ==
  ASSUME NEW t0, NEW t, NEW p, NEW q, t.live = t0.live, t.size = t0.size, q.bitmap = p.bitmap
  PROVE  Held(q, t) <=> Held(p, t0)
<1>1. \A y : Full(t, y) = Full(t0, y)
  BY DEF Full
<1> QED
  BY <1>1 DEF Held, Cells

\* window_open() draws what it uncovers: the window and what is below it.
LEMMA OpenShows ==
  ASSUME NEW t0, NEW t, TreeOK(t0), TreeOK(t), NEW w \in t0.live \ {Root}, Elsewhere(t0, t, w),
         ~t0.is_open[w], t.is_open[w],
         \A x \in Subtree(t0, w) \ {w} : t.is_open[x] <=> t0.is_open[x], t.size = t0.size,
         NEW p \in Pic, Regions(p, t0), Shown(p, t0), Held(p, t0)
  PROVE  Shown(OpenedPic(p, t, w), t) /\ Held(OpenedPic(p, t, w), t)
<1> DEFINE q == t.parent[w]
           area == Pos(t, w)
           T == Subtrees(t, {w} \union Right(t, w))
           saved == Save(p, t, Subtrees(t, Right(t, w)) \union {q}, area)
           built == Rebuild(saved, t, T, area)
           again == Rebuild(built, t, {q}, area)
           drawn == Redraw(again, t, Subtree(t, w), area)
<1>1. /\ t \in Tree /\ w \in Id /\ t.live = t0.live /\ w \in t.live \ {Root} /\ t.live \subseteq Id
      /\ q \in Id /\ Subtree(t, w) = Subtree(t0, w)
      /\ T \in SUBSET Id /\ Subtree(t, w) \in SUBSET Id
  <2>1. /\ t \in Tree /\ w \in Id /\ t.live = t0.live /\ w \in t.live \ {Root} /\ t.live \subseteq Id
        /\ Alike(t0, t)
    BY TreeFields DEF TreeOK, Elsewhere, Alike
  <2>2. T \subseteq t.live /\ Subtree(t, w) \subseteq t.live
    BY DEF Subtrees, Subtree
  <2>3. q \in Id /\ Subtree(t, w) = Subtree(t0, w)
    BY <2>1, LineStep, AlikeLines
  <2> QED
    BY <2>1, <2>2, <2>3
<1>2. Kept(p, saved) /\ saved.screen = p.screen
  <2>1. Kept(p, saved)
    BY <1>1, SaveKeeps
  <2>2. saved.screen = p.screen
    <3> DEFINE S == Subtrees(t, Right(t, w)) \union {q}
    <3>1. PICK m : m = Save(p, t, S, area)
      OBVIOUS
    <3> HIDE DEF S, area
    <3>2. Saved(p, t, S, area, m)
      BY <1>1, <3>1, SaveDrawn
    <3> QED
      BY <3>1, <3>2 DEF Saved, S
  <2> QED
    BY <2>1, <2>2
<1>3. Held(saved, t)
  BY HeldSame, SaveHolds, <1>1
<1>4. OpenedPic(p, t, w) = Frame(drawn, t, w)
  BY DEF OpenedPic
<1>5. OpenedPic(p, t, w) \in Pic /\ Regions(OpenedPic(p, t, w), t)
  BY OpenStep
<1> HIDE DEF saved, T, q
<1>6. /\ built \in Pic /\ again \in Pic
      /\ again.screen = p.screen /\ again.bitmap = saved.bitmap
  <2>1. built \in Pic
    BY <1>1, <1>2, RebuildMeans DEF Kept
  <2>2. built.screen = saved.screen /\ built.bitmap = saved.bitmap
    BY <1>2, RebuildDrawn DEF Kept
  <2> HIDE DEF built
  <2>3. again \in Pic
    BY <1>1, <2>1, RebuildMeans
  <2>4. again.screen = built.screen /\ again.bitmap = built.bitmap
    BY <2>1, RebuildDrawn
  <2> QED
    BY <1>2, <2>1, <2>2, <2>3, <2>4
<1> HIDE DEF again, area
<1>7. Kept(again, drawn)
  BY <1>1, <1>6, RedrawKeeps
<1>8. Redrawn(again, t, Subtree(t, w), area, drawn)
      \/ ~Regions(again, t)
  <2>1. PICK m : m = drawn
    OBVIOUS
  <2> HIDE DEF drawn
  <2>2. m = Redraw(again, t, Subtree(t, w), area)
    BY <2>1 DEF drawn
  <2> QED
    BY <1>1, <1>6, <2>1, <2>2, RedrawDrawn
<1> HIDE DEF drawn
<1>9. drawn \in Pic /\ Regions(drawn, t) /\ Regions(again, t)
  <2>1. drawn \in Pic
    BY <1>7 DEF Kept
  <2>2. Kept(drawn, Frame(drawn, t, w))
    BY <1>1, <2>1, FrameKeeps
  <2> QED
    BY <1>4, <1>5, <1>7, <2>1, <2>2, KeptRegions
<1>10. ASSUME NEW c \in Display, NEW y \in Id, c \in again.vis[y], ~(y \in Subtree(t, w) /\ c \in area)
       PROVE  Genuine(again.screen[c], t, y, c)
  <2>1. y \in t.live /\ t.is_open[y] /\ c \in Build(t, y)
    BY <1>9, <1>10, OneOwner
  <2>2. CASE y \in Subtree(t, w)
    <3>1. w \in Line(t, y)
      BY <2>2, SubtreeMeans
    <3>2. c \in area
      BY <2>1, <3>1, BuildWithin DEF area
    <3> QED
      BY <1>10, <2>2, <3>2
  <2>3. CASE y \notin Subtree(t, w)
    <3>1. y \in t0.live \ Subtree(t0, w)
      BY <1>1, <2>1, <2>3
    <3>2. t0.is_open[y] /\ t.at[y] = t0.at[y] /\ c \in Build(t0, y)
      BY <2>1, <3>1, Exposed
    <3>3. c \in p.vis[y]
      BY <3>2 DEF Regions, Exact
    <3> QED
      BY <1>6, <3>2, <3>3 DEF Shown, Genuine
  <2> QED
    BY <2>2, <2>3
<1>11. Shown(drawn, t)
  BY <1>1, <1>6, <1>9, <1>10, RedrawShows DEF drawn
<1>12. Held(drawn, t)
  <2>1. drawn.bitmap = saved.bitmap
    BY <1>6, <1>8, <1>9 DEF Redrawn
  <2> QED
    BY <1>3, <2>1, HeldSame
<1> QED
  BY <1>1, <1>4, <1>9, <1>11, <1>12, FrameShows

\* window_close() draws what it uncovers: the windows below w, and the parent.
LEMMA CloseShows ==
  ASSUME NEW t, TreeOK(t), NEW w \in t.live \ {Root}, t.is_open[w],
         NEW p \in Pic, Regions(p, t), Shown(p, t), Held(p, t)
  PROVE  Shown(ClosedPic(p, t, w), ClosedTree(t, w)) /\ Held(ClosedPic(p, t, w), ClosedTree(t, w))
<1> DEFINE gone == {x \in Subtree(t, w) : Mapped(t, x)}
           whole == UNION {Pos(t, x) : x \in gone}
           saved == Save(p, t, gone, whole)
           t1 == ClosedTree(t, w)
           lower == Subtrees(t, Right(t, w))
           area == Pos(t, w)
           shut == Shut(saved, w, gone)
           q == t.parent[w]
           first == Rebuild(shut, t1, lower, area)
           built == Rebuild(first, t1, {q}, area)
           drawn == Redraw(built, t1, lower \union {q}, area)
<1>1. /\ t \in Tree /\ w \in Id /\ t.live \subseteq Id /\ q \in t.live /\ q \in Id
      /\ lower \in SUBSET Id /\ lower \union {q} \in SUBSET Id
  <2>1. /\ t \in Tree /\ w \in Id /\ t.live \subseteq Id /\ q \in t.live /\ q \in Id
    BY LineStep, TreeFields DEF TreeOK
  <2>2. lower \subseteq t.live
    BY ParentApart
  <2> QED
    BY <2>1, <2>2
<1>2. /\ TreeOK(t1) /\ t1 \in Tree /\ Alike(t, t1) /\ t1.childs = t.childs
      /\ t1.live = t.live /\ t1.at = t.at /\ t1.size = t.size
      /\ \A x \in Id : t1.is_open[x] <=> t.is_open[x] /\ ~(x = w /\ Mapped(t, w))
  BY ClosedTreeOK DEF TreeOK, Alike
<1>3. CASE gone = {}
  <2>1. w \notin gone /\ w \in Subtree(t, w)
    BY <1>3, ParentApart
  <2>2. t1 = t
    BY <2>1 DEF ClosedTree
  <2>3. ClosedPic(p, t, w) = p
    BY <1>3 DEF ClosedPic
  <2> QED
    BY <2>2, <2>3
<1>4. CASE gone # {}
  <2>1. ClosedPic(p, t, w) = drawn
    BY <1>4 DEF ClosedPic
  <2>2. Mapped(t, w)
    <3>1. PICK x \in gone : TRUE
      BY <1>4
    <3>2. x \in t.live /\ w \in Line(t, x) /\ Mapped(t, x)
      BY <3>1, SubtreeMeans
    <3>3. Line(t, w) \subseteq Line(t, x)
      BY <3>2, AncestorsLive DEF Line
    <3> QED
      BY <3>2, <3>3 DEF Mapped, Line
  <2>3. drawn \in Pic /\ Regions(drawn, t1)
    BY <2>1, CloseStep
  <2>4. saved \in Pic /\ saved.screen = p.screen /\ Held(saved, t)
    <3>1. saved \in Pic /\ Held(saved, t)
      BY <1>1, SaveKeeps, SaveHolds DEF Kept
    <3>2. PICK m : m = Save(p, t, gone, whole)
      OBVIOUS
    <3> HIDE DEF gone, whole
    <3>3. Saved(p, t, gone, whole, m)
      BY <1>1, <3>2, SaveDrawn
    <3> QED
      BY <3>1, <3>2, <3>3 DEF Saved
  <2> HIDE DEF saved, gone, t1, lower, area, q
  <2>5. shut \in Pic /\ shut.screen = saved.screen /\ shut.bitmap = saved.bitmap
    <3> DEFINE vis == [y \in Id |-> IF y \in gone THEN {} ELSE saved.vis[y]]
               hid == [y \in Id |-> saved.is_hidden[y] \/ y \in gone \ {w}]
    <3>1. shut = [saved EXCEPT !.vis = vis, !.is_hidden = hid]
      BY DEF Shut
    <3>2. vis \in [Id -> SUBSET Point] /\ hid \in [Id -> BOOLEAN]
      BY <2>4, PicFields
    <3> HIDE DEF vis, hid
    <3> QED
      BY <2>4, <3>1, <3>2 DEF Pic
  <2> HIDE DEF shut
  <2>6. first \in Pic /\ first.screen = shut.screen /\ first.bitmap = shut.bitmap
    BY <1>1, <1>2, <2>5, RebuildMeans, RebuildDrawn
  <2> HIDE DEF first
  <2>7. built \in Pic /\ built.screen = first.screen /\ built.bitmap = first.bitmap
    BY <1>1, <1>2, <2>6, RebuildMeans, RebuildDrawn
  <2> HIDE DEF built
  <2>8. Kept(built, drawn)
    BY <1>1, <1>2, <2>7, RedrawKeeps
  <2>9. Regions(built, t1)
    BY <2>3, <2>8, KeptRegions
  <2>10. Elsewhere(t, t1, w)
    <3>1. \A y \in Id \ {w} : Same(t, t1, y)
      BY <1>2 DEF Same
    <3>2. w \in Subtree(t, w)
      BY ParentApart
    <3> QED
      BY <1>2, <3>1, <3>2 DEF Elsewhere
  <2>11. ASSUME NEW c \in Display, NEW y \in Id, c \in built.vis[y], ~(y \in lower \union {q} /\ c \in area)
         PROVE  Genuine(built.screen[c], t1, y, c)
    <3>1. y \in t1.live /\ t1.is_open[y] /\ c \in Build(t1, y)
      BY <1>2, <2>9, <2>11, OneOwner
    <3>2. y \notin Subtree(t, w)
      <4> SUFFICES ASSUME y \in Subtree(t, w) PROVE FALSE
        OBVIOUS
      <4>1. w \in Line(t1, y)
        BY <1>2, <3>1, SubtreeMeans, AlikeLines
      <4>2. ~t1.is_open[w]
        BY <1>1, <1>2, <2>2
      <4> QED
        BY <1>2, <3>1, <4>1, <4>2, BuildWithin
    <3>3. /\ t.is_open[y] /\ t1.at[y] = t.at[y]
          /\ c \in Build(t, y) \/ (c \in area /\ y \in lower \union {q})
      BY <1>2, <2>10, <3>1, <3>2, Exposed DEF area, lower, q
    <3>4. c \in p.vis[y]
      BY <2>11, <3>3 DEF Regions, Exact
    <3> QED
      BY <2>4, <2>5, <2>6, <2>7, <3>3, <3>4 DEF Shown, Genuine
  <2>12. Shown(drawn, t1)
    BY <1>1, <1>2, <2>7, <2>9, <2>11, RedrawShows
  <2>13. Held(drawn, t1)
    <3>1. PICK m : m = drawn
      OBVIOUS
    <3>2. m = Redraw(built, t1, lower \union {q}, area)
      BY <3>1
    <3> HIDE DEF drawn
    <3>3. Redrawn(built, t1, lower \union {q}, area, m)
      BY <1>1, <1>2, <2>7, <2>9, <3>2, RedrawDrawn
    <3>4. drawn.bitmap = saved.bitmap
      BY <2>5, <2>6, <2>7, <3>1, <3>3 DEF Redrawn
    <3> QED
      BY <1>2, <2>4, <3>4, HeldSame
  <2> QED
    BY <2>1, <2>12, <2>13 DEF t1
<1> QED
  BY <1>3, <1>4

LEMMA MinusTwice ==
  ASSUME NEW c \in Point, NEW a \in Point, NEW d \in Point
  PROVE  Minus(Minus(c, d), a) = Minus(c, Plus(a, d))
<1>1. a[1] \in Int /\ a[2] \in Int /\ c[1] \in Int /\ c[2] \in Int /\ d[1] \in Int /\ d[2] \in Int
  BY PointParts
<1>2. Minus(Minus(c, d), a) = <<(c[1] - d[1]) - a[1], (c[2] - d[2]) - a[2]>>
  BY DEF Minus
<1>3. Minus(c, Plus(a, d)) = <<c[1] - (a[1] + d[1]), c[2] - (a[2] + d[2])>>
  BY DEF Minus, Plus
<1>4. (c[1] - d[1]) - a[1] = c[1] - (a[1] + d[1]) /\ (c[2] - d[2]) - a[2] = c[2] - (a[2] + d[2])
  BY <1>1
<1> QED
  BY <1>2, <1>3, <1>4

\* window_move() draws w, or copies it, and what it uncovers.
LEMMA MoveShows ==
  ASSUME NEW t, TreeOK(t), NEW w \in t.live \ {Root}, t.is_open[w], NEW d \in Point,
         NEW p \in Pic, Regions(p, t), Shown(p, t), Held(p, t)
  PROVE  LET t1 == Moved(t, Subtree(t, w), d)
         IN  Shown(MovedPic(p, t, w, d), t1) /\ Held(MovedPic(p, t, w, d), t1)
<1> DEFINE t1 == Moved(t, Subtree(t, w), d)
           old == Pos(t, w)
           new == Pos(t1, w)
           area == old \union new
           q == t.parent[w]
           lower == Subtrees(t, Right(t, w))
           covered == IsHidden(t, w) \/ IsHidden(t1, w)
           first == Save(p, t, Subtree(t, w), old)
           saved == Save(first, t, lower \union {q}, new)
           placed == IF covered THEN saved
                     ELSE [saved EXCEPT !.vis = [x \in Id |->
                             IF x \in Subtree(t, w) /\ t.is_open[x] THEN Shift(@[x], d) ELSE @[x]]]
           T == IF covered THEN lower \union Subtree(t, w) ELSE lower
           rebuilt == Rebuild(placed, t1, T, area)
           built == Rebuild(rebuilt, t1, {q}, area)
           drawn == IF covered THEN Redraw(built, t1, Subtree(t, w), new)
                    ELSE [built EXCEPT !.screen = [c \in Display |->
                            IF c \in new THEN @[Minus(c, d)] ELSE @[c]]]
           again == Redraw(drawn, t1, lower \union {q}, old)
<1>1. /\ t \in Tree /\ w \in Id /\ t.live \subseteq Id /\ q \in t.live /\ q \in Id
      /\ Subtree(t, w) \in SUBSET Id /\ lower \in SUBSET Id /\ lower \union {q} \in SUBSET Id
      /\ q \notin Subtree(t, w) /\ w \in Subtree(t, w)
  BY LineStep, TreeFields, ParentApart DEF TreeOK
<1>2. Root \notin Subtree(t, w)
  BY RootAbove, SubtreeMeans DEF Line
<1>3. /\ TreeOK(t1) /\ Alike(t, t1) /\ t1.childs = t.childs /\ t1.is_open = t.is_open /\ t1.size = t.size
      /\ \A x \in Id : t1.at[x] = IF x \in Subtree(t, w) /\ t.is_open[x] THEN Plus(t.at[x], d) ELSE t.at[x]
      /\ t1 \in Tree /\ t1.live = t.live
  BY <1>1, <1>2, MovedTree DEF TreeOK, Alike
<1>4. MovedPic(p, t, w, d) = again
  BY DEF MovedPic
<1>5. again \in Pic /\ Regions(again, t1)
  BY <1>4, MoveStep
<1>6. /\ saved \in Pic /\ saved.screen = p.screen /\ Held(saved, t)
      /\ saved.vis = p.vis
  <2>1. first \in Pic /\ Held(first, t) /\ first.vis = p.vis
    BY <1>1, SaveKeeps, SaveHolds DEF Kept
  <2>2. saved \in Pic /\ Held(saved, t) /\ saved.vis = first.vis
    <3> HIDE DEF first
    <3> QED
      BY <1>1, <2>1, SaveKeeps, SaveHolds DEF Kept
  <2>3. first.screen = p.screen
    <3>1. PICK m : m = first
      OBVIOUS
    <3>2. Saved(p, t, Subtree(t, w), old, m)
      BY <1>1, <3>1, SaveDrawn
    <3> QED
      BY <3>1, <3>2 DEF Saved
  <2>4. saved.screen = first.screen
    <3> HIDE DEF first, new
    <3>1. PICK m : m = saved
      OBVIOUS
    <3>2. Saved(first, t, lower \union {q}, new, m)
      BY <1>1, <2>1, <3>1, SaveDrawn
    <3> HIDE DEF saved
    <3> QED
      BY <3>1, <3>2 DEF Saved
  <2> QED
    BY <2>1, <2>2, <2>3, <2>4
<1> HIDE DEF t1, saved, q, lower
<1>7. /\ placed \in Pic /\ placed.screen = saved.screen /\ placed.bitmap = saved.bitmap
  <2>1. CASE covered
    BY <1>6, <2>1
  <2>2. CASE ~covered
    <3> DEFINE vis == [x \in Id |-> IF x \in Subtree(t, w) /\ t.is_open[x]
                                    THEN Shift(saved.vis[x], d) ELSE saved.vis[x]]
    <3>1. vis \in [Id -> SUBSET Point]
      <4>1. \A x \in Id : saved.vis[x] \in SUBSET Point
        BY <1>6, PicFields
      <4>2. \A x \in Id : Shift(saved.vis[x], d) \in SUBSET Point
        BY <4>1, ShiftMeans
      <4> QED
        BY <4>1, <4>2
    <3>2. placed = [saved EXCEPT !.vis = vis]
      BY <1>6, <2>2 DEF Pic
    <3> HIDE DEF vis, placed
    <3> QED
      BY <1>6, <3>1, <3>2 DEF Pic
  <2> QED
    BY <2>1, <2>2
<1>8. T \in SUBSET Id
  BY <1>1
<1> HIDE DEF placed, area, T
<1>9. rebuilt \in Pic /\ rebuilt.screen = placed.screen /\ rebuilt.bitmap = placed.bitmap
  BY <1>3, <1>7, <1>8, RebuildMeans, RebuildDrawn
<1> HIDE DEF rebuilt
<1>10. built \in Pic /\ built.screen = p.screen /\ built.bitmap = saved.bitmap
  <2>1. built \in Pic /\ built.screen = rebuilt.screen /\ built.bitmap = rebuilt.bitmap
    BY <1>1, <1>3, <1>9, RebuildMeans, RebuildDrawn
  <2> QED
    BY <1>6, <1>7, <1>9, <2>1
<1> HIDE DEF built, covered
<1>11. \A x \in Subtree(t, w) : t.is_open[x] => Shifted(t, t1, x, d)
  BY <1>1, <1>3, MovedShifts
<1>12. Elsewhere(t, t1, w)
  BY <1>3 DEF Elsewhere, Same
<1>13. ~covered => /\ Kept(built, drawn) /\ drawn.bitmap = built.bitmap
                   /\ \A c \in Display : drawn.screen[c] = IF c \in new THEN built.screen[Minus(c, d)]
                                                           ELSE built.screen[c]
  <2> HAVE ~covered
  <2>1. drawn = [built EXCEPT !.screen = [c \in Display |->
                   IF c \in new THEN built.screen[Minus(c, d)] ELSE built.screen[c]]]
    BY <1>10 DEF Pic
  <2>2. Shifted(t, t1, w, d) /\ ~IsHidden(t, w)
    BY <1>1, <1>11 DEF covered
  <2> HIDE DEF drawn
  <2> QED
    BY <1>10, <2>1, <2>2, ScreenMoved
<1>14. drawn \in Pic /\ Kept(built, drawn)
  <2>1. CASE covered
    <3>1. drawn = Redraw(built, t1, Subtree(t, w), new)
      BY <2>1
    <3> HIDE DEF drawn, new
    <3> QED
      BY <1>1, <1>3, <1>10, <3>1, RedrawKeeps DEF Kept
  <2> QED
    BY <1>13, <2>1 DEF Kept
<1> HIDE DEF drawn
<1>15. Regions(drawn, t1) /\ Regions(built, t1)
  <2>1. Kept(drawn, again)
    BY <1>1, <1>3, <1>14, RedrawKeeps
  <2> QED
    BY <1>5, <1>14, <2>1, KeptRegions
<1>16. covered => Redrawn(built, t1, Subtree(t, w), new, drawn)
  BY <1>1, <1>3, <1>10, <1>15, RedrawDrawn DEF drawn
<1>17. ASSUME NEW c \in Display, NEW y \in Id, c \in drawn.vis[y], ~(y \in lower \union {q} /\ c \in old)
       PROVE  Genuine(drawn.screen[c], t1, y, c)
  <2>1. y \in t.live /\ t1.is_open[y] /\ c \in Build(t1, y) /\ c \in built.vis[y]
    BY <1>3, <1>14, <1>15, <1>17, OneOwner DEF Kept
  <2>2. CASE y \in Subtree(t, w)
    <3>1. w \in Line(t1, y)
      BY <1>3, <2>1, <2>2, SubtreeMeans, AlikeLines
    <3>2. c \in new
      BY <1>3, <2>1, <3>1, BuildWithin
    <3>3. CASE covered
      BY <1>16, <2>1, <2>2, <3>2, <3>3 DEF Redrawn, Genuine
    <3>4. CASE ~covered
      <4> DEFINE b == Minus(c, d)
      <4>1. c \in Point /\ b \in Point /\ Plus(b, d) = c
        BY DisplayPoints, PointMoves
      <4>2. b \in Build(t, y)
        BY <1>3, <1>11, <1>12, <2>1, <2>2, <3>4, <4>1, MovedCell DEF covered
      <4>3. t.is_open[y] /\ b \in p.vis[y] /\ b \in Display
        <5>1. y # Root /\ Root \in Ancestors(t, y) /\ Work(t, Root) = Display
          BY <1>2, <2>1, <2>2, RootAbove
        <5> QED
          BY <1>3, <2>1, <4>2, <5>1, BuildMeans DEF Regions, Exact, Inside
      <4>4. Genuine(p.screen[b], t, y, b)
        BY <4>3 DEF Shown
      <4>5. Minus(b, t.at[y]) = Minus(c, t1.at[y])
        <5>1. t1.at[y] = Plus(t.at[y], d) /\ t.at[y] \in Point
          BY <1>1, <1>3, <2>2, <4>3, TreeFields
        <5> QED
          BY <4>1, <5>1, MinusTwice
      <4>6. drawn.screen[c] = p.screen[b]
        BY <1>10, <1>13, <3>2, <3>4
      <4> QED
        BY <4>4, <4>5, <4>6 DEF Genuine
    <3> QED
      BY <3>3, <3>4
  <2>3. CASE y \notin Subtree(t, w)
    <3>1. /\ t.is_open[y] /\ t1.at[y] = t.at[y]
          /\ c \in Build(t, y) \/ (c \in old /\ y \in lower \union {q})
      BY <1>3, <1>12, <2>1, <2>3, Exposed DEF lower, q
    <3>2. Genuine(p.screen[c], t, y, c)
      BY <1>17, <3>1 DEF Shown, Regions, Exact
    <3>3. drawn.screen[c] = p.screen[c]
      <4>1. CASE covered
        <5>1. \A x \in Id : c \in built.vis[x] => x = y
          BY <1>3, <1>15, <2>1, OneOwner
        <5> QED
          BY <1>10, <1>16, <2>1, <2>3, <4>1 DEF Redrawn
      <4>2. CASE ~covered
        <5>1. ASSUME c \in new PROVE FALSE
          <6>1. t1.is_open[w] /\ ~IsHidden(t1, w) /\ w \in t1.live
            BY <1>3, <4>2 DEF covered
          <6>2. Inside(t1, w, c) /\ ~Covered(t1, w, c)
            BY <5>1, <6>1 DEF IsHidden, Inside, Covered, Line
          <6>3. w \in Line(t1, y)
            BY <1>3, <2>1, <5>1, <6>1, <6>2, InFront
          <6> QED
            BY <1>1, <1>3, <2>1, <2>3, <6>3, SubtreeMeans, AlikeLines
        <5> QED
          BY <1>10, <1>13, <4>2, <5>1
      <4> QED
        BY <4>1, <4>2
    <3> QED
      BY <3>1, <3>2, <3>3 DEF Genuine
  <2> QED
    BY <2>2, <2>3
<1> HIDE DEF old, new
<1>18. Shown(again, t1)
  BY <1>1, <1>3, <1>14, <1>15, <1>17, RedrawShows
<1>19. Held(again, t1)
  <2>1. Redrawn(drawn, t1, lower \union {q}, old, again)
    <3>1. PICK m : m = again
      OBVIOUS
    <3>2. m = Redraw(drawn, t1, lower \union {q}, old)
      BY <3>1
    <3> HIDE DEF again
    <3> QED
      BY <1>1, <1>3, <1>14, <1>15, <3>1, <3>2, RedrawDrawn
  <2> HIDE DEF again
  <2>2. again.bitmap = saved.bitmap
    BY <1>10, <1>13, <1>16, <2>1 DEF Redrawn
  <2> QED
    BY <1>3, <1>6, <2>2, HeldSame
<1> QED
  BY <1>4, <1>18, <1>19 DEF t1

\* What is visible was so before if no more windows above were around it.
LEMMA LessAbove ==
  ASSUME NEW t0, NEW t, TreeOK(t0), TreeOK(t), Alike(t0, t),
         t.is_open = t0.is_open, t.at = t0.at, t.size = t0.size, NEW y \in t0.live, NEW c \in Build(t, y),
         \A a \in Line(t0, y) : \A x \in Left(t0, a) : c \in Pos(t0, x) => x \in Left(t, a)
  PROVE  c \in Build(t0, y)
<1>1. \A x : Pos(t, x) = Pos(t0, x) /\ Work(t, x) = Work(t0, x)
  BY DEF Pos, Work, Full
<1>2. y \in Id
  BY TreeFields DEF TreeOK
<1>3. Ancestors(t, y) = Ancestors(t0, y) /\ Line(t, y) = Line(t0, y)
  BY <1>2, AlikeLines
<1>4. Childs(t, y) = Childs(t0, y)
  <2>1. Childs(t, y) = {x \in t.live : t.parent[x] = y} /\ Childs(t0, y) = {x \in t0.live : t0.parent[x] = y}
    BY <1>2 DEF TreeOK
  <2> QED
    BY <2>1 DEF Alike
<1>5. c \in Pos(t, y) /\ Inside(t, y, c) /\ ~Covered(t, y, c) /\ ~ByChild(t, y, c)
  BY BuildMeans
<1>6. Inside(t0, y, c)
  BY <1>1, <1>3, <1>5 DEF Inside
<1>7. ~ByChild(t0, y, c)
  BY <1>1, <1>4, <1>5 DEF ByChild
<1>8. ~Covered(t0, y, c)
  BY <1>1, <1>3, <1>5 DEF Covered
<1> QED
  BY <1>1, <1>5, <1>6, <1>7, <1>8, BuildMeans

\* w_topDown() uncovers w, or what was below it.
LEMMA TopDownExposed ==
  ASSUME TreeOK(tree), NEW w \in Window, TopDown(w), NEW N, N = tree',
         NEW y \in tree.live, NEW c \in Build(N, y)
  PROVE  /\ ToTop(w) => (y \in Subtree(tree, w) /\ c \in Pos(tree, w)) \/ c \in Build(tree, y)
         /\ ToBottom(w) => (y \in Subtrees(tree, Right(tree, w)) /\ c \in Pos(tree, w)) \/ c \in Build(tree, y)
<1> DEFINE area == Pos(tree, w)
           below == Right(tree, w)
<1>1. w \in tree.live \ {Root} /\ tree \in Tree /\ w \in Id /\ tree.live \subseteq Id
  BY TopDownTree, TreeFields DEF TreeOK
<1>2. Restacked(tree, N, w) /\ N \in Tree
  BY TopDownTree DEF Restacked, TreeOK
<1>3. \A a \in Line(tree, y) : a \in tree.live /\ \A x \in Left(tree, a) : x \in Id
  <2>1. \A a \in Line(tree, y) : a \in tree.live
    BY AncestorsLive
  <2>2. \A a \in tree.live : \A x \in Left(tree, a) : x \in Id
    BY <1>1, SiblingsOf DEF Left
  <2> QED
    BY <2>1, <2>2
<1>4. ASSUME \A a \in Line(tree, y) : w \in Left(tree, a) /\ c \in area => w \in Left(N, a),
             w \notin Line(tree, y) \/ Left(tree, w) = {}
      PROVE  c \in Build(tree, y)
  <2>1. ASSUME NEW a \in Line(tree, y), NEW x \in Left(tree, a), c \in Pos(tree, x)
        PROVE  x \in Left(N, a)
    <3>1. CASE x = w
      BY <1>4, <2>1, <3>1
    <3>2. CASE x # w
      <4>1. a \in tree.live /\ x \in Id /\ a # w
        BY <1>3, <1>4, <2>1
      <4> QED
        BY <1>2, <2>1, <3>2, <4>1 DEF Restacked
    <3> QED
      BY <3>1, <3>2
  <2> QED
    BY <1>2, <2>1, LessAbove DEF Restacked
<1>5. ASSUME ToTop(w), ~(y \in Subtree(tree, w) /\ c \in area)
      PROVE  c \in Build(tree, y)
  <2>1. y \notin Subtree(tree, w)
    <3> SUFFICES ASSUME y \in Subtree(tree, w) PROVE FALSE
      OBVIOUS
    <3>1. w \in Line(N, y) /\ y \in N.live /\ TreeOK(N)
      BY <1>1, <1>2, SubtreeMeans, AlikeLines DEF Restacked, Alike
    <3>2. Pos(N, w) = area
      BY <1>2 DEF Restacked, Pos, Full
    <3> QED
      BY <1>5, <3>1, <3>2, BuildWithin
  <2>2. w \notin Line(tree, y)
    BY <2>1, SubtreeMeans
  <2>3. ASSUME NEW a \in Line(tree, y), w \in Left(tree, a)
        PROVE  w \in Left(N, a)
    <3>1. a \in tree.live \ {Root} /\ a # w
      BY <1>3, <2>2, <2>3 DEF Left
    <3>2. a \notin Left(tree, w)
      BY <1>1, <2>3, <3>1, SiblingsOf
    <3> QED
      BY <1>5, <2>3, <3>1, <3>2, TopDownTree
  <2> QED
    BY <1>4, <2>2, <2>3
<1>6. ASSUME ToBottom(w), ~(y \in Subtrees(tree, below) /\ c \in area)
      PROVE  c \in Build(tree, y)
  <2>1. /\ Left(tree, w) = {}
        /\ \A a \in tree.live \ (below \union {w}) : w \in Left(N, a) <=> w \in Left(tree, a)
    BY <1>6, TopDownTree
  <2>2. ASSUME NEW a \in Line(tree, y), w \in Left(tree, a), c \in area
        PROVE  w \in Left(N, a)
    <3>1. a \in tree.live /\ a # w
      BY <1>3, <2>1, <2>2
    <3>2. a \notin below
      BY <1>6, <2>2, SubtreeMeans DEF Subtrees
    <3> QED
      BY <2>1, <2>2, <3>1, <3>2
  <2> QED
    BY <1>4, <2>1, <2>2
<1> QED
  BY <1>5, <1>6

\* window_to_top() draws w, window_to_bottom() what was below it.
LEMMA TopDownShows ==
  ASSUME TreeOK(tree), pic \in Pic, Regions(pic, tree), Shown(pic, tree), Held(pic, tree),
         NEW w \in Window, TopDown(w)
  PROVE  Shown(pic', tree') /\ Held(pic', tree')
<1> DEFINE area == Pos(tree, w)
<1>1. w \in tree.live \ {Root} /\ tree \in Tree /\ w \in Id /\ tree.live \subseteq Id
  BY TopDownTree, TreeFields DEF TreeOK
<1>2. PICK N : N = tree'
  OBVIOUS
<1>3. Restacked(tree, N, w) /\ N \in Tree
  BY <1>2, TopDownTree DEF Restacked, TreeOK
<1>4. PICK P : P = pic'
  OBVIOUS
<1>5. P \in Pic /\ Regions(P, N)
  BY <1>2, <1>4, TopDownStep
<1>6. ASSUME NEW S \in SUBSET Id, NEW saved, Kept(pic, saved), saved.screen = pic.screen, Held(saved, tree),
             NEW all \in SUBSET Id, NEW built, built = Rebuild(saved, N, all, area),
             P = Redraw(built, N, S, area),
             \A y \in tree.live : \A c \in Build(N, y) : ~(y \in S /\ c \in area) => c \in Build(tree, y)
      PROVE  Shown(P, N) /\ Held(P, N)
  <2>1. built \in Pic /\ built.screen = pic.screen /\ built.bitmap = saved.bitmap
    <3>1. saved \in Pic
      BY <1>6 DEF Kept
    <3> HIDE DEF area
    <3>2. built \in Pic
      BY <1>3, <1>6, <3>1, RebuildMeans
    <3>3. built.screen = saved.screen /\ built.bitmap = saved.bitmap
      BY <1>6, <3>1, RebuildDrawn
    <3> QED
      BY <1>6, <3>2, <3>3
  <2>2. Kept(built, P)
    BY <1>3, <1>6, <2>1, RedrawKeeps
  <2>3. Regions(built, N) /\ TreeOK(N)
    BY <1>3, <1>5, <2>2, KeptRegions DEF Restacked
  <2> HIDE DEF area
  <2>4. ASSUME NEW c \in Display, NEW y \in Id, c \in built.vis[y], ~(y \in S /\ c \in area)
        PROVE  Genuine(built.screen[c], N, y, c)
    <3>1. y \in N.live /\ N.is_open[y] /\ c \in Build(N, y)
      BY <2>3, <2>4, OneOwner
    <3>2. N.live = tree.live /\ N.is_open = tree.is_open /\ N.at = tree.at
      BY <1>3 DEF Restacked, Alike
    <3>3. c \in pic.vis[y]
      BY <1>6, <2>4, <3>1, <3>2 DEF Regions, Exact
    <3> QED
      BY <2>1, <3>2, <3>3 DEF Shown, Genuine
  <2>5. Shown(P, N)
    BY <1>6, <2>1, <2>3, <2>4, RedrawShows
  <2>6. P.bitmap = saved.bitmap
    <3>1. Redrawn(built, N, S, area, P)
      BY <1>6, <2>1, <2>3, RedrawDrawn
    <3> QED
      BY <2>1, <3>1 DEF Redrawn
  <2>7. Held(P, N)
    BY <1>3, <1>6, <2>6, HeldSame DEF Restacked, Alike
  <2> QED
    BY <2>5, <2>7
<1>7. ASSUME NEW S, NEW saved, saved = Save(pic, tree, S, area)
      PROVE  Kept(pic, saved) /\ saved.screen = pic.screen /\ Held(saved, tree)
  <2>1. Saved(pic, tree, S, area, saved)
    BY <1>1, <1>7, SaveDrawn
  <2> QED
    BY <1>1, <1>7, <2>1, SaveKeeps, SaveHolds DEF Saved
<1>8. CASE ToTop(w)
  <2> DEFINE all == Subtrees(tree, Left(tree, w) \union {w})
             saved == Save(pic, tree, all, area)
             built == Rebuild(saved, N, all, area)
  <2>1. P = Redraw(built, N, Subtree(tree, w), area)
    BY <1>2, <1>4, <1>8 DEF ToTop
  <2>2. Kept(pic, saved) /\ saved.screen = pic.screen /\ Held(saved, tree)
    BY <1>7
  <2>3. all \in SUBSET Id /\ Subtree(tree, w) \in SUBSET Id
    BY <1>1 DEF Subtrees, Subtree
  <2>4. \A y \in tree.live : \A c \in Build(N, y) : ~(y \in Subtree(tree, w) /\ c \in area) => c \in Build(tree, y)
    BY <1>2, <1>8, TopDownExposed
  <2> HIDE DEF all, saved, built, area
  <2>5. Shown(P, N) /\ Held(P, N)
    BY <1>6, <2>1, <2>2, <2>3, <2>4 DEF built
  <2> QED
    BY <1>2, <1>4, <2>5
<1>9. CASE ToBottom(w)
  <2> DEFINE below == Right(tree, w)
             all == Subtrees(tree, below \union {w})
             saved == Save(pic, tree, Subtree(tree, w), area)
             built == Rebuild(saved, N, all, area)
  <2>1. P = IF below = {} THEN pic ELSE Redraw(built, N, Subtrees(tree, below), area)
    BY <1>2, <1>4, <1>9 DEF ToBottom
  <2>2. CASE below = {}
    <3>1. P = pic /\ N.live = tree.live /\ N.size = tree.size /\ N.at = tree.at
      BY <1>3, <2>1, <2>2 DEF Restacked, Alike
    <3>2. Shown(P, N)
      BY <3>1 DEF Shown, Genuine
    <3>3. Held(P, N)
      BY <3>1, HeldSame
    <3> QED
      BY <1>2, <1>4, <3>2, <3>3
  <2>3. CASE below # {}
    <3>1. Kept(pic, saved) /\ saved.screen = pic.screen /\ Held(saved, tree)
      BY <1>7
    <3>2. all \in SUBSET Id /\ Subtrees(tree, below) \in SUBSET Id
      BY <1>1 DEF Subtrees, Subtree
    <3>3. \A y \in tree.live : \A c \in Build(N, y) :
            ~(y \in Subtrees(tree, below) /\ c \in area) => c \in Build(tree, y)
      BY <1>2, <1>9, TopDownExposed
    <3> HIDE DEF all, saved, built, area
    <3>4. P = Redraw(built, N, Subtrees(tree, below), area)
      BY <2>1, <2>3
    <3>5. Shown(P, N) /\ Held(P, N)
      BY <1>6, <3>1, <3>2, <3>3, <3>4 DEF built
    <3> QED
      BY <1>2, <1>4, <3>5
  <2> QED
    BY <2>2, <2>3
<1> QED
  BY <1>8, <1>9 DEF TopDown

\* The work area of a window lies in it, and is not empty.
LEMMA WorkInside ==
  ASSUME NEW t \in Tree, NEW w \in Id
  PROVE  WorkCells(t, w) \subseteq Cells(t, w) /\ Edge(w) \in WorkCells(t, w)
<1> DEFINE s == t.size[w]
           e == Edge(w)
           f == Full(t, w)
<1>1. s \in Extent /\ e \in Nat \X Nat
  BY TreeFields, SizesAreExtents DEF Edge
<1>2. /\ s \in Point /\ e \in Point /\ f \in Point /\ <<0, 0>> \in Point
      /\ s[1] \in Nat \ {0} /\ s[2] \in Nat \ {0} /\ e[1] \in Nat /\ e[2] \in Nat
      /\ f[1] = s[1] + (e[1] + e[1]) /\ f[2] = s[2] + (e[2] + e[2])
  <2>1. s \in Point /\ e \in Point /\ <<0, 0>> \in Point
    BY <1>1 DEF Extent, Point
  <2>2. s[1] \in Nat \ {0} /\ s[2] \in Nat \ {0} /\ e[1] \in Nat /\ e[2] \in Nat
    BY <1>1 DEF Extent
  <2>3. f[1] = s[1] + (e[1] + e[1]) /\ f[2] = s[2] + (e[2] + e[2])
    BY DEF Full, Plus
  <2>4. f \in Point
    BY PosFacts
  <2> QED
    BY <2>1, <2>2, <2>3, <2>4
<1>3. WorkCells(t, w) = Box(e, s) /\ Cells(t, w) = Box(<<0, 0>>, f)
  BY DEF WorkCells, Cells
<1> HIDE DEF s, e, f
<1>4. e \in Box(e, s)
  BY <1>2, BoxMeans
<1>5. ASSUME NEW c \in Box(e, s)
      PROVE  c \in Box(<<0, 0>>, f)
  <2>1. /\ c \in Point /\ e[1] <= c[1] /\ c[1] < e[1] + s[1] /\ e[2] <= c[2] /\ c[2] < e[2] + s[2]
    BY <1>2, BoxMeans
  <2>2. c[1] \in Int /\ c[2] \in Int
    BY <2>1, PointParts
  <2>3. 0 <= c[1] /\ c[1] < 0 + f[1] /\ 0 <= c[2] /\ c[2] < 0 + f[2]
    BY <1>2, <2>1, <2>2
  <2>4. <<0, 0>>[1] = 0 /\ <<0, 0>>[2] = 0
    OBVIOUS
  <2> QED
    BY <1>2, <2>1, <2>3, <2>4, BoxMeans
<1> QED
  BY <1>3, <1>4, <1>5 DEF e

-----------------------------------------------------------------------------
(* What the bitmaps and the screen have between them.                      *)

\* A bitmap is up to date in all of its window, or the window is in full sight, and
\* known to be newer on the screen.
Whole(p, t, y) == Cells(t, y) \subseteq p.bitmap[y]
Backed(p, t) == \A y \in t.live : Whole(p, t, y) \/ (y \notin Container /\ Newer(p, t, y))

\* Nothing is to be drawn again of a window in full sight, and all that is visible and
\* not to be drawn again is on the screen.
Settled(p, t) == \A y \in t.live \ Container : Direct(p, t, y) => p.dirty[y] = {}
Sharp(p, t) == \A c \in Display, y \in Id : c \in p.vis[y] =>
                 LET r == Minus(c, t.at[y]) IN p.screen[c] = <<y, r>> \/ r \in p.dirty[y]
Intact(p, t) == Backed(p, t) /\ Settled(p, t) /\ Sharp(p, t)

\* The smallest box around some cells of a window holds them.
LEMMA HullHolds ==
  ASSUME NEW t \in Tree, NEW w \in Id, NEW S, NEW r \in S, r \in Cells(t, w)
  PROVE  r \in Hull(t, w, S)
<1>1. r \in Point
  BY CellsPoints
<1>2. r[1] <= r[1] /\ r[2] <= r[2]
  BY <1>1, PointParts
<1> DEFINE xs == {a[1] : a \in S}
           ys == {a[2] : a \in S}
<1>3. r[1] \in xs /\ r[2] \in ys
  OBVIOUS
<1> HIDE DEF xs, ys
<1>4. /\ \E x \in xs : x <= r[1]
      /\ \E x \in xs : r[1] <= x
      /\ \E y \in ys : y <= r[2]
      /\ \E y \in ys : r[2] <= y
  BY <1>2, <1>3
<1> QED
  BY <1>4 DEF Hull, xs, ys

\* Whether all is kept does not depend on the order of the windows.
LEMMA IntactSame ==
  ASSUME NEW p, NEW t, NEW u, u.live = t.live, u.is_open = t.is_open, u.at = t.at, u.size = t.size, Intact(p, t)
  PROVE  Intact(p, u)
BY DEF Intact, Backed, Settled, Sharp, Whole, Newer, Direct, Cells, Full

\* A drawing request changes the bitmap, or marks it as older than the screen.
LEMMA PaintStores ==
  ASSUME NEW p \in Pic, NEW t, TreeOK(t), Regions(p, t), NEW w \in Id \ Container,
         NEW part \in SUBSET Cells(t, w), Intact(p, t)
  PROVE  Intact(Paint(p, t, w, part), t)
<1> DEFINE q == Paint(p, t, w, part)
           direct == Direct(p, t, w)
<1>1. t \in Tree /\ t.live \subseteq Id
  BY TreeFields DEF TreeOK
<1>2. part \in SUBSET Point
  BY <1>1, CellsPoints
<1>3. q.vis = p.vis /\ q.is_hidden = p.is_hidden
  BY <1>1, <1>2, PaintKeeps DEF Kept
<1>0. q = Paint(p, t, w, part)
  OBVIOUS
<1> HIDE DEF q
<1>4. /\ \A c \in Display :
           q.screen[c] = IF direct /\ c \in Shift(part, t.at[w]) THEN <<w, Minus(c, t.at[w])>>
                         ELSE IF p.screen[c] \in {w} \X part THEN Stale ELSE p.screen[c]
      /\ q.bitmap = [p.bitmap EXCEPT ![w] = IF direct THEN @ \ part ELSE @ \union part]
      /\ q.is_dirty = IF direct THEN [p.is_dirty EXCEPT ![w] = TRUE] ELSE p.is_dirty
      /\ q.dirty = IF ~direct /\ t.is_open[w]
                   THEN [p.dirty EXCEPT ![w] = Hull(t, w, @ \union part)] ELSE p.dirty
  <2>1. Painted(p, t, w, part, q)
    BY <1>0, <1>1, PaintDrawn
  <2> QED
    BY <2>1 DEF Painted
<1>5. direct => p.vis[w] = Pos(t, w)
  BY DEF Regions, Exact, Direct
<1>7. \A y : Direct(q, t, y) <=> Direct(p, t, y)
  BY <1>3 DEF Direct
<1>11. direct <=> Direct(p, t, w)
  OBVIOUS
<1> HIDE DEF direct
<1>6. /\ \A y \in Id : y # w => /\ q.bitmap[y] = p.bitmap[y] /\ q.dirty[y] = p.dirty[y]
                                /\ q.is_dirty[y] = p.is_dirty[y]
      /\ ~direct => q.is_dirty[w] = p.is_dirty[w] /\ p.bitmap[w] \subseteq q.bitmap[w]
      /\ direct => q.is_dirty[w] /\ q.dirty[w] = p.dirty[w]
      /\ ~direct /\ t.is_open[w] => q.dirty[w] = Hull(t, w, p.dirty[w] \union part)
  <2> DEFINE hull == Hull(t, w, p.dirty[w] \union part)
  <2>1. /\ p.bitmap \in [Id -> SUBSET Point] /\ p.dirty \in [Id -> SUBSET Point]
        /\ p.is_dirty \in [Id -> BOOLEAN]
    BY PicFields
  <2>2. q.dirty = IF ~direct /\ t.is_open[w] THEN [p.dirty EXCEPT ![w] = hull] ELSE p.dirty
    BY <1>4
  <2> HIDE DEF hull
  <2>3. /\ \A y \in Id : y # w => q.dirty[y] = p.dirty[y]
        /\ direct => q.dirty[w] = p.dirty[w]
        /\ ~direct /\ t.is_open[w] => q.dirty[w] = hull
    BY <2>1, <2>2
  <2>4. /\ \A y \in Id : y # w => q.is_dirty[y] = p.is_dirty[y]
        /\ ~direct => q.is_dirty[w] = p.is_dirty[w]
        /\ direct => q.is_dirty[w]
    BY <1>4, <2>1
  <2>5. /\ \A y \in Id : y # w => q.bitmap[y] = p.bitmap[y]
        /\ ~direct => p.bitmap[w] \subseteq q.bitmap[w]
    BY <1>4, <2>1
  <2> QED
    BY <2>3, <2>4, <2>5 DEF hull
<1>8. Backed(q, t)
  <2> SUFFICES ASSUME NEW y \in t.live PROVE Whole(q, t, y) \/ (y \notin Container /\ Newer(q, t, y))
    BY DEF Backed
  <2>1. Whole(p, t, y) \/ (y \notin Container /\ Newer(p, t, y))
    BY DEF Intact, Backed
  <2>2. CASE y = w /\ direct
    BY <1>3, <1>6, <1>11, <2>2 DEF Newer, Direct
  <2>3. CASE ~(y = w /\ direct)
    BY <1>1, <1>3, <1>6, <2>1, <2>3 DEF Newer, Whole
  <2> QED
    BY <2>2, <2>3
<1>9. Settled(q, t)
  BY <1>1, <1>6, <1>7, <1>11 DEF Intact, Settled
<1>10. ASSUME NEW c \in Display, NEW y \in Id, c \in q.vis[y]
       PROVE  q.screen[c] = <<y, Minus(c, t.at[y])>> \/ Minus(c, t.at[y]) \in q.dirty[y]
  <2> DEFINE r == Minus(c, t.at[y])
  <2>1. p.screen[c] = <<y, r>> \/ r \in p.dirty[y]
    BY <1>3, <1>10 DEF Intact, Sharp
  <2>2. t.is_open[y] /\ c \in Pos(t, y) /\ c \in Point
    BY <1>3, <1>10, OneOwner, DisplayPoints
  <2>3. r \in Cells(t, y)
    BY <1>1, <2>2, CellsAt
  <2>7. q.screen[c] = IF direct /\ c \in Shift(part, t.at[w]) THEN <<w, Minus(c, t.at[w])>>
                      ELSE IF p.screen[c] \in {w} \X part THEN Stale ELSE p.screen[c]
    BY <1>4
  <2>8. <<y, r>> \in {w} \X part <=> y = w /\ r \in part
    OBVIOUS
  <2> SUFFICES q.screen[c] = <<y, r>> \/ r \in q.dirty[y]
    OBVIOUS
  <2> HIDE DEF r
  <2>4. CASE direct /\ c \in Shift(part, t.at[w])
    <3>1. Minus(c, t.at[w]) \in part
      BY <1>1, <1>2, <2>2, <2>4, CellsAt
    <3>2. c \in Pos(t, w)
      BY <1>1, <2>2, <3>1, CellsAt
    <3>3. w = y
      BY <1>3, <1>5, <1>10, <2>4, <3>2, OneOwner
    <3> QED
      BY <2>4, <2>7, <3>3 DEF r
  <2>5. CASE ~(direct /\ c \in Shift(part, t.at[w])) /\ y # w
    <3>1. ASSUME p.screen[c] = <<y, r>> PROVE q.screen[c] = <<y, r>>
      BY <2>5, <2>7, <2>8, <3>1
    <3> QED
      BY <1>6, <2>1, <2>5, <3>1
  <2>6. CASE ~(direct /\ c \in Shift(part, t.at[w])) /\ y = w
    <3>1. CASE direct
      <4>1. r \notin part
        BY <1>1, <1>2, <2>2, <2>6, <3>1, CellsAt DEF r
      <4>2. ASSUME p.screen[c] = <<y, r>> PROVE q.screen[c] = <<y, r>>
        BY <2>6, <2>7, <2>8, <4>1, <4>2
      <4> QED
        BY <1>6, <2>1, <2>6, <3>1, <4>2
    <3>2. CASE ~direct
      <4>1. q.dirty[w] = Hull(t, w, p.dirty[w] \union part)
        BY <1>6, <2>2, <2>6, <3>2
      <4>2. CASE r \in p.dirty[w] \union part
        BY <1>1, <2>3, <2>6, <4>1, <4>2, HullHolds
      <4>3. CASE r \notin p.dirty[w] \union part
        BY <2>1, <2>6, <2>7, <2>8, <4>3
      <4> QED
        BY <4>2, <4>3
    <3> QED
      BY <3>1, <3>2
  <2> QED
    BY <2>4, <2>5, <2>6
<1> QED
  BY <1>8, <1>9, <1>10 DEF Intact, Sharp, q

LEMMA FrameStores ==
  ASSUME NEW p \in Pic, NEW t, TreeOK(t), Regions(p, t), NEW w \in Id, Intact(p, t)
  PROVE  Intact(Frame(p, t, w), t)
<1> DEFINE frame == Cells(t, w) \ WorkCells(t, w)
           q == Frame(p, t, w)
<1>1. CASE w \notin Bordered \/ ~t.is_open[w]
  BY <1>1 DEF Frame
<1>2. CASE ~(w \notin Bordered \/ ~t.is_open[w]) /\ w \notin Container
  <2>1. Frame(p, t, w) = Paint(p, t, w, frame)
    BY <1>2 DEF Frame
  <2>2. frame \in SUBSET Cells(t, w)
    OBVIOUS
  <2> HIDE DEF frame
  <2> QED
    BY <1>2, <2>1, <2>2, PaintStores
<1>3. CASE ~(w \notin Bordered \/ ~t.is_open[w]) /\ w \in Container
  <2> DEFINE scr == [c \in Display |-> IF p.screen[c] \in {w} \X frame THEN Stale ELSE p.screen[c]]
             hull == Hull(t, w, p.dirty[w] \union Cells(t, w))
  <2>1. /\ q.screen = scr /\ q.vis = p.vis /\ q.bitmap = p.bitmap /\ q.is_dirty = p.is_dirty
        /\ q.is_hidden = p.is_hidden /\ q.dirty = [p.dirty EXCEPT ![w] = hull]
    <3>1. q = [p EXCEPT !.screen = scr, !.dirty = [p.dirty EXCEPT ![w] = hull]]
      BY <1>3 DEF Frame, Pic
    <3> HIDE DEF scr, q, hull
    <3> QED
      BY <3>1 DEF Pic
  <2>2. \A c \in Display : q.screen[c] = p.screen[c] \/ \E r \in frame : p.screen[c] = <<w, r>>
    BY <2>1
  <2>3. t \in Tree /\ t.live \subseteq Id
    BY TreeFields DEF TreeOK
  <2> HIDE DEF q, frame, hull
  <2>4. q.dirty[w] = hull /\ \A y \in Id \ {w} : q.dirty[y] = p.dirty[y]
    BY <2>1, PicFields
  <2>5. Backed(q, t)
    BY <2>1 DEF Intact, Backed, Newer, Whole
  <2>6. Settled(q, t)
    BY <1>3, <2>1, <2>3, <2>4 DEF Intact, Settled, Direct
  <2>7. ASSUME NEW c \in Display, NEW y \in Id, c \in q.vis[y]
        PROVE  q.screen[c] = <<y, Minus(c, t.at[y])>> \/ Minus(c, t.at[y]) \in q.dirty[y]
    <3>1. p.screen[c] = <<y, Minus(c, t.at[y])>> \/ Minus(c, t.at[y]) \in p.dirty[y]
      BY <2>1, <2>7 DEF Intact, Sharp
    <3>2. CASE y = w
      <4>1. c \in Pos(t, y) /\ c \in Point
        BY <2>1, <2>7, OneOwner, DisplayPoints
      <4>2. Minus(c, t.at[w]) \in Cells(t, w)
        BY <2>3, <3>2, <4>1, CellsAt
      <4> QED
        BY <2>3, <2>4, <3>2, <4>2, HullHolds DEF hull
    <3>3. CASE y # w
      BY <2>2, <2>4, <3>1, <3>3
    <3> QED
      BY <3>2, <3>3
  <2> QED
    BY <2>5, <2>6, <2>7 DEF Intact, Sharp, q
<1> QED
  BY <1>1, <1>2, <1>3

LEMMA RefocusedStores ==
  ASSUME NEW p \in Pic, NEW t, TreeOK(t), Regions(p, t), NEW q \in Refocused(p, t), Intact(p, t)
  PROVE  Intact(q, t)
<1>1. t \in Tree
  BY DEF TreeOK
<1>2. ASSUME NEW a \in Bordered, NEW b \in Bordered, q = Frame(Frame(p, t, a), t, b)
      PROVE  Intact(q, t)
  <2>1. a \in Id /\ b \in Id
    BY WindowAssumption DEF Id
  <2> DEFINE m == Frame(p, t, a)
  <2>2. m \in Pic /\ Regions(m, t) /\ Intact(m, t)
    BY <1>1, <2>1, FrameKeeps, FrameStores, KeptRegions
  <2> HIDE DEF m
  <2>3. q = Frame(m, t, b)
    BY <1>2 DEF m
  <2> QED
    BY <2>1, <2>2, <2>3, FrameStores
<1>3. ASSUME NEW a \in Bordered, q = Frame(p, t, a)
      PROVE  Intact(q, t)
  <2>1. a \in Id
    BY WindowAssumption DEF Id
  <2> QED
    BY <1>3, <1>1, <2>1, FrameStores
<1>4. \/ q = p
      \/ \E a \in Bordered : q = Frame(p, t, a)
      \/ \E a, b \in Bordered : q = Frame(Frame(p, t, a), t, b)
  BY DEF Refocused
<1> QED
  BY <1>2, <1>3, <1>4

\* What is in full sight and not settled otherwise is on the screen.
LEMMA OnScreen ==
  ASSUME NEW p \in Pic, NEW t, TreeOK(t), Regions(p, t), Intact(p, t),
         NEW y \in t.live \ Container, Direct(p, t, y), NEW r \in Cells(t, y)
  PROVE  /\ Plus(r, t.at[y]) \in p.vis[y] /\ Plus(r, t.at[y]) \in Display
         /\ p.screen[Plus(r, t.at[y])] = <<y, r>>
<1> DEFINE c == Plus(r, t.at[y])
<1>1. t \in Tree /\ y \in Id /\ t.at[y] \in Point /\ r \in Point
  <2>1. t \in Tree /\ y \in Id /\ t.at[y] \in Point
    BY TreeFields DEF TreeOK
  <2> QED
    BY <2>1, CellsPoints
<1>2. c \in Point /\ Minus(c, t.at[y]) = r
  BY <1>1, PointMoves
<1> HIDE DEF c
<1>3. c \in Pos(t, y)
  BY <1>1, <1>2, CellsAt
<1>4. p.vis[y] = Pos(t, y) /\ p.vis[y] = Build(t, y)
  BY <1>1 DEF Direct, Regions, Exact
<1>5. c \in Display
  <2>1. Root \in Line(t, y) /\ Pos(t, Root) = Display
    BY RootAbove
  <2> QED
    BY <1>3, <1>4, <2>1, BuildWithin
<1>6. p.screen[c] = <<y, r>> \/ r \in p.dirty[y]
  BY <1>1, <1>2, <1>3, <1>4, <1>5 DEF Intact, Sharp
<1>7. p.dirty[y] = {}
  BY DEF Intact, Settled
<1> QED
  BY <1>3, <1>4, <1>5, <1>6, <1>7 DEF c

\* The windows that are saved and meet the area are up to date then.
LEMMA SaveStores ==
  ASSUME NEW p \in Pic, NEW t0, TreeOK(t0), Regions(p, t0), Intact(p, t0),
         NEW t \in Tree, t.live = t0.live, t.size = t0.size, NEW T, NEW area, \A y \in T : Same(t0, t, y),
         NEW q, q = Save(p, t, T, area)
  PROVE  /\ Kept(p, q) /\ q.screen = p.screen /\ q.dirty = p.dirty /\ Intact(q, t0)
         /\ \A y \in T \intersect t.live : Pos(t, y) \intersect area # {} => Whole(q, t0, y)
<1>1. t0 \in Tree /\ t0.live \subseteq Id
  BY TreeFields DEF TreeOK
<1>2. Saved(p, t, T, area, q)
  BY SaveDrawn
<1>3. Kept(p, q)
  BY SaveKeeps
<1>4. q.screen = p.screen /\ q.dirty = p.dirty /\ q.vis = p.vis /\ q.is_hidden = p.is_hidden
  BY <1>2, <1>3 DEF Saved, Kept
<1>5. ASSUME NEW y \in t0.live
      PROVE  /\ Whole(q, t0, y) \/ (y \notin Container /\ Newer(q, t0, y))
             /\ y \in T /\ Pos(t, y) \intersect area # {} => Whole(q, t0, y)
  <2> DEFINE saved == y \in T /\ Newer(p, t, y) /\ Pos(t, y) \intersect area # {}
  <2>1. /\ q.bitmap[y] = IF saved /\ y \notin Container THEN Copied(p, t, y) ELSE p.bitmap[y]
        /\ q.is_dirty[y] <=> p.is_dirty[y] /\ ~(y \in T /\ (Newer(p, t, y) => saved))
    BY <1>1, <1>2 DEF Saved
  <2>2. Whole(p, t0, y) \/ (y \notin Container /\ Newer(p, t0, y))
    BY DEF Intact, Backed
  <2>3. /\ Cells(t, y) = Cells(t0, y)
        /\ y \in T => (Newer(p, t, y) <=> Newer(p, t0, y)) /\ (Newer(p, t, y) => t.at[y] = t0.at[y])
    BY DEF Newer, Cells, Full, Same
  <2>4. CASE saved /\ y \notin Container
    <3>1. Newer(p, t0, y) /\ Direct(p, t0, y) /\ y \in t0.live \ Container
      BY <2>3, <2>4 DEF Newer, Direct
    <3>2. ASSUME NEW r \in Cells(t0, y) PROVE r \in q.bitmap[y]
      <4>1. Plus(r, t0.at[y]) \in p.vis[y] /\ p.screen[Plus(r, t0.at[y])] = <<y, r>>
        BY <3>1, OnScreen
      <4> QED
        BY <2>1, <2>3, <2>4, <4>1 DEF Copied
    <3> QED
      BY <3>2 DEF Whole
  <2>5. CASE ~(saved /\ y \notin Container)
    <3>1. q.bitmap[y] = p.bitmap[y]
      BY <2>1, <2>5
    <3>2. CASE Whole(p, t0, y)
      BY <3>1, <3>2 DEF Whole
    <3>3. CASE ~Whole(p, t0, y)
      <4>1. y \notin Container /\ Newer(p, t0, y) /\ ~saved
        BY <2>2, <2>5, <3>3
      <4>2. Newer(q, t0, y)
        BY <1>4, <2>1, <2>3, <4>1 DEF Newer
      <4>3. ~(y \in T /\ Pos(t, y) \intersect area # {})
        BY <2>3, <4>1
      <4> QED
        BY <4>1, <4>2, <4>3
    <3> QED
      BY <3>2, <3>3
  <2> QED
    BY <2>4, <2>5
<1>6. Intact(q, t0)
  BY <1>4, <1>5 DEF Intact, Backed, Settled, Sharp, Direct
<1> QED
  BY <1>3, <1>4, <1>5, <1>6

\* Who draws again what has come into sight, from bitmaps that are up to date, makes
\* the screen exact.
LEMMA RedrawSharp ==
  ASSUME NEW p \in Pic, NEW t, TreeOK(t), Regions(p, t), NEW T \in SUBSET Id, NEW area, Backed(p, t),
         \A y \in t.live \ Container : Direct(p, t, y) /\ y \notin T => p.dirty[y] = {},
         \A y \in T \intersect t.live : ~Whole(p, t, y) => p.dirty[y] = {} /\ p.vis[y] \intersect area = {},
         \A c \in Display, y \in Id : c \in p.vis[y] /\ ~(y \in T /\ c \in area) =>
           p.screen[c] = <<y, Minus(c, t.at[y])>> \/ Minus(c, t.at[y]) \in p.dirty[y],
         NEW q, q = Redraw(p, t, T, area)
  PROVE  Intact(q, t)
<1>1. t \in Tree /\ t.live \subseteq Id
  BY TreeFields DEF TreeOK
<1>2. Redrawn(p, t, T, area, q) /\ Kept(p, q)
  BY <1>1, RedrawDrawn, RedrawKeeps
<1>3. q.bitmap = p.bitmap /\ q.is_dirty = p.is_dirty /\ q.vis = p.vis /\ q.is_hidden = p.is_hidden
  BY <1>2 DEF Redrawn, Kept
<1>4. \A y \in Id : q.dirty[y] = IF y \in T /\ Direct(p, t, y) THEN {} ELSE p.dirty[y]
  BY <1>2 DEF Redrawn, Direct
<1>5. Backed(q, t)
  BY <1>3 DEF Backed, Whole, Newer
<1>6. Settled(q, t)
  BY <1>1, <1>3, <1>4 DEF Settled, Direct
<1>7. ASSUME NEW c \in Display, NEW y \in Id, c \in q.vis[y]
      PROVE  q.screen[c] = <<y, Minus(c, t.at[y])>> \/ Minus(c, t.at[y]) \in q.dirty[y]
  <2> DEFINE r == Minus(c, t.at[y])
  <2>1. y \in t.live /\ t.is_open[y] /\ c \in Pos(t, y) /\ c \in Point
    BY <1>3, <1>7, OneOwner, DisplayPoints
  <2>2. r \in Cells(t, y)
    BY <1>1, <2>1, CellsAt
  <2>3. q.screen[c] = IF y \in T /\ (c \in area \/ (~p.is_hidden[y] /\ r \in p.dirty[y]))
                      THEN IF r \in p.bitmap[y] THEN <<y, r>> ELSE Stale
                      ELSE p.screen[c]
    BY <1>2, <1>3, <1>7 DEF Redrawn
  <2> SUFFICES q.screen[c] = <<y, r>> \/ r \in q.dirty[y]
    OBVIOUS
  <2>4. ~(y \in T /\ c \in area) => p.screen[c] = <<y, r>> \/ r \in p.dirty[y]
    BY <1>3, <1>7
  <2> HIDE DEF r
  <2>5. CASE y \in T /\ (c \in area \/ (~p.is_hidden[y] /\ r \in p.dirty[y]))
    <3>1. Whole(p, t, y)
      BY <1>3, <1>7, <2>1, <2>5
    <3> QED
      BY <2>2, <2>3, <2>5, <3>1 DEF Whole
  <2>6. CASE ~(y \in T /\ (c \in area \/ (~p.is_hidden[y] /\ r \in p.dirty[y])))
    <3>1. r \in p.dirty[y] => r \in q.dirty[y]
      BY <1>4, <2>1, <2>6 DEF Direct
    <3> QED
      BY <2>3, <2>4, <2>6, <3>1
  <2> QED
    BY <2>5, <2>6
<1> QED
  BY <1>5, <1>6, <1>7 DEF Intact, Sharp

\* A request that saves, rebuilds the lists and draws again, where what is not saved
\* stays in full sight and out of the area that is drawn.
LEMMA RedrawStores ==
  ASSUME NEW t0, NEW t, TreeOK(t0), TreeOK(t), t.live = t0.live, t.size = t0.size,
         NEW p \in Pic, Regions(p, t0), NEW saved \in Pic, Kept(p, saved), Intact(saved, t0),
         NEW built \in Pic, Regions(built, t), built.screen = saved.screen, built.dirty = saved.dirty,
         built.bitmap = saved.bitmap, built.is_dirty = saved.is_dirty,
         NEW T \in SUBSET Id, NEW area,
         \A y \in t.live : ~Whole(saved, t0, y) /\ Direct(p, t0, y) =>
           /\ t.is_open[y] /\ Pos(t, y) \subseteq Build(t, y)
           /\ y \in T => Pos(t, y) \intersect area = {},
         \A y \in t.live : t.is_open[y] => \A c \in Build(t, y) :
           (y \in T /\ c \in area) \/ (t0.is_open[y] /\ t.at[y] = t0.at[y] /\ c \in Build(t0, y)),
         NEW q, q = Redraw(built, t, T, area)
  PROVE  Intact(q, t)
<1>1. /\ t \in Tree /\ t0 \in Tree /\ t.live \subseteq Id
      /\ \A y : Cells(t, y) = Cells(t0, y) /\ (t.at[y] = t0.at[y] => Pos(t, y) = Pos(t0, y))
  BY TreeFields DEF TreeOK, Cells, Pos, Full
<1>2. /\ Regions(saved, t0) /\ saved.vis = p.vis /\ saved.is_hidden = p.is_hidden
      /\ \A y : Direct(saved, t0, y) <=> Direct(p, t0, y)
      /\ \A y : Whole(built, t, y) <=> Whole(saved, t0, y)
  BY <1>1, KeptRegions DEF Kept, Direct, Whole
<1>3. ASSUME NEW y \in t.live, ~Whole(saved, t0, y)
      PROVE  y \notin Container /\ Newer(built, t, y) /\ Direct(p, t0, y) /\ saved.dirty[y] = {}
  <2>1. y \notin Container /\ Newer(saved, t0, y)
    BY <1>3 DEF Intact, Backed
  <2>2. Direct(p, t0, y) /\ saved.is_dirty[y]
    BY <1>2, <2>1 DEF Newer, Direct
  <2>3. t.is_open[y] /\ Pos(t, y) \subseteq Build(t, y)
    BY <1>3, <2>2
  <2>4. ~built.is_hidden[y]
    <3>1. Exact(built, t, y)
      BY <1>1 DEF Regions
    <3>2. Build(t, y) \subseteq Pos(t, y)
      BY BuildMeans
    <3> QED
      BY <2>3, <3>1, <3>2 DEF Exact
  <2>5. saved.dirty[y] = {}
    BY <1>2, <2>1, <2>2 DEF Intact, Settled
  <2> QED
    BY <2>1, <2>2, <2>3, <2>4, <2>5 DEF Newer
<1>4. Backed(built, t)
  BY <1>2, <1>3 DEF Backed
<1>5. ASSUME NEW y \in t.live \ Container, Direct(built, t, y), y \notin T
      PROVE  built.dirty[y] = {}
  <2>1. t.is_open[y] /\ Build(t, y) = Pos(t, y) /\ Pos(t, y) # {}
    BY <1>1, <1>5, PosFacts DEF Regions, Exact, Direct
  <2>2. \A c \in Pos(t, y) : t0.is_open[y] /\ t.at[y] = t0.at[y] /\ c \in Build(t0, y)
    BY <1>5, <2>1
  <2>3. t0.is_open[y] /\ Pos(t, y) = Pos(t0, y)
    BY <1>1, <2>1, <2>2
  <2>4. Pos(t0, y) = Build(t0, y)
    BY <2>2, <2>3, BuildMeans
  <2>5. Direct(p, t0, y)
    BY <1>1, <2>3, <2>4 DEF Regions, Exact, Direct
  <2> QED
    BY <1>2, <2>5 DEF Intact, Settled
<1>6. ASSUME NEW y \in T \intersect t.live, ~Whole(built, t, y)
      PROVE  built.dirty[y] = {} /\ built.vis[y] \intersect area = {}
  <2>1. Direct(p, t0, y) /\ saved.dirty[y] = {} /\ ~Whole(saved, t0, y)
    BY <1>2, <1>3, <1>6
  <2>2. Pos(t, y) \intersect area = {} /\ t.is_open[y]
    BY <1>6, <2>1
  <2>3. built.vis[y] \subseteq Pos(t, y)
    BY <1>1, <2>2, BuildMeans DEF Regions, Exact
  <2> QED
    BY <2>1, <2>2, <2>3
<1>7. ASSUME NEW c \in Display, NEW y \in Id, c \in built.vis[y], ~(y \in T /\ c \in area)
      PROVE  built.screen[c] = <<y, Minus(c, t.at[y])>> \/ Minus(c, t.at[y]) \in built.dirty[y]
  <2>1. y \in t.live /\ t.is_open[y] /\ c \in Build(t, y)
    BY <1>7, OneOwner
  <2>2. t0.is_open[y] /\ t.at[y] = t0.at[y] /\ c \in Build(t0, y)
    BY <1>7, <2>1
  <2>3. c \in saved.vis[y]
    BY <1>2, <2>2 DEF Regions, Exact
  <2> QED
    BY <2>2, <2>3 DEF Intact, Sharp
<1> QED
  BY <1>4, <1>5, <1>6, <1>7, RedrawSharp

\* A window in full sight is open, as are all that it lies in.
LEMMA InSight ==
  ASSUME NEW p, NEW t, TreeOK(t), Regions(p, t), NEW y \in t.live, Direct(p, t, y)
  PROVE  /\ Build(t, y) = Pos(t, y) /\ Pos(t, y) # {} /\ Mapped(t, y)
         /\ \A a \in Line(t, y) : t.is_open[a] /\ Pos(t, y) \subseteq Pos(t, a)
<1>1. y \in Id /\ t \in Tree
  BY TreeFields DEF TreeOK
<1>2. t.is_open[y] /\ Build(t, y) = Pos(t, y) /\ Pos(t, y) # {}
  BY <1>1, PosFacts DEF Direct, Regions, Exact
<1>3. ASSUME NEW a \in Line(t, y) PROVE t.is_open[a] /\ Pos(t, y) \subseteq Pos(t, a)
  BY <1>2, BuildWithin
<1>4. Mapped(t, y)
  BY <1>3 DEF Mapped, Line
<1> QED
  BY <1>2, <1>3, <1>4

\* A window in full sight stays so where nothing changes.
LEMMA Unaffected ==
  ASSUME NEW t0, NEW t, TreeOK(t0), TreeOK(t), NEW w \in t0.live \ {Root}, Elsewhere(t0, t, w),
         NEW y \in t0.live \ Subtree(t0, w), t0.is_open[y], Build(t0, y) = Pos(t0, y),
         NEW area, Within(t0, t, w, area),
         \/ Pos(t0, y) \intersect area = {}
         \/ y \notin Subtrees(t0, Right(t0, w)) /\ y # t0.parent[w]
         \/ \E b \in Ancestors(t0, w) : ~t0.is_open[b]
  PROVE  t.is_open[y] /\ Pos(t, y) = Pos(t0, y) /\ Pos(t, y) \subseteq Build(t, y)
<1>1. SameLine(t0, t, y) /\ y \in Line(t, y)
  BY LineElsewhere DEF Line
<1>2. t.is_open[y] /\ Pos(t, y) = Pos(t0, y)
  BY <1>1, SamePos DEF SameLine
<1>3. ASSUME NEW c \in Pos(t, y) PROVE c \in Build(t, y)
  <2>1. \/ c \notin area
        \/ y \notin Subtrees(t0, Right(t0, w)) /\ y # t0.parent[w]
        \/ \E b \in Ancestors(t0, w) : ~t0.is_open[b]
    BY <1>2, <1>3
  <2> QED
    BY <1>2, <1>3, <2>1, CellElsewhere
<1> QED
  BY <1>2, <1>3

\* No window lies over the frame of its parent only.
Clear(t) == \A w \in t.live \ {Root} :
  Mapped(t, w) /\ t.parent[w] \in Bordered \ Container /\ Pos(t, w) \intersect Pos(t, t.parent[w]) # {} =>
    Pos(t, w) \intersect Work(t, t.parent[w]) # {}

\* Windows in full sight below an open one, and its parent, lie beside it.
LEMMA Beside ==
  ASSUME NEW t, TreeOK(t), Clear(t), NEW w \in t.live \ {Root}, Mapped(t, w),
         NEW y \in Subtrees(t, Right(t, w)) \union {t.parent[w]}, y \notin Container,
         t.is_open[y], Build(t, y) = Pos(t, y)
  PROVE  Pos(t, y) \intersect Pos(t, w) = {}
<1>1. /\ t \in Tree /\ w \in Id /\ t.live \subseteq Id /\ t.parent[w] \in t.live /\ t.is_open[w]
  BY LineStep, TreeFields DEF TreeOK, Mapped
<1>2. CASE y \in Subtrees(t, Right(t, w))
  <2>1. PICK x \in Right(t, w) : y \in Subtree(t, x)
    BY <1>2 DEF Subtrees
  <2>2. x \in Line(t, y) /\ w \in Left(t, x)
    BY <2>1, SubtreeMeans, SiblingsOf
  <2>3. ASSUME NEW c \in Pos(t, y), c \in Pos(t, w) PROVE FALSE
    <3>1. Covered(t, y, c)
      BY <1>1, <2>2, <2>3 DEF Covered
    <3> QED
      BY <2>3, <3>1, BuildMeans
  <2> QED
    BY <2>3
<1>3. CASE y = t.parent[w]
  <2>1. w \in Childs(t, y)
    BY <1>1, <1>3 DEF TreeOK
  <2>2. ASSUME NEW c \in Pos(t, w), c \in Work(t, y) PROVE FALSE
    <3>1. c \in Pos(t, y)
      BY <1>1, <1>3, <2>2, PosFacts
    <3>2. ByChild(t, y, c)
      BY <1>1, <2>1, <2>2 DEF ByChild
    <3> QED
      BY <3>1, <3>2, BuildMeans
  <2>3. CASE y \in Bordered
    BY <1>3, <2>2, <2>3 DEF Clear
  <2>4. CASE y \notin Bordered
    <3>1. Edge(y) = <<0, 0>> /\ t.size[y] \in Point /\ t.at[y] \in Point
      BY <1>1, <1>3, <2>4, TreeFields, SizesAreExtents DEF Edge, Extent, Point
    <3>2. \A a \in Point : Plus(a, <<0, 0>>) = a
      BY DEF Plus, Point
    <3>3. Plus(<<0, 0>>, <<0, 0>>) = <<0, 0>>
      BY <3>2, SizesAreExtents
    <3>4. Work(t, y) = Pos(t, y)
      BY <3>1, <3>2, <3>3 DEF Work, Pos, Full
    <3> QED
      BY <2>2, <3>4
  <2> QED
    BY <2>3, <2>4
<1> QED
  BY <1>2, <1>3

\* The subtrees of siblings, and the parent, lie apart from the subtree of a window.
LEMMA LowerApart ==
  ASSUME NEW t, TreeOK(t), NEW w \in t.live \ {Root},
         NEW y \in Subtrees(t, Right(t, w)) \union {t.parent[w]}
  PROVE  y \in t.live \ Subtree(t, w)
<1>1. CASE y = t.parent[w]
  BY <1>1, ParentApart, LineStep
<1>2. CASE y \in Subtrees(t, Right(t, w))
  <2>1. PICK x \in Right(t, w) : y \in Subtree(t, x)
    BY <1>2 DEF Subtrees
  <2>2. x \in t.live \ {Root} /\ t.parent[x] = t.parent[w] /\ x # w
    BY <2>1, SiblingsOf
  <2>3. y \in t.live /\ x \in Line(t, y)
    BY <2>1, SubtreeMeans
  <2>4. Ancestors(t, x) = Ancestors(t, w)
    BY <2>2, LineStep
  <2>5. x \notin Ancestors(t, x) /\ w \notin Ancestors(t, w)
    BY <2>2, NotOwnAncestor, TreeFields DEF TreeOK
  <2>6. w \notin Line(t, y)
    BY <2>2, <2>3, <2>4, <2>5, LineChain DEF Line
  <2> QED
    BY <2>3, <2>6, SubtreeMeans
<1> QED
  BY <1>1, <1>2

\* window_open() saves what it covers.
LEMMA OpenStores ==
  ASSUME NEW t0, NEW t, TreeOK(t0), TreeOK(t), NEW w \in t0.live \ {Root}, Elsewhere(t0, t, w),
         ~t0.is_open[w], t.is_open[w],
         \A x \in Subtree(t0, w) \ {w} : t.is_open[x] <=> t0.is_open[x], t.size = t0.size,
         NEW p \in Pic, Regions(p, t0), Intact(p, t0)
  PROVE  Intact(OpenedPic(p, t, w), t)
<1> DEFINE q == t.parent[w]
           area == Pos(t, w)
           lower == Subtrees(t, Right(t, w))
           T == Subtrees(t, {w} \union Right(t, w))
           saved == Save(p, t, lower \union {q}, area)
           built == Rebuild(saved, t, T, area)
           again == Rebuild(built, t, {q}, area)
           drawn == Redraw(again, t, Subtree(t, w), area)
<1>1. /\ t \in Tree /\ t0 \in Tree /\ w \in Id /\ t.live = t0.live /\ w \in t.live \ {Root} /\ t.live \subseteq Id
      /\ q \in Id /\ Subtree(t, w) = Subtree(t0, w)
      /\ T \in SUBSET Id /\ Subtree(t, w) \in SUBSET Id
      /\ q = t0.parent[w] /\ lower = Subtrees(t0, Right(t0, w)) /\ Alike(t0, t)
  <2>1. /\ t \in Tree /\ t0 \in Tree /\ w \in Id /\ t.live = t0.live /\ w \in t.live \ {Root} /\ t.live \subseteq Id
        /\ Alike(t0, t) /\ t.childs = t0.childs /\ q = t0.parent[w]
    BY TreeFields DEF TreeOK, Elsewhere, Alike
  <2>2. T \subseteq t.live /\ Subtree(t, w) \subseteq t.live
    BY DEF Subtrees, Subtree
  <2>3. q \in Id /\ Subtree(t, w) = Subtree(t0, w)
    BY <2>1, LineStep, AlikeLines
  <2>4. lower = Subtrees(t0, Right(t0, w))
    BY <2>1, AlikeLists
  <2> QED
    BY <2>1, <2>2, <2>3, <2>4
<1>2. \A y \in lower \union {q} : y \in t0.live \ Subtree(t0, w)
  BY <1>1, LowerApart
<1> HIDE DEF q, lower, T
<1>3. /\ Kept(p, saved) /\ Intact(saved, t0) /\ saved \in Pic
      /\ \A y \in (lower \union {q}) \intersect t.live : Pos(t, y) \intersect area # {} => Whole(saved, t0, y)
  <2>1. \A y \in lower \union {q} : Same(t0, t, y)
    <3>1. \A y \in t.live : y \in Id
      BY <1>1
    <3> QED
      BY <1>1, <1>2, <3>1 DEF Elsewhere
  <2> HIDE DEF area
  <2> QED
    BY <1>1, <2>1, SaveStores DEF Kept
<1> HIDE DEF saved
<1>4. /\ again \in Pic /\ again.screen = saved.screen /\ again.dirty = saved.dirty
      /\ again.bitmap = saved.bitmap /\ again.is_dirty = saved.is_dirty
  <2>1. /\ built \in Pic /\ built.screen = saved.screen /\ built.dirty = saved.dirty
        /\ built.bitmap = saved.bitmap /\ built.is_dirty = saved.is_dirty
    <3>1. built \in Pic
      BY <1>1, <1>3, RebuildMeans
    <3> QED
      BY <1>3, <3>1, RebuildDrawn
  <2> HIDE DEF built
  <2> QED
    BY <1>1, <2>1, RebuildMeans, RebuildDrawn
<1> HIDE DEF again
<1>5. Kept(again, drawn) /\ Regions(again, t) /\ Regions(drawn, t) /\ drawn \in Pic
  <2>1. Kept(again, drawn)
    BY <1>1, <1>4, RedrawKeeps
  <2>2. Kept(drawn, Frame(drawn, t, w))
    BY <1>1, <2>1, FrameKeeps DEF Kept
  <2>3. Frame(drawn, t, w) = OpenedPic(p, t, w)
    BY DEF OpenedPic, again, built, saved, lower, T, q
  <2>4. Regions(Frame(drawn, t, w), t)
    BY <2>3, OpenStep
  <2> HIDE DEF drawn
  <2> QED
    BY <2>1, <2>2, <2>4, KeptRegions DEF Kept
<1>6. ASSUME NEW y \in t.live, ~Whole(saved, t0, y), Direct(p, t0, y)
      PROVE  /\ t.is_open[y] /\ Pos(t, y) \subseteq Build(t, y)
             /\ y \notin Subtree(t, w)
  <2>1. y \in t0.live /\ Build(t0, y) = Pos(t0, y) /\ t0.is_open[y] /\ w \notin Line(t0, y)
    BY <1>1, <1>6, InSight DEF Direct
  <2>2. y \in t0.live \ Subtree(t0, w)
    BY <2>1, SubtreeMeans
  <2>3. Same(t0, t, y)
    BY <1>1, <2>2 DEF Elsewhere
  <2>4. Pos(t0, y) \intersect area = {} \/ (y \notin lower /\ y # q)
    BY <1>3, <1>6, <2>1, <2>3, SamePos
  <2>5. Within(t0, t, w, area)
    BY DEF Within
  <2> HIDE DEF area
  <2>6. t.is_open[y] /\ Pos(t, y) \subseteq Build(t, y)
    BY <1>1, <2>1, <2>2, <2>4, <2>5, Unaffected
  <2> QED
    BY <1>1, <2>2, <2>6
<1>7. ASSUME NEW y \in t.live, t.is_open[y], NEW c \in Build(t, y)
      PROVE  \/ y \in Subtree(t, w) /\ c \in area
             \/ t0.is_open[y] /\ t.at[y] = t0.at[y] /\ c \in Build(t0, y)
  <2>1. CASE y \in Subtree(t, w)
    <3>1. w \in Line(t, y)
      BY <2>1, SubtreeMeans
    <3> QED
      BY <1>7, <2>1, <3>1, BuildWithin
  <2>2. CASE y \notin Subtree(t, w)
    <3>1. y \in t0.live \ Subtree(t0, w)
      BY <1>1, <2>2
    <3> QED
      BY <1>7, <3>1, Exposed
  <2> QED
    BY <2>1, <2>2
<1>8. OpenedPic(p, t, w) = Frame(drawn, t, w)
  BY DEF OpenedPic, again, built, saved, lower, T, q
<1> HIDE DEF area
<1>9. Intact(drawn, t)
  BY <1>1, <1>3, <1>4, <1>5, <1>6, <1>7, RedrawStores
<1> QED
  BY <1>1, <1>5, <1>8, <1>9, FrameStores

\* window_close() saves what it takes away; what it uncovers was covered.
LEMMA CloseStores ==
  ASSUME NEW t, TreeOK(t), NEW w \in t.live \ {Root}, t.is_open[w], Clear(t),
         NEW p \in Pic, Regions(p, t), Intact(p, t)
  PROVE  Intact(ClosedPic(p, t, w), ClosedTree(t, w))
<1> DEFINE gone == {x \in Subtree(t, w) : Mapped(t, x)}
           whole == UNION {Pos(t, x) : x \in gone}
           saved == Save(p, t, gone, whole)
           t1 == ClosedTree(t, w)
           lower == Subtrees(t, Right(t, w))
           area == Pos(t, w)
           shut == Shut(saved, w, gone)
           q == t.parent[w]
           first == Rebuild(shut, t1, lower, area)
           built == Rebuild(first, t1, {q}, area)
           drawn == Redraw(built, t1, lower \union {q}, area)
<1>1. /\ t \in Tree /\ w \in Id /\ t.live \subseteq Id /\ q \in t.live /\ q \in Id
      /\ lower \in SUBSET Id /\ lower \union {q} \in SUBSET Id /\ w \in Subtree(t, w)
      /\ Subtree(t, w) \subseteq t.live
  <2>1. /\ t \in Tree /\ w \in Id /\ t.live \subseteq Id /\ q \in t.live /\ q \in Id
    BY LineStep, TreeFields DEF TreeOK
  <2>2. lower \subseteq t.live /\ w \in Subtree(t, w) /\ Subtree(t, w) \subseteq t.live
    BY ParentApart
  <2> QED
    BY <2>1, <2>2
<1>2. /\ TreeOK(t1) /\ t1 \in Tree /\ Alike(t, t1) /\ t1.childs = t.childs
      /\ t1.live = t.live /\ t1.at = t.at /\ t1.size = t.size
      /\ \A x \in Id : t1.is_open[x] <=> t.is_open[x] /\ ~(x = w /\ Mapped(t, w))
  BY ClosedTreeOK DEF TreeOK, Alike
<1>3. CASE gone = {}
  <2>1. ~Mapped(t, w)
    BY <1>1, <1>3
  <2>2. t1 = t /\ ClosedPic(p, t, w) = p
    BY <1>3, <2>1 DEF ClosedTree, ClosedPic
  <2> QED
    BY <2>2
<1>4. CASE gone # {}
  <2>1. ClosedPic(p, t, w) = drawn
    BY <1>4 DEF ClosedPic
  <2>2. Mapped(t, w)
    <3>1. PICK x \in gone : TRUE
      BY <1>4
    <3>2. x \in t.live /\ w \in Line(t, x) /\ Mapped(t, x)
      BY <3>1, SubtreeMeans
    <3>3. Line(t, w) \subseteq Line(t, x)
      BY <3>2, AncestorsLive DEF Line
    <3> QED
      BY <3>2, <3>3 DEF Mapped, Line
  <2>3. drawn \in Pic /\ Regions(drawn, t1)
    BY <2>1, CloseStep
  <2>4. /\ Kept(p, saved) /\ Intact(saved, t) /\ saved \in Pic
        /\ \A y \in gone : Whole(saved, t, y)
    <3>1. \A y \in gone : Same(t, t, y)
      BY DEF Same
    <3>2. \A y \in gone : y \in t.live /\ y \in Id /\ Pos(t, y) \subseteq whole /\ Pos(t, y) # {}
      BY <1>1, PosFacts
    <3> HIDE DEF gone, whole
    <3>3. /\ Kept(p, saved) /\ Intact(saved, t)
          /\ \A y \in gone \intersect t.live : Pos(t, y) \intersect whole # {} => Whole(saved, t, y)
      BY <1>1, <3>1, SaveStores
    <3> HIDE DEF saved
    <3> QED
      BY <3>2, <3>3 DEF Kept
  <2>5. ASSUME NEW y \in t.live, ~Whole(saved, t, y), Direct(p, t, y)
        PROVE  /\ y \in t.live \ Subtree(t, w) /\ t.is_open[y] /\ Build(t, y) = Pos(t, y)
               /\ y \in lower \union {q} => Pos(t, y) \intersect area = {}
    <3>1. t.is_open[y] /\ Build(t, y) = Pos(t, y) /\ Mapped(t, y)
      BY <2>5, InSight DEF Direct
    <3>2. y \notin Subtree(t, w)
      BY <2>4, <2>5, <3>1
    <3>3. y \notin Container
      BY <2>4, <2>5 DEF Intact, Backed
    <3> QED
      BY <2>2, <3>1, <3>2, <3>3, Beside
  <2> HIDE DEF saved, gone, t1, lower, area, q
  <2>6. /\ shut \in Pic /\ shut.screen = saved.screen /\ shut.dirty = saved.dirty
        /\ shut.bitmap = saved.bitmap /\ shut.is_dirty = saved.is_dirty
    <3> DEFINE vis == [y \in Id |-> IF y \in gone THEN {} ELSE saved.vis[y]]
               hid == [y \in Id |-> saved.is_hidden[y] \/ y \in gone \ {w}]
    <3>1. shut = [saved EXCEPT !.vis = vis, !.is_hidden = hid]
      BY DEF Shut
    <3>2. vis \in [Id -> SUBSET Point] /\ hid \in [Id -> BOOLEAN]
      BY <2>4, PicFields
    <3> HIDE DEF vis, hid
    <3> QED
      BY <2>4, <3>1, <3>2 DEF Pic
  <2> HIDE DEF shut
  <2>7. /\ first \in Pic /\ first.screen = shut.screen /\ first.dirty = shut.dirty
        /\ first.bitmap = shut.bitmap /\ first.is_dirty = shut.is_dirty
    <3>1. first \in Pic
      BY <1>1, <1>2, <2>6, RebuildMeans
    <3> QED
      BY <2>6, <3>1, RebuildDrawn
  <2> HIDE DEF first
  <2>8. /\ built \in Pic /\ built.screen = saved.screen /\ built.dirty = saved.dirty
        /\ built.bitmap = saved.bitmap /\ built.is_dirty = saved.is_dirty
    <3>1. built \in Pic
      BY <1>1, <1>2, <2>7, RebuildMeans
    <3> QED
      BY <2>6, <2>7, <3>1, RebuildDrawn
  <2> HIDE DEF built
  <2>9. Regions(built, t1)
    <3>1. Kept(built, drawn)
      BY <1>1, <1>2, <2>8, RedrawKeeps
    <3> QED
      BY <2>3, <3>1, KeptRegions
  <2>10. Elsewhere(t, t1, w)
    <3>1. \A y \in Id \ {w} : Same(t, t1, y)
      BY <1>2 DEF Same
    <3> QED
      BY <1>1, <1>2, <3>1 DEF Elsewhere
  <2>11. ASSUME NEW y \in t1.live, ~Whole(saved, t, y), Direct(p, t, y)
         PROVE  /\ t1.is_open[y] /\ Pos(t1, y) \subseteq Build(t1, y)
                /\ y \in lower \union {q} => Pos(t1, y) \intersect area = {}
    <3>1. /\ y \in t.live \ Subtree(t, w) /\ t.is_open[y] /\ Build(t, y) = Pos(t, y)
          /\ y \in lower \union {q} => Pos(t, y) \intersect area = {}
      BY <1>2, <2>5, <2>11
    <3>2. Within(t, t1, w, area)
      BY <1>1, <1>2, <2>2 DEF Within, area
    <3>3. \/ Pos(t, y) \intersect area = {}
          \/ y \notin Subtrees(t, Right(t, w)) /\ y # t.parent[w]
      BY <3>1 DEF lower, q
    <3>4. t1.is_open[y] /\ Pos(t1, y) = Pos(t, y) /\ Pos(t1, y) \subseteq Build(t1, y)
      BY <1>2, <2>10, <3>1, <3>2, <3>3, Unaffected
    <3> QED
      BY <3>1, <3>4
  <2>12. ASSUME NEW y \in t1.live, t1.is_open[y], NEW c \in Build(t1, y)
         PROVE  \/ y \in lower \union {q} /\ c \in area
                \/ t.is_open[y] /\ t1.at[y] = t.at[y] /\ c \in Build(t, y)
    <3>1. y \notin Subtree(t, w)
      <4> SUFFICES ASSUME y \in Subtree(t, w) PROVE FALSE
        OBVIOUS
      <4>1. w \in Line(t1, y)
        BY <1>1, <1>2, SubtreeMeans, AlikeLines
      <4>2. ~t1.is_open[w]
        BY <1>1, <1>2, <2>2
      <4> QED
        BY <1>2, <2>12, <4>1, <4>2, BuildWithin
    <3> QED
      BY <1>2, <2>10, <2>12, <3>1, Exposed DEF area, lower, q
  <2>13. Intact(drawn, t1)
    BY <1>1, <1>2, <2>4, <2>8, <2>9, <2>11, <2>12, RedrawStores
  <2> QED
    BY <2>1, <2>13 DEF t1
<1> QED
  BY <1>3, <1>4

\* window_move() saves what it covers, and the windows that are drawn at a new place.
LEMMA MoveStores ==
  ASSUME NEW t, TreeOK(t), NEW w \in t.live \ {Root}, t.is_open[w], NEW d \in Point, Clear(t),
         NEW p \in Pic, Regions(p, t), Intact(p, t)
  PROVE  Intact(MovedPic(p, t, w, d), Moved(t, Subtree(t, w), d))
<1> DEFINE t1 == Moved(t, Subtree(t, w), d)
           old == Pos(t, w)
           new == Pos(t1, w)
           area == old \union new
           q == t.parent[w]
           lower == Subtrees(t, Right(t, w))
           covered == IsHidden(t, w) \/ IsHidden(t1, w)
           first == Save(p, t, Subtree(t, w), old)
           saved == Save(first, t, lower \union {q}, new)
           placed == IF covered THEN saved
                     ELSE [saved EXCEPT !.vis = [x \in Id |->
                             IF x \in Subtree(t, w) /\ t.is_open[x] THEN Shift(@[x], d) ELSE @[x]]]
           T == IF covered THEN lower \union Subtree(t, w) ELSE lower
           rebuilt == Rebuild(placed, t1, T, area)
           built == Rebuild(rebuilt, t1, {q}, area)
           drawn == IF covered THEN Redraw(built, t1, Subtree(t, w), new)
                    ELSE [built EXCEPT !.screen = [c \in Display |->
                            IF c \in new THEN @[Minus(c, d)] ELSE @[c]]]
           again == Redraw(drawn, t1, lower \union {q}, old)
<1>1. /\ t \in Tree /\ w \in Id /\ t.live \subseteq Id /\ q \in t.live /\ q \in Id
      /\ Subtree(t, w) \in SUBSET Id /\ lower \in SUBSET Id /\ lower \union {q} \in SUBSET Id
      /\ q \notin Subtree(t, w) /\ w \in Subtree(t, w)
      /\ \A y \in lower \union {q} : y \in t.live \ Subtree(t, w)
  BY LineStep, TreeFields, ParentApart, LowerApart DEF TreeOK
<1>2. Root \notin Subtree(t, w)
  BY RootAbove, SubtreeMeans DEF Line
<1>3. /\ TreeOK(t1) /\ Alike(t, t1) /\ t1.childs = t.childs /\ t1.is_open = t.is_open /\ t1.size = t.size
      /\ \A x \in Id : t1.at[x] = IF x \in Subtree(t, w) /\ t.is_open[x] THEN Plus(t.at[x], d) ELSE t.at[x]
      /\ t1 \in Tree /\ t1.live = t.live
  BY <1>1, <1>2, MovedTree DEF TreeOK, Alike
<1>4. MovedPic(p, t, w, d) = again
  BY DEF MovedPic
<1>5. again \in Pic /\ Regions(again, t1)
  BY <1>4, MoveStep
<1>6. /\ Kept(p, saved) /\ saved \in Pic /\ Intact(saved, t) /\ saved.screen = p.screen
      /\ \A y \in Subtree(t, w) : Pos(t, y) \intersect old # {} => Whole(saved, t, y)
      /\ \A y \in lower \union {q} : Pos(t, y) \intersect new # {} => Whole(saved, t, y)
  <2>0. \A y \in Id : Same(t, t, y)
    BY DEF Same
  <2>1. /\ Kept(p, first) /\ Intact(first, t) /\ first \in Pic /\ first.screen = p.screen
        /\ \A y \in Subtree(t, w) \intersect t.live : Pos(t, y) \intersect old # {} => Whole(first, t, y)
    <3>1. PICK m : m = first
      OBVIOUS
    <3> HIDE DEF old
    <3>2. /\ Kept(p, m) /\ Intact(m, t) /\ m.screen = p.screen
          /\ \A y \in Subtree(t, w) \intersect t.live : Pos(t, y) \intersect old # {} => Whole(m, t, y)
      BY <1>1, <2>0, <3>1, SaveStores
    <3> QED
      BY <3>1, <3>2 DEF Kept
  <2> HIDE DEF first, new
  <2>2. Regions(first, t)
    BY <2>1, KeptRegions
  <2>3. /\ Kept(first, saved) /\ Intact(saved, t) /\ saved.screen = first.screen
        /\ \A y \in (lower \union {q}) \intersect t.live : Pos(t, y) \intersect new # {} => Whole(saved, t, y)
    <3> HIDE DEF lower, q
    <3> QED
      BY <1>1, <2>0, <2>1, <2>2, SaveStores
  <2>4. ASSUME NEW y \in Subtree(t, w), Whole(first, t, y) PROVE Whole(saved, t, y)
    <3>1. Saved(first, t, lower \union {q}, new, saved)
      BY <1>1, <2>1, SaveDrawn
    <3>2. y \in Id /\ y \notin lower \union {q}
      BY <1>1, <2>4
    <3>3. saved.bitmap[y] = first.bitmap[y]
      BY <3>1, <3>2 DEF Saved
    <3> QED
      BY <2>4, <3>3 DEF Whole
  <2>5. Kept(p, saved) /\ saved \in Pic /\ saved.screen = p.screen
    BY <2>1, <2>3 DEF Kept
  <2>6. \A y \in Subtree(t, w) : y \in t.live
    BY SubtreeMeans
  <2> QED
    BY <1>1, <2>1, <2>3, <2>4, <2>5, <2>6
<1> HIDE DEF t1, saved, q, lower
<1>7. /\ saved.vis = p.vis /\ saved.is_hidden = p.is_hidden /\ Regions(saved, t)
      /\ \A y : Direct(saved, t, y) <=> Direct(p, t, y)
  BY <1>6, KeptRegions DEF Kept, Direct
<1>8. /\ placed \in Pic /\ placed.screen = saved.screen /\ placed.dirty = saved.dirty
      /\ placed.bitmap = saved.bitmap /\ placed.is_dirty = saved.is_dirty
  <2>1. CASE covered
    BY <1>6, <2>1
  <2>2. CASE ~covered
    <3> DEFINE vis == [x \in Id |-> IF x \in Subtree(t, w) /\ t.is_open[x]
                                    THEN Shift(saved.vis[x], d) ELSE saved.vis[x]]
    <3>1. vis \in [Id -> SUBSET Point]
      <4>1. \A x \in Id : saved.vis[x] \in SUBSET Point
        BY <1>6, PicFields
      <4>2. \A x \in Id : Shift(saved.vis[x], d) \in SUBSET Point
        BY <4>1, ShiftMeans
      <4> QED
        BY <4>1, <4>2
    <3>2. placed = [saved EXCEPT !.vis = vis]
      BY <1>6, <2>2 DEF Pic
    <3> HIDE DEF vis, placed
    <3> QED
      BY <1>6, <3>1, <3>2 DEF Pic
  <2> QED
    BY <2>1, <2>2
<1>9. T \in SUBSET Id
  BY <1>1
<1> HIDE DEF placed, area, T
<1>10. /\ built \in Pic /\ built.screen = saved.screen /\ built.dirty = saved.dirty
       /\ built.bitmap = saved.bitmap /\ built.is_dirty = saved.is_dirty
  <2>1. rebuilt \in Pic
    BY <1>3, <1>8, <1>9, RebuildMeans
  <2>2. /\ rebuilt.screen = saved.screen /\ rebuilt.dirty = saved.dirty
        /\ rebuilt.bitmap = saved.bitmap /\ rebuilt.is_dirty = saved.is_dirty
    BY <1>8, RebuildDrawn
  <2> HIDE DEF rebuilt
  <2>3. built \in Pic
    BY <1>1, <1>3, <2>1, RebuildMeans
  <2> QED
    BY <2>1, <2>2, <2>3, RebuildDrawn
<1> HIDE DEF built, covered
<1>11. /\ \A x \in Subtree(t, w) : t.is_open[x] => Shifted(t, t1, x, d)
       /\ Elsewhere(t, t1, w)
  BY <1>1, <1>3, MovedShifts DEF Elsewhere, Same
<1>12. ~covered => /\ Kept(built, drawn) /\ drawn.bitmap = built.bitmap
                   /\ drawn.dirty = built.dirty /\ drawn.is_dirty = built.is_dirty
                   /\ \A c \in Display : drawn.screen[c] = IF c \in new THEN built.screen[Minus(c, d)]
                                                           ELSE built.screen[c]
  <2> HAVE ~covered
  <2> DEFINE scr == [c \in Display |-> IF c \in new THEN built.screen[Minus(c, d)] ELSE built.screen[c]]
  <2>1. drawn = [built EXCEPT !.screen = scr]
    BY <1>10 DEF Pic
  <2>2. Shifted(t, t1, w, d) /\ ~IsHidden(t, w)
    BY <1>1, <1>11 DEF covered
  <2> HIDE DEF drawn
  <2>3. /\ Kept(built, drawn) /\ drawn.bitmap = built.bitmap
        /\ \A c \in Display : drawn.screen[c] = IF c \in new THEN built.screen[Minus(c, d)]
                                                ELSE built.screen[c]
    BY <1>10, <2>1, <2>2, ScreenMoved
  <2> HIDE DEF scr
  <2>4. drawn.dirty = built.dirty /\ drawn.is_dirty = built.is_dirty
    BY <1>10, <2>1 DEF Pic
  <2> QED
    BY <2>3, <2>4
<1>13. drawn \in Pic /\ Kept(built, drawn)
  <2>1. CASE covered
    <3>1. drawn = Redraw(built, t1, Subtree(t, w), new)
      BY <2>1
    <3> HIDE DEF drawn, new
    <3> QED
      BY <1>1, <1>3, <1>10, <3>1, RedrawKeeps DEF Kept
  <2> QED
    BY <1>12, <2>1 DEF Kept
<1> HIDE DEF drawn
<1>14. Regions(drawn, t1) /\ Regions(built, t1)
  <2>1. Kept(drawn, again)
    BY <1>1, <1>3, <1>13, RedrawKeeps
  <2> QED
    BY <1>5, <1>13, <2>1, KeptRegions
<1>15. covered => Redrawn(built, t1, Subtree(t, w), new, drawn)
  BY <1>1, <1>3, <1>10, <1>14, RedrawDrawn DEF drawn
<1>16. /\ drawn.bitmap = saved.bitmap /\ drawn.is_dirty = saved.is_dirty
       /\ drawn.vis = built.vis /\ drawn.is_hidden = built.is_hidden
       /\ \A y : Whole(drawn, t1, y) <=> Whole(saved, t, y)
  <2>1. drawn.bitmap = saved.bitmap /\ drawn.is_dirty = saved.is_dirty
    BY <1>10, <1>12, <1>15 DEF Redrawn
  <2>2. \A y : Cells(t1, y) = Cells(t, y)
    BY <1>3 DEF Cells, Full
  <2> QED
    BY <1>13, <2>1, <2>2 DEF Kept, Whole
\* What is not saved lies beside w, and is not affected.
<1>17. ASSUME NEW y \in t.live, ~Whole(saved, t, y)
       PROVE  /\ y \in t.live \ Subtree(t, w) /\ y \notin Container /\ saved.is_dirty[y]
              /\ saved.dirty[y] = {} /\ t1.is_open[y] /\ Pos(t1, y) \subseteq Build(t1, y)
              /\ y \in lower \union {q} => Pos(t1, y) \intersect old = {}
  <2>1. y \notin Container /\ Newer(saved, t, y) /\ Direct(saved, t, y)
    BY <1>17, <1>6 DEF Intact, Backed, Newer, Direct
  <2>2. /\ t.is_open[y] /\ Build(t, y) = Pos(t, y) /\ Pos(t, y) # {}
        /\ \A a \in Line(t, y) : t.is_open[a] /\ Pos(t, y) \subseteq Pos(t, a)
    BY <1>7, <2>1, InSight DEF Direct
  <2>3. y \notin Subtree(t, w)
    <3> SUFFICES ASSUME y \in Subtree(t, w) PROVE FALSE
      OBVIOUS
    <3>1. w \in Line(t, y)
      BY SubtreeMeans
    <3> QED
      BY <1>6, <1>17, <2>2, <3>1
  <2>4. saved.dirty[y] = {}
    BY <1>6, <2>1 DEF Intact, Settled
  <2>5. y \in lower \union {q} => Pos(t, y) \intersect old = {} /\ Pos(t, y) \intersect new = {}
    <3> SUFFICES ASSUME y \in lower \union {q} PROVE Pos(t, y) \intersect old = {}
      BY <1>6, <1>17
    <3>1. Ancestors(t, w) \subseteq Line(t, y)
      <4>1. CASE y = q
        BY <4>1, LineStep DEF q
      <4>2. CASE y \in lower
        BY <4>2, ParentApart DEF lower, Line
      <4> QED
        BY <4>1, <4>2
    <3>2. Mapped(t, w)
      BY <2>2, <3>1 DEF Mapped
    <3> QED
      BY <2>1, <2>2, <3>2, Beside DEF lower, q
  <2>6. Within(t, t1, w, area)
    BY DEF Within, area
  <2>7. \/ Pos(t, y) \intersect area = {}
        \/ y \notin Subtrees(t, Right(t, w)) /\ y # t.parent[w]
    BY <2>5 DEF lower, q, area
  <2>8. t1.is_open[y] /\ Pos(t1, y) = Pos(t, y) /\ Pos(t1, y) \subseteq Build(t1, y)
    BY <1>3, <1>11, <2>2, <2>3, <2>6, <2>7, Unaffected
  <2> QED
    BY <2>1, <2>3, <2>4, <2>5, <2>8 DEF Newer
<1>18. Backed(drawn, t1)
  <2> SUFFICES ASSUME NEW y \in t1.live, ~Whole(drawn, t1, y)
               PROVE  y \notin Container /\ Newer(drawn, t1, y)
    BY DEF Backed
  <2>1. y \in t.live /\ y \in Id /\ ~Whole(saved, t, y)
    BY <1>1, <1>3, <1>16
  <2>2. y \notin Container /\ saved.is_dirty[y] /\ t1.is_open[y] /\ Pos(t1, y) \subseteq Build(t1, y)
    BY <1>17, <2>1
  <2>3. Build(t1, y) = Pos(t1, y)
    BY <2>2, BuildMeans
  <2>4. ~drawn.is_hidden[y]
    BY <1>14, <2>1, <2>2, <2>3 DEF Regions, Exact
  <2> QED
    BY <1>16, <2>2, <2>4 DEF Newer
<1>19. ASSUME NEW y \in Id, y \notin Subtree(t, w) PROVE drawn.dirty[y] = saved.dirty[y]
  BY <1>10, <1>12, <1>15, <1>19 DEF Redrawn
<1>20. ASSUME NEW y \in Subtree(t, w), t1.is_open[y], NEW c \in Build(t1, y)
       PROVE  c \in new
  <2>1. w \in Line(t1, y) /\ y \in t1.live
    BY <1>1, <1>3, SubtreeMeans, AlikeLines
  <2> QED
    BY <1>3, <1>20, <2>1, BuildWithin
\* If w is copied, the cell has been visible where it comes from.
<1>21. ASSUME ~covered, NEW y \in Subtree(t, w), t1.is_open[y], NEW c \in Build(t1, y)
       PROVE  LET b == Minus(c, d)
              IN  /\ c \in Point /\ b \in Point /\ Plus(b, d) = c /\ b \in Build(t, y)
                  /\ t.is_open[y] /\ Minus(b, t.at[y]) = Minus(c, t1.at[y])
  <2> DEFINE b == Minus(c, d)
  <2>1. y \in Id /\ t.is_open[y] /\ t1.at[y] = Plus(t.at[y], d) /\ t.at[y] \in Point
    BY <1>1, <1>3, <1>21, TreeFields
  <2>2. c \in Point
    BY <1>3, <1>21, <2>1, BuildMeans, PosFacts
  <2>3. b \in Point /\ Plus(b, d) = c
    BY <2>2, PointMoves
  <2>4. Minus(b, t.at[y]) = Minus(c, t1.at[y])
    BY <2>1, <2>2, MinusTwice
  <2> HIDE DEF b
  <2>5. b \in Build(t, y)
    BY <1>3, <1>11, <1>21, <2>1, <2>3, MovedCell DEF covered
  <2> QED
    BY <2>1, <2>2, <2>3, <2>4, <2>5 DEF b
<1>22. ASSUME NEW y \in t1.live \ Container, Direct(drawn, t1, y), y \notin lower \union {q}
       PROVE  drawn.dirty[y] = {}
  <2>1. y \in Id /\ y \in t.live /\ t1.is_open[y] /\ t.is_open[y] /\ Build(t1, y) = Pos(t1, y) /\ Pos(t1, y) # {}
    BY <1>1, <1>3, <1>14, <1>22, InSight DEF Direct
  <2>2. ASSUME Pos(t, y) \subseteq Build(t, y) PROVE saved.dirty[y] = {}
    <3>1. Build(t, y) = Pos(t, y)
      BY <2>2, BuildMeans
    <3>2. Direct(saved, t, y)
      BY <1>7, <2>1, <3>1 DEF Regions, Exact, Direct
    <3> QED
      BY <1>3, <1>6, <1>22, <3>2 DEF Intact, Settled
  <2>3. CASE y \notin Subtree(t, w)
    <3>1. /\ t1.at[y] = t.at[y]
          /\ \A c \in Pos(t1, y) : c \in Build(t, y)
      BY <1>3, <1>11, <1>22, <2>1, <2>3, Exposed DEF lower, q
    <3>2. Pos(t1, y) = Pos(t, y)
      BY <1>3, <3>1 DEF Pos, Full
    <3> QED
      BY <1>19, <2>1, <2>2, <2>3, <3>1, <3>2
  <2>4. CASE y \in Subtree(t, w) /\ covered
    <3>1. ~built.is_hidden[y]
      BY <1>16, <1>22 DEF Direct
    <3> QED
      BY <1>15, <2>1, <2>4, <3>1 DEF Redrawn
  <2>5. CASE y \in Subtree(t, w) /\ ~covered
    <3>1. ASSUME NEW b \in Pos(t, y) PROVE b \in Build(t, y)
      <4>1. b \in Point
        BY <1>1, <2>1, PosFacts
      <4>2. Plus(b, d) \in Pos(t1, y)
        BY <1>11, <2>1, <2>5, <4>1 DEF Shifted
      <4> QED
        BY <1>3, <1>11, <2>1, <2>5, <4>1, <4>2, MovedCell DEF covered
    <3> QED
      BY <1>10, <1>12, <2>2, <2>5, <3>1
  <2> QED
    BY <2>3, <2>4, <2>5
<1>23. ASSUME NEW y \in (lower \union {q}) \intersect t1.live, ~Whole(drawn, t1, y)
       PROVE  drawn.dirty[y] = {} /\ drawn.vis[y] \intersect old = {}
  <2>1. y \in t.live /\ y \in Id /\ ~Whole(saved, t, y)
    BY <1>1, <1>3, <1>16, <1>23
  <2>2. y \notin Subtree(t, w) /\ saved.dirty[y] = {} /\ t1.is_open[y] /\ Pos(t1, y) \intersect old = {}
    BY <1>17, <1>23, <2>1
  <2>3. drawn.vis[y] \subseteq Pos(t1, y)
    BY <1>14, <2>1, <2>2, BuildMeans DEF Regions, Exact
  <2> QED
    BY <1>19, <2>1, <2>2, <2>3
<1>24. ASSUME NEW c \in Display, NEW y \in Id, c \in drawn.vis[y], ~(y \in lower \union {q} /\ c \in old)
       PROVE  drawn.screen[c] = <<y, Minus(c, t1.at[y])>> \/ Minus(c, t1.at[y]) \in drawn.dirty[y]
  <2>1. y \in t.live /\ t1.is_open[y] /\ c \in Build(t1, y) /\ c \in built.vis[y]
    BY <1>3, <1>14, <1>16, <1>24, OneOwner
  <2>2. CASE y \in Subtree(t, w) /\ covered
    <3>1. c \in new
      BY <1>20, <2>1, <2>2
    <3>2. Minus(c, t1.at[y]) \in built.bitmap[y]
      <4>1. Whole(drawn, t1, y)
        BY <1>16, <1>17, <2>1, <2>2
      <4>2. c \in Point /\ c \in Pos(t1, y)
        BY <2>1, DisplayPoints, BuildMeans
      <4>3. Minus(c, t1.at[y]) \in Cells(t1, y)
        BY <1>3, <4>2, CellsAt
      <4> QED
        BY <1>10, <1>16, <4>1, <4>3 DEF Whole
    <3> QED
      BY <1>15, <2>1, <2>2, <3>1, <3>2 DEF Redrawn
  <2>3. CASE y \in Subtree(t, w) /\ ~covered
    <3> DEFINE b == Minus(c, d)
    <3>1. b \in Build(t, y) /\ t.is_open[y] /\ Minus(b, t.at[y]) = Minus(c, t1.at[y])
      BY <1>21, <2>1, <2>3
    <3>2. drawn.screen[c] = saved.screen[b] /\ drawn.dirty[y] = saved.dirty[y]
      BY <1>10, <1>12, <1>20, <2>1, <2>3
    <3> HIDE DEF b
    <3>3. b \in saved.vis[y]
      BY <1>7, <3>1 DEF Regions, Exact
    <3>4. b \in Display
      <4>1. y # Root /\ Root \in Ancestors(t, y) /\ Work(t, Root) = Display
        BY <1>2, <2>1, <2>3, RootAbove
      <4> QED
        BY <3>1, <4>1, BuildMeans DEF Inside
    <3>5. saved.screen[b] = <<y, Minus(b, t.at[y])>> \/ Minus(b, t.at[y]) \in saved.dirty[y]
      BY <1>6, <3>3, <3>4 DEF Intact, Sharp
    <3> QED
      BY <3>1, <3>2, <3>5
  <2>4. CASE y \notin Subtree(t, w)
    <3>1. /\ t.is_open[y] /\ t1.at[y] = t.at[y]
          /\ c \in Build(t, y) \/ (c \in old /\ y \in lower \union {q})
      BY <1>3, <1>11, <2>1, <2>4, Exposed DEF lower, q
    <3>2. c \in saved.vis[y]
      BY <1>7, <1>24, <3>1 DEF Regions, Exact
    <3>3. saved.screen[c] = <<y, Minus(c, t.at[y])>> \/ Minus(c, t.at[y]) \in saved.dirty[y]
      BY <1>6, <3>2 DEF Intact, Sharp
    <3>4. drawn.screen[c] = saved.screen[c]
      <4>1. CASE covered
        BY <1>10, <1>15, <2>1, <2>4, <4>1 DEF Redrawn
      <4>2. CASE ~covered
        <5>1. ASSUME c \in new PROVE FALSE
          <6>1. t1.is_open[w] /\ ~IsHidden(t1, w) /\ w \in t1.live
            BY <1>3, <4>2 DEF covered
          <6>2. Inside(t1, w, c) /\ ~Covered(t1, w, c)
            BY <5>1, <6>1 DEF IsHidden, Inside, Covered, Line
          <6>3. w \in Line(t1, y)
            BY <1>3, <2>1, <5>1, <6>1, <6>2, InFront
          <6> QED
            BY <1>1, <1>3, <2>1, <2>4, <6>3, SubtreeMeans, AlikeLines
        <5> QED
          BY <1>10, <1>12, <4>2, <5>1
      <4> QED
        BY <4>1, <4>2
    <3> QED
      BY <1>19, <2>4, <3>1, <3>3, <3>4
  <2> QED
    BY <2>2, <2>3, <2>4
<1> HIDE DEF old, new
<1>25. Intact(again, t1)
  BY <1>1, <1>3, <1>13, <1>14, <1>18, <1>22, <1>23, <1>24, RedrawSharp
<1> QED
  BY <1>4, <1>25 DEF t1

\* w_topDown() saves what it covers: w and what was above it, or w.
LEMMA TopDownStores ==
  ASSUME TreeOK(tree), pic \in Pic, Regions(pic, tree), Intact(pic, tree), NEW w \in Window, TopDown(w)
  PROVE  Intact(pic', tree')
<1> DEFINE area == Pos(tree, w)
<1>1. w \in tree.live \ {Root} /\ tree \in Tree /\ w \in Id /\ tree.live \subseteq Id
  BY TopDownTree, TreeFields DEF TreeOK
<1>2. PICK N : N = tree'
  OBVIOUS
<1>3. Restacked(tree, N, w) /\ N \in Tree /\ TreeOK(N)
  BY <1>2, TopDownTree DEF Restacked, TreeOK
<1>4. PICK P : P = pic'
  OBVIOUS
<1>5. P \in Pic /\ Regions(P, N)
  BY <1>2, <1>4, TopDownStep
<1>6. /\ N.live = tree.live /\ N.is_open = tree.is_open /\ N.at = tree.at /\ N.size = tree.size
      /\ Alike(tree, N) /\ Alike(N, tree) /\ \A x : Pos(N, x) = Pos(tree, x)
  BY <1>3 DEF Restacked, Alike, Pos, Full
<1>7. ASSUME NEW y \in tree.live
      PROVE  /\ Line(N, y) = Line(tree, y) /\ \A a \in Line(tree, y) : a \in tree.live /\ a \in Id
             /\ \A a \in Line(tree, y) : y \in Subtree(tree, a)
  <2>1. \A a \in Line(tree, y) : a \in tree.live
    BY AncestorsLive
  <2>2. y \in Id
    BY <1>1
  <2>3. Line(N, y) = Line(tree, y)
    BY <1>1, <1>3, <1>6, <2>2, AlikeLines
  <2> QED
    BY <1>1, <2>1, <2>3, SubtreeMeans
<1>8. \A a \in tree.live : \A x \in Left(N, a) : x \in Id
  BY <1>1, <1>3, <1>6, SiblingsOf DEF Left
\* The windows that are saved: they are up to date, or lie beside w.
<1>9. ASSUME NEW all \in SUBSET Id, Subtree(tree, w) \subseteq all, NEW saved, saved = Save(pic, tree, all, area)
      PROVE  /\ Kept(pic, saved) /\ saved \in Pic /\ Intact(saved, tree)
             /\ \A y \in tree.live : ~Whole(saved, tree, y) /\ Direct(pic, tree, y) =>
                  /\ y \notin Container /\ tree.is_open[y] /\ Build(tree, y) = Pos(tree, y)
                  /\ w \notin Line(tree, y)
                  /\ y \in all => Pos(tree, y) \intersect area = {}
  <2>1. \A y \in all : Same(tree, tree, y)
    BY DEF Same
  <2> HIDE DEF area
  <2>2. /\ Kept(pic, saved) /\ Intact(saved, tree)
        /\ \A y \in all \intersect tree.live : Pos(tree, y) \intersect area # {} => Whole(saved, tree, y)
    BY <1>1, <1>9, <2>1, SaveStores
  <2>3. ASSUME NEW y \in tree.live, ~Whole(saved, tree, y), Direct(pic, tree, y)
        PROVE  /\ y \notin Container /\ tree.is_open[y] /\ Build(tree, y) = Pos(tree, y)
               /\ w \notin Line(tree, y)
               /\ y \in all => Pos(tree, y) \intersect area = {}
    <3>1. /\ Build(tree, y) = Pos(tree, y) /\ Pos(tree, y) # {}
          /\ \A a \in Line(tree, y) : Pos(tree, y) \subseteq Pos(tree, a)
      BY <2>3, InSight
    <3>2. w \in Line(tree, y) => y \in all /\ Pos(tree, y) \subseteq area
      BY <1>7, <1>9, <3>1 DEF area
    <3>3. y \in all => Pos(tree, y) \intersect area = {}
      BY <2>2, <2>3
    <3> QED
      BY <2>2, <2>3, <3>1, <3>2, <3>3 DEF Intact, Backed, Direct
  <2> QED
    BY <2>2, <2>3 DEF Kept
<1>10. ASSUME NEW saved \in Pic, Kept(pic, saved), Intact(saved, tree),
              NEW all \in SUBSET Id, NEW built, built = Rebuild(saved, N, all, area),
              NEW S \in SUBSET Id, P = Redraw(built, N, S, area),
              \A y \in tree.live : ~Whole(saved, tree, y) /\ Direct(pic, tree, y) =>
                /\ tree.is_open[y] /\ Build(tree, y) = Pos(tree, y) /\ w \notin Line(tree, y)
                /\ y \in S => Pos(tree, y) \intersect area = {}
                /\ \A a \in Line(tree, y) : w \in Left(N, a) /\ Pos(tree, y) \intersect area # {} => w \in Left(tree, a),
              \A y \in tree.live : \A c \in Build(N, y) : (y \in S /\ c \in area) \/ c \in Build(tree, y)
       PROVE  Intact(P, N)
  <2>1. /\ built \in Pic /\ built.screen = saved.screen /\ built.dirty = saved.dirty
        /\ built.bitmap = saved.bitmap /\ built.is_dirty = saved.is_dirty
    <3> HIDE DEF area
    <3>1. built \in Pic
      BY <1>3, <1>10, RebuildMeans
    <3> QED
      BY <1>10, <3>1, RebuildDrawn
  <2>2. Regions(built, N)
    <3>1. Kept(built, P)
      BY <1>3, <1>10, <2>1, RedrawKeeps
    <3> QED
      BY <1>5, <3>1, KeptRegions
  <2>3. ASSUME NEW y \in N.live, ~Whole(saved, tree, y), Direct(pic, tree, y)
        PROVE  /\ N.is_open[y] /\ Pos(N, y) \subseteq Build(N, y)
               /\ y \in S => Pos(N, y) \intersect area = {}
    <3>1. /\ y \in tree.live /\ tree.is_open[y] /\ Build(tree, y) = Pos(tree, y) /\ w \notin Line(tree, y)
          /\ y \in S => Pos(tree, y) \intersect area = {}
          /\ \A a \in Line(tree, y) : w \in Left(N, a) /\ Pos(tree, y) \intersect area # {} => w \in Left(tree, a)
      BY <1>6, <1>10, <2>3
    <3>2. ASSUME NEW c \in Pos(tree, y) PROVE c \in Build(N, y)
      <4>1. ASSUME NEW a \in Line(N, y), NEW x \in Left(N, a), c \in Pos(N, x)
            PROVE  x \in Left(tree, a)
        <5>1. a \in Line(tree, y) /\ a \in tree.live /\ a # w /\ x \in Id
          BY <1>7, <1>8, <3>1, <4>1
        <5>2. CASE x = w
          BY <1>6, <3>1, <3>2, <4>1, <5>1, <5>2
        <5>3. CASE x # w
          BY <1>3, <4>1, <5>1, <5>3 DEF Restacked
        <5> QED
          BY <5>2, <5>3
      <4>2. c \in Build(tree, y)
        BY <3>1, <3>2
      <4> QED
        BY <1>3, <1>6, <2>3, <4>1, <4>2, LessAbove
    <3> QED
      BY <1>6, <3>1, <3>2
  <2>4. ASSUME NEW y \in N.live, N.is_open[y], NEW c \in Build(N, y)
        PROVE  \/ y \in S /\ c \in area
               \/ tree.is_open[y] /\ N.at[y] = tree.at[y] /\ c \in Build(tree, y)
    BY <1>6, <1>10, <2>4
  <2> HIDE DEF area
  <2> QED
    BY <1>3, <1>6, <1>10, <2>1, <2>2, <2>3, <2>4, RedrawStores
<1>11. CASE ToTop(w)
  <2> DEFINE above == Left(tree, w)
             all == Subtrees(tree, above \union {w})
             saved == Save(pic, tree, all, area)
             built == Rebuild(saved, N, all, area)
             S == Subtree(tree, w)
  <2>1. P = Redraw(built, N, S, area)
    BY <1>2, <1>4, <1>11 DEF ToTop
  <2>2. /\ all \in SUBSET Id /\ S \in SUBSET Id /\ S \subseteq all
        /\ \A a \in above : Subtree(tree, a) \subseteq all
    BY <1>1 DEF Subtrees, Subtree
  <2>3. \A a \in tree.live \ (above \union {w}) : w \in Left(N, a) <=> w \in Left(tree, a)
    BY <1>2, <1>11, TopDownTree
  <2>4. \A y \in tree.live : \A c \in Build(N, y) : (y \in S /\ c \in area) \/ c \in Build(tree, y)
    BY <1>2, <1>11, TopDownExposed
  <2> HIDE DEF all, above, S, area
  <2>5. /\ Kept(pic, saved) /\ saved \in Pic /\ Intact(saved, tree)
        /\ \A y \in tree.live : ~Whole(saved, tree, y) /\ Direct(pic, tree, y) =>
             /\ y \notin Container /\ tree.is_open[y] /\ Build(tree, y) = Pos(tree, y)
             /\ w \notin Line(tree, y)
             /\ y \in all => Pos(tree, y) \intersect area = {}
    BY <1>9, <2>2 DEF S
  <2> HIDE DEF saved, built
  <2>6. ASSUME NEW y \in tree.live, ~Whole(saved, tree, y), Direct(pic, tree, y)
        PROVE  /\ tree.is_open[y] /\ Build(tree, y) = Pos(tree, y) /\ w \notin Line(tree, y)
               /\ y \in S => Pos(tree, y) \intersect area = {}
               /\ \A a \in Line(tree, y) :
                    w \in Left(N, a) /\ Pos(tree, y) \intersect area # {} => w \in Left(tree, a)
    <3>1. /\ tree.is_open[y] /\ Build(tree, y) = Pos(tree, y) /\ w \notin Line(tree, y)
          /\ y \in all => Pos(tree, y) \intersect area = {}
      BY <2>5, <2>6
    <3>2. ASSUME NEW a \in Line(tree, y), w \in Left(N, a), Pos(tree, y) \intersect area # {}
          PROVE  w \in Left(tree, a)
      <4>1. a \in tree.live /\ y \in Subtree(tree, a) /\ a # w
        BY <1>7, <3>1, <3>2
      <4>2. a \notin above
        BY <2>2, <3>1, <3>2, <4>1
      <4> QED
        BY <2>3, <3>2, <4>1, <4>2
    <3> QED
      BY <2>2, <3>1, <3>2
  <2>7. Intact(P, N)
    BY <1>10, <2>1, <2>2, <2>4, <2>5, <2>6 DEF built
  <2> QED
    BY <1>2, <1>4, <2>7
<1>12. CASE ToBottom(w)
  <2> DEFINE below == Right(tree, w)
             all == Subtrees(tree, below \union {w})
             saved == Save(pic, tree, Subtree(tree, w), area)
             built == Rebuild(saved, N, all, area)
             S == Subtrees(tree, below)
  <2>1. P = IF below = {} THEN pic ELSE Redraw(built, N, S, area)
    BY <1>2, <1>4, <1>12 DEF ToBottom
  <2>2. all \in SUBSET Id /\ S \in SUBSET Id /\ Subtree(tree, w) \in SUBSET Id
    BY <1>1 DEF Subtrees, Subtree
  <2>3. \A a \in tree.live \ (below \union {w}) : w \in Left(N, a) <=> w \in Left(tree, a)
    BY <1>2, <1>12, TopDownTree
  <2>4. \A y \in tree.live : \A c \in Build(N, y) : (y \in S /\ c \in area) \/ c \in Build(tree, y)
    BY <1>2, <1>12, TopDownExposed
  <2>5. \A a \in below : w \in Left(tree, a)
    BY <1>1, SiblingsOf
  <2>6. tree.is_open[w]
    <3>1. pic.vis[w] # {}
      BY DEF TopDown
    <3> QED
      BY <1>1, <3>1 DEF Regions, Exact
  <2>7. \A y \in S : \E a \in below : y \in tree.live /\ a \in Line(tree, y)
    BY SubtreeMeans DEF Subtrees
  <2> HIDE DEF all, S, area
  <2>8. /\ Kept(pic, saved) /\ saved \in Pic /\ Intact(saved, tree)
        /\ \A y \in tree.live : ~Whole(saved, tree, y) /\ Direct(pic, tree, y) =>
             /\ tree.is_open[y] /\ Build(tree, y) = Pos(tree, y) /\ w \notin Line(tree, y)
    BY <1>9, <2>2
  <2> HIDE DEF saved, built, below
  <2>9. ASSUME NEW y \in tree.live, ~Whole(saved, tree, y), Direct(pic, tree, y)
        PROVE  /\ tree.is_open[y] /\ Build(tree, y) = Pos(tree, y) /\ w \notin Line(tree, y)
               /\ y \in S => Pos(tree, y) \intersect area = {}
               /\ \A a \in Line(tree, y) :
                    w \in Left(N, a) /\ Pos(tree, y) \intersect area # {} => w \in Left(tree, a)
    <3>1. tree.is_open[y] /\ Build(tree, y) = Pos(tree, y) /\ w \notin Line(tree, y)
      BY <2>8, <2>9
    <3>2. \A a \in Line(tree, y) : a \in tree.live \ {w}
      BY <1>7, <3>1
    <3>3. ASSUME y \in S, NEW c \in Pos(tree, y), c \in area PROVE FALSE
      <4>1. Covered(tree, y, c)
        BY <2>5, <2>6, <2>7, <3>3 DEF Covered, area
      <4> QED
        BY <3>1, <3>3, <4>1, BuildMeans
    <3> QED
      BY <2>3, <2>5, <3>1, <3>2, <3>3
  <2>10. CASE below # {}
    <3>1. Intact(P, N)
      BY <1>10, <2>1, <2>2, <2>4, <2>8, <2>9, <2>10 DEF built
    <3> QED
      BY <1>2, <1>4, <3>1
  <2>11. CASE below = {}
    <3>1. P = pic
      BY <2>1, <2>11
    <3>2. Intact(P, N)
      BY <1>6, <3>1, IntactSame
    <3> QED
      BY <1>2, <1>4, <3>2
  <2> QED
    BY <2>10, <2>11
<1> QED
  BY <1>11, <1>12 DEF TopDown

-----------------------------------------------------------------------------
(* The actions, for what is shown and for what is kept.                    *)

\* What is shown depends on the places of the windows that are visible.
LEMMA ShownSame ==
  ASSUME NEW p, NEW q, NEW t, NEW u, q.vis = p.vis, q.screen = p.screen, u.at = t.at
  PROVE  Shown(q, u) <=> Shown(p, t)
BY DEF Shown, Genuine

\* client_create(): the bitmap of the new window is blank.
LEMMA CreateShows ==
  ASSUME TreeOK(tree), pic \in Pic, Regions(pic, tree), Shown(pic, tree), Held(pic, tree),
         NEW w \in Window, NEW par \in Id, NEW s \in Sizes, Create(w, par, s)
  PROVE  Shown(pic', tree') /\ Held(pic', tree') /\ (Intact(pic, tree) => Intact(pic', tree'))
<1>1. PICK u : u = tree'
  OBVIOUS
<1>2. PICK q : q = pic'
  OBVIOUS
<1>3. /\ w \in Window \ tree.live /\ par \in tree.live /\ s \in Extent /\ w \in Id /\ tree.live \subseteq Id
  BY SizesAreExtents, WindowAssumption, TreeFields DEF Create, TreeOK, Id
<1>4. u = Created(tree, w, par, s)
  BY <1>1 DEF Create, Created
<1>5. /\ u.live = tree.live \union {w} /\ ~u.is_open[w]
      /\ \A x \in Id \ {w} : u.at[x] = tree.at[x] /\ u.size[x] = tree.size[x] /\ u.is_open[x] = tree.is_open[x]
  BY <1>3, <1>4, CreatedTree
<1>6. q = [pic EXCEPT !.vis[w] = {}, !.is_hidden[w] = FALSE, !.is_dirty[w] = FALSE,
                      !.dirty[w] = {}, !.bitmap[w] = Cells(u, w)]
  BY <1>1, <1>2 DEF Create
<1>7. /\ q.screen = pic.screen /\ q.vis = [pic.vis EXCEPT ![w] = {}]
      /\ q.bitmap = [pic.bitmap EXCEPT ![w] = Cells(u, w)]
  BY <1>6 DEF Pic
<1>8. Shown(q, u)
  <2> SUFFICES ASSUME NEW c \in Display, NEW y \in Id, c \in q.vis[y] PROVE Genuine(q.screen[c], u, y, c)
    BY DEF Shown
  <2>1. y # w /\ c \in pic.vis[y]
    BY <1>3, <1>7, PicFields
  <2> QED
    BY <1>5, <1>7, <2>1 DEF Shown, Genuine
<1>9. Held(q, u)
  <2> SUFFICES ASSUME NEW y \in u.live PROVE q.bitmap[y] \subseteq Cells(u, y)
    BY DEF Held
  <2>1. CASE y = w
    BY <1>3, <1>7, <2>1, PicFields
  <2>2. CASE y # w
    <3>1. y \in tree.live /\ y \in Id \ {w}
      BY <1>3, <1>5, <2>2
    <3>2. q.bitmap[y] = pic.bitmap[y] /\ Cells(u, y) = Cells(tree, y)
      BY <1>5, <1>7, <3>1, PicFields DEF Cells, Full
    <3> QED
      BY <3>1, <3>2 DEF Held
  <2> QED
    BY <2>1, <2>2
<1>10. ASSUME Intact(pic, tree) PROVE Intact(q, u)
  <2>1. /\ q.bitmap[w] = Cells(u, w) /\ q.vis[w] = {}
        /\ \A y \in Id \ {w} : /\ q.bitmap[y] = pic.bitmap[y] /\ q.dirty[y] = pic.dirty[y]
                               /\ q.is_dirty[y] = pic.is_dirty[y] /\ q.is_hidden[y] = pic.is_hidden[y]
                               /\ q.vis[y] = pic.vis[y]
    <3>1. /\ q.dirty = [pic.dirty EXCEPT ![w] = {}]
          /\ q.is_dirty = [pic.is_dirty EXCEPT ![w] = FALSE]
          /\ q.is_hidden = [pic.is_hidden EXCEPT ![w] = FALSE]
      BY <1>6 DEF Pic
    <3> QED
      BY <1>3, <1>7, <3>1, PicFields
  <2>2. ASSUME NEW y \in u.live, y # w
        PROVE  /\ y \in tree.live /\ Cells(u, y) = Cells(tree, y)
               /\ Whole(q, u, y) <=> Whole(pic, tree, y)
               /\ Newer(q, u, y) <=> Newer(pic, tree, y)
               /\ Direct(q, u, y) <=> Direct(pic, tree, y)
               /\ q.dirty[y] = pic.dirty[y]
    <3>1. y \in tree.live /\ y \in Id \ {w}
      BY <1>3, <1>5, <2>2
    <3>2. Cells(u, y) = Cells(tree, y)
      BY <1>5, <3>1 DEF Cells, Full
    <3> QED
      BY <1>5, <2>1, <3>1, <3>2 DEF Whole, Newer, Direct
  <2>3. Backed(q, u)
    BY <1>10, <2>1, <2>2 DEF Intact, Backed, Whole
  <2>4. Settled(q, u)
    BY <1>5, <1>10, <2>2 DEF Intact, Settled, Direct
  <2>5. Sharp(q, u)
    <3> SUFFICES ASSUME NEW c \in Display, NEW y \in Id, c \in q.vis[y]
                 PROVE  q.screen[c] = <<y, Minus(c, u.at[y])>> \/ Minus(c, u.at[y]) \in q.dirty[y]
      BY DEF Sharp
    <3>1. y # w /\ c \in pic.vis[y]
      BY <2>1
    <3> QED
      BY <1>5, <1>7, <1>10, <2>1, <3>1 DEF Intact, Sharp
  <2> QED
    BY <2>3, <2>4, <2>5 DEF Intact
<1> QED
  BY <1>1, <1>2, <1>8, <1>9, <1>10

\* client_open()
LEMMA OpenDraws ==
  ASSUME TreeOK(tree), pic \in Pic, Regions(pic, tree), Shown(pic, tree), Held(pic, tree),
         NEW w \in Window, NEW x \in Positions, Open(w, x)
  PROVE  Shown(pic', tree') /\ Held(pic', tree') /\ (Intact(pic, tree) => Intact(pic', tree'))
<1> DEFINE pos == Plus(x, Plus(tree.at[tree.parent[w]], Edge(tree.parent[w])))
<1>1. PICK u : u = tree'
  OBVIOUS
<1>2. PICK q : q = pic'
  OBVIOUS
<1>3. /\ w \in tree.live \ {Root} /\ tree \in Tree /\ tree.live \subseteq Id
      /\ tree.parent[w] \in Id /\ ~tree.is_open[w]
  BY WindowAssumption, TreeFields DEF Open, TreeOK
<1>4. pos \in Point
  BY <1>3, SizesAreExtents, PlaceGiven
<1>5. u = OpenedTree(tree, w, pos) /\ q \in Refocused(OpenedPic(pic, u, w), u)
  BY <1>1, <1>2 DEF Open
<1> HIDE DEF pos
<1>6. /\ TreeOK(u) /\ Elsewhere(tree, u, w) /\ u.is_open[w] /\ u.size = tree.size
      /\ \A y \in Id \ {w} : u.is_open[y] <=> tree.is_open[y]
  BY <1>3, <1>4, <1>5, OpenedTreeOK
<1>7. \A y \in Subtree(tree, w) \ {w} : u.is_open[y] <=> tree.is_open[y]
  BY <1>3, <1>6, SubtreeMeans
<1>8. OpenedPic(pic, u, w) \in Pic /\ Regions(OpenedPic(pic, u, w), u)
  BY <1>3, <1>6, <1>7, OpenStep
<1>9. Shown(OpenedPic(pic, u, w), u) /\ Held(OpenedPic(pic, u, w), u)
  BY <1>3, <1>6, <1>7, OpenShows
<1>10. Intact(pic, tree) => Intact(OpenedPic(pic, u, w), u)
  BY <1>3, <1>6, <1>7, OpenStores
<1>11. Intact(pic, tree) => Intact(q, u)
  BY <1>5, <1>6, <1>8, <1>10, RefocusedStores
<1> QED
  BY <1>1, <1>2, <1>5, <1>6, <1>8, <1>9, <1>11, RefocusedShows

\* client_close(), as it is, and as a part of client_delete() and client_resize().
LEMMA CloseDraws ==
  ASSUME NEW t, TreeOK(t), NEW w \in t.live \ {Root}, t.is_open[w],
         NEW p \in Pic, Regions(p, t), Shown(p, t), Held(p, t),
         NEW q \in Refocused(ClosedPic(p, t, w), ClosedTree(t, w))
  PROVE  /\ TreeOK(ClosedTree(t, w)) /\ q \in Pic /\ Regions(q, ClosedTree(t, w))
         /\ Shown(q, ClosedTree(t, w)) /\ Held(q, ClosedTree(t, w))
         /\ Clear(t) /\ Intact(p, t) => Intact(q, ClosedTree(t, w))
<1>1. TreeOK(ClosedTree(t, w)) /\ ClosedTree(t, w) \in Tree
  BY ClosedTreeOK DEF TreeOK
<1>2. ClosedPic(p, t, w) \in Pic /\ Regions(ClosedPic(p, t, w), ClosedTree(t, w))
  BY CloseStep
<1>3. Shown(ClosedPic(p, t, w), ClosedTree(t, w)) /\ Held(ClosedPic(p, t, w), ClosedTree(t, w))
  BY CloseShows
<1>4. Kept(ClosedPic(p, t, w), q)
  BY <1>1, <1>2, RefocusedKeeps
<1>5. Shown(q, ClosedTree(t, w)) /\ Held(q, ClosedTree(t, w))
  BY <1>1, <1>2, <1>3, RefocusedShows
<1>6. Clear(t) /\ Intact(p, t) => Intact(q, ClosedTree(t, w))
  BY <1>1, <1>2, CloseStores, RefocusedStores
<1> QED
  BY <1>1, <1>2, <1>4, <1>5, <1>6, KeptRegions

\* client_move()
LEMMA MoveDraws ==
  ASSUME TreeOK(tree), pic \in Pic, Regions(pic, tree), Shown(pic, tree), Held(pic, tree),
         NEW w \in Window, NEW x \in Positions, Move(w, x)
  PROVE  /\ Shown(pic', tree') /\ Held(pic', tree')
         /\ Clear(tree) /\ Intact(pic, tree) => Intact(pic', tree')
<1> DEFINE d == Minus(Plus(x, Plus(tree.at[tree.parent[w]], Edge(tree.parent[w]))), tree.at[w])
           S == Subtree(tree, w)
<1>1. PICK u : u = tree'
  OBVIOUS
<1>2. PICK q : q = pic'
  OBVIOUS
<1>3. /\ w \in tree.live \ {Root} /\ tree \in Tree /\ tree.live \subseteq Id /\ w \in Id
      /\ tree.parent[w] \in Id /\ tree.is_open[w]
  BY WindowAssumption, TreeFields DEF Move, TreeOK
<1>4. tree.at[w] \in Point /\ x \in Point
  BY <1>3, TreeFields, SizesAreExtents
<1>5. d \in Point
  BY <1>3, <1>4, PlaceGiven, PointMoves
<1>6. /\ u = Moved(tree, S, d)
      /\ q \in Refocused(IF d = <<0, 0>> THEN pic ELSE MovedPic(pic, tree, w, d), u)
  BY <1>1, <1>2 DEF Move
<1>7. S \in SUBSET Id /\ Root \notin S
  <2>1. Ancestors(tree, Root) = {} /\ Root \in tree.live
    BY RootAbove DEF TreeOK
  <2> QED
    BY <1>3, <2>1, SubtreeMeans DEF Line
<1> HIDE DEF d
<1>8. PICK p : p = IF d = <<0, 0>> THEN pic ELSE MovedPic(pic, tree, w, d)
  OBVIOUS
<1>9. /\ TreeOK(u) /\ Alike(tree, u) /\ u.size = tree.size
      /\ \A y \in Id : u.at[y] = IF y \in S /\ tree.is_open[y] THEN Plus(tree.at[y], d) ELSE tree.at[y]
  <2> HIDE DEF S
  <2> QED
    BY <1>5, <1>6, <1>7, MovedTree
<1>10. /\ p \in Pic /\ Regions(p, u) /\ Shown(p, u) /\ Held(p, u)
       /\ Clear(tree) /\ Intact(pic, tree) => Intact(p, u)
  <2>1. CASE d = <<0, 0>>
    <3>1. \A a \in Point : Plus(a, <<0, 0>>) = a
      BY DEF Plus, Point
    <3>2. u.at = tree.at
      <4>1. u.at \in [Id -> Point] /\ tree.at \in [Id -> Point]
        BY <1>3, <1>9, TreeFields DEF TreeOK
      <4> HIDE DEF S
      <4>2. \A y \in Id : u.at[y] = tree.at[y]
        BY <1>9, <2>1, <3>1, <4>1
      <4> QED
        BY <4>1, <4>2
    <3>3. p = pic
      BY <1>8, <2>1
    <3>4. Shown(p, u)
      BY <3>2, <3>3, ShownSame
    <3>5. Held(p, u)
      BY <1>9, <3>3, HeldSame DEF Alike
    <3>6. Regions(p, u)
      <4>1. PICK N : N = tree'
        OBVIOUS
      <4>2. Regions(pic', N) /\ N = u
        BY <1>1, <4>1, MoveAction
      <4>3. Kept(p, q)
        BY <1>6, <1>8, <1>9, <3>3, RefocusedKeeps DEF TreeOK
      <4> QED
        BY <1>2, <4>2, <4>3, KeptRegions
    <3>7. u.live = tree.live /\ u.is_open = tree.is_open /\ u.size = tree.size
      <4>1. u.is_open = tree.is_open
        BY <1>6 DEF Moved
      <4> QED
        BY <1>9, <4>1 DEF Alike
    <3>8. Intact(pic, tree) => Intact(p, u)
      BY <3>2, <3>3, <3>7, IntactSame
    <3> QED
      BY <3>3, <3>4, <3>5, <3>6, <3>8
  <2>2. CASE d # <<0, 0>>
    <3>1. p = MovedPic(pic, tree, w, d)
      BY <1>8, <2>2
    <3>2. Clear(tree) /\ Intact(pic, tree) => Intact(p, u)
      BY <1>3, <1>5, <1>6, <3>1, MoveStores
    <3> QED
      BY <1>3, <1>5, <1>6, <3>1, <3>2, MoveStep, MoveShows
  <2> QED
    BY <2>1, <2>2
<1>11. Clear(tree) /\ Intact(pic, tree) => Intact(q, u)
  BY <1>6, <1>8, <1>9, <1>10, RefocusedStores
<1> QED
  BY <1>1, <1>2, <1>6, <1>8, <1>9, <1>10, <1>11, RefocusedShows

\* The new bitmap of client_resize() is as large as the window is then.
LEMMA ResizedHolds ==
  ASSUME NEW t, TreeOK(t), NEW w \in t.live \ {Root}, NEW s \in Extent, NEW p \in Pic, Held(p, t), Shown(p, t)
  PROVE  Held(ResizedPic(p, t, w, s), Sized(t, w, s)) /\ Shown(ResizedPic(p, t, w, s), Sized(t, w, s))
<1>1. PICK u : u = Sized(t, w, s)
  OBVIOUS
<1>2. /\ TreeOK(u) /\ u \in Tree /\ u.at = t.at /\ u.size = [t.size EXCEPT ![w] = s] /\ u.live = t.live
      /\ t \in Tree /\ w \in Id /\ t.live \subseteq Id
  <2>1. TreeOK(u) /\ u.at = t.at /\ u.size = [t.size EXCEPT ![w] = s] /\ u.live = t.live
    BY <1>1, SizedTree
  <2>2. t \in Tree /\ u \in Tree /\ t.live \subseteq Id
    BY <2>1, TreeFields DEF TreeOK
  <2> QED
    BY <2>1, <2>2
<1> DEFINE copied == WorkCells(t, w) \intersect WorkCells(u, w)
           bits == IF w \in Container THEN Cells(u, w)
                   ELSE (p.bitmap[w] \intersect copied) \union (Cells(u, w) \ copied)
           q == ResizedPic(p, t, w, s)
<1>3. q = [p EXCEPT !.bitmap = [p.bitmap EXCEPT ![w] = bits]]
  BY <1>1 DEF ResizedPic, Pic, Sized
<1>4. bits \subseteq Cells(u, w)
  BY <1>2, WorkInside
<1> HIDE DEF bits, q
<1>5. q.vis = p.vis /\ q.screen = p.screen /\ q.bitmap = [p.bitmap EXCEPT ![w] = bits]
  BY <1>3 DEF Pic
<1>6. Shown(q, u)
  BY <1>2, <1>5, ShownSame
<1>7. Held(q, u)
  <2> SUFFICES ASSUME NEW y \in u.live PROVE q.bitmap[y] \subseteq Cells(u, y)
    BY DEF Held
  <2>1. y \in Id /\ y \in t.live
    BY <1>2
  <2>2. CASE y = w
    BY <1>4, <1>5, <2>1, <2>2, PicFields
  <2>3. CASE y # w
    <3>1. q.bitmap[y] = p.bitmap[y] /\ Cells(u, y) = Cells(t, y)
      BY <1>2, <1>5, <2>1, <2>3, PicFields, TreeFields DEF Cells, Full
    <3> QED
      BY <2>1, <3>1 DEF Held
  <2> QED
    BY <2>2, <2>3
<1> QED
  BY <1>1, <1>6, <1>7 DEF q

\* What it copies was in the old bitmap, as the window has been closed.
LEMMA ResizedStores ==
  ASSUME NEW t, TreeOK(t), NEW w \in t.live \ {Root}, ~Mapped(t, w), NEW s \in Extent,
         NEW p \in Pic, Regions(p, t), Intact(p, t)
  PROVE  Intact(ResizedPic(p, t, w, s), Sized(t, w, s))
<1>1. PICK u : u = Sized(t, w, s)
  OBVIOUS
<1>2. /\ u.at = t.at /\ u.is_open = t.is_open /\ u.live = t.live
      /\ t \in Tree /\ w \in Id /\ t.live \subseteq Id
      /\ \A y \in Id \ {w} : Cells(u, y) = Cells(t, y)
  <2>1. u.at = t.at /\ u.is_open = t.is_open /\ u.size = [t.size EXCEPT ![w] = s] /\ u.live = t.live
    BY <1>1, SizedTree
  <2>2. t \in Tree /\ t.live \subseteq Id
    BY TreeFields DEF TreeOK
  <2>3. \A y \in Id \ {w} : u.size[y] = t.size[y]
    BY <2>1, <2>2, TreeFields
  <2> QED
    BY <2>1, <2>2, <2>3 DEF Cells, Full
<1> DEFINE copied == WorkCells(t, w) \intersect WorkCells(u, w)
           bits == IF w \in Container THEN Cells(u, w)
                   ELSE (p.bitmap[w] \intersect copied) \union (Cells(u, w) \ copied)
           q == ResizedPic(p, t, w, s)
<1>3. q = [p EXCEPT !.bitmap = [p.bitmap EXCEPT ![w] = bits]]
  BY <1>1 DEF ResizedPic, Pic, Sized
<1>4. Whole(p, t, w)
  <2>1. Newer(p, t, w) => Direct(p, t, w)
    BY DEF Newer, Direct
  <2> QED
    BY <2>1, InSight DEF Intact, Backed
<1>5. Cells(u, w) \subseteq bits
  <2>1. copied \subseteq p.bitmap[w]
    BY <1>2, <1>4, WorkInside DEF Whole
  <2> HIDE DEF copied
  <2> QED
    BY <2>1
<1> HIDE DEF bits, q
<1>6. /\ q.vis = p.vis /\ q.screen = p.screen /\ q.dirty = p.dirty /\ q.is_dirty = p.is_dirty
      /\ q.is_hidden = p.is_hidden /\ q.bitmap = [p.bitmap EXCEPT ![w] = bits]
  BY <1>3 DEF Pic
<1>7. \A y : (Direct(q, u, y) <=> Direct(p, t, y)) /\ (Newer(q, u, y) <=> Newer(p, t, y))
  BY <1>2, <1>6 DEF Direct, Newer
<1>8. \A y \in t.live : Whole(p, t, y) => Whole(q, u, y)
  <2> SUFFICES ASSUME NEW y \in t.live, Whole(p, t, y) PROVE Whole(q, u, y)
    OBVIOUS
  <2>1. CASE y = w
    BY <1>2, <1>5, <1>6, <2>1, PicFields DEF Whole
  <2>2. CASE y # w
    <3>1. y \in Id \ {w}
      BY <1>2, <2>2
    <3>2. q.bitmap[y] = p.bitmap[y]
      BY <1>6, <3>1, PicFields
    <3> QED
      BY <1>2, <3>1, <3>2 DEF Whole
  <2> QED
    BY <2>1, <2>2
<1>9. Backed(q, u) /\ Settled(q, u)
  BY <1>2, <1>6, <1>7, <1>8 DEF Intact, Backed, Settled
<1>10. Sharp(q, u)
  BY <1>2, <1>6 DEF Intact, Sharp
<1> QED
  BY <1>1, <1>9, <1>10 DEF Intact, q

\* client_resize()
LEMMA ResizeDraws ==
  ASSUME TreeOK(tree), pic \in Pic, Regions(pic, tree), Shown(pic, tree), Held(pic, tree),
         NEW w \in Window, NEW s \in Sizes, Resize(w, s)
  PROVE  /\ Shown(pic', tree') /\ Held(pic', tree')
         /\ Clear(tree) /\ Intact(pic, tree) => Intact(pic', tree')
<1> DEFINE c == ClosedTree(tree, w)
<1>1. PICK u : u = tree'
  OBVIOUS
<1>2. PICK q : q = pic'
  OBVIOUS
<1>3. /\ w \in tree.live \ {Root} /\ tree \in Tree /\ tree.live \subseteq Id /\ w \in Id
      /\ s \in Extent
  BY WindowAssumption, SizesAreExtents, TreeFields DEF Resize, TreeOK
<1>4. u = Sized(tree, w, s)
  BY <1>1 DEF Resize, Sized
<1>5. /\ TreeOK(u) /\ u.is_open = tree.is_open /\ u.at = tree.at
      /\ u.size = [tree.size EXCEPT ![w] = s] /\ Alike(tree, u) /\ u.childs = tree.childs
  BY <1>3, <1>4, SizedTree DEF Elsewhere
<1>6. CASE tree.is_open[w]
  <2>1. PICK p : /\ p \in Refocused(ClosedPic(pic, tree, w), c)
                 /\ IF Mapped(tree, w)
                    THEN q \in Refocused(OpenedPic(ResizedPic(p, c, w, s), u, w), u)
                    ELSE q = ResizedPic(p, c, w, s)
    BY <1>1, <1>2, <1>6 DEF Resize
  <2>2. /\ TreeOK(c) /\ Alike(tree, c) /\ c.childs = tree.childs /\ c.at = tree.at /\ c.size = tree.size
        /\ \A x \in Id : c.is_open[x] <=> tree.is_open[x] /\ ~(x = w /\ Mapped(tree, w))
    BY <1>3, ClosedTreeOK
  <2>3. /\ p \in Pic /\ Regions(p, c) /\ Shown(p, c) /\ Held(p, c)
        /\ Clear(tree) /\ Intact(pic, tree) => Intact(p, c)
    BY <1>3, <1>6, <2>1, CloseDraws
  <2>4. ~Mapped(tree, w) => c = tree
    BY DEF ClosedTree
  <2> HIDE DEF c
  <2>5. c \in Tree /\ w \in c.live \ {Root}
    BY <1>3, <2>2 DEF TreeOK, Alike
  <2>6. PICK new : new = ResizedPic(p, c, w, s)
    OBVIOUS
  <2>7. PICK t2 : t2 = Sized(c, w, s)
    OBVIOUS
  <2>8. new \in Pic /\ Regions(new, c)
    BY <1>3, <2>3, <2>5, <2>6, ResizedPicKeeps, KeptRegions
  <2>9. ~Mapped(c, w)
    <3>1. CASE Mapped(tree, w)
      BY <1>3, <2>2, <3>1 DEF Mapped
    <3>2. CASE ~Mapped(tree, w)
      BY <1>3, <2>4, <3>2
    <3> QED
      BY <3>1, <3>2
  <2>10. Regions(new, t2) /\ Shown(new, t2) /\ Held(new, t2)
    BY <1>3, <2>2, <2>3, <2>5, <2>6, <2>7, <2>8, <2>9, SizedRegions, ResizedHolds
  <2>11. Clear(tree) /\ Intact(pic, tree) => Intact(new, t2)
    BY <1>3, <2>2, <2>3, <2>5, <2>6, <2>7, <2>9, ResizedStores
  <2>12. CASE Mapped(tree, w)
    <3>1. /\ TreeOK(t2) /\ t2.is_open = c.is_open /\ t2.at = c.at
          /\ t2.size = [c.size EXCEPT ![w] = s] /\ Alike(c, t2) /\ t2.childs = c.childs
      BY <1>3, <2>2, <2>5, <2>7, SizedTree DEF Elsewhere
    <3>2. Alike(t2, u) /\ u.childs = t2.childs /\ u.at = t2.at /\ u.size = t2.size /\ w \in t2.live \ {Root}
      BY <1>5, <2>2, <2>5, <3>1 DEF Alike
    <3>3. \A x \in Id \ {w} : u.is_open[x] <=> t2.is_open[x]
      BY <1>5, <2>2, <3>1
    <3>4. ~t2.is_open[w] /\ u.is_open[w]
      BY <1>3, <1>5, <1>6, <2>2, <2>12, <3>1
    <3>5. w \in Subtree(t2, w) /\ Subtree(t2, w) \subseteq Id
      BY <3>1, <3>2, ParentApart, TreeFields DEF TreeOK
    <3>6. Elsewhere(t2, u, w)
      <4>1. \A x \in Id \ Subtree(t2, w) : Same(t2, u, x)
        BY <3>2, <3>3, <3>5 DEF Same
      <4> QED
        BY <3>2, <4>1 DEF Elsewhere
    <3>7. \A x \in Subtree(t2, w) \ {w} : u.is_open[x] <=> t2.is_open[x]
      BY <3>3, <3>5
    <3>8. OpenedPic(new, u, w) \in Pic /\ Regions(OpenedPic(new, u, w), u)
      BY <1>5, <2>8, <2>10, <3>1, <3>2, <3>4, <3>6, <3>7, OpenStep
    <3>9. Shown(OpenedPic(new, u, w), u) /\ Held(OpenedPic(new, u, w), u)
      BY <1>5, <2>8, <2>10, <3>1, <3>2, <3>4, <3>6, <3>7, OpenShows
    <3>10. Intact(new, t2) => Intact(OpenedPic(new, u, w), u)
      BY <1>5, <2>8, <2>10, <3>1, <3>2, <3>4, <3>6, <3>7, OpenStores
    <3>11. q \in Refocused(OpenedPic(new, u, w), u)
      BY <2>1, <2>6, <2>12
    <3>12. Intact(new, t2) => Intact(q, u)
      BY <1>5, <3>8, <3>10, <3>11, RefocusedStores
    <3> QED
      BY <1>1, <1>2, <1>5, <2>11, <3>8, <3>9, <3>11, <3>12, RefocusedShows
  <2>13. CASE ~Mapped(tree, w)
    BY <1>1, <1>2, <1>4, <2>1, <2>4, <2>6, <2>7, <2>10, <2>13, <2>11
  <2> QED
    BY <2>12, <2>13
<1>7. CASE ~tree.is_open[w]
  <2>1. q = ResizedPic(pic, tree, w, s) /\ ~Mapped(tree, w)
    BY <1>1, <1>2, <1>7 DEF Resize, Mapped
  <2>2. Intact(pic, tree) => Intact(q, u)
    BY <1>3, <1>4, <2>1, ResizedStores
  <2> QED
    BY <1>1, <1>2, <1>3, <1>4, <2>1, <2>2, ResizedHolds
<1> QED
  BY <1>6, <1>7

\* client_delete(): what was of the windows that are gone is stale.
LEMMA DeleteDraws ==
  ASSUME TreeOK(tree), pic \in Pic, Regions(pic, tree), Shown(pic, tree), Held(pic, tree),
         NEW w \in Window, Delete(w)
  PROVE  /\ Shown(pic', tree') /\ Held(pic', tree')
         /\ Clear(tree) /\ Intact(pic, tree) => Intact(pic', tree')
<1> DEFINE gone == Subtree(tree, w)
           t1 == IF tree.is_open[w] THEN ClosedTree(tree, w) ELSE tree
<1>1. PICK u : u = tree'
  OBVIOUS
<1>2. PICK q : q = pic'
  OBVIOUS
<1>3. w \in tree.live \ {Root} /\ tree \in Tree /\ tree.live \subseteq Id /\ gone \subseteq Id
  BY WindowAssumption, TreeFields DEF Delete, TreeOK, Subtree
<1>4. /\ t1.at = tree.at /\ t1.size = tree.size /\ t1.live = tree.live /\ TreeOK(t1)
      /\ w \in gone /\ \A y \in Id \ gone : t1.is_open[y] <=> tree.is_open[y]
  BY <1>3, ClosedTreeOK, ParentApart DEF Alike
<1>5. PICK p : /\ p \in IF tree.is_open[w] THEN Refocused(ClosedPic(pic, tree, w), t1) ELSE {pic}
               /\ q = [vis |-> [x \in Id |-> IF x \in gone THEN {} ELSE p.vis[x]],
                       is_hidden |-> [x \in Id |-> x \notin gone /\ p.is_hidden[x]],
                       is_dirty |-> [x \in Id |-> x \notin gone /\ p.is_dirty[x]],
                       dirty |-> [x \in Id |-> IF x \in gone THEN {} ELSE p.dirty[x]],
                       bitmap |-> [x \in Id |-> IF x \in gone THEN Display ELSE p.bitmap[x]],
                       screen |-> [c \in Display |->
                                     IF p.screen[c][1] \in gone THEN Stale ELSE p.screen[c]]]
  BY <1>2 DEF Delete
<1>6. /\ Shown(p, t1) /\ Held(p, t1)
      /\ Clear(tree) /\ Intact(pic, tree) => Intact(p, t1)
  <2>1. CASE tree.is_open[w]
    BY <1>3, <1>5, <2>1, CloseDraws
  <2>2. CASE ~tree.is_open[w]
    BY <1>5, <2>2
  <2> QED
    BY <2>1, <2>2
<1>7. /\ u.live = tree.live \ gone
      /\ \A y \in Id \ gone : u.at[y] = tree.at[y] /\ u.size[y] = tree.size[y] /\ (u.is_open[y] <=> tree.is_open[y])
  <2>1. /\ u.live = tree.live \ gone
        /\ u.is_open = [x \in Id |-> x \notin gone /\ tree.is_open[x]]
        /\ u.at = [x \in Id |-> IF x \in gone THEN <<0, 0>> ELSE tree.at[x]]
        /\ u.size = [x \in Id |-> IF x \in gone THEN ScreenSize ELSE tree.size[x]]
    BY <1>1 DEF Delete
  <2> HIDE DEF gone
  <2> QED
    BY <2>1
<1> HIDE DEF gone, t1
<1>8. /\ \A y \in Id : q.vis[y] = IF y \in gone THEN {} ELSE p.vis[y]
      /\ \A y \in Id \ gone : q.bitmap[y] = p.bitmap[y]
      /\ \A c \in Display : q.screen[c] = Stale \/ q.screen[c] = p.screen[c]
  BY <1>5
<1>9. Shown(q, u)
  <2> SUFFICES ASSUME NEW c \in Display, NEW y \in Id, c \in q.vis[y] PROVE Genuine(q.screen[c], u, y, c)
    BY DEF Shown
  <2>1. y \notin gone /\ c \in p.vis[y]
    BY <1>8
  <2>2. Genuine(p.screen[c], t1, y, c)
    BY <1>6, <2>1 DEF Shown
  <2> QED
    BY <1>4, <1>7, <1>8, <2>1, <2>2 DEF Genuine
<1>10. Held(q, u)
  <2> SUFFICES ASSUME NEW y \in u.live PROVE q.bitmap[y] \subseteq Cells(u, y)
    BY DEF Held
  <2>1. y \in t1.live /\ y \in Id \ gone
    BY <1>3, <1>4, <1>7
  <2>2. Cells(u, y) = Cells(t1, y)
    BY <1>4, <1>7, <2>1 DEF Cells, Full
  <2> QED
    BY <1>6, <1>8, <2>1, <2>2 DEF Held
<1>11. ASSUME Intact(p, t1) PROVE Intact(q, u)
  <2>1. /\ \A y \in Id \ gone : /\ q.vis[y] = p.vis[y] /\ q.bitmap[y] = p.bitmap[y] /\ q.dirty[y] = p.dirty[y]
                                /\ q.is_hidden[y] <=> p.is_hidden[y]
                                /\ q.is_dirty[y] <=> p.is_dirty[y]
        /\ \A c \in Display : q.screen[c] = IF p.screen[c][1] \in gone THEN Stale ELSE p.screen[c]
    BY <1>5
  <2>2. \A y \in Id \ gone : Cells(u, y) = Cells(t1, y) /\ u.at[y] = t1.at[y] /\ (u.is_open[y] <=> t1.is_open[y])
    BY <1>4, <1>7 DEF Cells, Full
  <2>3. \A y \in u.live : y \in t1.live /\ y \in Id \ gone
    BY <1>3, <1>4, <1>7
  <2>4. \A y \in Id \ gone : /\ Whole(q, u, y) <=> Whole(p, t1, y)
                             /\ Newer(q, u, y) <=> Newer(p, t1, y)
                             /\ Direct(q, u, y) <=> Direct(p, t1, y)
    BY <2>1, <2>2 DEF Whole, Newer, Direct
  <2>5. Backed(q, u)
    BY <1>11, <2>3, <2>4 DEF Intact, Backed
  <2>6. Settled(q, u)
    BY <1>11, <2>1, <2>3, <2>4 DEF Intact, Settled
  <2>7. Sharp(q, u)
    <3> SUFFICES ASSUME NEW c \in Display, NEW y \in Id, c \in q.vis[y]
                 PROVE  q.screen[c] = <<y, Minus(c, u.at[y])>> \/ Minus(c, u.at[y]) \in q.dirty[y]
      BY DEF Sharp
    <3>1. y \in Id \ gone /\ c \in p.vis[y]
      BY <1>8
    <3>2. p.screen[c] = <<y, Minus(c, t1.at[y])>> \/ Minus(c, t1.at[y]) \in p.dirty[y]
      BY <1>11, <3>1 DEF Intact, Sharp
    <3>3. <<y, Minus(c, t1.at[y])>>[1] = y
      OBVIOUS
    <3> QED
      BY <2>1, <2>2, <3>1, <3>2, <3>3
  <2> QED
    BY <2>5, <2>6, <2>7 DEF Intact
<1> QED
  BY <1>1, <1>2, <1>6, <1>9, <1>10, <1>11

\* client_plot() and its likes, event_mousemove() and windowRedrawAllIfDirty().
LEMMA DrawDraws ==
  ASSUME TreeOK(tree), pic \in Pic, Regions(pic, tree), Shown(pic, tree), Held(pic, tree),
         NEW w \in Id, NEW part \in Parts(w), Draw(w, part)
  PROVE  Shown(pic', tree') /\ Held(pic', tree') /\ (Intact(pic, tree) => Intact(pic', tree'))
<1>1. tree \in Tree /\ tree' = tree /\ pic' = Paint(pic, tree, w, part)
  BY DEF Draw, TreeOK
<1>2. part \in SUBSET Cells(tree, w)
  BY <1>1, WorkInside DEF Parts
<1>3. Shown(Paint(pic, tree, w, part), tree) /\ Held(Paint(pic, tree, w, part), tree)
  BY <1>2, PaintShows
<1>4. Intact(pic, tree) => Intact(Paint(pic, tree, w, part), tree)
  BY <1>2, PaintStores DEF Draw
<1> QED
  BY <1>1, <1>3, <1>4

LEMMA MouseMoveDraws ==
  ASSUME TreeOK(tree), pic \in Pic, Regions(pic, tree), Shown(pic, tree), Held(pic, tree), MouseMove
  PROVE  Shown(pic', tree') /\ Held(pic', tree') /\ (Intact(pic, tree) => Intact(pic', tree'))
<1>1. PICK q : q = pic'
  OBVIOUS
<1>2. tree' = tree /\ q \in Refocused(pic, tree)
  BY <1>1 DEF MouseMove
<1>3. Shown(q, tree) /\ Held(q, tree) /\ (Intact(pic, tree) => Intact(q, tree))
  BY <1>2, RefocusedShows, RefocusedStores
<1> QED
  BY <1>1, <1>2, <1>3

LEMMA RedrawAllDraws ==
  ASSUME TreeOK(tree), pic \in Pic, Regions(pic, tree), Shown(pic, tree), Held(pic, tree), RedrawAllIfDirty
  PROVE  Shown(pic', tree') /\ Held(pic', tree') /\ (Intact(pic, tree) => Intact(pic', tree'))
<1> DEFINE Due(w, c) == tree.is_open[w] /\ Minus(c, tree.at[w]) \in pic.dirty[w]
           Copy(w, r) == IF r \in pic.bitmap[w] THEN <<w, r>> ELSE Stale
           scr == [c \in Display |->
                    IF \E w \in tree.live : c \in pic.vis[w] /\ Due(w, c)
                    THEN LET w == CHOOSE x \in tree.live : c \in pic.vis[x] /\ Due(x, c)
                         IN  Copy(w, Minus(c, tree.at[w]))
                    ELSE pic.screen[c]]
           dirt == [w \in Id |-> {}]
           q == [[pic EXCEPT !.screen = scr] EXCEPT !.dirty = dirt]
<1>1. pic' = q /\ tree' = tree
  BY DEF RedrawAllIfDirty, Blit, Pic
<1>2. tree.live \subseteq Id
  BY TreeFields DEF TreeOK
<1> HIDE DEF Due, Copy
<1>3. ASSUME NEW c \in Display, NEW y \in Id, c \in pic.vis[y]
      PROVE  /\ y \in tree.live /\ tree.is_open[y] /\ c \in Pos(tree, y)
             /\ scr[c] = IF Due(y, c) THEN Copy(y, Minus(c, tree.at[y])) ELSE pic.screen[c]
  <2>1. /\ y \in tree.live /\ tree.is_open[y] /\ c \in Pos(tree, y)
        /\ \A x \in Id : c \in pic.vis[x] => x = y
    BY <1>3, OneOwner
  <2>2. CASE \E w \in tree.live : c \in pic.vis[w] /\ Due(w, c)
    <3> DEFINE w == CHOOSE x \in tree.live : c \in pic.vis[x] /\ Due(x, c)
    <3>1. w \in tree.live /\ c \in pic.vis[w] /\ Due(w, c)
      BY <2>2
    <3>2. scr[c] = Copy(w, Minus(c, tree.at[w]))
      BY <2>2
    <3> HIDE DEF w
    <3>3. w = y
      BY <1>2, <2>1, <3>1
    <3> QED
      BY <2>1, <3>1, <3>2, <3>3
  <2>3. CASE ~\E w \in tree.live : c \in pic.vis[w] /\ Due(w, c)
    BY <1>3, <2>1, <2>3
  <2> QED
    BY <2>2, <2>3
<1> HIDE DEF scr, dirt
<1>4. /\ q.vis = pic.vis /\ q.screen = scr /\ q.bitmap = pic.bitmap /\ q.dirty = dirt
      /\ q.is_dirty = pic.is_dirty /\ q.is_hidden = pic.is_hidden
  BY DEF Pic
<1>5. \A y \in Id : dirt[y] = {}
  BY DEF dirt
<1> HIDE DEF q
<1>6. Shown(q, tree)
  <2> SUFFICES ASSUME NEW c \in Display, NEW y \in Id, c \in pic.vis[y] PROVE Genuine(scr[c], tree, y, c)
    BY <1>4 DEF Shown
  <2>1. Genuine(pic.screen[c], tree, y, c)
    BY DEF Shown
  <2>2. Genuine(Copy(y, Minus(c, tree.at[y])), tree, y, c)
    BY DEF Genuine, Copy
  <2> QED
    BY <1>3, <2>1, <2>2
<1>7. Held(q, tree)
  BY <1>4 DEF Held
<1>8. ASSUME Intact(pic, tree) PROVE Intact(q, tree)
  <2>1. Backed(q, tree)
    BY <1>4, <1>8 DEF Intact, Backed, Whole, Newer
  <2>2. Settled(q, tree)
    BY <1>2, <1>4, <1>5 DEF Settled
  <2>3. Sharp(q, tree)
    <3> SUFFICES ASSUME NEW c \in Display, NEW y \in Id, c \in pic.vis[y]
                 PROVE  scr[c] = <<y, Minus(c, tree.at[y])>>
      BY <1>4 DEF Sharp
    <3> DEFINE r == Minus(c, tree.at[y])
    <3>1. /\ y \in tree.live /\ tree.is_open[y] /\ c \in Pos(tree, y)
          /\ scr[c] = IF Due(y, c) THEN Copy(y, r) ELSE pic.screen[c]
      BY <1>3
    <3>2. pic.screen[c] = <<y, r>> \/ r \in pic.dirty[y]
      BY <1>8 DEF Intact, Sharp
    <3>3. Due(y, c) <=> r \in pic.dirty[y]
      BY <3>1 DEF Due
    <3>4. ASSUME r \in pic.dirty[y] PROVE Copy(y, r) = <<y, r>>
      <4>1. Whole(pic, tree, y)
        BY <1>8, <3>1, <3>4 DEF Intact, Backed, Settled, Newer, Direct
      <4>2. r \in Cells(tree, y)
        <5>1. tree \in Tree /\ c \in Point
          BY DisplayPoints DEF TreeOK
        <5> QED
          BY <3>1, <5>1, CellsAt
      <4> QED
        BY <4>1, <4>2 DEF Whole, Copy
    <3> HIDE DEF r
    <3> QED
      BY <3>1, <3>2, <3>3, <3>4 DEF r
  <2> QED
    BY <2>1, <2>2, <2>3 DEF Intact
<1> QED
  BY <1>1, <1>6, <1>7, <1>8

\* At first the screen is that of the background.
LEMMA InitShown ==
  ASSUME Init
  PROVE  Shown(pic, tree) /\ Held(pic, tree) /\ Intact(pic, tree)
<1>1. /\ pic.vis = [w \in Id |-> IF w = Background THEN Display ELSE {}]
      /\ pic.dirty = [w \in Id |-> {}]
      /\ pic.bitmap = [w \in Id |-> Display]
      /\ pic.screen = [c \in Display |-> <<Background, c>>]
      /\ tree.live = {Root, Background}
      /\ tree.at = [w \in Id |-> <<0, 0>>] /\ tree.size = [w \in Id |-> ScreenSize]
  BY DEF Init
<1>2. Root \in Id /\ Background \in Id
  BY DEF Id
<1>3. \A c \in Point : Minus(c, <<0, 0>>) = c
  BY DEF Minus, Point
<1>4. Shown(pic, tree)
  <2> SUFFICES ASSUME NEW c \in Display, NEW y \in Id, c \in pic.vis[y] PROVE Genuine(pic.screen[c], tree, y, c)
    BY DEF Shown
  <2>1. y = Background /\ pic.screen[c] = <<Background, c>> /\ tree.at[y] = <<0, 0>>
    BY <1>1
  <2>2. Minus(c, tree.at[y]) = c
    BY <1>3, <2>1, DisplayPoints
  <2> QED
    BY <2>1, <2>2 DEF Genuine
<1>5. \A y \in tree.live : pic.bitmap[y] = Display /\ Cells(tree, y) = Display
  <2> TAKE y \in tree.live
  <2>1. y \in Id /\ tree.size[y] = ScreenSize /\ pic.bitmap[y] = Display
    BY <1>1, <1>2
  <2>2. Edge(y) = <<0, 0>>
    BY <1>1, WindowAssumption DEF Edge
  <2>3. ScreenSize \in Point /\ Plus(<<0, 0>>, <<0, 0>>) = <<0, 0>>
    BY SizesAreExtents DEF Point, Extent, Plus
  <2>4. Plus(ScreenSize, <<0, 0>>) = ScreenSize
    BY <2>3 DEF Plus, Point
  <2> QED
    BY <2>1, <2>2, <2>3, <2>4 DEF Cells, Full, Display
<1>6. Intact(pic, tree)
  <2>1. Backed(pic, tree)
    BY <1>5 DEF Backed, Whole
  <2>2. Settled(pic, tree)
    BY <1>1, <1>2 DEF Settled
  <2>3. Sharp(pic, tree)
    <3> SUFFICES ASSUME NEW c \in Display, NEW y \in Id, c \in pic.vis[y]
                 PROVE  pic.screen[c] = <<y, Minus(c, tree.at[y])>>
      BY DEF Sharp
    <3>1. y = Background /\ pic.screen[c] = <<Background, c>> /\ tree.at[y] = <<0, 0>>
      BY <1>1
    <3>2. Minus(c, tree.at[y]) = c
      BY <1>3, <3>1, DisplayPoints
    <3> QED
      BY <3>1, <3>2
  <2> QED
    BY <2>1, <2>2, <2>3 DEF Intact
<1> QED
  BY <1>4, <1>5, <1>6 DEF Held

\* Every bitmap is as large as its window, and every cell of the screen shows its
\* own cell of the window that is visible there, or what no window has drawn.
VInv == /\ SInv /\ Shown(pic, tree) /\ Held(pic, tree)
        /\ asked \in [Id -> Positions \union {<<0, 0>>} \union {Astray}]

LEMMA ShownInit == Init => VInv
<1>1. Init => asked \in [Id -> Positions \union {<<0, 0>>} \union {Astray}]
  BY DEF Init
<1> QED
  BY <1>1, InvInit, InitShown DEF VInv

LEMMA ShownStep == VInv /\ [Next]_vars => VInv'
<1> SUFFICES ASSUME VInv, [Next]_vars PROVE VInv'
  OBVIOUS
<1>1. /\ TreeOK(tree) /\ pic \in Pic /\ Regions(pic, tree) /\ Shown(pic, tree) /\ Held(pic, tree)
      /\ asked \in [Id -> Positions \union {<<0, 0>>} \union {Astray}]
  BY DEF VInv, SInv
<1>2. SInv'
  BY InvStep DEF VInv
<1>3. CASE Next
  <2>1. asked' \in [Id -> Positions \union {<<0, 0>>} \union {Astray}]
    BY <1>1, <1>3, AskedStep
  <2>2. CASE \E w \in Window : \E par \in Id, s \in Sizes : Create(w, par, s)
    BY <1>1, <1>2, <2>1, <2>2, CreateShows DEF VInv
  <2>3. CASE \E w \in Window : \E x \in Positions : Open(w, x)
    BY <1>1, <1>2, <2>1, <2>3, OpenDraws DEF VInv
  <2>4. CASE \E w \in Window : \E x \in Positions : Move(w, x)
    BY <1>1, <1>2, <2>1, <2>4, MoveDraws DEF VInv
  <2>5. CASE \E w \in Window : Close(w)
    <3>1. PICK w \in Window : Close(w)
      BY <2>5
    <3>2. PICK q : q = pic'
      OBVIOUS
    <3>3. /\ w \in tree.live \ {Root} /\ tree.is_open[w] /\ tree' = ClosedTree(tree, w)
          /\ q \in Refocused(ClosedPic(pic, tree, w), ClosedTree(tree, w))
      BY <3>1, <3>2, WindowAssumption DEF Close
    <3>4. Shown(q, ClosedTree(tree, w)) /\ Held(q, ClosedTree(tree, w))
      BY <1>1, <3>3, CloseDraws
    <3>5. Shown(pic', tree') /\ Held(pic', tree')
      BY <3>2, <3>3, <3>4
    <3> QED
      BY <1>2, <2>1, <3>5 DEF VInv
  <2>6. CASE \E w \in Window : Delete(w)
    BY <1>1, <1>2, <2>1, <2>6, DeleteDraws DEF VInv
  <2>7. CASE \E w \in Window : TopDown(w)
    BY <1>1, <1>2, <2>1, <2>7, TopDownShows DEF VInv
  <2>8. CASE \E w \in Window : \E s \in Sizes : Resize(w, s)
    BY <1>1, <1>2, <2>1, <2>8, ResizeDraws DEF VInv
  <2>9. CASE \E w \in Id : \E part \in Parts(w) : Draw(w, part)
    BY <1>1, <1>2, <2>1, <2>9, DrawDraws DEF VInv
  <2>10. CASE MouseMove
    BY <1>1, <1>2, <2>1, <2>10, MouseMoveDraws DEF VInv
  <2>11. CASE RedrawAllIfDirty
    BY <1>1, <1>2, <2>1, <2>11, RedrawAllDraws DEF VInv
  <2> QED
    BY <1>3, <2>2, <2>3, <2>4, <2>5, <2>6, <2>7, <2>8, <2>9, <2>10, <2>11 DEF Next
<1>4. CASE UNCHANGED vars
  BY <1>1, <1>2, <1>4 DEF VInv, vars
<1> QED
  BY <1>3, <1>4

\* After any requests, whatever was saved, copied or drawn again, a cell of the screen
\* never shows another window, or another cell, than the one that is visible there.
THEOREM ShownCorrect == Spec => [](\A c \in Display : \A y \in Id :
                                     c \in pic.vis[y] => pic.screen[c] \in {Stale, <<y, Minus(c, tree.at[y])>>})
<1>1. VInv => \A c \in Display : \A y \in Id :
                c \in pic.vis[y] => pic.screen[c] \in {Stale, <<y, Minus(c, tree.at[y])>>}
  BY DEF VInv, Shown, Genuine
<1>2. Spec => []VInv
  BY ShownInit, ShownStep, PTL DEF Spec
<1> QED
  BY <1>1, <1>2, PTL

\* The tree, the bitmaps and the screen are what their types say: no bitmap holds, and
\* no cell of the screen shows, what lies outside of a window that exists.
THEOREM TypeCorrect == Spec => []TypeOK
<1>1. VInv => TypeOK
  <2> SUFFICES ASSUME VInv PROVE TypeOK
    OBVIOUS
  <2>1. /\ TreeOK(tree) /\ tree \in Tree /\ tree.live \subseteq Id /\ pic \in Pic /\ Regions(pic, tree)
        /\ Shown(pic, tree) /\ Held(pic, tree) /\ asked \in [Id -> Positions \union {<<0, 0>>} \union {Astray}]
    BY TreeFields DEF VInv, SInv, TreeOK
  <2>2. tree.parent \in [Id -> Id \union {NoWin}]
    BY <2>1, TreeFields
  <2>3. \A w \in Id : Childs(tree, w) = {x \in tree.live : tree.parent[x] = w}
    BY <2>1 DEF TreeOK
  <2>4. ASSUME NEW c \in Display
        PROVE  LET p == pic.screen[c]
               IN  p = Stale \/ (p[1] \in tree.live /\ p[2] \in Cells(tree, p[1]))
    <3>1. PICK f : /\ f = [w \in Id |-> IF GoesOn(tree, w, c)
                                        THEN f[CHOOSE x \in Topmost(tree, w, c) : TRUE] ELSE w]
                   /\ Found(tree, c) = f[Root]
      BY <2>1, SearchExists
    <3>2. PICK y : y = f[Root]
      OBVIOUS
    <3>3. y \in tree.live /\ tree.is_open[y] /\ c \in Build(tree, y)
      BY <2>1, <3>1, <3>2, FoundVisible
    <3>4. y \in Id /\ c \in pic.vis[y] /\ c \in Pos(tree, y) /\ c \in Point
      BY <2>1, <3>3, BuildMeans, DisplayPoints DEF Regions, Exact
    <3>5. Minus(c, tree.at[y]) \in Cells(tree, y)
      BY <2>1, <3>4, CellsAt
    <3>6. pic.screen[c] = Stale \/ pic.screen[c] = <<y, Minus(c, tree.at[y])>>
      BY <2>1, <3>4 DEF Shown, Genuine
    <3> QED
      BY <3>3, <3>5, <3>6
  <2>5. asked \in [Id -> Positions \union {<<0, 0>>, Astray}]
    BY <2>1
  <2> QED
    BY <2>1, <2>2, <2>3, <2>4, <2>5 DEF TypeOK, Held
<1>2. Spec => []VInv
  BY ShownInit, ShownStep, PTL DEF Spec
<1> QED
  BY <1>1, <1>2, PTL

\* No window in sight lies over the frame of its parent alone, where the parent has a
\* bitmap.
FramesClear == Clear(tree)

\* Every bitmap is up to date, or the window is in full sight and known to be newer on
\* the screen; and what is in sight and not to be drawn again is on the screen.
LInv == VInv /\ Intact(pic, tree)

LEMMA StoredInit == Init => LInv
BY ShownInit, InitShown DEF LInv

LEMMA StoredStep == LInv /\ FramesClear /\ [Next]_vars => LInv'
<1> SUFFICES ASSUME LInv, FramesClear, [Next]_vars PROVE Intact(pic', tree')
  <2>1. LInv /\ [Next]_vars => VInv'
    BY ShownStep DEF LInv
  <2> QED
    BY <2>1 DEF LInv
<1>1. /\ TreeOK(tree) /\ pic \in Pic /\ Regions(pic, tree) /\ Shown(pic, tree) /\ Held(pic, tree)
      /\ Clear(tree) /\ Intact(pic, tree)
  BY DEF LInv, VInv, SInv, FramesClear
<1>2. CASE Next
  <2>1. CASE \E w \in Window : \E par \in Id, s \in Sizes : Create(w, par, s)
    BY <1>1, <2>1, CreateShows
  <2>2. CASE \E w \in Window : \E x \in Positions : Open(w, x)
    BY <1>1, <2>2, OpenDraws
  <2>3. CASE \E w \in Window : \E x \in Positions : Move(w, x)
    BY <1>1, <2>3, MoveDraws
  <2>4. CASE \E w \in Window : Close(w)
    <3>1. PICK w \in Window : Close(w)
      BY <2>4
    <3>2. PICK q : q = pic'
      OBVIOUS
    <3>3. /\ w \in tree.live \ {Root} /\ tree.is_open[w] /\ tree' = ClosedTree(tree, w)
          /\ q \in Refocused(ClosedPic(pic, tree, w), ClosedTree(tree, w))
      BY <3>1, <3>2, WindowAssumption DEF Close
    <3>4. Intact(q, ClosedTree(tree, w))
      BY <1>1, <3>3, CloseDraws
    <3> QED
      BY <3>2, <3>3, <3>4
  <2>5. CASE \E w \in Window : Delete(w)
    BY <1>1, <2>5, DeleteDraws
  <2>6. CASE \E w \in Window : TopDown(w)
    BY <1>1, <2>6, TopDownStores
  <2>7. CASE \E w \in Window : \E s \in Sizes : Resize(w, s)
    BY <1>1, <2>7, ResizeDraws
  <2>8. CASE \E w \in Id : \E part \in Parts(w) : Draw(w, part)
    BY <1>1, <2>8, DrawDraws
  <2>9. CASE MouseMove
    BY <1>1, <2>9, MouseMoveDraws
  <2>10. CASE RedrawAllIfDirty
    BY <1>1, <2>10, RedrawAllDraws
  <2> QED
    BY <1>2, <2>1, <2>2, <2>3, <2>4, <2>5, <2>6, <2>7, <2>8, <2>9, <2>10 DEF Next
<1>3. CASE UNCHANGED vars
  BY <1>1, <1>3 DEF vars
<1> QED
  BY <1>2, <1>3

\* As long as no window lies over a frame alone, a cell that a client has drawn is up to
\* date in the bitmap, or the window is in full sight and the cell is on the screen,
\* whatever is opened, moved, restacked, resized or closed around it.
THEOREM ContentsCorrect == Spec /\ []FramesClear => []NothingLost
<1>1. LInv => NothingLost
  <2> SUFFICES ASSUME LInv, NEW w \in tree.live, NEW r \in Cells(tree, w) \ pic.bitmap[w]
               PROVE  /\ tree.is_open[w] /\ ~pic.is_hidden[w] /\ pic.is_dirty[w]
                      /\ pic.screen[Plus(r, tree.at[w])] = <<w, r>>
    BY DEF NothingLost
  <2>1. TreeOK(tree) /\ pic \in Pic /\ Regions(pic, tree) /\ Intact(pic, tree)
    BY DEF LInv, VInv, SInv
  <2>2. w \notin Container /\ Newer(pic, tree, w) /\ Direct(pic, tree, w)
    BY <2>1 DEF Intact, Backed, Whole, Newer, Direct
  <2> QED
    BY <2>1, <2>2, OnScreen DEF Newer
<1>2. Spec /\ []FramesClear => []LInv
  BY StoredInit, StoredStep, PTL DEF Spec
<1> QED
  BY <1>1, <1>2, PTL

\* As long as no window lies over a frame alone, each cell of the screen shows the window
\* that window_find() finds there, or is to be drawn again at the end of the round.
THEOREM ScreenCorrect == Spec /\ []FramesClear => []ScreenExact
<1>1. LInv => ScreenExact
  <2> SUFFICES ASSUME LInv, NEW c \in Display
               PROVE  LET w == Found(tree, c)
                          r == Minus(c, tree.at[w])
                      IN  pic.screen[c] = <<w, r>> \/ r \in pic.dirty[w]
    BY DEF ScreenExact
  <2>1. TreeOK(tree) /\ Regions(pic, tree) /\ Intact(pic, tree) /\ tree.live \subseteq Id
    BY TreeFields DEF LInv, VInv, SInv, TreeOK
  <2>2. PICK f : /\ f = [w \in Id |-> IF GoesOn(tree, w, c)
                                      THEN f[CHOOSE x \in Topmost(tree, w, c) : TRUE] ELSE w]
                 /\ Found(tree, c) = f[Root]
    BY <2>1, SearchExists
  <2>3. PICK y : y = f[Root]
    OBVIOUS
  <2>4. y \in tree.live /\ tree.is_open[y] /\ c \in Build(tree, y)
    BY <2>1, <2>2, <2>3, FoundVisible
  <2>5. y \in Id /\ c \in pic.vis[y] /\ Found(tree, c) = y
    BY <2>1, <2>2, <2>3, <2>4 DEF Regions, Exact
  <2> QED
    BY <2>1, <2>5 DEF Intact, Sharp
<1>2. Spec /\ []FramesClear => []LInv
  BY StoredInit, StoredStep, PTL DEF Spec
<1> QED
  BY <1>1, <1>2, PTL

\* Where all windows with a frame are containers, as the shells of the Wt toolkit
\* are (wt/Wt/shell.c), nothing that a client has drawn is lost.
THEOREM ContainersCorrect ==
  ASSUME Bordered \subseteq Container
  PROVE  Spec => [](NothingLost /\ ScreenExact)
<1>1. FramesClear
  BY DEF FramesClear, Clear
<1>2. []FramesClear
  BY <1>1, PTL
<1> QED
  BY <1>2, ContentsCorrect, ScreenCorrect, PTL
=============================================================================
