---------------------------- MODULE ColorsProofs ----------------------------
(***************************************************************************)
(* Proofs about Colors, for any windows in any tree, any number of colours *)
(* and any sequence of requests: which table a window shows, who sees a    *)
(* change, and what the colours in use are.                                *)
(***************************************************************************)
EXTENDS Colors, FiniteSetTheorems, WellFoundedInduction, TLAPS

(* Numbers.                                                                *)

\* A set of natural numbers has a least one.
LEMMA LeastExists ==
  ASSUME NEW S \in SUBSET Nat, S # {}
  PROVE  \E x \in S : \A y \in S : x <= y
<1>1. \E x \in S : \A y \in S : ~(<<y, x>> \in OpToRel(<, Nat))
  BY WFMin, NatLessThanWellFounded
<1>2. \A x \in S, y \in S : y < x => <<y, x>> \in OpToRel(<, Nat)
  BY DEF OpToRel
<1>3. \A x \in S, y \in S : ~(y < x) => x <= y
  OBVIOUS
<1> QED
  BY <1>1, <1>2, <1>3

\* A set of numbers up to n has a greatest one, and Max is it.
LEMMA MaxMeans ==
  ASSUME NEW n \in Nat, NEW S \in SUBSET (0 .. n), S # {}
  PROVE  Max(S) \in S /\ \A y \in S : y <= Max(S)
<1> DEFINE T == {n - x : x \in S}
<1>1. T \in SUBSET Nat /\ T # {}
  <2>1. \A x \in S : n - x \in Nat
    OBVIOUS
  <2>2. \E x \in S : n - x \in T
    OBVIOUS
  <2> QED
    BY <2>1, <2>2
<1>2. PICK t \in T : \A u \in T : t <= u
  BY <1>1, LeastExists
<1>3. PICK x \in S : t = n - x
  OBVIOUS
<1>4. \A y \in S : x >= y
  <2> SUFFICES ASSUME NEW y \in S PROVE x >= y
    OBVIOUS
  <2>1. n - y \in T
    OBVIOUS
  <2>2. n - x <= n - y
    BY <1>2, <1>3, <2>1
  <2> QED
    BY <2>2
<1>5. \E z \in S : \A y \in S : z >= y
  BY <1>4
<1>6. Max(S) \in S /\ \A y \in S : Max(S) >= y
  BY <1>5 DEF Max
<1> QED
  BY <1>6

-----------------------------------------------------------------------------
(* The tree: P gives the parent of each window that has one, W are the     *)
(* windows.                                                                *)

Upward(P, up) == \A y \in DOMAIN P : P[y] \in up => y \in up
Under(P, W, t) == {x \in W : \A up \in SUBSET W : t \in up /\ Upward(P, up) => x \in up}

\* Below of the model is that, now and after a step.
LEMMA BelowIsUnder == \A w : Below(w) = Under(parent, Windows, w)
BY DEF Below, Under, Upward, Created
LEMMA BelowIsUnderNext == \A w : Below(w)' = Under(parent', Windows', w)
BY DEF Below, Under, Upward, Created

\* What is below is a set of windows that holds t and all childs of its members.
LEMMA UnderBasics ==
  ASSUME NEW P, NEW W, NEW t \in W, DOMAIN P \subseteq W
  PROVE  Under(P, W, t) \subseteq W /\ t \in Under(P, W, t) /\ Upward(P, Under(P, W, t))
<1>1. Under(P, W, t) \subseteq W /\ t \in Under(P, W, t)
  BY DEF Under
<1>2. ASSUME NEW y \in DOMAIN P, P[y] \in Under(P, W, t)
      PROVE  y \in Under(P, W, t)
  <2>1. ASSUME NEW up \in SUBSET W, t \in up, Upward(P, up)
        PROVE  y \in up
    BY <1>2, <2>1 DEF Under, Upward
  <2> QED
    BY <2>1 DEF Under
<1> QED
  BY <1>1, <1>2 DEF Upward
\* What is below a window that is below t is below t.
LEMMA UnderTransitive ==
  ASSUME NEW P, NEW W, NEW t \in W, DOMAIN P \subseteq W,
         NEW s \in Under(P, W, t), NEW x \in Under(P, W, s)
  PROVE  x \in Under(P, W, t)
<1>1. Under(P, W, t) \in SUBSET W /\ Upward(P, Under(P, W, t))
  BY UnderBasics
<1> QED
  BY <1>1 DEF Under
\* Below a window that has a parent are only such windows.
LEMMA UnderWithin ==
  ASSUME NEW P, NEW W, NEW t \in DOMAIN P, DOMAIN P \subseteq W
  PROVE  Under(P, W, t) \subseteq DOMAIN P
<1>1. DOMAIN P \in SUBSET W /\ t \in DOMAIN P /\ Upward(P, DOMAIN P)
  BY DEF Upward
<1> QED
  BY <1>1 DEF Under

\* A new window is below what its parent is below, and the others stay where they are.
LEMMA UnderGrows ==
  ASSUME NEW P, NEW W, DOMAIN P \subseteq W, NEW w, w \notin W, NEW p \in W,
         NEW t \in W, NEW Q, Q = [y \in DOMAIN P \union {w} |-> IF y = w THEN p ELSE P[y]]
  PROVE  /\ Under(P, W, t) \subseteq Under(Q, W \union {w}, t)
         /\ p \in Under(P, W, t) => w \in Under(Q, W \union {w}, t)
<1> DEFINE V == W \union {w}
<1>1. ASSUME NEW x \in Under(P, W, t)
      PROVE  x \in Under(Q, V, t)
  <2>1. ASSUME NEW up \in SUBSET V, t \in up, Upward(Q, up)
        PROVE  x \in up
    <3>1. Upward(P, up \intersect W)
      <4> SUFFICES ASSUME NEW y \in DOMAIN P, P[y] \in up \intersect W PROVE y \in up \intersect W
        BY DEF Upward
      <4>1. y \in DOMAIN Q /\ Q[y] = P[y] /\ y \in W
        OBVIOUS
      <4> QED
        BY <2>1, <4>1 DEF Upward
    <3>2. up \intersect W \in SUBSET W /\ t \in up \intersect W
      BY <2>1
    <3>3. x \in up \intersect W
      BY <3>1, <3>2 DEF Under
    <3> QED
      BY <3>3
  <2>2. x \in V
    BY DEF Under
  <2> QED
    BY <2>1, <2>2 DEF Under
<1>2. p \in Under(Q, V, t) => w \in Under(Q, V, t)
  <2>1. DOMAIN Q \subseteq V /\ t \in V /\ w \in DOMAIN Q /\ Q[w] = p
    OBVIOUS
  <2>2. Upward(Q, Under(Q, V, t))
    BY <2>1, UnderBasics
  <2> QED
    BY <2>1, <2>2 DEF Upward
<1> QED
  BY <1>1, <1>2

\* If a set of windows goes with all their childs, the others stay where they are.
LEMMA UnderCut ==
  ASSUME NEW P, NEW W, DOMAIN P \subseteq W, NEW G \in SUBSET W, Upward(P, G),
         NEW Q, Q = [y \in DOMAIN P \ G |-> P[y]],
         NEW t \in W \ G, NEW x \in Under(P, W, t), x \notin G
  PROVE  x \in Under(Q, W \ G, t)
<1>1. ASSUME NEW up \in SUBSET (W \ G), t \in up, Upward(Q, up)
      PROVE  x \in up
  <2>1. Upward(P, up \union G)
    <3> SUFFICES ASSUME NEW y \in DOMAIN P, P[y] \in up \union G PROVE y \in up \union G
      BY DEF Upward
    <3>1. CASE P[y] \in G
      BY <3>1 DEF Upward
    <3>2. CASE P[y] \in up /\ y \notin G
      <4>1. y \in DOMAIN Q /\ Q[y] = P[y]
        BY <3>2
      <4> QED
        BY <1>1, <3>2, <4>1 DEF Upward
    <3> QED
      BY <3>1, <3>2
  <2>2. up \union G \in SUBSET W /\ t \in up \union G
    BY <1>1
  <2>3. x \in up \union G
    BY <2>1, <2>2 DEF Under
  <2> QED
    BY <2>3
<1>2. x \in W \ G
  BY DEF Under
<1> QED
  BY <1>1, <1>2 DEF Under

-----------------------------------------------------------------------------
(* Which table a window shows.                                             *)

Tree ==
  /\ Created \subseteq Window
  /\ parent = [w \in Created |-> parent[w]]
  /\ \A w \in Created : parent[w] \in Windows
  /\ colTab \in [Windows -> Windows \union {Global}]
  /\ Global \in DOMAIN tables

Shown == Tree /\ TablesLive

\* The windows of the server are no others.
LEMMA ServerApart ==
  /\ Global \notin Window \union Server /\ Window \intersect Server = {} /\ Root # Background
BY ColorAssumption DEF Server

\* A request installs a table for one window.
LEMMA InstallShows ==
  ASSUME Shown, NEW w \in Windows, NEW tab, Install(w, tab), parent' = parent
  PROVE  /\ Shown' /\ Windows' = Windows
         /\ \A x \in Windows : colTab'[x] = w => x \in Below(w)
         /\ \A x \in Windows : colTab'[x] # w => Seen(x)' = Seen(x)
<1>1. Windows' = Windows /\ Created' = Created /\ \A t : Below(t)' = Below(t)
  BY DEF Windows, Created, Below
<1>2. /\ colTab' \in [Windows -> Windows \union {Global}] /\ colTab'[w] = w
      /\ \A x \in Windows : x # w => colTab'[x] = colTab[x]
  BY DEF Shown, Tree, Install
<1>3. /\ DOMAIN tables' = DOMAIN tables \union {w}
      /\ \A t \in DOMAIN tables : t # w => tables'[t] = tables[t]
  BY DEF Install
<1>4. DOMAIN parent \subseteq Windows /\ w \in Below(w)
  BY UnderBasics, BelowIsUnder DEF Windows, Created
<1>5. Tree'
  BY <1>1, <1>2, <1>3 DEF Shown, Tree
<1>6. TablesLive'
  <2>1. ASSUME NEW x \in Windows
        PROVE  colTab'[x] \in DOMAIN tables' /\ (colTab'[x] = Global \/ x \in Below(colTab'[x]))
    BY <1>2, <1>3, <1>4 DEF Shown, TablesLive
  <2>2. ASSUME NEW t \in DOMAIN tables' \ {Global}
        PROVE  t \in Windows /\ colTab'[t] = t
    BY <1>2, <1>3 DEF Shown, TablesLive
  <2> QED
    BY <1>1, <2>1, <2>2 DEF TablesLive, Below, Windows, Created
<1>7. \A x \in Windows : colTab'[x] = w => x \in Below(w)
  <2> SUFFICES ASSUME NEW x \in Windows, colTab'[x] = w PROVE x \in Below(w)
    OBVIOUS
  <2>1. CASE x = w
    BY <1>4, <2>1
  <2>2. CASE x # w
    BY <1>2, <2>2, ServerApart DEF Shown, Tree, TablesLive, Windows
  <2> QED
    BY <2>1, <2>2
<1>8. \A x \in Windows : colTab'[x] # w => Seen(x)' = Seen(x)
  <2> SUFFICES ASSUME NEW x \in Windows, colTab'[x] # w PROVE Seen(x)' = Seen(x)
    OBVIOUS
  <2>1. colTab'[x] = colTab[x] /\ colTab[x] \in DOMAIN tables /\ colTab[x] # w
    BY <1>2 DEF Shown, TablesLive
  <2>2. tables'[colTab'[x]] = tables[colTab[x]]
    BY <1>3, <2>1
  <2> QED
    BY <2>2 DEF Seen
<1> QED
  BY <1>1, <1>5, <1>6, <1>7, <1>8 DEF Shown

\* A new window shows the table of its parent, or the global one.
LEMMA CreateShows ==
  ASSUME Shown, NEW w \in Window, NEW p \in Windows, Create(w, p)
  PROVE  Shown' /\ \A x \in Windows : colTab'[x] = colTab[x]
<1> DEFINE shared == IF p = Background THEN Global ELSE colTab[p]
<1>1. w \notin Windows /\ Windows' = Windows \union {w} /\ Created' = Created \union {w}
  BY ServerApart DEF Create, Windows, Created
<1>2. parent' = [y \in DOMAIN parent \union {w} |-> IF y = w THEN p ELSE parent[y]]
  BY DEF Create, Created
<1>3. /\ colTab' = [x \in Windows \union {w} |-> IF x = w THEN shared ELSE colTab[x]]
      /\ tables' = tables
  BY DEF Create
<1>4. shared \in Windows \union {Global}
  BY DEF Shown, Tree
<1>5. Tree'
  BY <1>1, <1>2, <1>3, <1>4 DEF Shown, Tree, Created
<1>6. DOMAIN parent \subseteq Windows /\ \A t \in Windows : Below(t) \subseteq Windows
  BY DEF Windows, Created, Below
<1>7. /\ \A t \in Windows : Below(t) \subseteq Below(t)'
      /\ \A t \in Windows : p \in Below(t) => w \in Below(t)'
  <2> SUFFICES ASSUME NEW t \in Windows
               PROVE  Below(t) \subseteq Below(t)' /\ (p \in Below(t) => w \in Below(t)')
    OBVIOUS
  <2>1. /\ Under(parent, Windows, t) \subseteq Under(parent', Windows', t)
        /\ p \in Under(parent, Windows, t) => w \in Under(parent', Windows', t)
    BY <1>1, <1>2, <1>6, UnderGrows
  <2> QED
    BY <2>1, BelowIsUnder, BelowIsUnderNext
<1> HIDE DEF shared
<1>8. ASSUME NEW x \in Windows'
      PROVE  colTab'[x] \in DOMAIN tables /\ (colTab'[x] = Global \/ x \in Under(parent', Windows', colTab'[x]))
  <2>1. CASE x \in Windows
    <3>1. colTab'[x] = colTab[x] /\ colTab[x] \in Windows \union {Global}
      BY <1>1, <1>3, <2>1 DEF Shown, Tree
    <3>2. colTab[x] \in DOMAIN tables /\ (colTab[x] = Global \/ x \in Below(colTab[x]))
      BY <2>1 DEF Shown, TablesLive
    <3> QED
      BY <1>7, <3>1, <3>2, BelowIsUnderNext
  <2>2. CASE x = w
    <3>1. colTab'[x] = shared
      BY <1>3, <2>2
    <3>2. shared = Global \/ shared = colTab[p]
      BY DEF shared
    <3> QED
      BY <1>4, <1>7, <2>2, <3>1, <3>2, BelowIsUnderNext DEF Shown, Tree, TablesLive
  <2> QED
    BY <1>1, <2>1, <2>2
<1>9. ASSUME NEW t \in DOMAIN tables \ {Global}
      PROVE  t \in Windows' /\ colTab'[t] = t
  BY <1>1, <1>3 DEF Shown, TablesLive
<1>10. TablesLive'
  BY <1>3, <1>8, <1>9, BelowIsUnderNext DEF TablesLive
<1> QED
  BY <1>1, <1>3, <1>5, <1>10 DEF Shown

\* With a window go all windows below it, their entries and their tables.
LEMMA DeleteShows ==
  ASSUME Shown, NEW w \in Window, Delete(w)
  PROVE  /\ Shown' /\ \A x \in Windows' : x \in Windows /\ colTab'[x] = colTab[x]
         /\ \A t \in DOMAIN tables' : t \in DOMAIN tables /\ tables'[t] = tables[t]
         /\ Below(w) \subseteq Window
<1> DEFINE G == Below(w)
<1>1. /\ w \in Created /\ DOMAIN parent \subseteq Windows /\ G = Under(parent, Windows, w)
      /\ Created \subseteq Window /\ Created \subseteq Windows
  BY BelowIsUnder DEF Delete, Windows, Created, Shown, Tree
<1>2. G \subseteq Created /\ G \in SUBSET Windows /\ Upward(parent, G)
  BY <1>1, UnderWithin, UnderBasics DEF Created
<1>3. /\ parent' = [y \in DOMAIN parent \ G |-> parent[y]]
      /\ colTab' = [x \in Windows \ G |-> colTab[x]]
      /\ tables' = [t \in DOMAIN tables \ G |-> tables[t]]
  BY DEF Delete, Created
<1> HIDE DEF G
<1>4. Created' = Created \ G /\ Windows' = Windows \ G /\ Global \notin G
  BY <1>1, <1>2, <1>3, ServerApart DEF Windows, Created
<1>5. \A x \in Windows' : x \in Windows /\ colTab'[x] = colTab[x] /\ colTab[x] \notin G
  <2> SUFFICES ASSUME NEW x \in Windows \ G PROVE colTab[x] \notin G
    BY <1>3, <1>4
  <2>1. CASE colTab[x] = Global
    BY <1>4, <2>1
  <2>2. CASE colTab[x] # Global
    <3>1. x \in Under(parent, Windows, colTab[x])
      BY <2>2, BelowIsUnder DEF Shown, TablesLive
    <3> QED
      BY <1>1, <3>1, UnderTransitive
  <2> QED
    BY <2>1, <2>2
<1>6. Tree'
  <2>1. parent' = [y \in Created' |-> parent'[y]]
    BY <1>3, <1>4 DEF Created
  <2>2. \A y \in Created' : parent'[y] \in Windows'
    BY <1>2, <1>3, <1>4 DEF Shown, Tree, Upward, Created
  <2>3. colTab' \in [Windows' -> Windows' \union {Global}]
    BY <1>3, <1>4, <1>5 DEF Shown, Tree
  <2>4. Global \in DOMAIN tables'
    BY <1>3, <1>4 DEF Shown, Tree
  <2> QED
    BY <1>1, <1>4, <2>1, <2>2, <2>3, <2>4 DEF Tree
<1>7. ASSUME NEW x \in Windows'
      PROVE  colTab'[x] \in DOMAIN tables' /\ (colTab'[x] = Global \/ x \in Under(parent', Windows', colTab'[x]))
  <2>1. colTab[x] \in DOMAIN tables /\ (colTab[x] = Global \/ x \in Below(colTab[x]))
    BY <1>5 DEF Shown, TablesLive
  <2>2. colTab'[x] = colTab[x] /\ colTab[x] \in DOMAIN tables'
    BY <1>3, <1>5, <2>1
  <2>3. CASE colTab[x] # Global
    <3>1. x \in Under(parent, Windows, colTab[x]) /\ colTab[x] \in Windows \ G /\ x \notin G
      BY <1>4, <1>5, <2>1, <2>3, BelowIsUnder DEF Shown, Tree
    <3>2. x \in Under(parent', Windows \ G, colTab[x])
      BY <1>1, <1>2, <1>3, <3>1, UnderCut
    <3> QED
      BY <1>4, <2>2, <3>2
  <2> QED
    BY <2>2, <2>3
<1>8. ASSUME NEW t \in DOMAIN tables' \ {Global}
      PROVE  t \in Windows' /\ colTab'[t] = t
  BY <1>3, <1>4, <1>8 DEF Shown, TablesLive
<1>9. TablesLive'
  BY <1>7, <1>8, BelowIsUnderNext DEF TablesLive
<1> QED
  BY <1>1, <1>2, <1>3, <1>5, <1>6, <1>9 DEF Shown, G

\* A request for a window, of whichever kind, installs a table for it.
Request(w) ==
  \/ \E c \in Colour : AllocColor(w, c)
  \/ \E i \in Index : FreeColor(w, i) \/ \E c \in Colour : ChangeColor(w, i, c)
  \/ FreeColors(w)
\* Every request of a client that changes a table installs one.
LEMMA RequestInstalls ==
  ASSUME NEW w, Request(w)
  PROVE  parent' = parent /\ \E tab : Install(w, tab)
BY DEF Request, AllocColor, FreeColor, ChangeColor, FreeColors

\* At the start the root shows the global table.
LEMMA InitShows == Init => Shown
<1> SUFFICES ASSUME Init PROVE Shown
  OBVIOUS
<1>1. Created = {} /\ Windows = Server /\ DOMAIN tables = {Global}
  BY DEF Init, Created, Windows
<1> QED
  BY <1>1 DEF Init, Shown, Tree, TablesLive, Created

\* Every step keeps the tables that the windows show.
LEMMA NextShows == Shown /\ [Next]_vars => Shown'
<1> SUFFICES ASSUME Shown, [Next]_vars PROVE Shown'
  OBVIOUS
<1>1. ASSUME NEW w \in Window, NEW p \in Windows, Create(w, p) PROVE Shown'
  BY <1>1, CreateShows
<1>2. ASSUME NEW w \in Window, Delete(w) PROVE Shown'
  BY <1>2, DeleteShows
<1>3. ASSUME NEW w \in Windows, Request(w) PROVE Shown'
  BY <1>3, RequestInstalls, InstallShows
<1>4. CASE UNCHANGED vars
  BY <1>4 DEF vars, Shown, Tree, TablesLive, Windows, Created, Below
<1> QED
  BY <1>1, <1>2, <1>3, <1>4 DEF Next, Request

\* What a window shows is always a table that exists, of a window it is below: the
\* tables and the entries of colorCreateWindow() and colorDeleteWindow() agree.
THEOREM ShownCorrect == Spec => []Shown
  BY InitShows, NextShows, PTL DEF Spec

\* No window shows a table that is freed: what it shows belongs to a window that it is
\* below, whatever is created, changed and deleted in whichever order.
THEOREM TablesCorrect == Spec => []TablesLive
<1>1. Shown => TablesLive
  BY DEF Shown
<1> QED
  BY <1>1, ShownCorrect, PTL

\* A request for a window shows in it and in windows below it only.
THEOREM IsolatedCorrect == Spec => Isolated
<1> DEFINE Same == \A x \in Windows \intersect Windows' : Seen(x)' = Seen(x)
           Step == [\E w \in Windows : \A x \in Windows \intersect Windows' :
                      Seen(x)' # Seen(x) => x \in Below(w) /\ colTab'[x] = w]_vars
<1>1. Shown /\ [Next]_vars => Step
  <2> SUFFICES ASSUME Shown, [Next]_vars PROVE Step
    OBVIOUS
  <2>1. Same => Step
    BY DEF Windows, Server
  <2> HIDE DEF Same
  <2>2. ASSUME NEW w \in Window, NEW p \in Windows, Create(w, p) PROVE Same
    <3>1. tables' = tables /\ \A x \in Windows : colTab'[x] = colTab[x]
      BY <2>2, CreateShows DEF Create
    <3> QED
      BY <3>1 DEF Same, Seen
  <2>3. ASSUME NEW w \in Window, Delete(w) PROVE Same
    <3>1. /\ \A x \in Windows' : x \in Windows /\ colTab'[x] = colTab[x]
          /\ \A t \in DOMAIN tables' : t \in DOMAIN tables /\ tables'[t] = tables[t]
          /\ \A x \in Windows' : colTab'[x] \in DOMAIN tables'
      BY <2>3, DeleteShows DEF Shown, TablesLive
    <3> QED
      BY <3>1 DEF Same, Seen
  <2>4. ASSUME NEW w \in Windows, Request(w) PROVE Step
    BY <2>4, RequestInstalls, InstallShows
  <2>5. CASE UNCHANGED vars
    BY <2>5
  <2> QED
    BY <2>1, <2>2, <2>3, <2>4, <2>5 DEF Next, Request
<1> QED
  BY <1>1, ShownCorrect, PTL DEF Spec, Isolated

-----------------------------------------------------------------------------
(* What the tables hold.                                                   *)

Table == [used : SUBSET Index, colors : 0 .. colorCount, rgb : [Index -> Colour \union {NoColour}]]
Known(tab) ==
  /\ tab \in Table
  /\ \A i \in tab.used : i < tab.colors /\ tab.rgb[i] # NoColour
Counts == colorRefs \in [Index -> Int]
Full == Shown /\ Counts /\ \A t \in DOMAIN tables : Known(tables[t])

\* The numbers of colours are numbers.
LEMMA Sizes ==
  /\ colorCount \in Nat \ {0, 1} /\ glob_sharedcolors \in 2 .. colorCount
  /\ colorCount - 1 \in Nat /\ Index = 0 .. colorCount - 1 /\ Index \subseteq Nat
BY ColorAssumption DEF Index

\* A table, given by its fields.
LEMMA KnownFields ==
  ASSUME NEW u \in SUBSET Index, NEW n \in 0 .. colorCount,
         NEW f \in [Index -> Colour \union {NoColour}],
         \A i \in u : i < n /\ f[i] # NoColour
  PROVE  Known([used |-> u, colors |-> n, rgb |-> f])
BY DEF Known, Table

\* The table that a request changes holds what the window shows.
LEMMA OwnMeans ==
  ASSUME Full, NEW w \in Windows
  PROVE  /\ Known(Own(w)) /\ Own(w).used = tables[colTab[w]].used
         /\ Own(w).colors = tables[colTab[w]].colors
         /\ Own(w) = [used |-> Own(w).used, colors |-> Own(w).colors, rgb |-> Own(w).rgb]
<1> DEFINE tab == tables[colTab[w]]
           f == [i \in Index |-> IF i < tab.colors THEN tab.rgb[i] ELSE NoColour]
<1>1. Known(tab)
  BY DEF Full, Shown, TablesLive
<1> HIDE DEF tab
<1>2. tab = [used |-> tab.used, colors |-> tab.colors, rgb |-> tab.rgb]
      /\ tab.used \in SUBSET Index /\ tab.colors \in 0 .. colorCount
      /\ tab.rgb \in [Index -> Colour \union {NoColour}]
      /\ \A i \in tab.used : i < tab.colors /\ tab.rgb[i] # NoColour
  BY <1>1 DEF Known, Table
<1>3. Own(w) = IF colTab[w] = w THEN tab ELSE [tab EXCEPT !.rgb = f]
  BY DEF Own, tab
<1>4. f \in [Index -> Colour \union {NoColour}] /\ \A i \in tab.used : f[i] = tab.rgb[i]
  BY <1>2
<1> HIDE DEF f
<1>5. [tab EXCEPT !.rgb = f] = [used |-> tab.used, colors |-> tab.colors, rgb |-> f]
  BY <1>2
<1>6. CASE colTab[w] = w
  BY <1>1, <1>2, <1>3, <1>6 DEF tab
<1>7. CASE colTab[w] # w
  <2>1. Own(w) = [used |-> tab.used, colors |-> tab.colors, rgb |-> f]
    BY <1>3, <1>5, <1>7
  <2>2. Known(Own(w))
    BY <1>2, <1>4, <2>1, KnownFields
  <2> QED
    BY <2>1, <2>2 DEF tab
<1> QED
  BY <1>6, <1>7

\* Installing such a table keeps all of them so.
LEMMA InstallKnown ==
  ASSUME Full, NEW w \in Windows, NEW tab, Known(tab), Install(w, tab), parent' = parent, Counts'
  PROVE  Full'
<1>1. Shown'
  BY InstallShows DEF Full
<1>2. \A t \in DOMAIN tables' : Known(tables'[t])
  BY DEF Full, Install
<1>3. (\A t \in DOMAIN tables : Known(tables[t]))'
  BY <1>2 DEF Known, Table, Index
<1> QED
  BY <1>1, <1>3 DEF Full

\* There is an index with the least count, and Max gives one.
LEMMA LeastCounted ==
  ASSUME NEW refs, NEW unused \in SUBSET Index, unused # {}, \A i \in unused : refs[i] \in Nat,
         NEW least, least = {i \in unused : \A j \in unused : refs[i] <= refs[j]}
  PROVE  Max(least) \in least
<1>1. least # {}
  <2> DEFINE S == {refs[i] : i \in unused}
  <2>1. S \in SUBSET Nat /\ S # {}
    OBVIOUS
  <2>2. PICK x \in S : \A y \in S : x <= y
    BY <2>1, LeastExists
  <2>3. PICK i \in unused : x = refs[i]
    BY <2>2
  <2> QED
    BY <2>2, <2>3
<1>2. least \in SUBSET (0 .. colorCount - 1)
  BY Sizes
<1> QED
  BY <1>1, <1>2, Sizes, MaxMeans

\* colorAllocColor() finds an index that is not used.
LEMMA AllocKnown ==
  ASSUME Full, NEW w \in Windows, NEW c \in Colour, AllocColor(w, c)
  PROVE  Full'
<1> DEFINE tab == Own(w)
           unused == {i \in Index \ tab.used : colorRefs[i] >= 0}
           least == {i \in unused : \A j \in unused : colorRefs[i] <= colorRefs[j]}
           index == Max(least)
           top == Max({index + 1, tab.colors})
<1>1. /\ Known(tab) /\ tab = [used |-> tab.used, colors |-> tab.colors, rgb |-> tab.rgb]
      /\ tab.used \in SUBSET Index /\ tab.colors \in 0 .. colorCount
      /\ tab.rgb \in [Index -> Colour \union {NoColour}]
      /\ \A i \in tab.used : i < tab.colors /\ tab.rgb[i] # NoColour
  BY OwnMeans DEF Known, Table
<1>2. /\ unused # {} /\ parent' = parent
      /\ Install(w, [used |-> tab.used \union {index}, colors |-> top,
                     rgb |-> [tab.rgb EXCEPT ![index] = c]])
      /\ colorRefs' = [colorRefs EXCEPT ![index] = @ + 1]
  BY DEF AllocColor
<1> HIDE DEF tab
<1>3. index \in least
  <2>1. \A i \in unused : colorRefs[i] \in Nat
    BY Sizes DEF Full, Counts
  <2> HIDE DEF unused
  <2>2. unused \in SUBSET Index
    BY DEF unused
  <2> QED
    BY <1>2, <2>1, <2>2, LeastCounted
<1>4. index \in Index
  BY <1>3
<1> HIDE DEF index
<1>5. top \in 0 .. colorCount /\ index < top /\ tab.colors <= top
  <2> DEFINE S == {index + 1, tab.colors}
  <2>1. S \in SUBSET (0 .. colorCount) /\ S # {} /\ colorCount \in Nat
    BY <1>1, <1>4, Sizes
  <2>2. Max(S) \in S /\ \A y \in S : y <= Max(S)
    BY <2>1, MaxMeans
  <2>3. index + 1 <= top /\ tab.colors <= top /\ top \in 0 .. colorCount
    BY <2>1, <2>2
  <2> HIDE DEF top
  <2> QED
    BY <1>4, <2>3, Sizes
<1> HIDE DEF top
<1>6. Known([used |-> tab.used \union {index}, colors |-> top, rgb |-> [tab.rgb EXCEPT ![index] = c]])
  <2> DEFINE f == [tab.rgb EXCEPT ![index] = c]  u == tab.used \union {index}
  <2>1. u \in SUBSET Index /\ f \in [Index -> Colour \union {NoColour}]
    BY <1>1, <1>4
  <2>2. ASSUME NEW i \in u PROVE i < top /\ f[i] # NoColour
    <3>1. CASE i = index
      BY <1>1, <1>4, <1>5, <3>1, ColorAssumption
    <3>2. CASE i # index
      <4>1. i \in tab.used /\ f[i] = tab.rgb[i]
        BY <1>1, <1>4, <3>2
      <4> QED
        BY <1>1, <1>5, <4>1, Sizes
    <3> QED
      BY <3>1, <3>2
  <2> HIDE DEF f, u
  <2>3. Known([used |-> u, colors |-> top, rgb |-> f])
    BY <1>5, <2>1, <2>2, KnownFields
  <2> QED
    BY <2>3 DEF f, u
<1>7. Counts'
  BY <1>2, <1>4 DEF Full, Counts
<1> QED
  BY <1>2, <1>6, <1>7, InstallKnown

\* colorFreeColor() lowers the top no further than to the last colour in use.
LEMMA FreeKnown ==
  ASSUME Full, NEW w \in Windows, NEW index \in Index, FreeColor(w, index)
  PROVE  Full'
<1> DEFINE tab == Own(w)  used == tab.used \ {index}
           lower == {j \in used : 0 < j /\ j < index}
           top == IF index # tab.colors - 1 THEN tab.colors
                  ELSE IF index = 0 THEN 0 ELSE Max(lower \union {0}) + 1
<1>1. /\ Known(tab) /\ tab = [used |-> tab.used, colors |-> tab.colors, rgb |-> tab.rgb]
      /\ tab.used \in SUBSET Index /\ tab.colors \in 0 .. colorCount
      /\ tab.rgb \in [Index -> Colour \union {NoColour}]
      /\ \A i \in tab.used : i < tab.colors /\ tab.rgb[i] # NoColour
  BY OwnMeans DEF Known, Table
<1>2. /\ parent' = parent /\ Install(w, [used |-> used, colors |-> top, rgb |-> tab.rgb])
      /\ colorRefs' = [colorRefs EXCEPT ![index] = @ - 1]
  BY DEF FreeColor
<1> HIDE DEF tab
<1>3. top \in 0 .. colorCount /\ \A i \in used : i < top
  <2>1. CASE index = tab.colors - 1 /\ index # 0
    <3>1. lower \union {0} \in SUBSET (0 .. index) /\ lower \union {0} # {} /\ index \in Nat
      BY <1>1, Sizes
    <3>2. Max(lower \union {0}) \in lower \union {0} /\ \A y \in lower \union {0} : y <= Max(lower \union {0})
      BY <3>1, MaxMeans
    <3>3. top = Max(lower \union {0}) + 1
      BY <2>1
    <3>4. top \in 0 .. colorCount /\ 0 < top /\ \A y \in lower : y < top
      <4>1. lower \union {0} \subseteq 0 .. index - 1 /\ index + 1 <= colorCount
        BY <1>1, <2>1, <3>1, Sizes
      <4> HIDE DEF lower, top
      <4>2. PICK m \in 0 .. index - 1 : m = Max(lower \union {0}) /\ \A y \in lower : y <= m
        BY <3>2, <4>1
      <4>3. \A y \in lower : y \in Nat
        BY <3>1
      <4>4. top = m + 1 /\ \A y \in lower : y <= m
        BY <3>3, <4>2
      <4>5. m \in Nat /\ m + 1 \in 0 .. colorCount
        BY <3>1, <4>1, Sizes
      <4> QED
        BY <4>3, <4>4, <4>5
    <3>5. ASSUME NEW i \in used PROVE i < top
      <4>1. i \in Nat /\ i < tab.colors /\ i # index
        BY <1>1, Sizes
      <4>2. i = 0 \/ i \in lower
        BY <1>1, <2>1, <4>1, Sizes
      <4> HIDE DEF top, lower
      <4> QED
        BY <3>4, <4>2
    <3> HIDE DEF top
    <3> QED
      BY <3>4, <3>5
  <2>2. CASE index = tab.colors - 1 /\ index = 0
    BY <1>1, <2>2, Sizes
  <2>3. CASE index # tab.colors - 1
    BY <1>1, <2>3
  <2> QED
    BY <2>1, <2>2, <2>3
<1>4. used \in SUBSET Index /\ \A i \in used : tab.rgb[i] # NoColour
  BY <1>1
<1> HIDE DEF top, used
<1>5. Known([used |-> used, colors |-> top, rgb |-> tab.rgb])
  BY <1>1, <1>3, <1>4, KnownFields
<1>6. Counts'
  BY <1>2 DEF Full, Counts
<1> QED
  BY <1>2, <1>5, <1>6, InstallKnown

\* colorFreeColor() with -1 leaves the shared colours.
LEMMA FreeAllKnown ==
  ASSUME Full, NEW w \in Windows, FreeColors(w)
  PROVE  Full'
<1> DEFINE tab == Own(w)
           used == tab.used \ {i \in tab.used : glob_sharedcolors <= i /\ i < tab.colors}
           new == [used |-> used, colors |-> glob_sharedcolors, rgb |-> tab.rgb]
<1>1. /\ Known(tab) /\ tab = [used |-> tab.used, colors |-> tab.colors, rgb |-> tab.rgb]
      /\ tab.used \in SUBSET Index /\ tab.colors \in 0 .. colorCount
      /\ tab.rgb \in [Index -> Colour \union {NoColour}]
      /\ \A i \in tab.used : i < tab.colors /\ tab.rgb[i] # NoColour
  BY OwnMeans DEF Known, Table
<1>2. /\ parent' = parent /\ colorRefs' = colorRefs
      /\ Install(w, new)
  BY DEF FreeColors
<1> HIDE DEF tab
<1>3. used \in SUBSET Index /\ glob_sharedcolors \in 0 .. colorCount
  BY <1>1, Sizes
<1>4. \A i \in used : i < glob_sharedcolors /\ tab.rgb[i] # NoColour
  BY <1>1, Sizes
<1> HIDE DEF used
<1>5. Known(new)
  BY <1>1, <1>3, <1>4, KnownFields
<1> HIDE DEF new
<1>6. Counts'
  BY <1>2 DEF Full, Counts
<1> QED
  BY <1>2, <1>5, <1>6, InstallKnown

\* colorChangeColor() uses the colour it sets.
LEMMA ChangeKnown ==
  ASSUME Full, NEW w \in Windows, NEW index \in Index, NEW c \in Colour, ChangeColor(w, index, c)
  PROVE  Full'
<1> DEFINE tab == Own(w)  f == [tab.rgb EXCEPT ![index] = c]
<1>1. /\ Known(tab) /\ tab = [used |-> tab.used, colors |-> tab.colors, rgb |-> tab.rgb]
      /\ tab.used \in SUBSET Index /\ tab.colors \in 0 .. colorCount
      /\ tab.rgb \in [Index -> Colour \union {NoColour}]
      /\ \A i \in tab.used : i < tab.colors /\ tab.rgb[i] # NoColour
  BY OwnMeans DEF Known, Table
<1>2. /\ parent' = parent /\ colorRefs' = colorRefs /\ Install(w, [tab EXCEPT !.rgb[index] = c])
  BY DEF ChangeColor
<1> HIDE DEF tab
<1>3. [tab EXCEPT !.rgb[index] = c] = [used |-> tab.used, colors |-> tab.colors, rgb |-> f]
  BY <1>1
<1>4. f \in [Index -> Colour \union {NoColour}] /\ \A i \in tab.used : f[i] # NoColour
  BY <1>1, ColorAssumption
<1> HIDE DEF f
<1>5. Known([tab EXCEPT !.rgb[index] = c])
  BY <1>1, <1>3, <1>4, KnownFields
<1>6. Counts'
  BY <1>2 DEF Full, Counts
<1> QED
  BY <1>2, <1>5, <1>6, InstallKnown

\* Windows that come and go change no table.
LEMMA CreateKnown ==
  ASSUME Full, NEW w \in Window, NEW p \in Windows, Create(w, p)
  PROVE  Full'
<1>1. Shown' /\ tables' = tables
  BY CreateShows DEF Full, Create
<1>2. Counts'
  BY DEF Create, Full, Counts
<1> QED
  BY <1>1, <1>2 DEF Full, Known, Table, Index
\* Deleting windows leaves the tables that stay as they are.
LEMMA DeleteKnown ==
  ASSUME Full, NEW w \in Window, Delete(w)
  PROVE  Full'
<1>1. /\ Shown' /\ Below(w) \subseteq Window
      /\ \A t \in DOMAIN tables' : t \in DOMAIN tables /\ tables'[t] = tables[t]
  BY DeleteShows DEF Full
<1>2. Counts'
  <2> DEFINE Uses(i) == {x \in Below(w) : i \in Counted(tables[colTab[x]])}
  <2>1. ASSUME NEW i \in Index PROVE Cardinality(Uses(i)) \in Nat
    <3>1. Uses(i) \subseteq Window /\ IsFiniteSet(Window)
      BY <1>1, ColorAssumption
    <3> QED
      BY <3>1, FS_Subset, FS_CardinalityType
  <2>2. colorRefs' = [i \in Index |-> colorRefs[i] - Cardinality(Uses(i))]
    BY DEF Delete
  <2> HIDE DEF Uses
  <2> QED
    BY <2>1, <2>2 DEF Full, Counts
<1> QED
  BY <1>1, <1>2 DEF Full, Known, Table, Index

\* The shared colours are known at the start.
LEMMA InitKnown == Init => Full
<1> SUFFICES ASSUME Init PROVE Full
  OBVIOUS
<1>1. Shown /\ Counts
  <2>1. \A i \in Index : Initially(i) \in Int
    BY DEF Initially
  <2>2. colorRefs = [i \in Index |-> Initially(i)]
    BY DEF Init
  <2> QED
    BY <2>1, <2>2, InitShows DEF Counts
<1>2. PICK c \in [0 .. glob_sharedcolors - 1 -> Colour] :
        tables = [t \in {Global} |->
          [used |-> 0 .. glob_sharedcolors - 1, colors |-> glob_sharedcolors,
           rgb |-> [i \in Index |-> IF i < glob_sharedcolors THEN c[i] ELSE NoColour]]]
  BY DEF Init
<1> DEFINE u == 0 .. glob_sharedcolors - 1
           f == [i \in Index |-> IF i < glob_sharedcolors THEN c[i] ELSE NoColour]
<1>3. u \in SUBSET Index /\ glob_sharedcolors \in 0 .. colorCount
  BY Sizes
<1>4. f \in [Index -> Colour \union {NoColour}] /\ \A i \in u : i < glob_sharedcolors /\ f[i] # NoColour
  <2>1. \A i \in u : i \in Index /\ i < glob_sharedcolors /\ c[i] \in Colour
    BY <1>3, Sizes
  <2>2. \A i \in Index : i < glob_sharedcolors => i \in u
    BY Sizes
  <2> QED
    BY <2>1, <2>2, ColorAssumption
<1> HIDE DEF f, u
<1>5. Known([used |-> u, colors |-> glob_sharedcolors, rgb |-> f])
  BY <1>3, <1>4, KnownFields
<1> QED
  BY <1>1, <1>2, <1>5 DEF Full, f, u

\* Every step keeps all tables so.
LEMMA NextKnown == Full /\ [Next]_vars => Full'
<1> SUFFICES ASSUME Full, [Next]_vars PROVE Full'
  OBVIOUS
<1>1. CASE UNCHANGED vars
  <2>1. Shown'
    BY <1>1, NextShows DEF Full
  <2> QED
    BY <1>1, <2>1 DEF vars, Full, Counts, Known, Table, Index
<1> QED
  BY <1>1, CreateKnown, DeleteKnown, AllocKnown, FreeKnown, FreeAllKnown, ChangeKnown DEF Next

\* A colour in use lies below the top of its table and has a value.
THEOREM ColoursCorrect == Spec => []ColoursKnown
<1>1. Full => ColoursKnown
  BY DEF Full, Known, ColoursKnown
<1> QED
  BY <1>1, InitKnown, NextKnown, PTL DEF Spec

-----------------------------------------------------------------------------
(* The counts: C are the windows that clients have created, and u[x] the   *)
(* indices used in the table that x shows.                                 *)

Users(C, u, i) == {w \in C : i \in u[w]}
Extra(u, i) == {s \in Server : i >= glob_sharedcolors /\ i \in u[s]}
Missing(u, i) == {s \in Server : i < glob_sharedcolors /\ i \notin u[s]}
Counting(C, u, i) ==
  Cardinality(Users(C, u, i)) + Cardinality(Extra(u, i)) - Cardinality(Missing(u, i))

\* The sets that are counted are finite.
LEMMA CountsFinite ==
  ASSUME NEW C \in SUBSET Window, NEW u, NEW i
  PROVE  /\ IsFiniteSet(Users(C, u, i)) /\ IsFiniteSet(Extra(u, i)) /\ IsFiniteSet(Missing(u, i))
         /\ Cardinality(Users(C, u, i)) \in Nat /\ Cardinality(Extra(u, i)) \in Nat
         /\ Cardinality(Missing(u, i)) \in Nat
<1>1. IsFiniteSet(Window) /\ IsFiniteSet(Server)
  <2>1. IsFiniteSet({} \union {Root})
    BY FS_EmptySet, FS_AddElement
  <2>2. IsFiniteSet(({} \union {Root}) \union {Background})
    BY <2>1, FS_AddElement
  <2>3. ({} \union {Root}) \union {Background} = Server
    BY DEF Server
  <2> QED
    BY <2>2, <2>3, ColorAssumption
<1>2. /\ Users(C, u, i) \subseteq Window /\ Extra(u, i) \subseteq Server
      /\ Missing(u, i) \subseteq Server
  BY DEF Users, Extra, Missing
<1> QED
  BY <1>1, <1>2, FS_Subset, FS_CardinalityType

\* One element more, and some less.
LEMMA OneMore ==
  ASSUME NEW S, IsFiniteSet(S), NEW x, x \notin S, NEW T, T = S \union {x}
  PROVE  Cardinality(T) = Cardinality(S) + 1
BY FS_AddElement

LEMMA SomeLess ==
  ASSUME NEW S, IsFiniteSet(S), NEW B, B \subseteq S, NEW T, T = S \ B
  PROVE  Cardinality(T) = Cardinality(S) - Cardinality(B)
<1>1. S \intersect B = B
  OBVIOUS
<1> QED
  BY <1>1, FS_Difference

\* Nothing changes about index i.
LEMMA CountingSame ==
  ASSUME NEW C \in SUBSET Window, NEW u, NEW v, NEW i,
         \A x \in C \union Server : (i \in v[x]) = (i \in u[x])
  PROVE  Counting(C, v, i) = Counting(C, u, i)
<1>1. Users(C, v, i) = Users(C, u, i) /\ Extra(v, i) = Extra(u, i) /\ Missing(v, i) = Missing(u, i)
  BY DEF Users, Extra, Missing
<1> QED
  BY <1>1 DEF Counting

\* One window begins to use index i.
LEMMA CountingOne ==
  ASSUME NEW C \in SUBSET Window, NEW u, NEW v, NEW i \in Index, NEW w \in C \union Server,
         i \notin u[w], i \in v[w],
         \A x \in (C \union Server) \ {w} : (i \in v[x]) = (i \in u[x])
  PROVE  Counting(C, v, i) = Counting(C, u, i) + 1
<1>1. i \in Int /\ glob_sharedcolors \in Int
  BY Sizes
<1>2. CASE w \in C
  <2>1. w \notin Server
    BY <1>2, ServerApart
  <2>2. Users(C, v, i) = Users(C, u, i) \union {w} /\ w \notin Users(C, u, i)
    BY <1>2 DEF Users
  <2>3. Extra(v, i) = Extra(u, i) /\ Missing(v, i) = Missing(u, i)
    BY <2>1 DEF Extra, Missing
  <2>4. Cardinality(Users(C, v, i)) = Cardinality(Users(C, u, i)) + 1
    <3>1. IsFiniteSet(Users(C, u, i))
      BY CountsFinite
    <3> QED
      BY <2>2, <3>1, OneMore, Zenon
  <2> QED
    BY <2>3, <2>4, CountsFinite DEF Counting
<1>3. CASE w \in Server /\ i >= glob_sharedcolors
  <2>1. Users(C, v, i) = Users(C, u, i)
    BY <1>3, ServerApart DEF Users
  <2>2. Extra(v, i) = Extra(u, i) \union {w} /\ w \notin Extra(u, i)
    BY <1>3 DEF Extra
  <2>3. Missing(v, i) = Missing(u, i)
    BY <1>1, <1>3 DEF Missing
  <2>4. Cardinality(Extra(v, i)) = Cardinality(Extra(u, i)) + 1
    <3>1. IsFiniteSet(Extra(u, i))
      BY CountsFinite
    <3> QED
      BY <2>2, <3>1, OneMore, Zenon
  <2> QED
    BY <2>1, <2>3, <2>4, CountsFinite DEF Counting
<1>4. CASE w \in Server /\ i < glob_sharedcolors
  <2>1. Users(C, v, i) = Users(C, u, i)
    BY <1>4, ServerApart DEF Users
  <2>2. Extra(v, i) = Extra(u, i)
    BY <1>1, <1>4 DEF Extra
  <2>3. Missing(u, i) = Missing(v, i) \union {w} /\ w \notin Missing(v, i)
    BY <1>4 DEF Missing
  <2>4. Cardinality(Missing(u, i)) = Cardinality(Missing(v, i)) + 1
    <3>1. IsFiniteSet(Missing(v, i))
      BY CountsFinite
    <3> QED
      BY <2>3, <3>1, OneMore, Zenon
  <2> QED
    BY <2>1, <2>2, <2>4, CountsFinite DEF Counting
<1> QED
  BY <1>1, <1>2, <1>3, <1>4

\* A window comes, or some go.
LEMMA CountingGrows ==
  ASSUME NEW C \in SUBSET Window, NEW u, NEW v, NEW i, NEW w \in Window, w \notin C,
         \A x \in C \union Server : v[x] = u[x]
  PROVE  Counting(C \union {w}, v, i) = Counting(C, u, i) + IF i \in v[w] THEN 1 ELSE 0
<1>1. Extra(v, i) = Extra(u, i) /\ Missing(v, i) = Missing(u, i)
  BY DEF Extra, Missing
<1>2. CASE i \in v[w]
  <2>1. Users(C \union {w}, v, i) = Users(C, u, i) \union {w} /\ w \notin Users(C, u, i)
    BY <1>2 DEF Users
  <2>2. Cardinality(Users(C \union {w}, v, i)) = Cardinality(Users(C, u, i)) + 1
    BY <2>1, CountsFinite, OneMore, Zenon
  <2> QED
    BY <1>1, <1>2, <2>2, CountsFinite DEF Counting
<1>3. CASE i \notin v[w]
  <2>1. Users(C \union {w}, v, i) = Users(C, u, i)
    BY <1>3 DEF Users
  <2> QED
    BY <1>1, <1>3, <2>1, CountsFinite DEF Counting
<1> QED
  BY <1>2, <1>3

\* Windows that go are counted no more.
LEMMA CountingCut ==
  ASSUME NEW C \in SUBSET Window, NEW u, NEW v, NEW i, NEW G \in SUBSET C,
         \A x \in (C \ G) \union Server : v[x] = u[x]
  PROVE  Counting(C \ G, v, i) = Counting(C, u, i) - Cardinality(Users(G, u, i))
<1>1. Extra(v, i) = Extra(u, i) /\ Missing(v, i) = Missing(u, i)
  BY DEF Extra, Missing
<1> DEFINE B == Users(G, u, i)
<1>2. Users(C \ G, v, i) = Users(C, u, i) \ B /\ B \subseteq Users(C, u, i)
  BY DEF Users
<1>3. IsFiniteSet(Users(C, u, i))
  BY CountsFinite
<1>4. Cardinality(Users(C \ G, v, i)) = Cardinality(Users(C, u, i)) - Cardinality(B)
  BY <1>2, <1>3, SomeLess, Zenon
<1>5. Cardinality(B) \in Nat
  BY <1>2, CountsFinite, FS_Subset, FS_CardinalityType
<1> QED
  BY <1>1, <1>4, <1>5, CountsFinite DEF Counting

Used == [x \in Windows |-> tables[colTab[x]].used]
Exact == \A i \in Index : colorRefs[i] = Initially(i) + Counting(Created, Used, i)

\* Exact, at one index.
LEMMA ExactMeans ==
  ASSUME Full
  PROVE  CountsExact <=> (~uneven => Exact)
<1>1. ASSUME NEW i
      PROVE  /\ Users(Created, Used, i) = {w \in Created : i \in tables[colTab[w]].used}
             /\ Extra(Used, i) = {s \in Server : i >= glob_sharedcolors /\ i \in tables[colTab[s]].used}
             /\ Missing(Used, i) = {s \in Server : i < glob_sharedcolors /\ i \notin tables[colTab[s]].used}
  BY DEF Users, Extra, Missing, Used, Windows
<1>2. ASSUME NEW i
      PROVE  Initially(i) + Counting(Created, Used, i) =
               Initially(i) + Cardinality(Users(Created, Used, i)) + Cardinality(Extra(Used, i))
                 - Cardinality(Missing(Used, i))
  <2>1. Created \in SUBSET Window /\ Initially(i) \in Int
    BY DEF Full, Shown, Tree, Initially
  <2> QED
    BY <2>1, CountsFinite DEF Counting
<1> QED
  BY <1>1, <1>2 DEF CountsExact, Exact

\* changeCounts() counts the colours in use, although it looks at whole bytes.
LEMMA CountedMeans ==
  ASSUME NEW tab, Known(tab)
  PROVE  Counted(tab) = tab.used
<1>1. tab.used \subseteq Nat /\ tab.colors \in Nat /\ \A i \in tab.used : i < tab.colors
  BY Sizes DEF Known, Table
<1>2. tab.colors <= 8 * ((tab.colors + 7) \div 8) /\ (tab.colors + 7) \div 8 \in Nat
  BY <1>1
<1> DEFINE n == 8 * ((tab.colors + 7) \div 8)
<1>3. n \in Nat /\ tab.colors <= n
  BY <1>2
<1> HIDE DEF n
<1>4. \A i \in tab.used : i \in 0 .. n - 1
  BY <1>1, <1>3
<1> QED
  BY <1>4 DEF Counted, n

\* Who uses what after a request.
LEMMA InstallUses ==
  ASSUME Full, NEW w \in Windows, NEW tab, Install(w, tab), parent' = parent
  PROVE  /\ Windows' = Windows /\ Created' = Created /\ Used'[w] = tab.used
         /\ \A x \in Windows \ {w} : x \notin Sharing(w) => Used'[x] = Used[x]
         /\ tab.used = Used[w] => \A x \in Windows : Used'[x] = Used[x]
<1>1. Windows' = Windows /\ Created' = Created /\ Used' = [x \in Windows |-> tables'[colTab'[x]].used]
  BY DEF Windows, Created, Used
<1>2. /\ colTab'[w] = w /\ tables'[w] = tab
      /\ \A x \in Windows : x # w => colTab'[x] = colTab[x]
      /\ \A t \in DOMAIN tables : t # w => tables'[t] = tables[t]
  BY DEF Full, Shown, Tree, Install
<1>3. \A x \in Windows \ {w} : x \notin Sharing(w) => Used'[x] = Used[x]
  BY <1>1, <1>2 DEF Used, Sharing, Full, Shown, TablesLive
<1>4. ASSUME NEW x \in Sharing(w)
      PROVE  Used[x] = Used[w] /\ Used'[x] = tab.used
  <2>1. x \in Windows /\ x # w /\ colTab[x] = w /\ w # Global
    BY ServerApart DEF Sharing, Full, Shown, Tree, Windows
  <2>2. colTab[w] = w
    BY <2>1 DEF Full, Shown, TablesLive
  <2> QED
    BY <1>1, <1>2, <2>1, <2>2 DEF Used
<1> QED
  BY <1>1, <1>2, <1>3, <1>4

\* A request keeps the counts exact if nothing uneven was counted.
LEMMA ExactKept ==
  ASSUME Full, Full', Exact, [Next]_vars, ~uneven'
  PROVE  Exact'
<1> USE DEF Exact
<1>1. Created \in SUBSET Window /\ Created \subseteq Windows /\ Windows = Created \union Server
  BY DEF Full, Shown, Tree, Windows
<1>2. ASSUME parent' = parent, Windows' = Windows, Created' = Created, colorRefs' = colorRefs,
             \A x \in Windows : Used'[x] = Used[x]
      PROVE  Exact'
  <2>1. \A i \in Index : Counting(Created, Used', i) = Counting(Created, Used, i)
    BY <1>1, <1>2, CountingSame
  <2> QED
    BY <1>2, <2>1
<1>3. CASE UNCHANGED vars
  BY <1>2, <1>3 DEF vars, Windows, Created, Used
<1>4. ASSUME NEW w \in Windows, NEW c \in Colour, AllocColor(w, c)
      PROVE  Exact'
  <2>1. Own(w).used = Used[w] /\ Sharing(w) = {} /\ parent' = parent
    BY <1>4, OwnMeans DEF AllocColor, Used
  <2>0. \E index \in Index : \E tab :
          /\ index \notin Used[w] /\ Install(w, tab) /\ tab.used = Used[w] \union {index}
          /\ colorRefs' = [colorRefs EXCEPT ![index] = @ + 1]
    <3> DEFINE own == Own(w)
               unused == {i \in Index \ own.used : colorRefs[i] >= 0}
               least == {i \in unused : \A j \in unused : colorRefs[i] <= colorRefs[j]}
               index == Max(least)
               tab == [used |-> own.used \union {index}, colors |-> Max({index + 1, own.colors}),
                       rgb |-> [own.rgb EXCEPT ![index] = c]]
    <3>1. /\ unused # {} /\ Install(w, tab)
          /\ colorRefs' = [colorRefs EXCEPT ![index] = @ + 1]
      BY <1>4 DEF AllocColor
    <3> HIDE DEF own
    <3>2. index \in least
      <4>1. \A i \in unused : colorRefs[i] \in Nat
        BY Sizes DEF Full, Counts
      <4> HIDE DEF unused
      <4>2. unused \in SUBSET Index
        BY DEF unused
      <4> QED
        BY <3>1, <4>1, <4>2, LeastCounted
    <3>3. index \in Index /\ index \notin own.used
      BY <3>2
    <3>4. tab.used = own.used \union {index}
      OBVIOUS
    <3> HIDE DEF index, tab
    <3> QED
      BY <2>1, <3>1, <3>3, <3>4 DEF own
  <2> PICK index \in Index : \E tab :
          /\ index \notin Used[w] /\ Install(w, tab) /\ tab.used = Used[w] \union {index}
          /\ colorRefs' = [colorRefs EXCEPT ![index] = @ + 1]
    BY <2>0
  <2>2. PICK tab :
          /\ index \notin Used[w] /\ Install(w, tab) /\ tab.used = Used[w] \union {index}
          /\ colorRefs' = [colorRefs EXCEPT ![index] = @ + 1]
    OBVIOUS
  <2>3. /\ Windows' = Windows /\ Created' = Created /\ Used'[w] = tab.used
        /\ \A x \in Windows \ {w} : Used'[x] = Used[x]
    BY <2>1, <2>2, InstallUses
  <2>4. Counting(Created, Used', index) = Counting(Created, Used, index) + 1
    BY <1>1, <2>2, <2>3, CountingOne
  <2>5. \A i \in Index \ {index} : Counting(Created, Used', i) = Counting(Created, Used, i)
    BY <1>1, <2>2, <2>3, CountingSame
  <2>6. /\ Counting(Created, Used, index) \in Int /\ Initially(index) \in Int
    BY <1>1, CountsFinite DEF Counting, Initially
  <2>7. /\ colorRefs'[index] = colorRefs[index] + 1
        /\ \A i \in Index \ {index} : colorRefs'[i] = colorRefs[i]
    BY <2>2 DEF Full, Counts
  <2> QED
    BY <2>3, <2>4, <2>5, <2>6, <2>7
<1>5. ASSUME NEW w \in Windows, NEW index \in Index, FreeColor(w, index)
      PROVE  Exact'
  <2>1. /\ Own(w).used = Used[w] /\ Sharing(w) = {} /\ parent' = parent /\ index \in Used[w]
        /\ colorRefs' = [colorRefs EXCEPT ![index] = @ - 1]
    BY <1>5, OwnMeans DEF FreeColor, Used
  <2>2. PICK tab : Install(w, tab) /\ tab.used = Used[w] \ {index}
    BY <1>5, <2>1 DEF FreeColor
  <2>3. /\ Windows' = Windows /\ Created' = Created /\ Used'[w] = tab.used
        /\ \A x \in Windows \ {w} : Used'[x] = Used[x]
    BY <2>1, <2>2, InstallUses
  <2>4. Counting(Created, Used, index) = Counting(Created, Used', index) + 1
    BY <1>1, <2>1, <2>2, <2>3, CountingOne
  <2>5. \A i \in Index \ {index} : Counting(Created, Used', i) = Counting(Created, Used, i)
    BY <1>1, <2>2, <2>3, CountingSame
  <2>6. /\ Counting(Created, Used', index) \in Int /\ Initially(index) \in Int
    BY <1>1, CountsFinite DEF Counting, Initially
  <2>7. /\ colorRefs'[index] = colorRefs[index] - 1
        /\ \A i \in Index \ {index} : colorRefs'[i] = colorRefs[i]
    BY <2>1 DEF Full, Counts
  <2> QED
    BY <2>3, <2>4, <2>5, <2>6, <2>7
<1>6. ASSUME NEW w \in Windows, FreeColors(w)
      PROVE  Exact'
  <2>1. /\ Own(w).used = Used[w] /\ parent' = parent /\ colorRefs' = colorRefs
        /\ {i \in Own(w).used : glob_sharedcolors <= i /\ i < Own(w).colors} = {}
    BY <1>6, OwnMeans DEF FreeColors, Used
  <2>2. PICK tab : Install(w, tab) /\ tab.used = Used[w]
    BY <1>6, <2>1 DEF FreeColors
  <2> QED
    BY <1>2, <2>1, <2>2, InstallUses
<1>7. ASSUME NEW w \in Windows, NEW index \in Index, NEW c \in Colour, ChangeColor(w, index, c)
      PROVE  Exact'
  <2>1. /\ Own(w).used = Used[w] /\ parent' = parent /\ colorRefs' = colorRefs
        /\ Own(w) = [used |-> Own(w).used, colors |-> Own(w).colors, rgb |-> Own(w).rgb]
    BY <1>7, OwnMeans DEF ChangeColor, Used
  <2> DEFINE tab == [Own(w) EXCEPT !.rgb[index] = c]
  <2>2. Install(w, tab)
    BY <1>7 DEF ChangeColor
  <2>3. tab.used = Used[w]
    BY <2>1
  <2> HIDE DEF tab
  <2> QED
    BY <1>2, <2>1, <2>2, <2>3, InstallUses
<1>8. ASSUME NEW w \in Window, NEW p \in Windows, Create(w, p)
      PROVE  Exact'
  <2> DEFINE shared == IF p = Background THEN Global ELSE colTab[p]
  <2>1. /\ w \notin Created /\ Created' = Created \union {w} /\ Windows' = Windows \union {w}
        /\ tables' = tables /\ colTab' = [x \in Windows \union {w} |-> IF x = w THEN shared ELSE colTab[x]]
        /\ colorRefs' = [i \in Index |-> colorRefs[i] + IF i \in Counted(tables[shared]) THEN 1 ELSE 0]
    BY <1>8 DEF Create, Created, Windows
  <2>2. w \notin Windows /\ shared \in DOMAIN tables
    BY <2>1, ServerApart DEF Windows, Full, Shown, Tree, TablesLive
  <2> HIDE DEF shared
  <2>3. Counted(tables[shared]) = tables[shared].used
    BY <2>2, CountedMeans DEF Full
  <2>4. Used'[w] = tables[shared].used /\ \A x \in Windows : Used'[x] = Used[x]
    BY <2>1, <2>2 DEF Used
  <2>5. \A i : Counting(Created \union {w}, Used', i) =
                 Counting(Created, Used, i) + IF i \in Used'[w] THEN 1 ELSE 0
    BY <1>1, <2>1, <2>4, CountingGrows
  <2>6. \A i : Counting(Created, Used, i) \in Int /\ Initially(i) \in Int
    BY <1>1, CountsFinite DEF Counting, Initially
  <2> SUFFICES ASSUME NEW i \in Index
               PROVE  colorRefs'[i] = Initially(i) + Counting(Created', Used', i)
    OBVIOUS
  <2>7. colorRefs'[i] = colorRefs[i] + IF i \in Used'[w] THEN 1 ELSE 0
    BY <2>1, <2>3, <2>4
  <2>8. Counting(Created', Used', i) = Counting(Created, Used, i) + IF i \in Used'[w] THEN 1 ELSE 0
    BY <2>1, <2>5
  <2>9. colorRefs[i] = Initially(i) + Counting(Created, Used, i)
    OBVIOUS
  <2> QED
    BY <2>6, <2>7, <2>8, <2>9
<1>9. ASSUME NEW w \in Window, Delete(w)
      PROVE  Exact'
  <2> DEFINE G == Below(w)
             Gone(i) == {x \in G : i \in Counted(tables[colTab[x]])}
  <2>1. /\ Created' = Created \ G /\ w \in Created
        /\ colorRefs' = [i \in Index |-> colorRefs[i] - Cardinality(Gone(i))]
    BY <1>9 DEF Delete, Created
  <2>2. G \subseteq Created
    BY <1>1, <2>1, UnderWithin, BelowIsUnder DEF Created
  <2>3. /\ \A x \in Windows' : x \in Windows /\ colTab'[x] = colTab[x] /\ colTab'[x] \in DOMAIN tables'
        /\ \A t \in DOMAIN tables' : tables'[t] = tables[t]
    BY <1>9, DeleteShows DEF Full, Shown, TablesLive
  <2>4. \A x \in Windows' : Used'[x] = Used[x]
    BY <2>3 DEF Used
  <2>5. \A i : Gone(i) = Users(G, Used, i)
    <3>1. \A x \in G : Counted(tables[colTab[x]]) = Used[x]
      BY <1>1, <2>2, CountedMeans DEF Full, Shown, TablesLive, Used
    <3> QED
      BY <3>1 DEF Users
  <2>6. (Created \ G) \union Server = Windows'
    BY <2>1 DEF Windows
  <2> HIDE DEF G, Gone
  <2>7. \A i : Counting(Created \ G, Used', i) = Counting(Created, Used, i) - Cardinality(Users(G, Used, i))
    <3>1. Created \in SUBSET Window /\ G \in SUBSET Created
      BY <1>1, <2>2
    <3>2. \A x \in (Created \ G) \union Server : Used'[x] = Used[x]
      BY <2>4, <2>6
    <3> QED
      BY <3>1, <3>2, CountingCut
  <2>8. \A i : Counting(Created, Used, i) \in Int /\ Initially(i) \in Int
    BY <1>1, CountsFinite DEF Counting, Initially
  <2>9. \A i : Cardinality(Users(G, Used, i)) \in Nat
    <3>1. G \in SUBSET Window
      BY <1>1, <2>2
    <3> QED
      BY <3>1, CountsFinite
  <2> SUFFICES ASSUME NEW i \in Index
               PROVE  colorRefs'[i] = Initially(i) + Counting(Created', Used', i)
    OBVIOUS
  <2>10. colorRefs'[i] = colorRefs[i] - Cardinality(Users(G, Used, i))
    BY <2>1, <2>5
  <2>11. Counting(Created', Used', i) = Counting(Created, Used, i) - Cardinality(Users(G, Used, i))
    BY <2>1, <2>7
  <2>12. colorRefs[i] = Initially(i) + Counting(Created, Used, i)
    OBVIOUS
  <2> QED
    BY <2>8, <2>9, <2>10, <2>11, <2>12
<1> QED
  BY <1>3, <1>4, <1>5, <1>6, <1>7, <1>8, <1>9 DEF Next

\* What is spoilt stays so.
LEMMA UnevenStays == [Next]_vars /\ ~uneven' => ~uneven
BY DEF Next, vars, Create, Delete, AllocColor, FreeColor, FreeColors, ChangeColor

\* The counts are exact at the start.
LEMMA InitExact == Init => Exact
<1> SUFFICES ASSUME Init, NEW i \in Index PROVE colorRefs[i] = Initially(i) + Counting(Created, Used, i)
  BY DEF Exact
<1>1. /\ Created = {} /\ Windows = Server /\ colorRefs[i] = Initially(i)
      /\ \A x \in Server : Used[x] = 0 .. glob_sharedcolors - 1
  BY DEF Init, Created, Windows, Used
<1>2. Users({}, Used, i) = {} /\ Extra(Used, i) = {} /\ Missing(Used, i) = {}
  BY <1>1, Sizes DEF Users, Extra, Missing
<1>3. Counting({}, Used, i) = 0
  BY <1>2, FS_EmptySet DEF Counting
<1>4. Initially(i) \in Int
  BY DEF Initially
<1> QED
  BY <1>1, <1>3, <1>4

\* colorRefs says how many windows use a colour, while what is counted is even.
THEOREM CountsCorrect == Spec => []CountsExact
<1> DEFINE Even == Full /\ (~uneven => Exact)
<1>1. Init => Even
  BY InitKnown, InitExact
<1>2. Even /\ [Next]_vars => Even'
  BY NextKnown, UnevenStays, ExactKept
<1>3. Even => CountsExact
  BY ExactMeans
<1> QED
  BY <1>1, <1>2, <1>3, PTL DEF Spec
=============================================================================
