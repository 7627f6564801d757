-------------------------- MODULE WindowTreeProofs --------------------------
(***************************************************************************)
(* Proofs about module WindowTree, for any number of clients, window ids   *)
(* and windows.  First the facts about Below(), on which every argument    *)
(* about subtrees and mapped windows rests; then the invariants.           *)
(***************************************************************************)
EXTENDS WindowTree, FiniteSetTheorems, TLAPS

-----------------------------------------------------------------------------
(* Below: the descendants of a set of windows.                             *)

\* What is not below T is closed upwards and avoids T.
LEMMA NotBelow ==
  ASSUME NEW par, NEW L, NEW T
  PROVE  /\ Below(par, L, T) \subseteq L
         /\ L \cap T \subseteq Below(par, L, T)
         /\ UpClosed(par, L \ Below(par, L, T))
<1> DEFINE Up == {S \in SUBSET (L \ T) : UpClosed(par, S)}
<1>1. L \ Below(par, L, T) = UNION Up
  BY DEF Below
<1>2. UpClosed(par, UNION Up)
  BY DEF UpClosed
<1> QED
  BY <1>1, <1>2 DEF Below

\* Conversely any upward closed set that avoids T is outside Below.
LEMMA AvoidsBelow ==
  ASSUME NEW par, NEW L, NEW T, NEW S \in SUBSET (L \ T), UpClosed(par, S)
  PROVE  S \cap Below(par, L, T) = {}
BY DEF Below

\* A window below T is in T or has its parent below T.
LEMMA BelowParent ==
  ASSUME NEW par, NEW L, NEW T, NoWin \notin L,
         \A x \in L : par[x] \in L \union {NoWin},
         NEW w \in Below(par, L, T), w \notin T
  PROVE  par[w] \in Below(par, L, T)
<1> DEFINE O == L \ Below(par, L, T)
<1> SUFFICES ASSUME par[w] \notin Below(par, L, T) PROVE FALSE
  OBVIOUS
<1>1. w \in L /\ UpClosed(par, O) /\ O \cap T = {}
  BY NotBelow
<1>2. UpClosed(par, O \union {w})
  BY <1>1 DEF UpClosed
<1>3. O \union {w} \in SUBSET (L \ T)
  BY <1>1
<1> HIDE DEF O
<1> QED
  BY <1>2, <1>3, AvoidsBelow

\* The children of a window below T are below T.
LEMMA BelowChild ==
  ASSUME NEW par, NEW L, NEW T, NoWin \notin L,
         NEW w \in L, par[w] \in Below(par, L, T)
  PROVE  w \in Below(par, L, T)
BY NotBelow DEF UpClosed

\* Restricting the tree to an upward closed part restricts Below.
LEMMA BelowRestrict ==
  ASSUME NEW par, NEW L, NEW T, NEW M \in SUBSET L, UpClosed(par, M)
  PROVE  Below(par, M, T) = Below(par, L, T) \cap M
<1>1. Below(par, M, T) \subseteq Below(par, L, T) \cap M
  <2> SUFFICES ASSUME NEW x \in M, x \notin Below(par, L, T)
               PROVE  x \notin Below(par, M, T)
    BY NotBelow
  <2> DEFINE S == M \ Below(par, L, T)
  <2>1. UpClosed(par, S) /\ S \in SUBSET (M \ T)
    BY NotBelow DEF UpClosed
  <2> QED
    BY <2>1, AvoidsBelow
<1>2. ASSUME NEW x \in M, x \notin Below(par, M, T)
      PROVE  x \notin Below(par, L, T)
  <2> DEFINE S == M \ Below(par, M, T)
  <2>1. UpClosed(par, S) /\ S \in SUBSET (L \ T)
    BY NotBelow
  <2> QED
    BY <1>2, <2>1, AvoidsBelow
<1> QED
  BY <1>1, <1>2, NotBelow

-----------------------------------------------------------------------------
(* Shown: the windows that are mapped with all their ancestors.            *)

\* They are open, and closed upwards.
LEMMA ShownIsOpen ==
  ASSUME NEW L, NEW par, NEW opn
  PROVE  /\ Shown(L, par, opn) \subseteq {w \in L : opn[w]}
         /\ UpClosed(par, Shown(L, par, opn))
BY NotBelow DEF Shown

\* They are the largest such set.
LEMMA ShownLargest ==
  ASSUME NEW L, NEW par, NEW opn,
         NEW S \in SUBSET {w \in L : opn[w]}, UpClosed(par, S)
  PROVE  S \subseteq Shown(L, par, opn)
<1> DEFINE T == {w \in L : ~opn[w]}
<1>1. S \in SUBSET (L \ T)
  OBVIOUS
<1>2. S \cap Below(par, L, T) = {}
  BY <1>1, AvoidsBelow
<1> QED
  BY <1>2 DEF Shown

\* In an upward closed part M of the tree, or in a tree that agrees with it
\* there, the same windows are shown.
LEMMA ShownRestrict ==
  ASSUME NEW L, NEW par, NEW opn, NEW M \in SUBSET L, UpClosed(par, M),
         NEW par2, NEW opn2,
         \A w \in M : par2[w] = par[w] /\ opn2[w] = opn[w]
  PROVE  Shown(M, par2, opn2) = Shown(L, par, opn) \cap M
<1>1. ASSUME NEW S \in SUBSET M
      PROVE  UpClosed(par, S) <=> UpClosed(par2, S)
  BY DEF UpClosed
<1>2. Shown(M, par2, opn2) \subseteq Shown(L, par, opn) \cap M
  <2> DEFINE S == Shown(M, par2, opn2)
  <2>1. S \subseteq M /\ S \subseteq {w \in L : opn[w]} /\ UpClosed(par2, S)
    BY ShownIsOpen
  <2>2. UpClosed(par, S)
    BY <1>1, <2>1
  <2> HIDE DEF S
  <2>3. S \subseteq Shown(L, par, opn)
    BY <2>1, <2>2, ShownLargest
  <2> QED
    BY <2>1, <2>3 DEF S
<1>3. Shown(L, par, opn) \cap M \subseteq Shown(M, par2, opn2)
  <2> DEFINE S == Shown(L, par, opn) \cap M
  <2>1. S \subseteq M /\ S \subseteq {w \in M : opn2[w]} /\ UpClosed(par, S)
    BY ShownIsOpen DEF UpClosed
  <2>2. UpClosed(par2, S)
    BY <1>1, <2>1
  <2> HIDE DEF S
  <2> QED
    BY <2>1, <2>2, ShownLargest DEF S
<1> QED
  BY <1>2, <1>3

\* Opening h adds the windows of its subtree that are shown then.
LEMMA ShownOpen ==
  ASSUME NEW L, NEW par, NEW opn, NEW opn2, NEW h \in L,
         ~opn[h], opn2[h], \A w \in L \ {h} : opn2[w] = opn[w]
  PROVE  /\ Shown(L, par, opn) \subseteq Shown(L, par, opn2)
         /\ Shown(L, par, opn2) \ Subtree(par, Shown(L, par, opn2), h) = Shown(L, par, opn)
<1> DEFINE new == Shown(L, par, opn2)
           old == Shown(L, par, opn)
<1>1. old \subseteq {w \in L : opn2[w]} /\ UpClosed(par, old) /\ h \notin old
  BY ShownIsOpen
<1>2. old \subseteq new
  BY <1>1, ShownLargest
<1>3. old \cap Subtree(par, new, h) = {}
  BY <1>1, <1>2, AvoidsBelow DEF Subtree
<1>4. new \ Subtree(par, new, h) \subseteq old
  <2> DEFINE S == new \ Subtree(par, new, h)
  <2>1. UpClosed(par, S) /\ S \subseteq new /\ h \notin S
    BY NotBelow DEF Subtree
  <2>2. S \in SUBSET {w \in L : opn[w]}
    BY <2>1, ShownIsOpen
  <2> HIDE DEF S
  <2> QED
    BY <2>1, <2>2, ShownLargest DEF S
<1> HIDE DEF new, old
<1>5. new \ Subtree(par, new, h) = old
  BY <1>2, <1>3, <1>4
<1> QED
  BY <1>2, <1>5 DEF new, old

-----------------------------------------------------------------------------
(* Types and the shape of the tree.                                        *)

TreeInv == TypeOK /\ TreeOK /\ TopLevelOK

LEMMA IdFacts ==
  /\ IsFiniteSet(Id)
  /\ Root \in Id /\ Background \in Id
  /\ NoWin \notin Id /\ NoWin \notin Client
BY IdAssumption, NoWinAssumption, FS_Interval DEF Id, Root, Background

\* The counts the handlers add and subtract are numbers.
LEMMA CountIsNat ==
  ASSUME NEW S \in SUBSET Id
  PROVE  IsFiniteSet(S) /\ Cardinality(S) \in Nat
BY IdFacts, FS_Subset, FS_CardinalityType

\* Handlers that touch neither the windows nor the clients keep the shape.
LEMMA ShapeUnchanged ==
  ASSUME TreeOK, TopLevelOK, UNCHANGED <<clients, tree, topWindow>>
  PROVE  TreeOK' /\ TopLevelOK'
BY DEF TreeOK, TopLevelOK, tree, UpClosed, Clients

\* A focus that is set is set to windows.
LEMMA FocusTyped ==
  ASSUME live' \subseteq Id, NEW win \in live', ChangeActiveWindow(win)
  PROVE  /\ activewindow' \in Pointer
         /\ activetopwin' \in Pointer
         /\ find_cache' \in Pointer
BY IdFacts DEF ChangeActiveWindow, Toplevel, Pointer

LEMMA RefocusTyped ==
  ASSUME live' \subseteq Id, Refocus
  PROVE  /\ activewindow' \in Pointer
         /\ activetopwin' \in Pointer
         /\ find_cache' \in Pointer
<1>1. PICK win \in Findable(live', parent', is_open') : ChangeActiveWindow(win)
  BY DEF Refocus
<1>2. win \in live'
  BY ShownIsOpen DEF Findable
<1> QED
  BY <1>1, <1>2, FocusTyped

\* Deleting whole subtrees of windows that clients own keeps the shape.
LEMMA ShapeAfterDelete ==
  ASSUME TreeInv, NEW T \in SUBSET Clients(live), DoDelete(Below(parent, live, T)),
         clients' \subseteq clients,
         \A w \in Clients(live) \ Below(parent, live, T) : cptr[w] \in clients'
  PROVE  TreeOK' /\ TopLevelOK'
<1> DEFINE S == Below(parent, live, T)
<1>1. /\ S \subseteq live
      /\ UpClosed(parent, live \ S)
  BY NotBelow
<1>2. {Root, Background} \cap S = {}
  <2>1. UpClosed(parent, {Root, Background})
    BY DEF TreeInv, TreeOK, UpClosed
  <2>2. {Root, Background} \in SUBSET (live \ T)
    BY DEF TreeInv, TreeOK, Clients
  <2> QED
    BY <2>1, <2>2, AvoidsBelow
<1>3. /\ live' = live \ S
      /\ \A w \in Id : /\ parent'[w] = IF w \in S THEN NoWin ELSE parent[w]
                       /\ cptr'[w] = IF w \in S THEN NoWin ELSE cptr[w]
                       /\ flags'[w] = IF w \in S THEN {} ELSE flags[w]
                       /\ is_open'[w] = (w \notin S /\ is_open[w])
      /\ topWindow' = IF topWindow \in S THEN NoWin ELSE topWindow
  BY DEF DoDelete, ReleaseTop
<1>4. live \subseteq Id
  BY DEF TreeInv, TypeOK
<1> HIDE DEF S
<1>5. \A X \in SUBSET (live \ S) : UpClosed(parent', X) => UpClosed(parent, X)
  BY <1>3, <1>4 DEF UpClosed
<1>6. TreeOK'
  <2>1. {Background, Root} \subseteq live'
    BY <1>2, <1>3 DEF TreeInv, TreeOK
  <2>2. is_open'[Background] /\ is_open'[Root]
    BY <1>2, <1>3, IdFacts DEF TreeInv, TreeOK
  <2>3. /\ parent'[Root] = NoWin /\ parent'[Background] = Root
        /\ cptr'[Root] = NoWin /\ cptr'[Background] = NoWin
    BY <1>2, <1>3, IdFacts DEF TreeInv, TreeOK
  <2>4. \A w \in Id \ live' : parent'[w] = NoWin
    BY <1>3 DEF TreeInv, TreeOK
  <2>5. ASSUME NEW w \in Clients(live')
        PROVE  parent'[w] \in live' /\ cptr'[w] \in clients'
    <3>1. w \in Clients(live) /\ w \notin S /\ w \in Id
      BY <1>3, <1>4 DEF Clients
    <3>2. parent[w] \in live
      BY <3>1 DEF TreeInv, TreeOK
    <3>3. parent[w] \in live \ S
      BY <1>1, <3>1, <3>2, <1>4, IdFacts DEF UpClosed, Clients
    <3>4. cptr[w] \in clients'
      BY <3>1 DEF S
    <3> QED
      BY <1>3, <3>1, <3>3, <3>4
  <2>6. ASSUME NEW X \in SUBSET live', X # {}, UpClosed(parent', X)
        PROVE  Root \in X
    BY <1>3, <1>5, <2>6 DEF TreeInv, TreeOK
  <2> QED
    BY <2>1, <2>2, <2>3, <2>4, <2>5, <2>6 DEF TreeOK
<1>7. TopLevelOK'
  <2>1. \A w \in live' : "W_TOP" \in flags'[w] <=> w = topWindow'
    BY <1>3, <1>4, IdFacts DEF TreeInv, TopLevelOK
  <2>2. topWindow' \in live' \union {NoWin}
    BY <1>3 DEF TreeInv, TopLevelOK
  <2>3. \A w \in Clients(live') : parent'[w] = Root => w = topWindow'
    BY <1>3, <1>4 DEF TreeInv, TopLevelOK, Clients
  <2> QED
    BY <2>1, <2>2, <2>3 DEF TopLevelOK
<1> QED
  BY <1>6, <1>7

\* A new window hangs below a window that exists, below the root only if it is
\* the W_TOP window.
LEMMA ShapeAfterCreate ==
  ASSUME TreeInv, NEW c \in clients, NEW f \in FlagSets, NEW par \in live,
         par = Root => "W_TOP" \in f, CreateWindow(c, f, par)
  PROVE  TreeOK' /\ TopLevelOK'
<1>1. PICK w \in NewId(live, winid) :
        /\ live' = live \union {w}
        /\ parent' = [parent EXCEPT ![w] = par]
        /\ cptr' = [cptr EXCEPT ![w] = c]
        /\ flags' = [flags EXCEPT ![w] = GadgetFlags(f)]
        /\ is_open' = [is_open EXCEPT ![w] = FALSE]
        /\ topWindow' = IF "W_TOP" \in f THEN w ELSE topWindow
  BY DEF CreateWindow
<1>2. w \in Id \ live /\ w # NoWin /\ w \notin {Root, Background} /\ live \subseteq Id
  BY IdFacts DEF NewId, TreeInv, TypeOK, TreeOK
<1>3. /\ \A x \in Id : /\ parent'[x] = IF x = w THEN par ELSE parent[x]
                       /\ cptr'[x] = IF x = w THEN c ELSE cptr[x]
                       /\ flags'[x] = IF x = w THEN GadgetFlags(f) ELSE flags[x]
                       /\ is_open'[x] = IF x = w THEN FALSE ELSE is_open[x]
      /\ clients' = clients
      /\ "W_TOP" \in f => topWindow = NoWin
  BY <1>1, <1>2 DEF TreeInv, TypeOK, CreateWindow
<1>4. "W_TOP" \in GadgetFlags(f) <=> "W_TOP" \in f
  BY DEF GadgetFlags
<1>a. parent'[w] = par /\ cptr'[w] = c /\ par \in live' /\ par # w /\ par # NoWin
  <2>1. parent'[w] = par /\ cptr'[w] = c
    BY <1>2, <1>3
  <2>2. par \in live' /\ par # w /\ par # NoWin
    BY <1>1, <1>2, IdFacts
  <2> QED
    BY <2>1, <2>2
<1>5. TreeOK'
  <2>1. {Background, Root} \subseteq live' /\ is_open'[Background] /\ is_open'[Root]
    BY <1>1, <1>2, <1>3, IdFacts DEF TreeInv, TreeOK
  <2>2. /\ parent'[Root] = NoWin /\ parent'[Background] = Root
        /\ cptr'[Root] = NoWin /\ cptr'[Background] = NoWin
    BY <1>2, <1>3, IdFacts DEF TreeInv, TreeOK
  <2>3. \A x \in Id \ live' : parent'[x] = NoWin
    BY <1>1, <1>3 DEF TreeInv, TreeOK
  <2>4. ASSUME NEW x \in Clients(live')
        PROVE  parent'[x] \in live' /\ cptr'[x] \in clients'
    <3>1. CASE x = w
      BY <1>3, <1>a, <3>1
    <3>2. CASE x # w
      <4>1. x \in Clients(live) /\ x \in Id
        BY <1>1, <1>2, <3>2 DEF Clients
      <4> QED
        BY <1>1, <1>3, <3>2, <4>1 DEF TreeInv, TreeOK
    <3> QED
      BY <3>1, <3>2
  <2>5. ASSUME NEW X \in SUBSET live', X # {}, UpClosed(parent', X)
        PROVE  Root \in X
    <3> DEFINE Y == X \ {w}
    <3>1. \A x \in live : parent[x] # w
      BY <1>2, IdFacts DEF TreeInv, TreeOK, Clients
    <3>2. UpClosed(parent, Y) /\ Y \in SUBSET live
      BY <1>1, <1>2, <1>3, <2>5, <3>1 DEF UpClosed
    <3>3. Y # {}
      <4>1. CASE w \in X
        BY <1>a, <2>5, <4>1 DEF UpClosed
      <4>2. CASE w \notin X
        BY <2>5, <4>2
      <4> QED
        BY <4>1, <4>2
    <3> QED
      BY <3>2, <3>3 DEF TreeInv, TreeOK
  <2> QED
    BY <2>1, <2>2, <2>3, <2>4, <2>5 DEF TreeOK
<1>6. TopLevelOK'
  <2>1. ASSUME NEW x \in live'
        PROVE  "W_TOP" \in flags'[x] <=> x = topWindow'
    <3>1. CASE x = w
      <4>1. "W_TOP" \in flags'[w] <=> "W_TOP" \in f
        BY <1>2, <1>3, <1>4
      <4>2. topWindow # w
        BY <1>2 DEF TreeInv, TopLevelOK
      <4> QED
        BY <1>1, <3>1, <4>1, <4>2
    <3>2. CASE x # w
      <4>1. x \in live /\ x # NoWin /\ flags'[x] = flags[x]
        BY <1>1, <1>2, <1>3, <3>2, IdFacts
      <4> QED
        BY <1>1, <1>3, <3>2, <4>1 DEF TreeInv, TopLevelOK
    <3> QED
      BY <3>1, <3>2
  <2>2. topWindow' \in live' \union {NoWin}
    BY <1>1 DEF TreeInv, TopLevelOK
  <2>3. ASSUME NEW x \in Clients(live'), parent'[x] = Root
        PROVE  x = topWindow'
    <3>1. CASE x = w
      BY <1>1, <1>a, <2>3, <3>1
    <3>2. CASE x # w
      <4>1. x \in Clients(live) /\ parent[x] = Root /\ x # NoWin
        BY <1>1, <1>2, <1>3, <2>3, <3>2, IdFacts DEF Clients
      <4> QED
        BY <1>1, <1>3, <4>1 DEF TreeInv, TopLevelOK
    <3> QED
      BY <3>1, <3>2
  <2> QED
    BY <2>1, <2>2, <2>3 DEF TopLevelOK
<1> QED
  BY <1>5, <1>6

\* Opening or closing one window that a client owns keeps the shape.
LEMMA ShapeAfterOpenClose ==
  ASSUME TreeInv, NEW handle \in live, NEW val \in BOOLEAN,
         handle \in {Root, Background} => val,
         is_open' = [is_open EXCEPT ![handle] = val],
         UNCHANGED <<clients, live, parent, cptr, flags, topWindow>>
  PROVE  TreeOK' /\ TopLevelOK'
<1>1. is_open'[Root] /\ is_open'[Background]
  BY IdFacts DEF TreeInv, TypeOK, TreeOK
<1> QED
  BY <1>1 DEF TreeInv, TreeOK, TopLevelOK, UpClosed, Clients

\* The windows that client c owns are not the two of the server.
LEMMA OwnedAreClients ==
  ASSUME TreeInv, NEW c \in Client
  PROVE  OwnedBy(live, c) \subseteq Clients(live)
BY IdFacts DEF TreeInv, TreeOK, OwnedBy, Clients

\* The counters stay numbers.
LEMMA OpenTyped ==
  ASSUME TypeOK, NEW S \in SUBSET Id, DoOpen(S)
  PROVE  disabled' \in Int /\ openWindows' \in [Client -> Int] /\ globOpenWindows' \in Int
<1>1. Cardinality(NoMouse(S)) \in Int /\ Cardinality(S) \in Int
  BY CountIsNat DEF NoMouse
<1>2. \A c \in Client : Cardinality(OwnedBy(S, c)) \in Int
  BY CountIsNat DEF OwnedBy
<1> QED
  BY <1>1, <1>2 DEF TypeOK, DoOpen

LEMMA CloseTyped ==
  ASSUME TypeOK, NEW S \in SUBSET Id, DoClose(S)
  PROVE  /\ disabled' \in Int
         /\ openWindows' \in [Client -> Int]
         /\ globOpenWindows' \in Int
         /\ mousepressed' \in [Button -> Pointer]
<1>1. Cardinality(NoMouse(S)) \in Int /\ Cardinality(S) \in Int
  BY CountIsNat DEF NoMouse
<1>2. \A c \in Client : Cardinality(OwnedBy(S, c)) \in Int
  BY CountIsNat DEF OwnedBy
<1>3. mousepressed' \in [Button -> Pointer]
  BY DEF TypeOK, DoClose, ForgetPressed, Pointer
<1> QED
  BY <1>1, <1>2, <1>3 DEF TypeOK, DoClose

LEMMA DeleteTyped ==
  ASSUME TypeOK, NEW S \in SUBSET Id, DoDelete(S)
  PROVE  /\ live' \subseteq Id
         /\ parent' \in [Id -> Pointer]
         /\ cptr' \in [Id -> Client \union {NoWin}]
         /\ flags' \in [Id -> SUBSET Flag]
         /\ is_open' \in [Id -> BOOLEAN]
         /\ topWindow' \in Pointer
         /\ totalWindows' \in [Client -> Int]
         /\ globTotalWindows' \in Int
<1>1. \A c \in Client : Cardinality(OwnedBy(S, c)) \in Int
  BY CountIsNat DEF OwnedBy
<1>2. Cardinality(S) \in Int
  BY CountIsNat
<1>3. totalWindows' \in [Client -> Int] /\ globTotalWindows' \in Int
  BY <1>1, <1>2 DEF TypeOK, DoDelete
<1>4. live' \subseteq Id /\ topWindow' \in Pointer
  BY DEF TypeOK, DoDelete, ReleaseTop, Pointer
<1>5. parent' \in [Id -> Pointer] /\ cptr' \in [Id -> Client \union {NoWin}]
  BY DEF TypeOK, DoDelete, Pointer
<1>6. flags' \in [Id -> SUBSET Flag] /\ is_open' \in [Id -> BOOLEAN]
  <2>1. flags' \in [Id -> SUBSET Flag]
    BY DEF TypeOK, DoDelete
  <2>2. is_open' \in [Id -> BOOLEAN]
    BY DEF TypeOK, DoDelete
  <2> QED
    BY <2>1, <2>2
<1> QED
  BY <1>3, <1>4, <1>5, <1>6

LEMMA FocusTypedAfterDelete ==
  ASSUME TypeOK, live' \subseteq Id, NEW S, NEW closing, RefocusAfterDelete(S, closing)
  PROVE  /\ activewindow' \in Pointer
         /\ activetopwin' \in Pointer
         /\ find_cache' \in Pointer
<1>1. Background \in Pointer /\ NoWin \in Pointer
  BY IdFacts DEF Pointer
<1>2. CASE Refocus
  BY <1>2, RefocusTyped
<1>3. CASE ~Refocus
  BY <1>1, <1>3 DEF RefocusAfterDelete, TypeOK
<1> QED
  BY <1>2, <1>3

\* window_newid() returns an id that is not in use, and createWindow() keeps the types.
LEMMA CreateTyped ==
  ASSUME TreeInv, NEW c \in clients, NEW f \in FlagSets, NEW par \in live,
         CreateWindow(c, f, par)
  PROVE  TypeOK'
<1>1. PICK w \in NewId(live, winid) :
        /\ winid' = NextId(w)
        /\ live' = live \union {w}
        /\ parent' = [parent EXCEPT ![w] = par]
        /\ cptr' = [cptr EXCEPT ![w] = c]
        /\ flags' = [flags EXCEPT ![w] = GadgetFlags(f)]
        /\ is_open' = [is_open EXCEPT ![w] = FALSE]
        /\ topWindow' = IF "W_TOP" \in f THEN w ELSE topWindow
  BY DEF CreateWindow
<1>2. w \in Id /\ par \in Id /\ c \in Client
  BY DEF NewId, TreeInv, TypeOK
<1>3. winid' \in Id
  <2>1. w \in Int /\ NumIds \in Nat /\ NumIds > 0
    BY <1>2, IdAssumption DEF Id
  <2> QED
    BY <1>1, <2>1 DEF Id, NextId
<1>4. GadgetFlags(f) \subseteq Flag
  BY FlagAssumption DEF GadgetFlags, Flag
<1>5. live' \subseteq Id /\ topWindow' \in Pointer
  BY <1>1, <1>2 DEF TreeInv, TypeOK, Pointer
<1>6. /\ parent' \in [Id -> Pointer]
      /\ cptr' \in [Id -> Client \union {NoWin}]
  BY <1>1, <1>2 DEF TreeInv, TypeOK, Pointer
<1>7. flags' \in [Id -> SUBSET Flag]
  BY <1>1, <1>2, <1>4 DEF TreeInv, TypeOK
<1>8. is_open' \in [Id -> BOOLEAN]
  BY <1>1, <1>2 DEF TreeInv, TypeOK
<1>9. totalWindows' \in [Client -> Int] /\ globTotalWindows' \in Int
  BY <1>2 DEF TreeInv, TypeOK, CreateWindow
<1>10. /\ UNCHANGED <<clients, openWindows, globOpenWindows, disabled, mousepressed>>
       /\ UNCHANGED <<activewindow, activetopwin, find_cache, loopmove, loop_move_window>>
  BY DEF CreateWindow, focus, moving
<1> QED
  BY <1>3, <1>5, <1>6, <1>7, <1>8, <1>9, <1>10 DEF TreeInv, TypeOK

-----------------------------------------------------------------------------
(* Every step keeps the types and the shape of the tree.                   *)

\* The windows that open or close belong to the tree.
LEMMA SubtreeTyped ==
  ASSUME live \subseteq Id, NEW opn, NEW h
  PROVE  Subtree(parent, Shown(live, parent, opn), h) \in SUBSET Id
<1>1. Shown(live, parent, opn) \subseteq live
  BY ShownIsOpen
<1>2. Subtree(parent, Shown(live, parent, opn), h) \subseteq Shown(live, parent, opn)
  BY NotBelow DEF Subtree
<1> QED
  BY <1>1, <1>2

LEMMA InitTree == Init => TreeInv
<1> SUFFICES ASSUME Init PROVE TreeInv
  OBVIOUS
<1>1. TypeOK
  <2>1. 0 \in Id
    BY IdFacts DEF Background
  <2>2. parent \in [Id -> Pointer] /\ mousepressed \in [Button -> Pointer]
    BY IdFacts DEF Init, Pointer
  <2>3. cptr \in [Id -> Client \union {NoWin}] /\ flags \in [Id -> SUBSET Flag]
    BY DEF Init
  <2>4. is_open \in [Id -> BOOLEAN]
    BY DEF Init
  <2>5. openWindows \in [Client -> Int] /\ totalWindows \in [Client -> Int]
    BY DEF Init
  <2>6. live \subseteq Id /\ clients \subseteq Client /\ winid \in Id
    BY <2>1, IdFacts DEF Init
  <2>7. /\ topWindow \in Pointer /\ activewindow \in Pointer /\ activetopwin \in Pointer
        /\ find_cache \in Pointer /\ loop_move_window \in Pointer /\ loopmove \in BOOLEAN
    BY IdFacts DEF Init, Pointer
  <2>8. globOpenWindows \in Int /\ globTotalWindows \in Int /\ disabled \in Int
    BY DEF Init
  <2> QED
    BY <2>2, <2>3, <2>4, <2>5, <2>6, <2>7, <2>8 DEF TypeOK
<1>2. TreeOK
  <2>1. /\ live = {Background, Root}
        /\ parent[Background] = Root /\ parent[Root] = NoWin
        /\ \A w \in Id \ live : parent[w] = NoWin
        /\ cptr[Root] = NoWin /\ cptr[Background] = NoWin
        /\ is_open[Background] /\ is_open[Root]
    <3>1. Root # Background
      BY DEF Root, Background
    <3>2. /\ live = {Background, Root}
          /\ parent = [w \in Id |-> IF w = Background THEN Root ELSE NoWin]
          /\ cptr = [w \in Id |-> NoWin]
          /\ is_open = [w \in Id |-> w \in {Background, Root}]
      BY DEF Init
    <3> QED
      BY <3>1, <3>2, IdFacts
  <2>2. ASSUME NEW S \in SUBSET live, S # {}, UpClosed(parent, S)
        PROVE  Root \in S
    BY <2>1, <2>2, IdFacts DEF UpClosed
  <2> QED
    BY <2>1, <2>2 DEF TreeOK, Clients
<1>3. TopLevelOK
  BY IdFacts DEF Init, TopLevelOK, Clients
<1> QED
  BY <1>1, <1>2, <1>3 DEF TreeInv

LEMMA CreateTree ==
  ASSUME TreeInv, NEW c \in clients, NEW f \in FlagSets,
         Create(c, f) \/ \E h \in Id : Create2(c, f, h)
  PROVE  TreeInv'
<1>1. PICK par \in live : CreateWindow(c, f, par) /\ (par = Root => "W_TOP" \in f)
  <2>1. CASE Create(c, f)
    BY <2>1 DEF Create, TreeInv, TreeOK, Root, Background
  <2>2. CASE \E h \in Id : Create2(c, f, h)
    <3>1. PICK h \in Id : Create2(c, f, h)
      BY <2>2
    <3>2. h \in live /\ h # Root
      BY <3>1, IdAssumption DEF Create2, Root, Id
    <3> QED
      BY <3>1, <3>2 DEF Create2
  <2> QED
    BY <2>1, <2>2
<1> QED
  BY <1>1, CreateTyped, ShapeAfterCreate DEF TreeInv

LEMMA OpenTree ==
  ASSUME TreeInv, NEW h \in Id, Open(h)
  PROVE  TreeInv'
<1> DEFINE S == Subtree(parent, Shown(live, parent, is_open'), h)
<1>1. S \in SUBSET Id
  BY SubtreeTyped DEF TreeInv, TypeOK
<1>2. h \in live /\ is_open' = [is_open EXCEPT ![h] = TRUE] /\ DoOpen(S)
  BY DEF Open
<1>3. /\ UNCHANGED <<clients, live, parent, cptr, flags, winid, topWindow>>
      /\ UNCHANGED <<totalWindows, globTotalWindows, mousepressed, loopmove, loop_move_window>>
      /\ Refocus
  BY DEF Open, moving
<1> HIDE DEF S
<1>4. TreeOK' /\ TopLevelOK'
  BY <1>2, <1>3, ShapeAfterOpenClose
<1>5. disabled' \in Int /\ openWindows' \in [Client -> Int] /\ globOpenWindows' \in Int
  BY <1>1, <1>2, OpenTyped DEF TreeInv
<1>6. is_open' \in [Id -> BOOLEAN] /\ live' \subseteq Id
  BY <1>2, <1>3 DEF TreeInv, TypeOK
<1>7. activewindow' \in Pointer /\ activetopwin' \in Pointer /\ find_cache' \in Pointer
  BY <1>3, <1>6, RefocusTyped
<1> QED
  BY <1>3, <1>4, <1>5, <1>6, <1>7 DEF TreeInv, TypeOK

LEMMA CloseTree ==
  ASSUME TreeInv, NEW h \in Id, Close(h)
  PROVE  TreeInv'
<1> DEFINE S == Unmapped(h)
<1>1. S \in SUBSET Id
  BY SubtreeTyped DEF Unmapped, TreeInv, TypeOK
<1>2. PICK val \in BOOLEAN : is_open' = [is_open EXCEPT ![h] = val]
  BY DEF Close
<1>3. h \in live /\ h \notin {Root, Background} /\ DoClose(S)
  BY IdAssumption DEF Close, Root, Background, Id
<1>4. /\ UNCHANGED <<clients, live, parent, cptr, flags, winid, topWindow>>
      /\ UNCHANGED <<totalWindows, globTotalWindows, loopmove, loop_move_window>>
      /\ Refocus
  BY DEF Close, moving
<1> HIDE DEF S
<1>5. TreeOK' /\ TopLevelOK'
  BY <1>2, <1>3, <1>4, ShapeAfterOpenClose
<1>6. /\ disabled' \in Int /\ openWindows' \in [Client -> Int] /\ globOpenWindows' \in Int
      /\ mousepressed' \in [Button -> Pointer]
  BY <1>1, <1>3, CloseTyped DEF TreeInv
<1>7. is_open' \in [Id -> BOOLEAN] /\ live' \subseteq Id
  BY <1>2, <1>4 DEF TreeInv, TypeOK
<1>8. activewindow' \in Pointer /\ activetopwin' \in Pointer /\ find_cache' \in Pointer
  BY <1>4, <1>7, RefocusTyped
<1> QED
  BY <1>4, <1>5, <1>6, <1>7, <1>8 DEF TreeInv, TypeOK

\* What Delete and KillClient have in common: the subtrees of the windows of T go.
LEMMA RemoveTree ==
  ASSUME TreeInv, NEW T \in SUBSET Clients(live), NEW closed \in SUBSET Id, NEW closing,
         DoClose(closed), DoDelete(Below(parent, live, T)),
         RefocusAfterDelete(Below(parent, live, T), closing),
         clients' \subseteq clients,
         \A w \in Clients(live) \ Below(parent, live, T) : cptr[w] \in clients',
         UNCHANGED <<winid, moving>>
  PROVE  TreeInv'
<1> DEFINE S == Below(parent, live, T)
<1>1. S \in SUBSET Id
  BY NotBelow DEF TreeInv, TypeOK
<1>2. TreeOK' /\ TopLevelOK'
  BY ShapeAfterDelete
<1> HIDE DEF S
<1>3. /\ disabled' \in Int /\ openWindows' \in [Client -> Int] /\ globOpenWindows' \in Int
      /\ mousepressed' \in [Button -> Pointer]
  BY CloseTyped DEF TreeInv
<1>4. DoDelete(S) /\ RefocusAfterDelete(S, closing)
  BY DEF S
<1>5. /\ live' \subseteq Id
      /\ parent' \in [Id -> Pointer]
      /\ cptr' \in [Id -> Client \union {NoWin}]
      /\ flags' \in [Id -> SUBSET Flag]
      /\ is_open' \in [Id -> BOOLEAN]
      /\ topWindow' \in Pointer
      /\ totalWindows' \in [Client -> Int]
      /\ globTotalWindows' \in Int
  BY <1>1, <1>4, DeleteTyped DEF TreeInv
<1>6. activewindow' \in Pointer /\ activetopwin' \in Pointer /\ find_cache' \in Pointer
  BY <1>4, <1>5, FocusTypedAfterDelete DEF TreeInv
<1>7. clients' \subseteq Client /\ winid' \in Id /\ loopmove' \in BOOLEAN
      /\ loop_move_window' \in Pointer
  BY DEF TreeInv, TypeOK, moving
<1> QED
  BY <1>2, <1>3, <1>5, <1>6, <1>7 DEF TreeInv, TypeOK

LEMMA DeleteTree ==
  ASSUME TreeInv, NEW h \in Id, Delete(h)
  PROVE  TreeInv'
<1>1. {h} \in SUBSET Clients(live)
  BY IdAssumption DEF Delete, Clients, Root, Background, Id
<1>2. Unmapped(h) \in SUBSET Id
  BY SubtreeTyped DEF Unmapped, TreeInv, TypeOK
<1>3. /\ DoClose(Unmapped(h))
      /\ DoDelete(Below(parent, live, {h}))
      /\ RefocusAfterDelete(Below(parent, live, {h}), is_open[h])
      /\ clients' = clients
      /\ UNCHANGED <<winid, moving>>
  BY DEF Delete, Subtree
<1>4. \A w \in Clients(live) : cptr[w] \in clients
  BY DEF TreeInv, TreeOK
<1> QED
  BY <1>1, <1>2, <1>3, <1>4, RemoveTree

\* No window of a killed client is left.
LEMMA KillTree ==
  ASSUME TreeInv, NEW c \in clients, KillClient(c)
  PROVE  TreeInv'
<1> DEFINE T == OwnedBy(live, c)
           closing == \E w \in OwnedBy(live, c) : is_open[w]
<1>1. T \in SUBSET Clients(live)
  BY OwnedAreClients DEF TreeInv, TypeOK
<1>2. Doomed(c) = Below(parent, live, T)
  BY DEF Doomed
<1>3. Doomed(c) \cap Shown(live, parent, is_open) \in SUBSET Id
  BY ShownIsOpen DEF TreeInv, TypeOK
<1>4. \A w \in Clients(live) \ Doomed(c) : cptr[w] \in clients \ {c}
  BY NotBelow DEF TreeInv, TreeOK, Clients, Doomed, OwnedBy
<1>5. /\ DoClose(Doomed(c) \cap Shown(live, parent, is_open))
      /\ DoDelete(Doomed(c))
      /\ RefocusAfterDelete(Doomed(c), closing)
      /\ clients' = clients \ {c}
      /\ UNCHANGED <<winid, moving>>
  BY DEF KillClient
<1> HIDE DEF T, closing
<1> QED
  BY <1>1, <1>2, <1>3, <1>4, <1>5, RemoveTree

\* The other handlers only move pointers to windows that exist.
LEMMA RestTree ==
  ASSUME TreeInv,
         \/ \E h \in Id : Resize(h) \/ Move(h)
         \/ \E c \in Client : Connect(c)
         \/ MouseMove
         \/ EndMove
         \/ \E bs \in Presses : MousePress(bs) \/ MouseRelease(bs)
  PROVE  TreeInv'
<1>1. ASSUME NEW h \in Id, Resize(h)
      PROVE  TreeInv'
  <2>1. UNCHANGED <<clients, tree, winid, topWindow, counters, moving>> /\ Refocus
    BY <1>1 DEF Resize
  <2>2. mousepressed' \in [Button -> Pointer]
    BY <1>1 DEF Resize, ForgetPressed, TreeInv, TypeOK, Pointer
  <2>3. live' \subseteq Id
    BY <2>1 DEF TreeInv, TypeOK, tree
  <2> QED
    BY <2>1, <2>2, <2>3, RefocusTyped, ShapeUnchanged
    DEF TreeInv, TypeOK, tree, counters, moving
<1>2. ASSUME UNCHANGED <<clients, tree, winid, topWindow, counters, mousepressed, moving>>,
             Refocus
      PROVE  TreeInv'
  <2>1. live' \subseteq Id
    BY <1>2 DEF TreeInv, TypeOK, tree
  <2> QED
    BY <1>2, <2>1, RefocusTyped, ShapeUnchanged DEF TreeInv, TypeOK, tree, counters, moving
<1>3. ASSUME NEW c \in Client, Connect(c)
      PROVE  TreeInv'
  <2>1. TypeOK'
    BY <1>3 DEF Connect, TreeInv, TypeOK, tree, focus, moving
  <2>2. TreeOK' /\ TopLevelOK'
    BY <1>3 DEF Connect, TreeInv, TreeOK, TopLevelOK, tree, UpClosed, Clients
  <2> QED
    BY <2>1, <2>2 DEF TreeInv
<1>4. ASSUME EndMove
      PROVE  TreeInv'
  BY <1>4, ShapeUnchanged DEF EndMove, TreeInv, TypeOK, tree, counters, focus, Pointer
<1>5. ASSUME NEW bs \in Presses, MousePress(bs)
      PROVE  TreeInv'
  <2>1. PICK win \in Findable(live, parent, is_open) :
          /\ find_cache' = win
          /\ PressWork(win, bs) \/ PressGadget(win, bs) \/ PressFrame(win, bs) \/ PressIdle(win, bs)
    BY <1>5 DEF MousePress
  <2>2. win \in Pointer
    BY ShownIsOpen DEF Findable, TreeInv, TypeOK, Pointer
  <2>3. /\ mousepressed' \in [Button -> Pointer]
        /\ loopmove' \in BOOLEAN
        /\ loop_move_window' \in Pointer
    BY <2>1, <2>2
    DEF PressWork, PressGadget, PressFrame, PressIdle, TreeInv, TypeOK, Pointer, moving
  <2>4. UNCHANGED <<clients, tree, winid, topWindow, counters, activewindow, activetopwin>>
    BY <1>5 DEF MousePress
  <2> QED
    BY <2>1, <2>2, <2>3, <2>4, ShapeUnchanged DEF TreeInv, TypeOK, tree, counters
<1>6. ASSUME NEW bs \in Presses, MouseRelease(bs)
      PROVE  TreeInv'
  BY <1>6, ShapeUnchanged
  DEF MouseRelease, TreeInv, TypeOK, tree, counters, focus, moving, Pointer
<1> QED
  BY <1>1, <1>2, <1>3, <1>4, <1>5, <1>6 DEF Move, MouseMove

THEOREM TreeInvariant == Spec => []TreeInv
<1>1. TreeInv /\ [Next]_vars => TreeInv'
  <2> SUFFICES ASSUME TreeInv, [Next]_vars PROVE TreeInv'
    OBVIOUS
  <2>1. CASE UNCHANGED vars
    BY <2>1, ShapeUnchanged
    DEF vars, tree, counters, focus, moving, TreeInv, TypeOK
  <2>2. CASE Next
    <3>1. clients \subseteq Client
      BY DEF TreeInv, TypeOK
    <3> QED
      BY <2>2, <3>1, CreateTree, OpenTree, CloseTree, DeleteTree, KillTree, RestTree DEF Next
  <2> QED
    BY <2>1, <2>2
<1> QED
  BY <1>1, InitTree, PTL DEF Spec

\* Every variable keeps its type, in every behaviour of the window server.
THEOREM TypeCorrect == Spec => []TypeOK
BY TreeInvariant, PTL DEF TreeInv

\* The windows always form one tree below the root, all owned by clients that
\* are connected.
THEOREM TreeCorrect == Spec => []TreeOK
BY TreeInvariant, PTL DEF TreeInv

\* There is at most one W_TOP window, and only it hangs below the root.
THEOREM TopLevelCorrect == Spec => []TopLevelOK
BY TreeInvariant, PTL DEF TreeInv

-----------------------------------------------------------------------------
(* The effect of the handlers on the windows that are mapped.              *)

Mapped == Shown(live, parent, is_open)

\* What createWindow() changes in the tree.
LEMMA CreateFacts ==
  ASSUME TreeInv, NEW c \in clients, NEW f \in FlagSets, NEW par \in live,
         CreateWindow(c, f, par)
  PROVE  \E w \in Id \ live :
           /\ w \notin {Root, Background, NoWin} /\ w # par
           /\ live' = live \union {w}
           /\ parent'[w] = par /\ cptr'[w] = c /\ ~is_open'[w]
           /\ \A x \in live : /\ parent'[x] = parent[x] /\ parent[x] # w
                              /\ cptr'[x] = cptr[x]
                              /\ flags'[x] = flags[x]
                              /\ is_open'[x] = is_open[x]
<1>1. PICK w \in NewId(live, winid) :
        /\ live' = live \union {w}
        /\ parent' = [parent EXCEPT ![w] = par]
        /\ cptr' = [cptr EXCEPT ![w] = c]
        /\ flags' = [flags EXCEPT ![w] = GadgetFlags(f)]
        /\ is_open' = [is_open EXCEPT ![w] = FALSE]
  BY DEF CreateWindow
<1>2. w \in Id \ live /\ w \notin {Root, Background, NoWin} /\ w # par
  BY IdFacts DEF NewId, TreeInv, TypeOK, TreeOK
<1>3. parent'[w] = par /\ cptr'[w] = c /\ ~is_open'[w]
  BY <1>1, <1>2 DEF TreeInv, TypeOK
<1>4. ASSUME NEW x \in live
      PROVE  /\ parent'[x] = parent[x] /\ cptr'[x] = cptr[x]
             /\ flags'[x] = flags[x] /\ is_open'[x] = is_open[x]
  BY <1>1, <1>2 DEF TreeInv, TypeOK
<1>5. \A x \in live : parent[x] # w
  BY <1>2, IdFacts DEF TreeInv, TreeOK, Clients
<1> QED
  BY <1>1, <1>2, <1>3, <1>4, <1>5

\* In a tree that is cut down to an upward closed part the same windows are
\* shown, as far as they are left.
LEMMA MappedAfterCreate ==
  ASSUME TreeInv, NEW c \in clients, NEW f \in FlagSets, NEW par \in live,
         CreateWindow(c, f, par)
  PROVE  Mapped' = Mapped
<1>1. PICK w \in Id \ live :
           /\ w \notin {Root, Background, NoWin} /\ w # par
           /\ live' = live \union {w}
           /\ ~is_open'[w]
           /\ \A x \in live : /\ parent'[x] = parent[x] /\ parent[x] # w
                              /\ is_open'[x] = is_open[x]
  BY CreateFacts
<1>2. UpClosed(parent', live) /\ live \in SUBSET live'
  BY <1>1, IdFacts DEF UpClosed, TreeInv, TreeOK, Clients
<1>3. \A x \in live : parent[x] = parent'[x] /\ is_open[x] = is_open'[x]
  BY <1>1
<1>4. Shown(live, parent, is_open) = Shown(live', parent', is_open') \cap live
  BY <1>2, <1>3, ShownRestrict
<1>5. Shown(live', parent', is_open') \subseteq live
  BY <1>1, ShownIsOpen
<1> QED
  BY <1>4, <1>5 DEF Mapped

LEMMA MappedAfterOpen ==
  ASSUME TreeInv, NEW h \in Id, Open(h)
  PROVE  /\ Mapped \subseteq Mapped'
         /\ Mapped' \ Subtree(parent, Shown(live, parent, is_open'), h) = Mapped
<1>1. /\ h \in live /\ ~is_open[h] /\ is_open'[h]
      /\ \A w \in live \ {h} : is_open'[w] = is_open[w]
      /\ live' = live /\ parent' = parent
  BY DEF Open, TreeInv, TypeOK
<1> QED
  BY <1>1, ShownOpen DEF Mapped

LEMMA MappedAfterClose ==
  ASSUME TreeInv, NEW h \in Id, Close(h)
  PROVE  Mapped' = Mapped \ Unmapped(h)
<1>1. /\ h \in live /\ is_open[h]
      /\ is_open' = [is_open EXCEPT ![h] = h \notin Unmapped(h)]
      /\ live' = live /\ parent' = parent
  BY DEF Close
<1>2. CASE h \in Unmapped(h)
  <2>1. ~is_open'[h] /\ \A w \in live \ {h} : is_open'[w] = is_open[w]
    BY <1>1, <1>2 DEF TreeInv, TypeOK
  <2>2. Shown(live, parent, is_open')
        = Shown(live, parent, is_open) \ Subtree(parent, Shown(live, parent, is_open), h)
    <3>1. /\ h \in live /\ is_open[h] /\ ~is_open'[h]
          /\ \A w \in live \ {h} : is_open[w] = is_open'[w]
      BY <1>1, <2>1
    <3> QED
      BY <3>1, ShownOpen
  <2> QED
    BY <1>1, <2>2 DEF Mapped, Unmapped
<1>3. CASE h \notin Unmapped(h)
  <2>1. is_open' = is_open
    BY <1>1, <1>3 DEF TreeInv, TypeOK
  <2>2. h \notin Mapped
    BY <1>3, NotBelow DEF Unmapped, Subtree, Mapped
  <2>3. UpClosed(parent, Mapped)
    BY ShownIsOpen DEF Mapped
  <2>4. Mapped \cap Below(parent, Mapped, {h}) = {}
    BY <2>2, <2>3, AvoidsBelow
  <2> QED
    BY <1>1, <2>1, <2>4 DEF Mapped, Unmapped, Subtree
<1> QED
  BY <1>2, <1>3

\* Of the subtrees below T that are deleted, the mapped windows disappear.
LEMMA MappedAfterDelete ==
  ASSUME TreeInv, NEW T, DoDelete(Below(parent, live, T))
  PROVE  /\ Mapped' = Mapped \ Below(parent, live, T)
         /\ live' = live \ Below(parent, live, T)
         /\ UpClosed(parent, live')
         /\ \A w \in live' : /\ parent'[w] = parent[w]
                             /\ is_open'[w] = is_open[w]
                             /\ flags'[w] = flags[w]
                             /\ cptr'[w] = cptr[w]
<1> DEFINE S == Below(parent, live, T)
<1>1. UpClosed(parent, live \ S) /\ live \subseteq Id
  BY NotBelow DEF TreeInv, TypeOK
<1>2. live' = live \ S
  BY DEF DoDelete
<1>3. \A w \in Id \ S : /\ parent'[w] = parent[w]
                        /\ is_open'[w] = is_open[w]
                        /\ flags'[w] = flags[w]
                        /\ cptr'[w] = cptr[w]
  BY DEF DoDelete, TreeInv, TypeOK
<1> HIDE DEF S
<1>4. \A w \in live' : /\ parent'[w] = parent[w] /\ is_open'[w] = is_open[w]
                       /\ flags'[w] = flags[w] /\ cptr'[w] = cptr[w]
  BY <1>1, <1>2, <1>3
<1>5. live' \in SUBSET live /\ UpClosed(parent, live')
  BY <1>1, <1>2
<1>6. Shown(live', parent', is_open') = Shown(live, parent, is_open) \cap live'
  <2>1. \A w \in live' : parent'[w] = parent[w] /\ is_open'[w] = is_open[w]
    BY <1>4
  <2> QED
    BY <1>5, <2>1, ShownRestrict
<1>7. Shown(live, parent, is_open) \subseteq live
  BY ShownIsOpen
<1>8. Mapped' = Mapped \ S
  BY <1>2, <1>6, <1>7 DEF Mapped
<1> QED
  BY <1>2, <1>4, <1>5, <1>8 DEF S

\* The mapped windows of a subtree are its mapped descendants.
LEMMA UnmappedInSubtree ==
  ASSUME NEW h
  PROVE  Unmapped(h) = Subtree(parent, live, h) \cap Mapped
<1>1. Mapped \in SUBSET live /\ UpClosed(parent, Mapped)
  BY ShownIsOpen DEF Mapped
<1> QED
  BY <1>1, BelowRestrict DEF Unmapped, Subtree, Mapped

-----------------------------------------------------------------------------
(* Pending mouse buttons.                                                  *)

\* A handler that only ever shows more windows, or forgets the buttons pressed
\* in those that it hides, keeps PressedShown.
LEMMA PressedAfter ==
  ASSUME PressedShown, NEW S, Mapped \ S \subseteq Mapped',
         \A b \in Button : \/ mousepressed'[b] = NoWin
                           \/ mousepressed'[b] = mousepressed[b] /\ mousepressed[b] \notin S
  PROVE  PressedShown'
BY DEF PressedShown, Mapped, Clients

LEMMA ForgetFacts ==
  ASSUME NEW S, ForgetPressed(S)
  PROVE  \A b \in Button : \/ mousepressed'[b] = NoWin
                           \/ mousepressed'[b] = mousepressed[b] /\ mousepressed[b] \notin S
BY DEF ForgetPressed

LEMMA PressedStep == TreeInv /\ PressedShown /\ [Next]_vars => PressedShown'
<1> SUFFICES ASSUME TreeInv, PressedShown, [Next]_vars PROVE PressedShown'
  OBVIOUS
<1>0. clients \subseteq Client
  BY DEF TreeInv, TypeOK
<1>1. ASSUME NEW c \in clients, NEW f \in FlagSets, NEW par \in live, CreateWindow(c, f, par)
      PROVE  PressedShown'
  <2>1. Mapped' = Mapped /\ mousepressed' = mousepressed
    BY <1>1, MappedAfterCreate DEF CreateWindow
  <2> QED
    BY <2>1 DEF PressedShown, Mapped
<1>2. ASSUME NEW h \in Id, Open(h)
      PROVE  PressedShown'
  <2>1. Mapped \subseteq Mapped' /\ mousepressed' = mousepressed
    BY <1>2, MappedAfterOpen DEF Open
  <2> QED
    BY <2>1 DEF PressedShown, Mapped, Clients
<1>3. ASSUME NEW h \in Id, Close(h)
      PROVE  PressedShown'
  <2>1. Mapped' = Mapped \ Unmapped(h) /\ ForgetPressed(Unmapped(h))
    BY <1>3, MappedAfterClose DEF Close, DoClose
  <2> QED
    BY <2>1, ForgetFacts, PressedAfter
<1>4. ASSUME NEW T, NEW S, DoDelete(Below(parent, live, T)), ForgetPressed(S),
             S = Below(parent, live, T) \cap Mapped
      PROVE  PressedShown'
  <2>1. Mapped' = Mapped \ Below(parent, live, T)
    BY <1>4, MappedAfterDelete
  <2>2. Mapped \ S \subseteq Mapped'
    BY <1>4, <2>1
  <2> QED
    BY <1>4, <2>2, ForgetFacts, PressedAfter
<1>5. ASSUME NEW h \in Id, Delete(h)
      PROVE  PressedShown'
  <2>1. DoDelete(Below(parent, live, {h})) /\ ForgetPressed(Unmapped(h))
    BY <1>5 DEF Delete, DoClose, Subtree
  <2>2. Unmapped(h) = Below(parent, live, {h}) \cap Mapped
    BY UnmappedInSubtree DEF Subtree
  <2> QED
    BY <1>4, <2>1, <2>2
<1>6. ASSUME NEW c \in clients, KillClient(c)
      PROVE  PressedShown'
  <2>1. /\ DoDelete(Below(parent, live, OwnedBy(live, c)))
        /\ ForgetPressed(Doomed(c) \cap Mapped)
    BY <1>6 DEF KillClient, DoClose, Doomed, Mapped
  <2> QED
    BY <1>4, <2>1 DEF Doomed
<1>7. ASSUME UNCHANGED tree,
             \A b \in Button : \/ mousepressed'[b] \in {NoWin, mousepressed[b]}
                               \/ mousepressed'[b] \in Clients(Mapped)
      PROVE  PressedShown'
  BY <1>7 DEF PressedShown, Mapped, tree
<1>8. ASSUME NEW h \in Id, Resize(h)
      PROVE  PressedShown'
  BY <1>7, <1>8 DEF Resize, ForgetPressed
<1>9. ASSUME NEW bs \in Presses, MousePress(bs)
      PROVE  PressedShown'
  <2>1. PICK win \in Findable(live, parent, is_open) :
          PressWork(win, bs) \/ PressGadget(win, bs) \/ PressFrame(win, bs) \/ PressIdle(win, bs)
    BY <1>9 DEF MousePress
  <2>2. win # Background => win \in Clients(Mapped)
    BY DEF Findable, Clients, Mapped
  <2>3. \A b \in Button : \/ mousepressed'[b] \in {NoWin, mousepressed[b]}
                          \/ mousepressed'[b] \in Clients(Mapped)
    BY <2>1, <2>2 DEF PressWork, PressGadget, PressFrame, PressIdle
  <2>4. UNCHANGED tree
    BY <1>9 DEF MousePress
  <2> QED
    BY <1>7, <2>3, <2>4
<1>10. ASSUME NEW h \in Id, Move(h)
       PROVE  PressedShown'
  BY <1>7, <1>10 DEF Move
<1>11. ASSUME NEW c \in Client, Connect(c)
       PROVE  PressedShown'
  BY <1>7, <1>11 DEF Connect
<1>12. ASSUME NEW bs \in Presses, MouseRelease(bs)
       PROVE  PressedShown'
  BY <1>7, <1>12 DEF MouseRelease
<1>13. CASE EndMove
  BY <1>7, <1>13 DEF EndMove
<1>14. CASE MouseMove
  BY <1>7, <1>14 DEF MouseMove, Move
<1>15. CASE UNCHANGED vars
  BY <1>7, <1>15 DEF vars
<1>16. ASSUME NEW c \in clients, NEW f \in FlagSets,
              Create(c, f) \/ \E h \in Id : Create2(c, f, h)
       PROVE  PressedShown'
  BY <1>1, <1>16 DEF Create, Create2, TreeInv, TreeOK
<1> QED
  BY <1>2, <1>3, <1>5, <1>6, <1>8, <1>9, <1>10, <1>11, <1>12, <1>13, <1>14, <1>15, <1>16 DEF Next

\* A window that waits for the release of a mouse button is mapped, whatever
\* the clients open, close and delete in the meantime.
THEOREM PressedCorrect == Spec => []PressedShown
<1>1. Init => PressedShown
  BY DEF Init, PressedShown
<1> QED
  BY <1>1, TreeInvariant, PressedStep, PTL DEF Spec

-----------------------------------------------------------------------------
(* The focus.                                                              *)

\* In an upward closed part M of the tree, or in a tree that agrees with it
\* there, a window has the same toplevel windows.
LEMMA ToplevelRestrict ==
  ASSUME NEW L, NEW par, NEW flg, NEW M \in SUBSET L, UpClosed(par, M),
         NEW par2, NEW flg2,
         \A w \in M : par2[w] = par[w] /\ flg2[w] = flg[w],
         NEW win \in M
  PROVE  Toplevel(M, par2, flg2, win) = Toplevel(L, par, flg, win)
<1>1. ASSUME NEW t \in M
      PROVE  \A x \in M : x \in Subtree(par2, M, t) <=> x \in Subtree(par, L, t)
  <2>1. Below(par2, M, {t}) = Below(par, M, {t})
    BY DEF Below, UpClosed
  <2> QED
    BY <2>1, BelowRestrict DEF Subtree
<1>2. ASSUME NEW t \in L, win \in Subtree(par, L, t)
      PROVE  t \in M
  <2>1. t \notin M => M \in SUBSET (L \ {t})
    OBVIOUS
  <2> QED
    BY <1>2, <2>1, AvoidsBelow DEF Subtree
<1> DEFINE TopsM == {t \in M : /\ win \in Subtree(par2, M, t)
                               /\ par2[t] = Background \/ "W_TOP" \in flg2[t]}
           TopsL == {t \in L : /\ win \in Subtree(par, L, t)
                               /\ par[t] = Background \/ "W_TOP" \in flg[t]}
<1>3. TopsM = TopsL
  BY <1>1, <1>2
<1>4. TopsM \subseteq M
  OBVIOUS
<1>5. {t \in TopsM : \A u \in TopsM : t \in Subtree(par2, M, u)}
      = {t \in TopsL : \A u \in TopsL : t \in Subtree(par, L, u)}
  <2> HIDE DEF TopsM, TopsL
  <2> QED
    BY <1>1, <1>3, <1>4
<1> QED
  BY <1>5 DEF Toplevel

LEMMA RefocusFocuses ==
  ASSUME Refocus
  PROVE  FocusShown'
BY DEF Refocus, ChangeActiveWindow, FocusShown

LEMMA FocusSame ==
  ASSUME FocusShown, UNCHANGED <<tree, activewindow, activetopwin>>,
         find_cache' = find_cache \/ find_cache' \in Findable(live, parent, is_open)
  PROVE  FocusShown'
BY DEF FocusShown, tree, Findable, Toplevel

LEMMA FocusStep == TreeInv /\ FocusShown /\ [Next]_vars => FocusShown'
<1> SUFFICES ASSUME TreeInv, FocusShown, [Next]_vars PROVE FocusShown'
  OBVIOUS
<1>0. /\ clients \subseteq Client
      /\ activewindow \in live /\ activewindow # NoWin
  BY ShownIsOpen, IdFacts DEF TreeInv, TypeOK, FocusShown, Findable
<1>1. ASSUME NEW c \in clients, NEW f \in FlagSets, NEW par \in live, CreateWindow(c, f, par)
      PROVE  FocusShown'
  <2>1. Findable(live', parent', is_open') = Findable(live, parent, is_open)
    BY <1>1, MappedAfterCreate DEF Findable, Mapped
  <2>2. PICK w \in Id \ live :
           /\ w # par /\ live' = live \union {w}
           /\ \A x \in live : /\ parent'[x] = parent[x] /\ parent[x] # w
                              /\ flags'[x] = flags[x]
    BY <1>1, CreateFacts
  <2>3. UpClosed(parent', live) /\ live \in SUBSET live'
    BY <2>2, IdFacts DEF UpClosed, TreeInv, TreeOK, Clients
  <2>4. \A x \in live : parent[x] = parent'[x] /\ flags[x] = flags'[x]
    BY <2>2
  <2>5. Toplevel(live, parent, flags, activewindow)
        = Toplevel(live', parent', flags', activewindow)
    BY <1>0, <2>3, <2>4, ToplevelRestrict
  <2>6. UNCHANGED <<activewindow, activetopwin, find_cache>>
    BY <1>1 DEF CreateWindow, focus
  <2> QED
    BY <2>1, <2>5, <2>6 DEF FocusShown
<1>2. ASSUME NEW T, T \subseteq Clients(live), DoDelete(Below(parent, live, T)),
             RefocusAfterDelete(Below(parent, live, T), FALSE), Mapped \cap T = {}
      PROVE  FocusShown'
  <2> DEFINE S == Below(parent, live, T)
  <2>1. /\ live' = live \ S /\ UpClosed(parent, live') /\ Mapped' = Mapped \ S
        /\ \A w \in live' : parent'[w] = parent[w] /\ flags'[w] = flags[w]
    BY <1>2, MappedAfterDelete
  <2>2. Mapped \cap S = {}
    <3>1. UpClosed(parent, Mapped) /\ Mapped \in SUBSET (live \ T)
      BY <1>2, ShownIsOpen DEF Mapped
    <3> QED
      BY <3>1, AvoidsBelow
  <2>3. Findable(live', parent', is_open') = Findable(live, parent, is_open)
    BY <2>1, <2>2 DEF Findable, Mapped
  <2>4. Background \notin S
    <3>1. {Root, Background} \in SUBSET (live \ T) /\ UpClosed(parent, {Root, Background})
      BY <1>2 DEF TreeInv, TreeOK, UpClosed, Clients
    <3> QED
      BY <3>1, AvoidsBelow
  <2>5. /\ activewindow' = IF activewindow \in S THEN Background ELSE activewindow
        /\ activetopwin' = IF activetopwin \in S THEN Background ELSE activetopwin
        /\ find_cache' = IF find_cache \in S THEN NoWin ELSE find_cache
    BY <1>2 DEF RefocusAfterDelete
  <2>6. activewindow \notin S /\ activewindow \in live'
    BY <1>0, <2>1, <2>2 DEF FocusShown, Findable, Mapped
  <2>7. activetopwin \notin S
    <3>1. CASE activewindow = Background
      BY <2>4, <3>1 DEF FocusShown, Toplevel
    <3>2. CASE activewindow # Background
      <4>1. activewindow \in Below(parent, live, {activetopwin})
        BY <3>2 DEF FocusShown, Toplevel, Subtree
      <4>2. activetopwin \in S => live' \in SUBSET (live \ {activetopwin})
        BY <2>1
      <4> QED
        BY <2>1, <2>6, <4>1, <4>2, AvoidsBelow
    <3> QED
      BY <3>1, <3>2
  <2> HIDE DEF S
  <2>8. Toplevel(live', parent', flags', activewindow)
        = Toplevel(live, parent, flags, activewindow)
    <3>1. live' \in SUBSET live
      BY <2>1
    <3> QED
      BY <2>1, <2>6, <3>1, ToplevelRestrict
  <2>9. activewindow' = activewindow /\ activetopwin' = activetopwin
    BY <2>5, <2>6, <2>7
  <2> QED
    BY <2>3, <2>5, <2>8, <2>9 DEF FocusShown
<1>3. ASSUME NEW h \in Id, Delete(h)
      PROVE  FocusShown'
  <2>1. CASE is_open[h]
    BY <1>3, <2>1, RefocusFocuses DEF Delete, RefocusAfterDelete
  <2>2. CASE ~is_open[h]
    <3>1. {h} \subseteq Clients(live)
      BY <1>3, IdAssumption DEF Delete, Clients, Root, Background, Id
    <3>2. Mapped \cap {h} = {}
      BY <2>2, ShownIsOpen DEF Mapped
    <3>3. /\ DoDelete(Below(parent, live, {h}))
          /\ RefocusAfterDelete(Below(parent, live, {h}), FALSE)
      BY <1>3, <2>2 DEF Delete, Subtree, RefocusAfterDelete
    <3> QED
      BY <1>2, <3>1, <3>2, <3>3
  <2> QED
    BY <2>1, <2>2
<1>4. ASSUME NEW c \in clients, KillClient(c)
      PROVE  FocusShown'
  <2>1. CASE \E w \in OwnedBy(live, c) : is_open[w]
    BY <1>4, <2>1, RefocusFocuses DEF KillClient, RefocusAfterDelete
  <2>2. CASE ~ \E w \in OwnedBy(live, c) : is_open[w]
    <3>1. OwnedBy(live, c) \subseteq Clients(live)
      BY <1>0, OwnedAreClients
    <3>2. Mapped \cap OwnedBy(live, c) = {}
      BY <2>2, ShownIsOpen DEF Mapped
    <3>3. /\ DoDelete(Below(parent, live, OwnedBy(live, c)))
          /\ RefocusAfterDelete(Below(parent, live, OwnedBy(live, c)), FALSE)
      BY <1>4, <2>2 DEF KillClient, Doomed, RefocusAfterDelete
    <3> QED
      BY <1>2, <3>1, <3>2, <3>3
  <2> QED
    BY <2>1, <2>2
<1>5. ASSUME NEW h \in Id, Open(h) \/ Close(h) \/ Resize(h) \/ Move(h)
      PROVE  FocusShown'
  BY <1>5, RefocusFocuses DEF Open, Close, Resize, Move
<1>6. CASE MouseMove
  BY <1>6, RefocusFocuses DEF MouseMove, Move
<1>7. ASSUME NEW c \in Client, Connect(c)
      PROVE  FocusShown'
  BY <1>7, FocusSame DEF Connect, focus
<1>8. CASE EndMove
  BY <1>8, FocusSame DEF EndMove, focus
<1>9. ASSUME NEW bs \in Presses, MousePress(bs) \/ MouseRelease(bs)
      PROVE  FocusShown'
  BY <1>9, FocusSame DEF MousePress, MouseRelease, focus
<1>10. CASE UNCHANGED vars
  BY <1>10, FocusSame DEF vars, focus
<1>11. ASSUME NEW c \in clients, NEW f \in FlagSets,
              Create(c, f) \/ \E h \in Id : Create2(c, f, h)
       PROVE  FocusShown'
  BY <1>1, <1>11 DEF Create, Create2, TreeInv, TreeOK
<1> QED
  BY <1>3, <1>4, <1>5, <1>6, <1>7, <1>8, <1>9, <1>10, <1>11 DEF Next

\* The focus is always in a mapped window and the highlighted toplevel window
\* is the one above it; the cache of window_find() never holds a freed window.
THEOREM FocusCorrect == Spec => []FocusShown
<1>1. Init => FocusShown
  <2> SUFFICES ASSUME Init PROVE FocusShown
    OBVIOUS
  <2>1. {Root, Background} \in SUBSET {w \in live : is_open[w]}
    BY IdFacts DEF Init
  <2>2. UpClosed(parent, {Root, Background})
    BY InitTree DEF TreeInv, TreeOK, UpClosed
  <2>3. Background \in Findable(live, parent, is_open)
    BY <2>1, <2>2, ShownLargest DEF Findable, Root, Background
  <2> QED
    BY <2>3 DEF Init, FocusShown, Toplevel
<1> QED
  BY <1>1, TreeInvariant, FocusStep, PTL DEF Spec

-----------------------------------------------------------------------------
(* The counters.                                                           *)

LEMMA CardMinus ==
  ASSUME NEW A \in SUBSET Id, NEW S \in SUBSET A
  PROVE  Cardinality(A \ S) = Cardinality(A) - Cardinality(S)
<1>1. /\ IsFiniteSet(A \ S) /\ IsFiniteSet(S) /\ IsFiniteSet(A)
      /\ Cardinality(A \ S) \in Nat /\ Cardinality(S) \in Nat /\ Cardinality(A) \in Nat
  <2>1. A \ S \in SUBSET Id /\ S \in SUBSET Id
    OBVIOUS
  <2> QED
    BY <2>1, CountIsNat
<1>2. A = (A \ S) \union S /\ (A \ S) \cap S = {}
  OBVIOUS
<1>3. Cardinality((A \ S) \union S)
      = Cardinality(A \ S) + Cardinality(S) - Cardinality((A \ S) \cap S)
  BY <1>1, FS_Union
<1>4. Cardinality({}) = 0
  BY FS_EmptySet
<1> QED
  BY <1>1, <1>2, <1>3, <1>4

LEMMA CardPlusOne ==
  ASSUME NEW A \in SUBSET Id, NEW w \in Id \ A
  PROVE  Cardinality(A \union {w}) = Cardinality(A) + 1
BY CountIsNat, FS_AddElement

\* Taking the windows of S away takes away their share of each count.
LEMMA CountsMinus ==
  ASSUME NEW A \in SUBSET Id, NEW S \in SUBSET A
  PROVE  /\ Cardinality(A \ S) = Cardinality(A) - Cardinality(S)
         /\ Cardinality(NoMouse(A \ S)) = Cardinality(NoMouse(A)) - Cardinality(NoMouse(S))
         /\ \A c \in Client : Cardinality(OwnedBy(A \ S, c))
                              = Cardinality(OwnedBy(A, c)) - Cardinality(OwnedBy(S, c))
<1>1. /\ NoMouse(A \ S) = NoMouse(A) \ NoMouse(S)
      /\ NoMouse(S) \in SUBSET NoMouse(A) /\ NoMouse(A) \in SUBSET Id
  BY DEF NoMouse
<1>2. ASSUME NEW c \in Client
      PROVE  /\ OwnedBy(A \ S, c) = OwnedBy(A, c) \ OwnedBy(S, c)
             /\ OwnedBy(S, c) \in SUBSET OwnedBy(A, c) /\ OwnedBy(A, c) \in SUBSET Id
  BY DEF OwnedBy
<1>3. Cardinality(NoMouse(A \ S)) = Cardinality(NoMouse(A)) - Cardinality(NoMouse(S))
  BY <1>1, CardMinus
<1>4. ASSUME NEW c \in Client
      PROVE  Cardinality(OwnedBy(A \ S, c))
             = Cardinality(OwnedBy(A, c)) - Cardinality(OwnedBy(S, c))
  BY <1>2, CardMinus
<1> QED
  BY <1>3, <1>4, CardMinus

AllExact ==
  /\ globTotalWindows = Cardinality(Clients(live))
  /\ \A c \in Client : totalWindows[c] = Cardinality(OwnedBy(Clients(live), c))
ShownExact ==
  /\ globOpenWindows = Cardinality(Clients(Mapped))
  /\ disabled = Cardinality(NoMouse(Clients(Mapped)))
  /\ \A c \in Client : openWindows[c] = Cardinality(OwnedBy(Clients(Mapped), c))

LEMMA CountersParts ==
  /\ CountersExact <=> AllExact /\ ShownExact
  /\ CountersExact' <=> AllExact' /\ ShownExact'
BY DEF CountersExact, AllExact, ShownExact, Mapped

\* Below windows that clients own there is neither root nor background.
LEMMA BelowClients ==
  ASSUME TreeInv, NEW M \in SUBSET live, NEW T, T \cap {Root, Background} = {},
         {Root, Background} \subseteq M
  PROVE  Below(parent, M, T) \in SUBSET Clients(M)
<1>1. {Root, Background} \in SUBSET (M \ T) /\ UpClosed(parent, {Root, Background})
  BY DEF TreeInv, TreeOK, UpClosed
<1> QED
  BY <1>1, AvoidsBelow, NotBelow DEF Clients

LEMMA ServerWindowsMapped ==
  ASSUME TreeInv
  PROVE  {Root, Background} \subseteq Mapped /\ Mapped \in SUBSET live /\ Mapped \in SUBSET Id
<1>1. /\ {Root, Background} \in SUBSET {w \in live : is_open[w]}
      /\ UpClosed(parent, {Root, Background})
  BY DEF TreeInv, TreeOK, UpClosed
<1>2. live \subseteq Id
  BY DEF TreeInv, TypeOK
<1> QED
  BY <1>1, <1>2, ShownLargest, ShownIsOpen DEF Mapped

LEMMA ExactUnchanged ==
  /\ AllExact /\ UNCHANGED <<live, cptr, totalWindows, globTotalWindows>> => AllExact'
  /\ ShownExact /\ UNCHANGED <<tree, openWindows, globOpenWindows, disabled>> => ShownExact'
BY DEF AllExact, ShownExact, OwnedBy, NoMouse, Mapped, tree

\* Hiding the mapped windows of S, with client_do_close().
LEMMA ShownExactAfterClose ==
  ASSUME TreeInv, ShownExact, NEW S \in SUBSET Clients(Mapped), DoClose(S),
         Mapped' = Mapped \ S,
         \A w \in Mapped' : flags'[w] = flags[w] /\ cptr'[w] = cptr[w]
  PROVE  ShownExact'
<1>1. Clients(Mapped)' = Clients(Mapped) \ S
  BY DEF Clients
<1>2. Clients(Mapped) \in SUBSET Id /\ S \in SUBSET Clients(Mapped)
  BY ServerWindowsMapped DEF Clients
<1>3. NoMouse(Clients(Mapped))' = NoMouse(Clients(Mapped) \ S)
  BY DEF NoMouse, Clients
<1>4. \A c \in Client : OwnedBy(Clients(Mapped), c)' = OwnedBy(Clients(Mapped) \ S, c)
  BY DEF OwnedBy, Clients
<1>5. /\ globOpenWindows' = Cardinality(Clients(Mapped) \ S)
      /\ disabled' = Cardinality(NoMouse(Clients(Mapped) \ S))
      /\ \A c \in Client : openWindows'[c] = Cardinality(OwnedBy(Clients(Mapped) \ S, c))
  BY <1>2, CountsMinus DEF ShownExact, DoClose
<1> QED
  BY <1>1, <1>3, <1>4, <1>5 DEF ShownExact

\* Showing the windows of S, with client_do_open().
LEMMA ShownExactAfterOpen ==
  ASSUME TreeInv, ShownExact, NEW S, DoOpen(S), NEW new \in SUBSET Id,
         Clients(Mapped)' = new, S \in SUBSET new, Clients(Mapped) = new \ S,
         UNCHANGED <<flags, cptr>>
  PROVE  ShownExact'
<1>1. NoMouse(Clients(Mapped))' = NoMouse(new)
  BY DEF NoMouse
<1>2. \A c \in Client : OwnedBy(Clients(Mapped), c)' = OwnedBy(new, c)
  BY DEF OwnedBy
<1>3. /\ Cardinality(S) \in Nat /\ Cardinality(new) \in Nat
      /\ Cardinality(NoMouse(S)) \in Nat /\ Cardinality(NoMouse(new)) \in Nat
      /\ \A c \in Client : /\ Cardinality(OwnedBy(S, c)) \in Nat
                           /\ Cardinality(OwnedBy(new, c)) \in Nat
  <2>1. /\ S \in SUBSET Id /\ NoMouse(S) \in SUBSET Id /\ NoMouse(new) \in SUBSET Id
        /\ \A c \in Client : OwnedBy(S, c) \in SUBSET Id /\ OwnedBy(new, c) \in SUBSET Id
    BY DEF NoMouse, OwnedBy
  <2> QED
    BY <2>1, CountIsNat
<1>4. /\ globOpenWindows = Cardinality(new) - Cardinality(S)
      /\ disabled = Cardinality(NoMouse(new)) - Cardinality(NoMouse(S))
      /\ \A c \in Client : openWindows[c]
           = Cardinality(OwnedBy(new, c)) - Cardinality(OwnedBy(S, c))
  BY CountsMinus DEF ShownExact
<1>5. /\ globOpenWindows' = Cardinality(new)
      /\ disabled' = Cardinality(NoMouse(new))
  BY <1>3, <1>4 DEF DoOpen
<1>6. \A c \in Client : openWindows'[c] = Cardinality(OwnedBy(new, c))
  BY <1>3, <1>4 DEF DoOpen
<1> QED
  BY <1>1, <1>2, <1>5, <1>6 DEF ShownExact

\* Deleting the windows of S, with client_do_delete().
LEMMA AllExactAfterDelete ==
  ASSUME TreeInv, AllExact, NEW S \in SUBSET Clients(live), DoDelete(S)
  PROVE  AllExact'
<1>1. Clients(live)' = Clients(live) \ S
  BY DEF Clients, DoDelete
<1>2. Clients(live) \in SUBSET Id
  BY DEF Clients, TreeInv, TypeOK
<1>3. \A c \in Client : OwnedBy(Clients(live), c)' = OwnedBy(Clients(live) \ S, c)
  BY <1>1, <1>2 DEF OwnedBy, DoDelete
<1>4. /\ globTotalWindows' = Cardinality(Clients(live) \ S)
      /\ \A c \in Client : totalWindows'[c] = Cardinality(OwnedBy(Clients(live) \ S, c))
  <2>1. /\ Cardinality(Clients(live) \ S) = Cardinality(Clients(live)) - Cardinality(S)
        /\ \A c \in Client : Cardinality(OwnedBy(Clients(live) \ S, c))
             = Cardinality(OwnedBy(Clients(live), c)) - Cardinality(OwnedBy(S, c))
    BY <1>2, CountsMinus
  <2>2. globTotalWindows = Cardinality(Clients(live)) /\ globTotalWindows' = globTotalWindows - Cardinality(S)
    BY DEF AllExact, DoDelete
  <2>3. ASSUME NEW c \in Client
        PROVE  /\ totalWindows[c] = Cardinality(OwnedBy(Clients(live), c))
               /\ totalWindows'[c] = totalWindows[c] - Cardinality(OwnedBy(S, c))
    BY DEF AllExact, DoDelete
  <2> QED
    BY <2>1, <2>2, <2>3
<1> QED
  BY <1>1, <1>3, <1>4 DEF AllExact

LEMMA CreateExact ==
  ASSUME TreeInv, AllExact, ShownExact,
         NEW c \in clients, NEW f \in FlagSets, NEW par \in live, CreateWindow(c, f, par)
  PROVE  AllExact' /\ ShownExact'
<1>1. PICK w \in Id \ live :
        /\ w \notin {Root, Background}
        /\ live' = live \union {w} /\ cptr'[w] = c
        /\ \A x \in live : cptr'[x] = cptr[x] /\ flags'[x] = flags[x]
  BY CreateFacts
<1>2. /\ totalWindows' = [totalWindows EXCEPT ![c] = @ + 1]
      /\ globTotalWindows' = globTotalWindows + 1
      /\ UNCHANGED <<openWindows, globOpenWindows, disabled>>
  BY DEF CreateWindow
<1>3. AllExact'
  <2>1. Clients(live)' = Clients(live) \union {w} /\ w \notin Clients(live)
    BY <1>1 DEF Clients
  <2>2. Clients(live) \in SUBSET Id /\ c \in Client
    BY DEF Clients, TreeInv, TypeOK
  <2>3. Cardinality(Clients(live)') = Cardinality(Clients(live)) + 1
    BY <1>1, <2>1, <2>2, CardPlusOne
  <2>4. ASSUME NEW d \in Client
        PROVE  totalWindows'[d] = Cardinality(OwnedBy(Clients(live), d)')
    <3> DEFINE O == OwnedBy(Clients(live), d)
    <3>1. O \in SUBSET Id /\ w \in Id \ O
      BY <1>1, <2>1, <2>2 DEF OwnedBy
    <3>2. OwnedBy(Clients(live), d)' = IF d = c THEN O \union {w} ELSE O
      BY <1>1, <2>1 DEF OwnedBy, Clients
    <3>3. Cardinality(O \union {w}) = Cardinality(O) + 1
      BY <3>1, CardPlusOne
    <3>4. totalWindows'[d] = IF d = c THEN totalWindows[d] + 1 ELSE totalWindows[d]
      BY <1>2 DEF TreeInv, TypeOK
    <3> QED
      BY <3>2, <3>3, <3>4 DEF AllExact
  <2> QED
    BY <1>2, <2>3, <2>4 DEF AllExact
<1>4. ShownExact'
  <2>1. Mapped' = Mapped /\ Mapped \subseteq live
    BY MappedAfterCreate, ServerWindowsMapped
  <2>2. NoMouse(Clients(Mapped))' = NoMouse(Clients(Mapped))
    BY <1>1, <2>1 DEF NoMouse, Clients
  <2>3. \A d \in Client : OwnedBy(Clients(Mapped), d)' = OwnedBy(Clients(Mapped), d)
    BY <1>1, <2>1 DEF OwnedBy, Clients
  <2>4. Clients(Mapped)' = Clients(Mapped)
    BY <2>1 DEF Clients
  <2> QED
    BY <1>2, <2>2, <2>3, <2>4 DEF ShownExact
<1> QED
  BY <1>3, <1>4

LEMMA CountersStep == TreeInv /\ CountersExact /\ [Next]_vars => CountersExact'
<1> SUFFICES ASSUME TreeInv, AllExact, ShownExact, [Next]_vars
             PROVE  AllExact' /\ ShownExact'
  BY CountersParts
<1>0. clients \subseteq Client
  BY DEF TreeInv, TypeOK
<1>1. ASSUME NEW c \in clients, NEW f \in FlagSets,
             Create(c, f) \/ \E h \in Id : Create2(c, f, h)
      PROVE  AllExact' /\ ShownExact'
  BY <1>1, CreateExact DEF Create, Create2, TreeInv, TreeOK
<1>2. ASSUME NEW h \in Id, Open(h)
      PROVE  AllExact' /\ ShownExact'
  <2> DEFINE S == Subtree(parent, Shown(live, parent, is_open'), h)
             new == Clients(Shown(live, parent, is_open'))
  <2>1. /\ DoOpen(S) /\ h \in live /\ ~is_open[h]
        /\ UNCHANGED <<live, parent, cptr, flags, totalWindows, globTotalWindows>>
    BY <1>2 DEF Open
  <2>2. h \notin {Root, Background}
    BY <2>1 DEF TreeInv, TreeOK
  <2>3. Clients(Mapped)' = new
    BY <2>1 DEF Mapped, Clients
  <2>4. Mapped \subseteq Mapped' /\ Mapped' \ S = Mapped /\ Mapped' = Shown(live, parent, is_open')
    BY <1>2, <2>1, MappedAfterOpen DEF Mapped
  <2>5. Mapped' \in SUBSET live /\ {Root, Background} \subseteq Mapped'
    BY <2>4, ShownIsOpen, ServerWindowsMapped
  <2>6. S = Below(parent, Mapped', {h})
    BY <2>4 DEF Subtree
  <2>7. Below(parent, Mapped', {h}) \in SUBSET Clients(Mapped')
    <3>1. {h} \cap {Root, Background} = {}
      BY <2>2
    <3> QED
      BY <2>5, <3>1, BelowClients
  <2>8. new \in SUBSET Id
    BY <2>4, <2>5 DEF Clients, TreeInv, TypeOK
  <2>9. S \in SUBSET new /\ Clients(Mapped) = new \ S
    BY <2>4, <2>6, <2>7 DEF Clients
  <2> HIDE DEF S, new
  <2>10. ShownExact'
    BY <2>1, <2>3, <2>8, <2>9, ShownExactAfterOpen
  <2> QED
    BY <2>1, <2>10, ExactUnchanged
<1>3. ASSUME NEW h \in Id, h \notin {Root, Background}
      PROVE  Unmapped(h) \in SUBSET Clients(Mapped)
  <2>1. {h} \cap {Root, Background} = {}
    BY <1>3
  <2> QED
    BY <2>1, BelowClients, ServerWindowsMapped DEF Unmapped, Subtree, Mapped
<1>4. ASSUME NEW h \in Id, Close(h)
      PROVE  AllExact' /\ ShownExact'
  <2>1. /\ DoClose(Unmapped(h)) /\ Mapped' = Mapped \ Unmapped(h)
        /\ UNCHANGED <<live, cptr, flags, totalWindows, globTotalWindows>>
    BY <1>4, MappedAfterClose DEF Close
  <2>2. h \notin {Root, Background}
    BY <1>4, IdAssumption DEF Close, Root, Background, Id
  <2>3. ShownExact'
    BY <1>3, <2>1, <2>2, ShownExactAfterClose
  <2> QED
    BY <2>1, <2>3, ExactUnchanged
<1>5. ASSUME NEW T, T \subseteq Clients(live), DoDelete(Below(parent, live, T)),
             DoClose(Below(parent, live, T) \cap Mapped)
      PROVE  AllExact' /\ ShownExact'
  <2> DEFINE S == Below(parent, live, T)
  <2>1. S \in SUBSET Clients(live)
    <3>1. T \cap {Root, Background} = {}
      BY <1>5 DEF Clients
    <3>2. {Root, Background} \subseteq live /\ live \in SUBSET live
      BY DEF TreeInv, TreeOK
    <3> QED
      BY <3>1, <3>2, BelowClients
  <2>2. /\ Mapped' = Mapped \ S /\ live' = live \ S
        /\ \A w \in live' : flags'[w] = flags[w] /\ cptr'[w] = cptr[w]
    BY <1>5, MappedAfterDelete
  <2>3. DoDelete(S) /\ DoClose(S \cap Mapped)
    BY <1>5
  <2> HIDE DEF S
  <2>4. S \cap Mapped \in SUBSET Clients(Mapped)
    BY <2>1 DEF Clients
  <2>5. Mapped' = Mapped \ (S \cap Mapped)
    BY <2>2
  <2>6. Mapped \subseteq live
    BY ServerWindowsMapped
  <2>7. \A w \in Mapped' : flags'[w] = flags[w] /\ cptr'[w] = cptr[w]
    BY <2>2, <2>6
  <2>8. ShownExact'
    BY <2>3, <2>4, <2>5, <2>7, ShownExactAfterClose
  <2> QED
    BY <2>1, <2>3, <2>8, AllExactAfterDelete
<1>6. ASSUME NEW h \in Id, Delete(h)
      PROVE  AllExact' /\ ShownExact'
  <2>1. {h} \subseteq Clients(live)
    BY <1>6, IdAssumption DEF Delete, Clients, Root, Background, Id
  <2>2. Unmapped(h) = Below(parent, live, {h}) \cap Mapped
    BY UnmappedInSubtree DEF Subtree
  <2>3. DoClose(Unmapped(h)) /\ DoDelete(Below(parent, live, {h}))
    BY <1>6 DEF Delete, Subtree
  <2> QED
    BY <1>5, <2>1, <2>2, <2>3
<1>7. ASSUME NEW c \in clients, KillClient(c)
      PROVE  AllExact' /\ ShownExact'
  <2>1. OwnedBy(live, c) \subseteq Clients(live)
    BY <1>0, OwnedAreClients
  <2>2. /\ DoDelete(Below(parent, live, OwnedBy(live, c)))
        /\ DoClose(Below(parent, live, OwnedBy(live, c)) \cap Mapped)
    BY <1>7 DEF KillClient, Doomed, Mapped
  <2> QED
    BY <1>5, <2>1, <2>2
<1>8. ASSUME NEW c \in Client, Connect(c)
      PROVE  AllExact' /\ ShownExact'
  <2>1. /\ c \notin clients
        /\ openWindows' = [openWindows EXCEPT ![c] = 0]
        /\ totalWindows' = [totalWindows EXCEPT ![c] = 0]
        /\ UNCHANGED <<tree, globOpenWindows, globTotalWindows, disabled>>
    BY <1>8 DEF Connect
  <2>2. OwnedBy(Clients(live), c) = {} /\ OwnedBy(Clients(Mapped), c) = {}
    <3>1. \A w \in Clients(live) : cptr[w] # c
      BY <2>1 DEF TreeInv, TreeOK
    <3> QED
      BY <3>1, ServerWindowsMapped DEF OwnedBy, Clients
  <2>3. openWindows[c] = 0 /\ totalWindows[c] = 0
    BY <2>2, FS_EmptySet DEF AllExact, ShownExact
  <2>4. openWindows' = openWindows /\ totalWindows' = totalWindows
    BY <2>1, <2>3 DEF TreeInv, TypeOK
  <2> QED
    BY <2>1, <2>4, ExactUnchanged DEF tree
<1>9. ASSUME UNCHANGED <<tree, counters>>
      PROVE  AllExact' /\ ShownExact'
  BY <1>9, ExactUnchanged DEF tree, counters
<1>10. ASSUME NEW h \in Id, Resize(h) \/ Move(h)
       PROVE  AllExact' /\ ShownExact'
  BY <1>9, <1>10 DEF Resize, Move
<1>11. ASSUME NEW bs \in Presses, MousePress(bs) \/ MouseRelease(bs)
       PROVE  AllExact' /\ ShownExact'
  BY <1>9, <1>11 DEF MousePress, MouseRelease
<1>12. CASE MouseMove \/ EndMove
  BY <1>9, <1>12 DEF MouseMove, Move, EndMove
<1>13. CASE UNCHANGED vars
  BY <1>9, <1>13 DEF vars
<1> QED
  BY <1>1, <1>2, <1>4, <1>6, <1>7, <1>8, <1>10, <1>11, <1>12, <1>13 DEF Next

\* The counters of windows and of open windows never drift from the tree they
\* count, in particular not when parents and children are opened, closed and
\* deleted in any order and by any client.
THEOREM CountersCorrect == Spec => []CountersExact
<1>1. Init => CountersExact
  <2> SUFFICES ASSUME Init PROVE CountersExact
    OBVIOUS
  <2>1. Clients(live) = {} /\ Clients(Shown(live, parent, is_open)) = {}
    BY ShownIsOpen DEF Init, Clients
  <2>2. /\ NoMouse({}) = {} /\ \A c \in Client : OwnedBy({}, c) = {}
        /\ Cardinality({}) = 0
    BY FS_EmptySet DEF NoMouse, OwnedBy
  <2> QED
    BY <2>1, <2>2 DEF Init, CountersExact
<1> QED
  BY <1>1, TreeInvariant, CountersStep, PTL DEF Spec

-----------------------------------------------------------------------------
(* The window that is moved.                                               *)

\* No step deletes the window that the user is moving.
MovedKept == [][loopmove /\ loop_move_window \in live => loop_move_window \in live']_vars

\* loop_move_window points to a window that exists, for as long as loop_move is set,
\* exactly in the behaviours in which nobody deletes that window, by PAK_DELETE or by a
\* connection that ends, for it or for a window above it: a move is begun with a window
\* that exists, creating, opening, closing and resizing windows keep it, and nothing but
\* a button ends the move.
THEOREM LoopMoveIf == Spec => ([]LoopMoveLive <=> MovedKept)
<1>1. Init => LoopMoveLive
  BY DEF Init, LoopMoveLive
<1> DEFINE Moved == \/ UNCHANGED moving
                    \/ UNCHANGED live /\ loopmove' = FALSE
                    \/ UNCHANGED live /\ loop_move_window' \in live
<1>2. ASSUME [Next]_vars PROVE Moved
  <2>1. ASSUME NEW c \in clients, NEW f \in FlagSets,
               Create(c, f) \/ \E h \in Id : Create2(c, f, h)
        PROVE  UNCHANGED moving
    BY <2>1 DEF Create, Create2, CreateWindow
  <2>2. ASSUME NEW h \in Id, Open(h) \/ Close(h) \/ Delete(h) \/ Resize(h) \/ Move(h)
        PROVE  UNCHANGED moving
    BY <2>2 DEF Open, Close, Delete, Resize, Move
  <2>3. ASSUME NEW c \in clients, KillClient(c)
        PROVE  UNCHANGED moving
    BY <2>3 DEF KillClient
  <2>9. ASSUME NEW c \in Client, Connect(c)
        PROVE  UNCHANGED moving
    BY <2>9 DEF Connect
  <2>4. CASE MouseMove
    BY <2>4 DEF MouseMove, Move
  <2>5. CASE EndMove
    BY <2>5 DEF EndMove, tree
  <2>6. ASSUME NEW bs \in Presses, MouseRelease(bs)
        PROVE  UNCHANGED moving
    BY <2>6 DEF MouseRelease
  <2>7. ASSUME NEW bs \in Presses, MousePress(bs)
        PROVE  UNCHANGED moving \/ (UNCHANGED live /\ loop_move_window' \in live)
    BY <2>7 DEF MousePress, PressWork, PressGadget, PressFrame, PressIdle, Findable, Shown, tree
  <2>8. CASE UNCHANGED vars
    BY <2>8 DEF vars
  <2>10. UNCHANGED moving => Moved
    OBVIOUS
  <2>11. EndMove => Moved
    BY <2>5
  <2>12. \A bs \in Presses : MousePress(bs) => Moved
    BY <2>7
  <2> HIDE DEF Moved
  <2> QED
    BY <1>2, <2>1, <2>2, <2>3, <2>4, <2>6, <2>8, <2>9, <2>10, <2>11, <2>12 DEF Next
<1>3. LoopMoveLive /\ [Next]_vars
      /\ [loopmove /\ loop_move_window \in live => loop_move_window \in live']_vars => LoopMoveLive'
  <2> SUFFICES ASSUME LoopMoveLive, [Next]_vars,
                      [loopmove /\ loop_move_window \in live => loop_move_window \in live']_vars
               PROVE  LoopMoveLive'
    OBVIOUS
  <2>1. loopmove /\ loop_move_window \in live => loop_move_window \in live'
    BY DEF vars, tree
  <2> QED
    BY <1>2, <2>1 DEF LoopMoveLive, moving
<1>4. LoopMoveLive /\ LoopMoveLive' /\ [Next]_vars
      => [loopmove /\ loop_move_window \in live => loop_move_window \in live']_vars
  <2> SUFFICES ASSUME LoopMoveLive', [Next]_vars, loopmove, loop_move_window \in live
               PROVE  loop_move_window \in live'
    OBVIOUS
  <2> QED
    BY <1>2 DEF LoopMoveLive, moving
<1>5. Spec /\ MovedKept => []LoopMoveLive
  BY <1>1, <1>3, PTL DEF Spec, MovedKept
<1>6. Spec /\ []LoopMoveLive => MovedKept
  BY <1>4, PTL DEF Spec, MovedKept
<1> QED
  BY <1>5, <1>6, PTL
=============================================================================
