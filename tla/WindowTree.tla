----------------------------- MODULE WindowTree -----------------------------
(***************************************************************************)
(* The window tree of the W server (server/window.c) together with the     *)
(* requests that change it (server/client_ret.c), the death of a client    *)
(* (server/loop.c, killClient) and the mouse handlers that keep pointers   *)
(* into it (server/loop.c, server/wfuncs_server.c).                        *)
(*                                                                         *)
(* A window is named by its id, the key of the server's hash table.        *)
(* Screen geometry is abstracted here: window_find() returns some window   *)
(* that is mapped together with all its ancestors.  The order of siblings  *)
(* is the subject of module SiblingList.                                   *)
(***************************************************************************)
EXTENDS Integers, FiniteSets

CONSTANTS Client,    \* the clients that may connect
          Trusted,   \* those that are local and run with the server's uid
          NumIds,    \* number of window ids; 65536 in the code (ushort)
          FlagSets,  \* the flag words that clients ask for
          Presses,   \* the sets of buttons that go down together
          NoWin      \* the NULL window pointer

Id == 0 .. NumIds - 1
Background == 0
Root == 1
Button == {"left", "right"}
Flag == {"W_TOP", "W_MOVE", "W_NOMOUSE", "W_TITLE", "W_CLOSE", "W_ICON",
         "W_RESIZE", "W_NOBORDER", "EV_MOUSE"}

ASSUME IdAssumption == NumIds \in Nat /\ NumIds > 1
ASSUME NoWinAssumption == NoWin \notin Id \union Client
ASSUME ClientAssumption == IsFiniteSet(Client) /\ Trusted \subseteq Client
ASSUME FlagAssumption == FlagSets \subseteq SUBSET Flag
ASSUME ButtonAssumption == Presses \subseteq SUBSET Button

VARIABLES
  clients,       \* glob_clients: the connected clients
  live,          \* the ids in wintab, which are the windows of the tree
  parent,        \* WINDOW.parent
  cptr,          \* WINDOW.cptr: the client that created the window
  flags,         \* WINDOW.flags
  is_open,       \* WINDOW.is_open
  winid,         \* the static counter of window_newid()
  topWindow,     \* the one W_TOP window
  openWindows, totalWindows,          \* CLIENT.openWindows, .totalWindows
  globOpenWindows, globTotalWindows,
  disabled,      \* glob_mouse.disabled
  activewindow, activetopwin,         \* glob_activewindow, glob_activetopwin
  find_cache,    \* window_find_cache
  mousepressed,  \* glob_leftmousepressed, glob_rightmousepressed
  loopmove, loop_move_window          \* glob_loopmove and its window

tree == <<live, parent, cptr, flags, is_open>>
counters == <<openWindows, totalWindows, globOpenWindows, globTotalWindows, disabled>>
focus == <<activewindow, activetopwin, find_cache>>
moving == <<loopmove, loop_move_window>>
vars == <<clients, tree, winid, topWindow, counters, focus, mousepressed, moving>>

-----------------------------------------------------------------------------
(* The tree.                                                               *)

\* A set of windows that contains the parent of each of its members.
UpClosed(par, S) == \A x \in S : par[x] # NoWin => par[x] \in S

\* The windows of T and all their descendants, as the traversals and the loops
\* "for (wp = w; wp; wp = wp->parent)" find them: those of L from which the way
\* up to the root cannot avoid T.
Below(par, L, T) == L \ UNION {S \in SUBSET (L \ T) : UpClosed(par, S)}

\* The windows that wtree_traverse_pre() and _post() visit from w.
Subtree(par, L, w) == Below(par, L, {w})

\* The windows that are mapped together with all their ancestors.
Shown(L, par, opn) == L \ Below(par, L, {w \in L : ~opn[w]})

\* What window_find() may return; the background always hides the root.
Findable(L, par, opn) == Shown(L, par, opn) \ {Root}

\* The windows that clients own, that is, all but the two the server creates.
Clients(S) == S \ {Root, Background}

OwnedBy(S, c) == {w \in S : cptr[w] = c}
NoMouse(S) == {w \in S : "W_NOMOUSE" \in flags[w]}

\* The toplevel window of win, as a set of one: the first window on the way up
\* that is a child of the background or has W_TOP set.  If it were empty, the
\* code would run off the root.
Toplevel(L, par, flg, win) ==
  LET tops == {t \in L : /\ win \in Subtree(par, L, t)
                         /\ par[t] = Background \/ "W_TOP" \in flg[t]}
  IN  IF win = Background THEN {Background}
      ELSE {t \in tops : \A u \in tops : t \in Subtree(par, L, u)}

-----------------------------------------------------------------------------
Init ==
  /\ clients = {}
  /\ live = {Background, Root}
  /\ parent = [w \in Id |-> IF w = Background THEN Root ELSE NoWin]
  /\ cptr = [w \in Id |-> NoWin]        \* the dummyClient
  /\ flags = [w \in Id |-> {}]
  /\ is_open = [w \in Id |-> w \in {Background, Root}]
  /\ winid = 0
  /\ topWindow = NoWin
  /\ openWindows = [c \in Client |-> 0]
  /\ totalWindows = [c \in Client |-> 0]
  /\ globOpenWindows = 0
  /\ globTotalWindows = 0
  /\ disabled = 0
  /\ activewindow = Background
  /\ activetopwin = Background
  /\ find_cache = NoWin
  /\ mousepressed = [b \in Button |-> NoWin]
  /\ loopmove = FALSE
  /\ loop_move_window = NoWin

-----------------------------------------------------------------------------
(* Pieces the handlers share.                                              *)

\* Mutant: the toplevel window of the new focus is left as it was.
ChangeActiveWindow_keepsTop(win) ==
  activewindow' = win /\ find_cache' = win /\ activetopwin' = activetopwin

\* w_changeActiveWindow() when win is under the mouse.
ChangeActiveWindow(win) ==
  /\ activewindow' = win
  /\ activetopwin' \in Toplevel(live', parent', flags', win)
  /\ find_cache' = win

\* Mutant: the focus is moved before the window is unmapped, not after.
Refocus_early == \E win \in Findable(live, parent, is_open) : ChangeActiveWindow(win)

\* w_changeActiveWindow(): the window under the mouse gets the focus.
Refocus == \E win \in Findable(live', parent', is_open') : ChangeActiveWindow(win)

\* Mutant: a pressed button still points to an unmapped window.
ForgetPressed_never(S) == UNCHANGED mousepressed

ForgetPressed(S) ==
  mousepressed' = [b \in Button |-> IF mousepressed[b] \in S THEN NoWin ELSE mousepressed[b]]

\* client_do_open() for the windows of S.
DoOpen(S) ==
  /\ disabled' = disabled + Cardinality(NoMouse(S))
  /\ openWindows' = [c \in Client |-> openWindows[c] + Cardinality(OwnedBy(S, c))]
  /\ globOpenWindows' = globOpenWindows + Cardinality(S)

\* client_do_close() for the windows of S.
DoClose(S) ==
  /\ disabled' = disabled - Cardinality(NoMouse(S))
  /\ openWindows' = [c \in Client |-> openWindows[c] - Cardinality(OwnedBy(S, c))]
  /\ globOpenWindows' = globOpenWindows - Cardinality(S)
  /\ ForgetPressed(S)

\* Mutant: the W_TOP window is not released.
ReleaseTop_never(S) == UNCHANGED topWindow

ReleaseTop(S) == topWindow' = IF topWindow \in S THEN NoWin ELSE topWindow

\* window_delete_one() and client_do_delete() for the windows of S, which are
\* whole subtrees, apart from the pointers of the focus.
DoDelete(S) ==
  /\ live' = live \ S
  /\ parent' = [w \in Id |-> IF w \in S THEN NoWin ELSE parent[w]]
  /\ cptr' = [w \in Id |-> IF w \in S THEN NoWin ELSE cptr[w]]
  /\ flags' = [w \in Id |-> IF w \in S THEN {} ELSE flags[w]]
  /\ is_open' = [w \in Id |-> w \notin S /\ is_open[w]]
  /\ ReleaseTop(S)
  /\ totalWindows' = [c \in Client |-> totalWindows[c] - Cardinality(OwnedBy(S, c))]
  /\ globTotalWindows' = globTotalWindows - Cardinality(S)

\* The focus after the windows of S are deleted.  If client_close() was called
\* for one of them, the focus has moved to a window that stays; without such a
\* call only the pointers to deleted windows are reset.
RefocusAfterDelete(S, closing) ==
  \/ closing /\ Refocus
  \/ /\ ~closing
     /\ activewindow' = IF activewindow \in S THEN Background ELSE activewindow
     /\ activetopwin' = IF activetopwin \in S THEN Background ELSE activetopwin
     /\ find_cache' = IF find_cache \in S THEN NoWin ELSE find_cache

\* createWindow(): which gadgets a window really gets.
GadgetFlags(f) ==
  LET titled == IF "W_TITLE" \in f THEN f \union {"W_CLOSE"} ELSE f \ {"W_CLOSE", "W_ICON"}
  IN  IF "W_NOBORDER" \in f
      THEN titled \ {"W_CLOSE", "W_ICON", "W_RESIZE", "W_TITLE"} ELSE titled

\* window_newid(): count up, modulo the width of the id, to an unused id.  The
\* set has one member, none if all the ids are used, where the code loops.
NewId(L, start) ==
  {i \in Id \ L : \A j \in Id \ L : (i - start) % NumIds <= (j - start) % NumIds}

\* Mutant: the counter does not wrap.
NextId_noWrap(w) == w + 1

NextId(w) == (w + 1) % NumIds

-----------------------------------------------------------------------------
(* Requests of the clients.                                                *)

\* createWindow() with window_create(), under window par.
CreateWindow(c, f, par) ==
  /\ "W_TOP" \in f => c \in Trusted /\ topWindow = NoWin
  /\ \E w \in NewId(live, winid) :
     /\ winid' = NextId(w)
     /\ live' = live \union {w}
     /\ parent' = [parent EXCEPT ![w] = par]
     /\ cptr' = [cptr EXCEPT ![w] = c]
     /\ flags' = [flags EXCEPT ![w] = GadgetFlags(f)]
     /\ is_open' = [is_open EXCEPT ![w] = FALSE]
     /\ topWindow' = IF "W_TOP" \in f THEN w ELSE topWindow
  /\ totalWindows' = [totalWindows EXCEPT ![c] = @ + 1]
  /\ globTotalWindows' = globTotalWindows + 1
  /\ UNCHANGED <<clients, openWindows, globOpenWindows, disabled, focus, mousepressed, moving>>

\* PAK_CREATE: client_create().
Create(c, f) == CreateWindow(c, f, IF "W_TOP" \in f THEN Root ELSE Background)

\* Mutant: root and background are accepted as parents.
Create2_anyParent(c, f, handle) == handle \in live /\ CreateWindow(c, f, handle)

\* PAK_CREATE2: client_create2().  Neither root nor background can be named,
\* but any client's window can.
Create2(c, f, handle) ==
  /\ handle >= 2
  /\ handle \in live
  /\ CreateWindow(c, f, handle)

\* PAK_OPEN: client_open() with window_open().
Open(handle) ==
  /\ handle \in live
  /\ ~is_open[handle]
  /\ is_open' = [is_open EXCEPT ![handle] = TRUE]
  /\ DoOpen(Subtree(parent, Shown(live, parent, is_open'), handle))
  /\ UNCHANGED <<clients, live, parent, cptr, flags, winid, topWindow,
                 totalWindows, globTotalWindows, mousepressed, moving>>
  /\ Refocus

\* Mutant: windows with a closed ancestor are closed once more.
Unmapped_again(handle) == {w \in Subtree(parent, live, handle) : is_open[w]}

\* The windows that window_close() takes off the screen: none if an ancestor of
\* the window is closed.
Unmapped(handle) == Subtree(parent, Shown(live, parent, is_open), handle)

\* PAK_CLOSE: client_close() with window_close().  A window that has a closed
\* ancestor stays pseudo-closed, with is_open set.
Close(handle) ==
  /\ handle >= 2
  /\ handle \in live
  /\ is_open[handle]
  /\ is_open' = [is_open EXCEPT ![handle] = handle \notin Unmapped(handle)]
  /\ DoClose(Unmapped(handle))
  /\ UNCHANGED <<clients, live, parent, cptr, flags, winid, topWindow,
                 totalWindows, globTotalWindows, moving>>
  /\ Refocus

\* PAK_DELETE: client_delete() with window_delete(), of a window of any client.
Delete(handle) ==
  /\ handle >= 2
  /\ handle \in live
  /\ DoClose(Unmapped(handle))
  /\ DoDelete(Subtree(parent, live, handle))
  /\ RefocusAfterDelete(Subtree(parent, live, handle), is_open[handle])
  /\ UNCHANGED <<clients, winid, moving>>

\* PAK_RESIZE: client_resize() closes the window and opens it again; the
\* counters end where they began, but a pending mouse button is forgotten.
Resize(handle) ==
  /\ handle >= 2
  /\ handle \in live
  /\ is_open[handle]
  /\ ForgetPressed(Unmapped(handle))
  /\ UNCHANGED <<clients, tree, winid, topWindow, counters, moving>>
  /\ Refocus

\* PAK_MOVE, and the mouse during a move: client_move().
Move(handle) ==
  /\ handle \in live
  /\ is_open[handle]
  /\ "W_MOVE" \in flags[handle]
  /\ UNCHANGED <<clients, tree, winid, topWindow, counters, mousepressed, moving>>
  /\ Refocus

-----------------------------------------------------------------------------
(* Connections.                                                            *)

\* event_connect() with createClient(): the new record is all zero.
Connect(c) ==
  /\ c \notin clients
  /\ clients' = clients \union {c}
  /\ openWindows' = [openWindows EXCEPT ![c] = 0]
  /\ totalWindows' = [totalWindows EXCEPT ![c] = 0]
  /\ UNCHANGED <<tree, winid, topWindow, globOpenWindows, globTotalWindows, disabled,
                 focus, mousepressed, moving>>

\* Mutant: only the windows that c itself created go.
Doomed_ownOnly(c) == OwnedBy(live, c)

\* What windowKillClient() deletes: every window of c and with it its subtree,
\* whoever owns the windows in there.
Doomed(c) == Below(parent, live, OwnedBy(live, c))

\* killClient() with windowKillClient().
KillClient(c) ==
  /\ c \in clients
  /\ clients' = clients \ {c}
  /\ DoClose(Doomed(c) \intersect Shown(live, parent, is_open))
  /\ DoDelete(Doomed(c))
  /\ RefocusAfterDelete(Doomed(c), \E w \in OwnedBy(live, c) : is_open[w])
  /\ UNCHANGED <<winid, moving>>

-----------------------------------------------------------------------------
(* The mouse.                                                              *)

\* event_mousemove().  During a move the window is looked up by the id that is
\* read through loop_move_window; if that window has been freed, the id read
\* may be any, or that of no window at all.
MouseMove ==
  \/ /\ ~loopmove
     /\ UNCHANGED <<clients, tree, winid, topWindow, counters, mousepressed, moving>>
     /\ Refocus
  \/ /\ loopmove
     /\ \E handle \in (IF loop_move_window \in live THEN {loop_move_window} ELSE Id) :
          Move(handle)

\* event_mousebutton() while a window is moved: any button event ends the move.
EndMove ==
  /\ loopmove
  /\ loopmove' = FALSE
  /\ mousepressed' = [b \in Button |-> NoWin]
  /\ UNCHANGED <<clients, tree, winid, topWindow, counters, focus, loop_move_window>>

\* event_mousebutton(): the release of the buttons bs.  An event that carries
\* both releases and presses is handled as a release and then a press.
MouseRelease(bs) ==
  /\ ~loopmove
  /\ mousepressed' = [b \in Button |-> IF b \in bs THEN NoWin ELSE mousepressed[b]]
  /\ UNCHANGED <<clients, tree, winid, topWindow, counters, focus, moving>>

\* event_mousebutton(): a press in the work area of window win.
PressWork(win, bs) ==
  /\ win # Background
  /\ mousepressed' = [b \in Button |->
       IF b \in bs /\ "EV_MOUSE" \in flags[win] THEN win ELSE mousepressed[b]]
  /\ UNCHANGED moving

\* A press on the close or the icon gadget.
PressGadget(win, bs) ==
  /\ flags[win] \intersect {"W_CLOSE", "W_ICON"} # {}
  /\ mousepressed' = [b \in Button |-> IF b \in bs THEN NoWin ELSE mousepressed[b]]
  /\ UNCHANGED moving

\* A press on the rest of the frame starts to move the window.
PressFrame(win, bs) ==
  /\ "W_NOBORDER" \notin flags[win]
  /\ "W_MOVE" \in flags[win]
  /\ "right" \notin bs
  /\ loopmove' = TRUE
  /\ loop_move_window' = win
  /\ UNCHANGED mousepressed

\* A press that only sends an event, restacks the window or pops up the menu: on
\* the background, or on the frame of a window that is not to be moved.
PressIdle(win, bs) ==
  /\ \/ win = Background
     \/ /\ "W_NOBORDER" \notin flags[win]
        /\ "W_MOVE" \notin flags[win] \/ "W_RESIZE" \in flags[win] \/ "right" \in bs
  /\ UNCHANGED <<mousepressed, moving>>

\* event_mousebutton(): a press of the buttons bs on some window.
MousePress(bs) ==
  /\ ~loopmove
  /\ \E win \in Findable(live, parent, is_open) :
       /\ find_cache' = win
       /\ \/ PressWork(win, bs)
          \/ PressGadget(win, bs)
          \/ PressFrame(win, bs)
          \/ PressIdle(win, bs)
  /\ UNCHANGED <<clients, tree, winid, topWindow, counters, activewindow, activetopwin>>

-----------------------------------------------------------------------------
Next ==
  \/ \E c \in clients :
       \/ \E f \in FlagSets : Create(c, f) \/ \E h \in Id : Create2(c, f, h)
       \/ \E h \in Id : Open(h) \/ Close(h) \/ Delete(h) \/ Resize(h) \/ Move(h)
       \/ KillClient(c)
  \/ \E c \in Client : Connect(c)
  \/ MouseMove
  \/ EndMove
  \/ \E bs \in Presses : MousePress(bs) \/ MouseRelease(bs)

Spec == Init /\ [][Next]_vars

-----------------------------------------------------------------------------
(* Properties.                                                             *)

Pointer == Id \union {NoWin}

\* Every variable keeps its type.
TypeOK ==
  /\ clients \subseteq Client
  /\ live \subseteq Id
  /\ parent \in [Id -> Pointer]
  /\ cptr \in [Id -> Client \union {NoWin}]
  /\ flags \in [Id -> SUBSET Flag]
  /\ is_open \in [Id -> BOOLEAN]
  /\ winid \in Id
  /\ topWindow \in Pointer
  /\ openWindows \in [Client -> Int]
  /\ totalWindows \in [Client -> Int]
  /\ globOpenWindows \in Int
  /\ globTotalWindows \in Int
  /\ disabled \in Int
  /\ activewindow \in Pointer
  /\ activetopwin \in Pointer
  /\ find_cache \in Pointer
  /\ mousepressed \in [Button -> Pointer]
  /\ loopmove \in BOOLEAN
  /\ loop_move_window \in Pointer

\* Root and background are never deleted or closed, every other window hangs
\* below a window that exists, reaches the root by its parents, and belongs to a
\* client that is connected, so no handler follows a freed WINDOW.parent or writes
\* to a freed WINDOW.cptr (windowKillClient() and window_delete() take subtrees).
TreeOK ==
  /\ {Background, Root} \subseteq live
  /\ is_open[Background] /\ is_open[Root]
  /\ parent[Root] = NoWin /\ parent[Background] = Root
  /\ cptr[Root] = NoWin /\ cptr[Background] = NoWin
  /\ \A w \in Id \ live : parent[w] = NoWin
  /\ \A w \in Clients(live) : parent[w] \in live /\ cptr[w] \in clients
  /\ \A S \in SUBSET live : S # {} /\ UpClosed(parent, S) => Root \in S

\* There is at most one W_TOP window, topWindow points to it, and apart from the
\* background only W_TOP windows hang directly below the root: without that the
\* search for the toplevel window in w_changeActiveWindow() runs off the root.
TopLevelOK ==
  /\ \A w \in live : "W_TOP" \in flags[w] <=> w = topWindow
  /\ topWindow \in live \union {NoWin}
  /\ \A w \in Clients(live) : parent[w] = Root => w = topWindow

\* The counters of open and of all windows, for each client and for the server,
\* and the number of mapped windows that hide the mouse pointer are exact, over
\* any sequence of opening, closing and deleting parents and children.
CountersExact ==
  LET all == Clients(live)
      shown == Clients(Shown(live, parent, is_open)) IN
  /\ globTotalWindows = Cardinality(all)
  /\ globOpenWindows = Cardinality(shown)
  /\ disabled = Cardinality(NoMouse(shown))
  /\ \A c \in Client : totalWindows[c] = Cardinality(OwnedBy(all, c))
  /\ \A c \in Client : openWindows[c] = Cardinality(OwnedBy(shown, c))

\* A window that waits for the release of a mouse button is mapped: its work
\* area, to which event_mousebutton() relates the release, is where it was pressed.
PressedShown ==
  \A b \in Button : mousepressed[b] # NoWin =>
    mousepressed[b] \in Clients(Shown(live, parent, is_open))

\* The focus, and with it every key, goes to a window that is mapped; the
\* highlighted toplevel window is the one the focus is in; and the cache of
\* window_find() never holds a window that is gone.
FocusShown ==
  /\ activewindow \in Findable(live, parent, is_open)
  /\ activetopwin \in Toplevel(live, parent, flags, activewindow)
  /\ find_cache # NoWin => find_cache \in Findable(live, parent, is_open)

\* "Window, which is moved, if loop_move" (server/loop.c): while a window is
\* moved, the window that is moved exists.
LoopMoveLive == loopmove => loop_move_window \in live
=============================================================================
