------------------------------- MODULE Colors -------------------------------
(***************************************************************************)
(* The colour tables of the windows (server/color.c): a window shows the   *)
(* colours of an ancestor, or the global ones, until a request for it      *)
(* needs a table of its own.  A table is named after the window that owns  *)
(* it.  A colour is a model value; what the hardware shows, and the        *)
(* foreground and background of a window, are left out.                    *)
(***************************************************************************)
EXTENDS Integers, FiniteSets, FiniteSetsExt

CONSTANTS Window,         \* the windows that clients may create
          Root, Background,  \* the windows of the server, which always exist
          Global,         \* the owner of glob_colortable: none
          colorCount,     \* how many colours the screen has
          glob_sharedcolors,
          Colour,         \* red, green and blue
          NoColour,       \* what malloc() has left
          MaxRequests     \* bound: requests that change a colour

ASSUME ColorAssumption == /\ colorCount \in Nat /\ glob_sharedcolors \in 2 .. colorCount
                          /\ IsFiniteSet(Window)
                          /\ Root # Background /\ Global \notin Window \union {Root, Background}
                          /\ {Root, Background} \intersect Window = {} /\ NoColour \notin Colour

VARIABLES
  parent,     \* the parent of each window that a client has created
  colTab,     \* the table of each window
  tables,     \* the tables: used, colors (the top) and the colour of each index
  colorRefs,
  requests,   \* how many requests there have been
  uneven      \* history: whether colours have been counted for one window, or none,
              \* that were used by several, or were not given back

vars == <<parent, colTab, tables, colorRefs, requests, uneven>>

Index == 0 .. colorCount - 1
Server == {Root, Background}
Created == DOMAIN parent
Windows == Created \union Server

\* FGCOL_INDEX and BGCOL_INDEX are counted 0xf0000000 times, the other shared colours
\* 0xf000 times, to be allocated last.  Any numbers beyond that of the windows do.
Initially(i) == IF i < 2 THEN 2000 ELSE IF i < glob_sharedcolors THEN 1000 ELSE 0

Init ==
  /\ parent = [w \in {} |-> Root]
  /\ colTab = [w \in Server |-> Global]
  /\ \E c \in [0 .. glob_sharedcolors - 1 -> Colour] :
       /\ c[0] # c[1]
       /\ tables = [t \in {Global} |->
            [used |-> 0 .. glob_sharedcolors - 1, colors |-> glob_sharedcolors,
             rgb |-> [i \in Index |-> IF i < glob_sharedcolors THEN c[i] ELSE NoColour]]]
  /\ colorRefs = [i \in Index |-> Initially(i)]
  /\ requests = 0 /\ uneven = FALSE

-----------------------------------------------------------------------------
(* Tables.                                                                 *)

\* The windows below w, and w: what every set of windows has that holds w and, with
\* a window, its childs.
Below(w) ==
  {x \in Windows : \A up \in SUBSET Windows :
     w \in up /\ (\A y \in Created : parent[y] \in up => y \in up) => x \in up}

\* What changeCounts() counts: it looks at whole bytes, the last one included.
Counted(tab) == tab.used \intersect 0 .. 8 * ((tab.colors + 7) \div 8) - 1

\* The table that a request for w changes: makePrivateTable() copies the one that w
\* shares, its colours below the top.
Own(w) ==
  LET tab == tables[colTab[w]]
  IN  IF colTab[w] = w THEN tab
      ELSE [tab EXCEPT !.rgb = [i \in Index |-> IF i < tab.colors THEN @[i] ELSE NoColour]]

\* w shows a table of its own from now on.
Install(w, tab) ==
  /\ tables' = [t \in DOMAIN tables \union {w} |-> IF t = w THEN tab ELSE tables[t]]
  /\ colTab' = [colTab EXCEPT ![w] = w]

\* Other windows that show the table of w.
Sharing(w) == {x \in Windows \ {w} : colTab[x] = w}

Requested == requests < MaxRequests /\ requests' = requests + 1

-----------------------------------------------------------------------------
(* The operations.                                                         *)

\* Mutant: a window is not counted when it is created.
Create_uncounted(w, p) ==
  /\ w \notin Created /\ p \in Windows
  /\ parent' = [x \in Created \union {w} |-> IF x = w THEN p ELSE parent[x]]
  /\ LET shared == IF p = Background THEN Global ELSE colTab[p]
     IN  colTab' = [x \in Windows \union {w} |-> IF x = w THEN shared ELSE colTab[x]]
  /\ UNCHANGED <<colorRefs, tables, requests, uneven>>

\* colorCopyVirtualTable()
Create(w, p) ==
  /\ w \notin Created /\ p \in Windows
  /\ parent' = [x \in Created \union {w} |-> IF x = w THEN p ELSE parent[x]]
  /\ LET shared == IF p = Background THEN Global ELSE colTab[p]
     IN  /\ colTab' = [x \in Windows \union {w} |-> IF x = w THEN shared ELSE colTab[x]]
         /\ colorRefs' = [i \in Index |-> colorRefs[i] + IF i \in Counted(tables[shared]) THEN 1 ELSE 0]
  /\ UNCHANGED <<tables, requests, uneven>>

\* Mutant: the table of a window that only shares it is removed.
Delete_shared(w) ==
  /\ w \in Created
  /\ LET gone == Below(w)
         Uses(i) == {x \in gone : i \in Counted(tables[colTab[x]])}
     IN  /\ parent' = [x \in Created \ gone |-> parent[x]]
         /\ colTab' = [x \in Windows \ gone |-> colTab[x]]
         /\ tables' = [t \in DOMAIN tables \ {colTab[x] : x \in gone} |-> tables[t]]
         /\ colorRefs' = [i \in Index |-> colorRefs[i] - Cardinality(Uses(i))]
  /\ UNCHANGED <<requests, uneven>>

\* window_delete(): colorFreeTable() for each window below w, the childs first.
Delete(w) ==
  /\ w \in Created
  /\ LET gone == Below(w)
         Uses(i) == {x \in gone : i \in Counted(tables[colTab[x]])}
     IN  /\ parent' = [x \in Created \ gone |-> parent[x]]
         /\ colTab' = [x \in Windows \ gone |-> colTab[x]]
         /\ tables' = [t \in DOMAIN tables \ gone |-> tables[t]]
         /\ colorRefs' = [i \in Index |-> colorRefs[i] - Cardinality(Uses(i))]
  /\ UNCHANGED <<requests, uneven>>

\* colorAllocColor(): the index that is used least, the highest of them; a count
\* below zero is a huge one in colorRefs.  With none left it answers -1.
AllocColor(w, c) ==
  /\ Requested
  /\ LET tab == Own(w)
         unused == {i \in Index \ tab.used : colorRefs[i] >= 0}
         least == {i \in unused : \A j \in unused : colorRefs[i] <= colorRefs[j]}
         index == Max(least)
     IN  /\ unused # {}
         /\ Install(w, [used |-> tab.used \union {index},
                        colors |-> Max({index + 1, tab.colors}),
                        rgb |-> [tab.rgb EXCEPT ![index] = c]])
         /\ colorRefs' = [colorRefs EXCEPT ![index] = @ + 1]
  /\ uneven' = (uneven \/ Sharing(w) # {})
  /\ UNCHANGED parent

\* Mutant: the top is not lowered past what was freed before.
FreeColor_top(w, index) ==
  /\ Requested
  /\ index \in tables[colTab[w]].used
  /\ LET tab == Own(w)
         used == tab.used \ {index}
         top == IF index = tab.colors - 1 THEN Max({j \in used : j < index - 1} \union {0}) + 1
                ELSE tab.colors
     IN  Install(w, [used |-> used, colors |-> top, rgb |-> tab.rgb])
  /\ colorRefs' = [colorRefs EXCEPT ![index] = @ - 1]
  /\ uneven' = (uneven \/ Sharing(w) # {})
  /\ UNCHANGED parent

\* colorFreeColor() with an index in use.
FreeColor(w, index) ==
  /\ Requested
  /\ index \in tables[colTab[w]].used
  /\ LET tab == Own(w)
         used == tab.used \ {index}
         top == IF index # tab.colors - 1 THEN tab.colors
                ELSE IF index = 0 THEN 0
                ELSE Max({j \in used : 0 < j /\ j < index} \union {0}) + 1
     IN  Install(w, [used |-> used, colors |-> top, rgb |-> tab.rgb])
  /\ colorRefs' = [colorRefs EXCEPT ![index] = @ - 1]
  /\ uneven' = (uneven \/ Sharing(w) # {})
  /\ UNCHANGED parent

\* colorFreeColor() with -1: all colours that are not shared; they stay counted.
FreeColors(w) ==
  /\ Requested
  /\ tables[colTab[w]].colors > glob_sharedcolors
  /\ LET tab == Own(w)
         freed == {i \in tab.used : glob_sharedcolors <= i /\ i < tab.colors}
     IN  /\ Install(w, [used |-> tab.used \ freed, colors |-> glob_sharedcolors, rgb |-> tab.rgb])
         /\ uneven' = (uneven \/ freed # {})
  /\ UNCHANGED <<parent, colorRefs>>

\* Mutant: the shared table itself is changed.
ChangeColor_inPlace(w, index, c) ==
  /\ Requested
  /\ ~(w = Background /\ index < glob_sharedcolors)
  /\ index \in tables[colTab[w]].used
  /\ tables' = [tables EXCEPT ![colTab[w]].rgb[index] = c]
  /\ UNCHANGED <<parent, colTab, colorRefs, uneven>>

\* colorChangeColor()
ChangeColor(w, index, c) ==
  /\ Requested
  /\ ~(w = Background /\ index < glob_sharedcolors)
  /\ index \in tables[colTab[w]].used
  /\ Install(w, [Own(w) EXCEPT !.rgb[index] = c])
  /\ UNCHANGED <<parent, colorRefs, uneven>>

Next ==
  \/ \E w \in Window : (\E p \in Windows : Create(w, p)) \/ Delete(w)
  \/ \E w \in Windows :
       \/ \E c \in Colour : AllocColor(w, c)
       \/ \E i \in Index : FreeColor(w, i) \/ \E c \in Colour : ChangeColor(w, i, c)
       \/ FreeColors(w)

Spec == Init /\ [][Next]_vars

-----------------------------------------------------------------------------
(* Properties.                                                             *)

Seen(w) == LET tab == tables[colTab[w]] IN [i \in tab.used |-> tab.rgb[i]]

\* Every window shows a table that exists: its own, that of a window above it, or the
\* global one.  Deleting windows leaves none with a table that is freed.
TablesLive ==
  /\ \A w \in Windows : /\ colTab[w] \in DOMAIN tables
                        /\ colTab[w] = Global \/ w \in Below(colTab[w])
  /\ \A t \in DOMAIN tables \ {Global} : t \in Windows /\ colTab[t] = t

\* A colour in use lies below the top, where makePrivateTable() and the graphics
\* drivers look for it, and has a value.
ColoursKnown ==
  \A t \in DOMAIN tables : \A i \in tables[t].used :
    i < tables[t].colors /\ tables[t].rgb[i] # NoColour

\* A request for a window changes the colours of this window and of those below it
\* that show its table, and of no other; the global colours never change.
Isolated ==
  [][\E w \in Windows : \A x \in Windows \intersect Windows' :
       Seen(x)' # Seen(x) => x \in Below(w) /\ colTab'[x] = w]_vars

\* colorRefs says how many windows use a colour, as long as no colour has been allocated
\* or freed in a table that other windows show, or freed with -1.  What creating and
\* deleting windows counts, and the copies of tables, are even.
CountsExact ==
  ~uneven => \A i \in Index :
    colorRefs[i] = Initially(i)
      + Cardinality({w \in Created : i \in tables[colTab[w]].used})
      + Cardinality({s \in Server : i >= glob_sharedcolors /\ i \in tables[colTab[s]].used})
      - Cardinality({s \in Server : i < glob_sharedcolors /\ i \notin tables[colTab[s]].used})
=============================================================================
