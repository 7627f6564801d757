------------------------------- MODULE Fonts -------------------------------
(***************************************************************************)
(* The table of fonts of the server (server/font.c), which all clients     *)
(* share, and the list of handles that each client has loaded              *)
(* (server/client_ret.c, and killClient() of server/loop.c).  A font is    *)
(* the name of its file.                                                   *)
(***************************************************************************)
EXTENDS Integers, Sequences, FiniteSets

CONSTANTS Client,     \* the clients that may be connected
          Font,       \* the font files
          MaxFonts,   \* MAXFONTS, the size of the table
          TitleFont,  \* the fonts that the server loads for itself
          MenuFont,
          NoFont      \* no name: the slot is free

ASSUME FontAssumption == /\ MaxFonts \in Nat /\ MaxFonts >= 2
                         /\ {TitleFont, MenuFont} \subseteq Font /\ NoFont \notin Font
ASSUME ClientAssumption == IsFiniteSet(Client)

VARIABLES glob_font,  \* numused and name of each slot
          fontlist    \* cptr->font: the handles of each client, the latest first

fontvars == <<glob_font, fontlist>>

Handle == 0 .. MaxFonts - 1
Own == {0, 1}  \* TITLEFONT and MENUFONT

Has(c, h) == \E k \in DOMAIN fontlist[c] : fontlist[c][k] = h
Free == {h \in Handle : glob_font[h].numused = 0}
Loaded(f) == {h \in Handle \ Free : glob_font[h].name = f}
First(S) == CHOOSE h \in S : \A k \in S : h <= k

-----------------------------------------------------------------------------
\* font_init()
FontInit ==
  /\ glob_font = [h \in Handle |->
       IF h \in Own THEN [numused |-> 1, name |-> IF h = 0 THEN TitleFont ELSE MenuFont]
                    ELSE [numused |-> 0, name |-> NoFont]]
  /\ fontlist = [c \in Client |-> <<>>]

\* client_loadfont(), when the table holds the font or has room for it and the
\* file can be loaded.  Otherwise it answers -1 and changes nothing.
LoadFont(c, f) ==
  \E h \in Handle :
    /\ IF Loaded(f) # {} THEN h = First(Loaded(f)) ELSE Free # {} /\ h = First(Free)
    /\ glob_font' = [glob_font EXCEPT
         ![h] = [numused |-> @.numused + IF Has(c, h) THEN 0 ELSE 1, name |-> f]]
    /\ fontlist' = [fontlist EXCEPT ![c] = IF Has(c, h) THEN @ ELSE <<h>> \o @]

\* Mutant: the slot is freed with the last but one use.
Less_early(slot, n) ==
  IF slot.numused - n <= 1 THEN [numused |-> 0, name |-> NoFont]
                           ELSE [slot EXCEPT !.numused = @ - n]

\* n uses of a slot are given back; font_unloadfont() when none is left.
Less(slot, n) ==
  IF slot.numused - n < 1 THEN [numused |-> 0, name |-> NoFont]
                          ELSE [slot EXCEPT !.numused = @ - n]

\* client_unloadfont()
UnloadFont(c, h) ==
  /\ glob_font[h].numused # 0 /\ Has(c, h)
  /\ LET k == First({j \in DOMAIN fontlist[c] : fontlist[c][j] = h})
         Rest(s) == SubSeq(s, 1, k - 1) \o SubSeq(s, k + 1, Len(s))
     IN  fontlist' = [fontlist EXCEPT ![c] = Rest(@)]
  /\ glob_font' = [glob_font EXCEPT ![h] = Less(@, 1)]

\* Mutant: a dying client gives back nothing.
KillFonts_keep(c) ==
  /\ fontlist' = [fontlist EXCEPT ![c] = <<>>]
  /\ UNCHANGED glob_font

\* killClient(): each entry of the list is given back.
KillFonts(c) ==
  LET Uses(h) == {k \in DOMAIN fontlist[c] : fontlist[c][k] = h}
  IN  /\ glob_font' = [h \in Handle |->
           IF Has(c, h) THEN Less(glob_font[h], Cardinality(Uses(h))) ELSE glob_font[h]]
      /\ fontlist' = [fontlist EXCEPT ![c] = <<>>]

FontNext ==
  \E c \in Client : \/ \E f \in Font : LoadFont(c, f)
                    \/ \E h \in Handle : UnloadFont(c, h)
                    \/ KillFonts(c)

FontSpec == FontInit /\ [][FontNext]_fontvars

-----------------------------------------------------------------------------
(* Properties.                                                             *)

FontTypeOK ==
  /\ glob_font \in [Handle -> [numused : Nat, name : Font \union {NoFont}]]
  /\ fontlist \in [Client -> Seq(Handle)]

\* The use count of a font is the number of clients that have it, and one more
\* for the server's own: nobody's death or request frees a font that another
\* client still has, and none stays behind.
UsesExact ==
  \A h \in Handle : glob_font[h].numused =
    Cardinality({c \in Client : Has(c, h)}) + IF h \in Own THEN 1 ELSE 0

\* A client lists a font only once, however often it asks for it, and what it
\* lists is loaded: killClient() gives back each use exactly once.
ListsOnce ==
  \A c \in Client : \A j, k \in DOMAIN fontlist[c] :
    /\ fontlist[c][j] = fontlist[c][k] => j = k
    /\ fontlist[c][j] \notin Free

\* No font file is loaded twice, except that the server's two may be the same.
LoadedOnce ==
  \A h, k \in Handle \ Free :
    glob_font[h].name = glob_font[k].name => h = k \/ {h, k} = Own

\* The slot of a font that a client keeps is not given to another font, whoever
\* loads, unloads or dies.
FontKept ==
  [][\A c \in Client, h \in Handle :
       Has(c, h) /\ Has(c, h)' => glob_font'[h].name = glob_font[h].name]_fontvars
=============================================================================
