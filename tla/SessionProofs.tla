--------------------------- MODULE SessionProofs ---------------------------
(***************************************************************************)
(* Proofs about module Fonts, for any number of clients, fonts and slots,  *)
(* and about module Session: its fonts behave as module Fonts says, the    *)
(* links of the list of clients agree in both directions and lead to every *)
(* client, every client that has sent something is read in the round, and  *)
(* nothing of a client is left behind.                                     *)
(***************************************************************************)
EXTENDS Session, FiniteSetTheorems, SequenceTheorems, WellFoundedInduction, TLAPS

-----------------------------------------------------------------------------
(* Lists of handles.                                                       *)

NoneTwice(s) == \A j, k \in DOMAIN s : s[j] = s[k] => j = k
In(s, h) == \E k \in DOMAIN s : s[k] = h

\* A set of handles that is not empty has a first one.
LEMMA FirstIn ==
  ASSUME NEW S \in SUBSET Handle, S # {}
  PROVE  First(S) \in S
<1>1. S \subseteq Nat
  BY FontAssumption DEF Handle
<1>2. PICK h \in S : \A k \in S : ~ (<<k, h>> \in OpToRel(<, Nat))
  BY <1>1, NatLessThanWellFounded, WFMin
<1>3. ASSUME NEW k \in S PROVE h <= k
  <2>1. k < h => <<k, h>> \in {ss \in Nat \X Nat : ss[1] < ss[2]}
    BY <1>1
  <2>2. OpToRel(<, Nat) = {ss \in Nat \X Nat : ss[1] < ss[2]}
    BY DEF OpToRel
  <2>3. ~ (k < h)
    BY <1>2, <2>1, <2>2
  <2> QED
    BY <1>1, <2>3
<1> QED
  BY <1>3 DEF First

\* A handle is put in front of a list.
LEMMA Prepended ==
  ASSUME NEW s \in Seq(Handle), NoneTwice(s), NEW h \in Handle, ~In(s, h)
  PROVE  /\ <<h>> \o s \in Seq(Handle) /\ NoneTwice(<<h>> \o s)
         /\ \A g : In(<<h>> \o s, g) <=> g = h \/ In(s, g)
<1> DEFINE r == <<h>> \o s
<1>1. Len(s) \in Nat /\ DOMAIN s = 1 .. Len(s) /\ DOMAIN r = 1 .. Len(s) + 1
      /\ r \in Seq(Handle) /\ r[1] = h /\ \A k \in 1 .. Len(s) : r[k + 1] = s[k]
  OBVIOUS
<1> HIDE DEF r
<1>2. \A i \in DOMAIN r : i = 1 \/ (i - 1 \in DOMAIN s /\ r[i] = s[i - 1])
  BY <1>1
<1>3. NoneTwice(r)
  BY <1>1, <1>2 DEF NoneTwice, In
<1>4. ASSUME NEW g PROVE In(r, g) <=> g = h \/ In(s, g)
  <2>1. 1 \in DOMAIN r /\ \A k \in DOMAIN s : k + 1 \in DOMAIN r /\ r[k + 1] = s[k]
    BY <1>1
  <2> QED
    BY <1>1, <1>2, <2>1 DEF In
<1> QED
  BY <1>1, <1>3, <1>4 DEF r

\* A handle is taken out of a list.
LEMMA TakenOut ==
  ASSUME NEW s \in Seq(Handle), NoneTwice(s), NEW k \in DOMAIN s
  PROVE  LET r == SubSeq(s, 1, k - 1) \o SubSeq(s, k + 1, Len(s))
         IN  r \in Seq(Handle) /\ NoneTwice(r) /\ \A g : In(r, g) <=> g # s[k] /\ In(s, g)
<1> DEFINE a == SubSeq(s, 1, k - 1)
           b == SubSeq(s, k + 1, Len(s))
           r == a \o b
<1>1. Len(s) \in Nat /\ DOMAIN s = 1 .. Len(s) /\ k \in 1 .. Len(s)
  OBVIOUS
<1>2. /\ a \in Seq(Handle) /\ Len(a) = k - 1 /\ \A i \in 1 .. k - 1 : a[i] = s[i]
      /\ b \in Seq(Handle) /\ Len(b) = Len(s) - k /\ \A i \in 1 .. Len(s) - k : b[i] = s[k + i]
  <2>1. a \in Seq(Handle) /\ Len(a) = k - 1 /\ \A i \in 1 .. k - 1 : a[i] = s[i]
    BY <1>1
  <2>2. b \in Seq(Handle) /\ Len(b) = Len(s) - k
    BY <1>1
  <2>3. \A i \in 1 .. Len(s) - k : b[i] = s[k + i]
    BY <1>1
  <2> QED
    BY <2>1, <2>2, <2>3
<1> HIDE DEF a, b
<1>3. /\ r \in Seq(Handle) /\ DOMAIN r = 1 .. Len(s) - 1
      /\ \A i \in 1 .. k - 1 : r[i] = s[i]
      /\ \A i \in k .. Len(s) - 1 : r[i] = s[i + 1]
  <2>1. r \in Seq(Handle) /\ Len(r) = Len(a) + Len(b) /\ DOMAIN r = 1 .. Len(r)
    BY <1>2, ConcatProperties, LenProperties
  <2>2. \A i \in 1 .. Len(a) + Len(b) : r[i] = IF i <= Len(a) THEN a[i] ELSE b[i - Len(a)]
    BY <1>2, ConcatProperties
  <2>3. Len(r) = Len(s) - 1
    BY <1>1, <1>2, <2>1
  <2>4. ASSUME NEW i \in k .. Len(s) - 1 PROVE r[i] = s[i + 1]
    <3> DEFINE j == i - (k - 1)
    <3>1. j \in 1 .. Len(s) - k /\ ~(i <= k - 1) /\ i \in 1 .. (k - 1) + (Len(s) - k) /\ k + j = i + 1
      BY <1>1
    <3>2. Len(a) = k - 1 /\ Len(b) = Len(s) - k
      BY <1>2
    <3>3. r[i] = b[j]
      BY <2>2, <3>1, <3>2
    <3> HIDE DEF j
    <3>4. b[j] = s[k + j]
      BY <1>2, <3>1
    <3> QED
      BY <3>1, <3>3, <3>4
  <2>5. ASSUME NEW i \in 1 .. k - 1 PROVE r[i] = s[i]
    <3>1. i \in 1 .. (k - 1) + (Len(s) - k) /\ i <= k - 1
      BY <1>1
    <3>2. Len(a) = k - 1 /\ Len(b) = Len(s) - k /\ a[i] = s[i]
      BY <1>2
    <3> QED
      BY <2>2, <3>1, <3>2
  <2> QED
    BY <2>1, <2>3, <2>4, <2>5
<1> HIDE DEF r
<1>4. \A i \in DOMAIN r : \/ i < k /\ i \in DOMAIN s /\ r[i] = s[i]
                          \/ k <= i /\ i + 1 \in DOMAIN s /\ r[i] = s[i + 1]
  BY <1>1, <1>3
<1>5. NoneTwice(r)
  BY <1>1, <1>3, <1>4 DEF NoneTwice
<1>6. ASSUME NEW g PROVE In(r, g) <=> g # s[k] /\ In(s, g)
  <2>1. In(r, g) => g # s[k] /\ In(s, g)
    BY <1>1, <1>3, <1>4 DEF In, NoneTwice
  <2>2. ASSUME NEW j \in DOMAIN s, s[j] = g, g # s[k] PROVE In(r, g)
    <3>1. CASE j < k
      BY <1>1, <1>3, <2>2, <3>1 DEF In
    <3>2. CASE j > k
      <4>1. j - 1 \in DOMAIN r /\ r[j - 1] = s[j]
        BY <1>1, <1>3, <2>2, <3>2
      <4> QED
        BY <2>2, <4>1 DEF In
    <3> QED
      BY <1>1, <2>2, <3>1, <3>2
  <2> QED
    BY <2>1, <2>2 DEF In
<1> QED
  BY <1>3, <1>5, <1>6 DEF r, a, b

-----------------------------------------------------------------------------
(* The clients that have a font.                                           *)

Holders(h) == {c \in Client : Has(c, h)}
Base(h) == IF h \in Own THEN 1 ELSE 0
Lists == \A c \in Client : NoneTwice(fontlist[c])
Inv == FontTypeOK /\ UsesExact /\ ListsOnce /\ LoadedOnce

\* How many clients have a font.
LEMMA HoldersCounted ==
  ASSUME NEW h
  PROVE  /\ IsFiniteSet(Holders(h)) /\ Cardinality(Holders(h)) \in Nat
         /\ \A c \in Client : Has(c, h) => Cardinality(Holders(h)) >= 1
<1>1. IsFiniteSet(Holders(h))
  BY ClientAssumption, FS_Subset DEF Holders
<1>2. Cardinality(Holders(h)) \in Nat
  BY <1>1, FS_CardinalityType
<1>3. ASSUME NEW c \in Client, Has(c, h) PROVE Cardinality(Holders(h)) # 0
  <2>1. Holders(h) # {}
    BY <1>3 DEF Holders
  <2> QED
    BY <1>1, <2>1, FS_EmptySet
<1> QED
  BY <1>1, <1>2, <1>3

\* Lists without repetition are all that ListsOnce says, when the counts are exact.
LEMMA ListsFollow ==
  ASSUME FontTypeOK, UsesExact, Lists
  PROVE  ListsOnce
<1> SUFFICES ASSUME NEW c \in Client, NEW j \in DOMAIN fontlist[c]
             PROVE  fontlist[c][j] \notin Free
  BY DEF ListsOnce, Lists, NoneTwice
<1> DEFINE h == fontlist[c][j]
<1>1. h \in Handle /\ Has(c, h)
  BY DEF FontTypeOK, Has
<1>2. glob_font[h].numused = Cardinality(Holders(h)) + Base(h)
  BY <1>1 DEF UsesExact, Holders, Base
<1> QED
  BY <1>1, <1>2, HoldersCounted DEF Free, Base
LEMMA ListsHold == ListsOnce => Lists
BY DEF ListsOnce, Lists, NoneTwice

\* A use comes in or goes out with a client.
LEMMA HolderAdded ==
  ASSUME NEW h, NEW c \in Client, ~Has(c, h),
         \A d \in Client : Has(d, h)' <=> d = c \/ Has(d, h)
  PROVE  Cardinality(Holders(h))' = Cardinality(Holders(h)) + 1
<1>1. Holders(h)' = Holders(h) \union {c} /\ c \notin Holders(h)
  BY DEF Holders
<1> QED
  BY <1>1, HoldersCounted, FS_AddElement
LEMMA HolderRemoved ==
  ASSUME NEW h, NEW c \in Client, Has(c, h),
         \A d \in Client : Has(d, h)' <=> d # c /\ Has(d, h)
  PROVE  Cardinality(Holders(h))' = Cardinality(Holders(h)) - 1
<1>1. Holders(h)' = Holders(h) \ {c} /\ c \in Holders(h)
  BY DEF Holders
<1> QED
  BY <1>1, HoldersCounted, FS_RemoveElement
LEMMA HoldersSame ==
  ASSUME NEW h, \A d \in Client : Has(d, h)' <=> Has(d, h)
  PROVE  Cardinality(Holders(h))' = Cardinality(Holders(h))
<1>1. Holders(h)' = Holders(h)
  BY DEF Holders
<1> QED
  BY <1>1

\* Less() frees the slot with the last use.
LEMMA LessMeans ==
  ASSUME NEW slot \in [numused : Nat, name : Font \union {NoFont}], slot.numused >= 1
  PROVE  /\ Less(slot, 1) \in [numused : Nat, name : Font \union {NoFont}]
         /\ Less(slot, 1).numused = slot.numused - 1
         /\ slot.numused - 1 # 0 => Less(slot, 1).name = slot.name
BY DEF Less

\* What loading does: a client's font is loaded already, and no other slot changes.
LEMMA LoadFontMeans ==
  ASSUME Inv, NEW c \in Client, NEW f \in Font, LoadFont(c, f)
  PROVE  \E h \in Handle :
           /\ h \in Loaded(f) \/ (h \in Free /\ Loaded(f) = {})
           /\ Has(c, h) => h \in Loaded(f)
           /\ glob_font' = [glob_font EXCEPT
                ![h] = [numused |-> @.numused + IF Has(c, h) THEN 0 ELSE 1, name |-> f]]
           /\ fontlist' = [fontlist EXCEPT ![c] = IF Has(c, h) THEN @ ELSE <<h>> \o @]
<1>1. PICK h \in Handle :
        /\ IF Loaded(f) # {} THEN h = First(Loaded(f)) ELSE Free # {} /\ h = First(Free)
        /\ glob_font' = [glob_font EXCEPT
             ![h] = [numused |-> @.numused + IF Has(c, h) THEN 0 ELSE 1, name |-> f]]
        /\ fontlist' = [fontlist EXCEPT ![c] = IF Has(c, h) THEN @ ELSE <<h>> \o @]
  BY DEF LoadFont
<1>2. h \in Loaded(f) \/ (h \in Free /\ Loaded(f) = {})
  BY <1>1, FirstIn DEF Loaded, Free
<1>3. Has(c, h) => h \notin Free
  BY DEF Inv, ListsOnce, Has
<1> QED
  BY <1>1, <1>2, <1>3

\* client_loadfont() keeps the invariant.
LEMMA LoadFontKeeps ==
  ASSUME Inv, NEW c \in Client, NEW f \in Font, LoadFont(c, f)
  PROVE  Inv' /\ \A d \in Client, g \in Handle :
                   Has(d, g) => glob_font'[g].name = glob_font[g].name
<1>1. PICK h \in Handle :
           /\ h \in Loaded(f) \/ (h \in Free /\ Loaded(f) = {})
           /\ Has(c, h) => h \in Loaded(f)
           /\ glob_font' = [glob_font EXCEPT
                ![h] = [numused |-> @.numused + IF Has(c, h) THEN 0 ELSE 1, name |-> f]]
           /\ fontlist' = [fontlist EXCEPT ![c] = IF Has(c, h) THEN @ ELSE <<h>> \o @]
  BY LoadFontMeans
<1>2. FontTypeOK /\ Lists
  BY ListsHold DEF Inv
<1>3. ASSUME ~Has(c, h)
      PROVE  /\ <<h>> \o fontlist[c] \in Seq(Handle) /\ NoneTwice(<<h>> \o fontlist[c])
             /\ \A g : In(<<h>> \o fontlist[c], g) <=> g = h \/ In(fontlist[c], g)
  <2>1. fontlist[c] \in Seq(Handle) /\ NoneTwice(fontlist[c]) /\ ~In(fontlist[c], h)
    BY <1>2, <1>3 DEF FontTypeOK, Lists, Has, In
  <2> QED
    BY <2>1, Prepended
<1>4. \A d \in Client : \A g : Has(d, g)' <=> Has(d, g) \/ (d = c /\ g = h)
  <2>1. CASE Has(c, h)
    <3>1. fontlist' = fontlist
      BY <1>1, <1>2, <2>1 DEF FontTypeOK
    <3> QED
      BY <2>1, <3>1 DEF Has
  <2>2. CASE ~Has(c, h)
    <3>1. \A d \in Client : fontlist'[d] = IF d = c THEN <<h>> \o fontlist[c] ELSE fontlist[d]
      BY <1>1, <1>2, <2>2 DEF FontTypeOK
    <3> QED
      BY <1>3, <2>2, <3>1 DEF Has, In
  <2> QED
    BY <2>1, <2>2
<1>5. \A g \in Handle :
        /\ glob_font'[g].numused = glob_font[g].numused
                                   + (IF g = h /\ ~Has(c, h) THEN 1 ELSE 0)
        /\ glob_font'[g].name = IF g = h THEN f ELSE glob_font[g].name
  BY <1>1, <1>2 DEF FontTypeOK
<1>6. FontTypeOK'
  <2>1. glob_font[h].numused + (IF Has(c, h) THEN 0 ELSE 1) \in Nat
    BY <1>2 DEF FontTypeOK
  <2>2. glob_font' \in [Handle -> [numused : Nat, name : Font \union {NoFont}]]
    BY <1>1, <1>2, <2>1 DEF FontTypeOK
  <2>3. (IF Has(c, h) THEN fontlist[c] ELSE <<h>> \o fontlist[c]) \in Seq(Handle)
    BY <1>2, <1>3 DEF FontTypeOK
  <2>4. fontlist' \in [Client -> Seq(Handle)]
    BY <1>1, <1>2, <2>3 DEF FontTypeOK
  <2> QED
    BY <2>2, <2>4 DEF FontTypeOK
<1>7. Lists'
  <2>1. NoneTwice(IF Has(c, h) THEN fontlist[c] ELSE <<h>> \o fontlist[c])
    BY <1>2, <1>3 DEF Lists
  <2> QED
    BY <1>1, <1>2, <2>1 DEF Lists, FontTypeOK
<1>8. UsesExact'
  <2>1. ASSUME NEW g \in Handle
        PROVE  glob_font'[g].numused = Cardinality(Holders(g))' + Base(g)
    <3>1. glob_font[g].numused = Cardinality(Holders(g)) + Base(g) /\ Base(g) \in Nat
      BY DEF Inv, UsesExact, Holders, Base
    <3>2. CASE g = h /\ ~Has(c, h)
      <4>1. Cardinality(Holders(g))' = Cardinality(Holders(g)) + 1
        BY <1>4, <3>2, HolderAdded
      <4> QED
        BY <1>5, <3>1, <3>2, <4>1, HoldersCounted
    <3>3. CASE ~(g = h /\ ~Has(c, h))
      <4>1. Cardinality(Holders(g))' = Cardinality(Holders(g))
        BY <1>4, <3>3, HoldersSame
      <4>2. glob_font[g].numused \in Nat
        BY <1>2 DEF FontTypeOK
      <4> QED
        BY <1>5, <3>1, <3>3, <4>1, <4>2
    <3> QED
      BY <3>2, <3>3
  <2> QED
    BY <2>1 DEF UsesExact, Holders, Base
<1>9. LoadedOnce'
  <2>1. \A g \in Handle : g \notin Free' => g = h \/ g \notin Free
    BY <1>2, <1>5 DEF Free, FontTypeOK
  <2>2. \A g \in Handle : g \notin Free /\ glob_font[g].name = f /\ g # h
          => h \notin Free /\ glob_font[h].name = f
    BY <1>1 DEF Loaded
  <2> QED
    BY <1>5, <2>1, <2>2 DEF Inv, LoadedOnce
<1>10. ASSUME NEW d \in Client, NEW g \in Handle, Has(d, g)
       PROVE  glob_font'[g].name = glob_font[g].name
  <2>1. g \notin Free
    BY <1>10 DEF Inv, ListsOnce, Has
  <2> QED
    BY <1>1, <1>5, <2>1 DEF Loaded
<1>11. ListsOnce'
  BY <1>6, <1>7, <1>8, ListsFollow, PTL
<1> QED
  BY <1>6, <1>8, <1>9, <1>10, <1>11 DEF Inv

\* Clients give fonts back: for each slot that C has given up, one use less.
LEMMA GivenBack ==
  ASSUME Inv, NEW c \in Client, NEW C \in SUBSET Handle, \A h \in C : Has(c, h),
         \A d \in Client : \A g : Has(d, g)' <=> Has(d, g) /\ ~(d = c /\ g \in C),
         glob_font' \in [Handle -> [numused : Nat, name : Font \union {NoFont}]],
         \A g \in Handle : glob_font'[g] = IF g \in C THEN Less(glob_font[g], 1)
                                                      ELSE glob_font[g],
         FontTypeOK', Lists'
  PROVE  Inv' /\ \A d \in Client, g \in Handle :
                   Has(d, g) /\ Has(d, g)' => glob_font'[g].name = glob_font[g].name
<1>1. ASSUME NEW g \in Handle
      PROVE  /\ glob_font'[g].numused = Cardinality(Holders(g))' + Base(g)
             /\ glob_font'[g].numused # 0 => /\ glob_font'[g].name = glob_font[g].name
                                             /\ glob_font[g].numused # 0
  <2>1. /\ glob_font[g] \in [numused : Nat, name : Font \union {NoFont}]
        /\ glob_font[g].numused = Cardinality(Holders(g)) + Base(g) /\ Base(g) \in Nat
    BY DEF Inv, FontTypeOK, UsesExact, Holders, Base
  <2>2. CASE g \in C
    <3>1. Cardinality(Holders(g)) >= 1 /\ Cardinality(Holders(g)) \in Nat
      BY <2>2, HoldersCounted
    <3>2. Cardinality(Holders(g))' = Cardinality(Holders(g)) - 1
      BY <2>2, HolderRemoved
    <3>3. glob_font[g].numused >= 1 /\ glob_font'[g] = Less(glob_font[g], 1)
      BY <2>1, <2>2, <3>1
    <3>4. /\ glob_font'[g].numused = glob_font[g].numused - 1
          /\ glob_font[g].numused - 1 # 0 => glob_font'[g].name = glob_font[g].name
      BY <2>1, <3>3, LessMeans
    <3> QED
      BY <2>1, <3>1, <3>2, <3>3, <3>4
  <2>3. CASE g \notin C
    <3>1. Cardinality(Holders(g))' = Cardinality(Holders(g))
      BY <2>3, HoldersSame
    <3> QED
      BY <2>1, <2>3, <3>1
  <2> QED
    BY <2>2, <2>3
<1>2. UsesExact'
  BY <1>1 DEF UsesExact, Holders, Base
<1>3. LoadedOnce'
  BY <1>1 DEF Inv, LoadedOnce, Free
<1>4. ListsOnce'
  BY <1>2, ListsFollow, PTL
<1>5. ASSUME NEW d \in Client, NEW g \in Handle, Has(d, g)'
      PROVE  glob_font'[g].name = glob_font[g].name
  <2>1. glob_font'[g].numused # 0
    BY <1>4, <1>5 DEF ListsOnce, Has, Free
  <2> QED
    BY <1>1, <2>1
<1> QED
  BY <1>2, <1>3, <1>4, <1>5 DEF Inv

\* client_unloadfont() keeps the invariant.
LEMMA UnloadFontKeeps ==
  ASSUME Inv, NEW c \in Client, NEW h \in Handle, UnloadFont(c, h)
  PROVE  Inv' /\ \A d \in Client, g \in Handle :
                   Has(d, g) /\ Has(d, g)' => glob_font'[g].name = glob_font[g].name
<1> DEFINE s == fontlist[c]
           K == {j \in DOMAIN s : s[j] = h}
           k == First(K)
           r == SubSeq(s, 1, k - 1) \o SubSeq(s, k + 1, Len(s))
<1>1. FontTypeOK /\ Lists /\ Has(c, h) /\ h \notin Free
  BY ListsHold DEF Inv, UnloadFont, Free
<1>2. s \in Seq(Handle) /\ NoneTwice(s)
  BY <1>1 DEF FontTypeOK, Lists
<1>3. k \in DOMAIN s /\ s[k] = h
  <2>1. PICK j \in DOMAIN s : s[j] = h
    BY <1>1 DEF Has
  <2>2. K = {j}
    BY <1>2, <2>1 DEF NoneTwice
  <2>3. k = j
    BY <1>2, <2>2 DEF First
  <2> QED
    BY <2>1, <2>3
<1>4. fontlist' = [fontlist EXCEPT ![c] = r] /\ glob_font' = [glob_font EXCEPT ![h] = Less(@, 1)]
  BY DEF UnloadFont
<1> HIDE DEF k
<1>5. r \in Seq(Handle) /\ NoneTwice(r) /\ \A g : In(r, g) <=> g # h /\ In(s, g)
  BY <1>2, <1>3, TakenOut
<1> HIDE DEF r
<1>6. \A d \in Client : fontlist'[d] = IF d = c THEN r ELSE fontlist[d]
  BY <1>1, <1>4 DEF FontTypeOK
<1>7. \A d \in Client : \A g : Has(d, g)' <=> Has(d, g) /\ ~(d = c /\ g \in {h})
  BY <1>5, <1>6 DEF Has, In
<1>8. glob_font[h].numused >= 1
  BY <1>1 DEF Free, FontTypeOK
<1>9. Less(glob_font[h], 1) \in [numused : Nat, name : Font \union {NoFont}]
  BY <1>1, <1>8, LessMeans DEF FontTypeOK
<1>10. glob_font' \in [Handle -> [numused : Nat, name : Font \union {NoFont}]]
       /\ \A g \in Handle : glob_font'[g] = IF g \in {h} THEN Less(glob_font[g], 1)
                                                         ELSE glob_font[g]
  BY <1>1, <1>4, <1>9 DEF FontTypeOK
<1>11. FontTypeOK' /\ Lists'
  BY <1>1, <1>4, <1>5, <1>6, <1>10 DEF FontTypeOK, Lists
<1>12. {h} \in SUBSET Handle /\ \A g \in {h} : Has(c, g)
  BY <1>1
<1> QED
  BY <1>7, <1>10, <1>11, <1>12, GivenBack

\* killClient() keeps the invariant.
LEMMA KillFontsKeeps ==
  ASSUME Inv, NEW c \in Client, KillFonts(c)
  PROVE  Inv' /\ \A d \in Client, g \in Handle :
                   Has(d, g) /\ Has(d, g)' => glob_font'[g].name = glob_font[g].name
<1> DEFINE C == {h \in Handle : Has(c, h)}
           Uses(h) == {k \in DOMAIN fontlist[c] : fontlist[c][k] = h}
<1>1. FontTypeOK /\ Lists
  BY ListsHold DEF Inv
<1>2. ASSUME NEW h \in Handle, Has(c, h)
      PROVE  Cardinality(Uses(h)) = 1 /\ glob_font[h].numused >= 1
  <2>1. PICK j \in DOMAIN fontlist[c] : fontlist[c][j] = h
    BY <1>2 DEF Has
  <2>2. Uses(h) = {j}
    BY <1>1, <2>1 DEF Lists, NoneTwice
  <2>3. h \notin Free
    BY <2>1 DEF Inv, ListsOnce
  <2>4. glob_font[h].numused \in Nat /\ glob_font[h].numused # 0
    BY <1>1, <2>3 DEF Free, FontTypeOK
  <2> HIDE DEF Uses
  <2> QED
    BY <2>2, <2>4, FS_Singleton
<1>3. /\ glob_font' = [h \in Handle |-> IF Has(c, h)
                         THEN Less(glob_font[h], Cardinality(Uses(h))) ELSE glob_font[h]]
      /\ fontlist' = [fontlist EXCEPT ![c] = <<>>]
  BY DEF KillFonts
<1>4. \A g \in Handle : glob_font'[g] = IF g \in C THEN Less(glob_font[g], 1) ELSE glob_font[g]
  BY <1>2, <1>3
<1>5. \A d \in Client : fontlist'[d] = IF d = c THEN <<>> ELSE fontlist[d]
  BY <1>1, <1>3 DEF FontTypeOK
<1>6. \A g : Has(c, g) => g \in Handle
  BY <1>1 DEF Has, FontTypeOK
<1>7. \A d \in Client : \A g : Has(d, g)' <=> Has(d, g) /\ ~(d = c /\ g \in C)
  BY <1>5, <1>6 DEF Has
<1>8. glob_font' \in [Handle -> [numused : Nat, name : Font \union {NoFont}]]
  <2>1. ASSUME NEW g \in Handle
        PROVE  (IF Has(c, g) THEN Less(glob_font[g], Cardinality(Uses(g))) ELSE glob_font[g])
                 \in [numused : Nat, name : Font \union {NoFont}]
    BY <1>1, <1>2, LessMeans DEF FontTypeOK
  <2> QED
    BY <1>3, <2>1
<1>9. FontTypeOK' /\ Lists'
  BY <1>1, <1>3, <1>5, <1>8 DEF FontTypeOK, Lists, NoneTwice
<1>10. C \in SUBSET Handle /\ \A g \in C : Has(c, g)
  OBVIOUS
<1> QED
  BY <1>4, <1>7, <1>8, <1>9, <1>10, GivenBack

-----------------------------------------------------------------------------
(* The theorems.                                                           *)

\* font_init() establishes the invariant.
LEMMA InvInit == FontInit => Inv
<1> SUFFICES ASSUME FontInit PROVE Inv
  OBVIOUS
<1>1. FontTypeOK
  BY FontAssumption DEF FontInit, FontTypeOK, Handle, Own
<1>2. \A c \in Client : \A h : ~Has(c, h)
  BY DEF FontInit, Has
<1>3. \A h \in Handle : {c \in Client : Has(c, h)} = {}
  BY <1>2
<1>4. UsesExact
  <2>1. \A h \in Handle : glob_font[h].numused = IF h \in Own THEN 1 ELSE 0
    BY DEF FontInit
  <2> QED
    BY <1>3, <2>1, FS_EmptySet DEF UsesExact
<1>5. ListsOnce
  BY <1>2 DEF ListsOnce, Has
<1>6. LoadedOnce
  <2>1. ASSUME NEW h \in Handle \ Free PROVE h \in {0, 1}
    BY DEF FontInit, Free, Own
  <2> QED
    BY <2>1 DEF LoadedOnce, Own
<1> QED
  BY <1>1, <1>4, <1>5, <1>6 DEF Inv

\* Every step keeps the invariant, and the names of the fonts that clients keep.
LEMMA InvNext ==
  ASSUME Inv, [FontNext]_fontvars
  PROVE  Inv' /\ \A c \in Client, h \in Handle :
                   Has(c, h) /\ Has(c, h)' => glob_font'[h].name = glob_font[h].name
<1>1. CASE UNCHANGED fontvars
  <2>1. glob_font' = glob_font /\ fontlist' = fontlist
    BY <1>1 DEF fontvars
  <2>2. FontTypeOK' /\ ListsOnce' /\ LoadedOnce'
    BY <2>1 DEF Inv, FontTypeOK, ListsOnce, LoadedOnce, Free
  <2>3. UsesExact'
    BY <2>1 DEF Inv, UsesExact, Has
  <2> QED
    BY <2>1, <2>2, <2>3 DEF Inv
<1>2. CASE FontNext
  BY <1>2, LoadFontKeeps, UnloadFontKeeps, KillFontsKeeps DEF FontNext
<1> QED
  BY <1>1, <1>2

LEMMA InvCorrect == FontSpec => []Inv
BY InvInit, InvNext, PTL DEF FontSpec

\* The use counts are exact, however clients load, unload and die.
THEOREM UsesCorrect == FontSpec => []UsesExact
<1>1. Inv => UsesExact
  BY DEF Inv
<1> QED
  BY <1>1, InvCorrect, PTL

\* No file is loaded twice.
THEOREM LoadedCorrect == FontSpec => []LoadedOnce
<1>1. Inv => LoadedOnce
  BY DEF Inv
<1> QED
  BY <1>1, InvCorrect, PTL

\* Nobody takes away the font that a client keeps.
THEOREM KeptCorrect == FontSpec => FontKept
<1>1. Inv /\ [FontNext]_fontvars =>
        [\A c \in Client, h \in Handle :
           Has(c, h) /\ Has(c, h)' => glob_font'[h].name = glob_font[h].name]_fontvars
  BY InvNext
<1> QED
  BY <1>1, InvCorrect, PTL DEF FontSpec, FontKept

-----------------------------------------------------------------------------
(* The invariant.                                                          *)

SessionTypeOK ==
  /\ head \in Pointer /\ cptr \in Pointer /\ follow \in Pointer /\ saveclient \in Pointer
  /\ next \in [Client -> Pointer] /\ prev \in [Client -> Pointer]
  /\ glob_crfd \subseteq Client /\ exited \subseteq Client /\ rfd \subseteq Client
  /\ issaving \in BOOLEAN

\* The links agree: whom a client points to points back, and only the first has no
\* predecessor.
Linked ==
  /\ head # NoClient => head \in glob_crfd
  /\ \A c \in glob_crfd :
       /\ next[c] # NoClient => next[c] \in glob_crfd /\ prev[next[c]] = c
       /\ prev[c] # NoClient => prev[c] \in glob_crfd /\ next[prev[c]] = c
       /\ prev[c] = NoClient <=> c = head

\* No way leads around in a circle: the clients can be ranked.
Ranks(r) == \A c \in glob_crfd : next[c] # NoClient => r[next[c]] < r[c]
Ranked == \E r \in [Client -> Nat] : Ranks(r)

\* event_client() holds clients of the list.
Cursor ==
  /\ cptr # NoClient => cptr \in glob_crfd
  /\ follow # NoClient => follow \in glob_crfd
  /\ phase \in {"clients", "packets"} => cptr \in glob_crfd
  /\ phase = "packets" => follow = next[cptr] /\ cptr \notin rfd

SInv == SessionTypeOK /\ Linked /\ Ranked /\ Cursor /\ NothingLeft

-----------------------------------------------------------------------------
(* The steps that change the list.                                         *)

\* event_connect() keeps the list.
LEMMA AcceptKeeps ==
  ASSUME SInv, NEW c \in Client, Accept(c)
  PROVE  SInv'
<1> USE DEF SInv, SessionTypeOK, Pointer, Accept, round, saver, fontvars
<1>1. /\ c \in Client \ glob_crfd /\ c # NoClient
      /\ \A x \in glob_crfd : x # c
  BY NoClientAssumption
<1>2. SessionTypeOK'
  OBVIOUS
<1>3. Linked'
  BY <1>1, NoClientAssumption DEF Linked
<1>4. Ranked'
  <2>1. PICK r \in [Client -> Nat] : Ranks(r)
    BY DEF Ranked
  <2>2. PICK n \in Nat : head # NoClient => r[head] < n
    <3>1. CASE head = NoClient
      BY <3>1
    <3>2. CASE head # NoClient
      <4>0. head \in Client
        BY <3>2
      <4>1. r[head] \in Nat
        BY <2>1, <4>0
      <4>2. r[head] + 1 \in Nat /\ r[head] < r[head] + 1
        BY <4>1
      <4> QED
        BY <4>2
    <3> QED
      BY <3>1, <3>2
  <2> DEFINE q == [x \in Client |-> IF x = c THEN n ELSE r[x]]
  <2>4. q \in [Client -> Nat]
    BY <2>1
  <2>5. q[c] = n /\ \A x \in Client : x # c => q[x] = r[x]
    BY <1>1
  <2> HIDE DEF q
  <2>3. ASSUME NEW x \in glob_crfd', next'[x] # NoClient PROVE q[next'[x]] < q[x]
    <3>1. CASE x = c
      <4>1. next'[x] = head /\ head # c /\ head \in Client
        BY <1>1, <2>3, <3>1 DEF Linked
      <4> QED
        BY <2>2, <2>3, <2>5, <3>1, <4>1
    <3>2. CASE x # c
      <4>1. next'[x] = next[x] /\ x \in glob_crfd /\ next[x] \in glob_crfd /\ next[x] # c
        BY <1>1, <2>3, <3>2 DEF Linked
      <4>2. r[next[x]] < r[x]
        BY <1>1, <2>1, <2>3, <4>1 DEF Ranks
      <4>3. x \in Client /\ next[x] \in Client
        BY <4>1
      <4>4. q[x] = r[x] /\ q[next[x]] = r[next[x]]
        BY <2>5, <3>2, <4>1, <4>3
      <4> QED
        BY <4>1, <4>2, <4>4
    <3> QED
      BY <3>1, <3>2
  <2> QED
    BY <2>3, <2>4 DEF Ranked, Ranks
<1>5. Cursor' /\ NothingLeft'
  BY <1>1 DEF Cursor, NothingLeft
<1> QED
  BY <1>2, <1>3, <1>4, <1>5

\* killClient() keeps the list, and leaves nothing.
LEMMA NextClientKeeps ==
  ASSUME SInv, Inv, NextClient, cptr \in exited
  PROVE  SInv'
<1> USE DEF SInv, SessionTypeOK, Pointer
<1> DEFINE c == cptr
<1>1. /\ c \in glob_crfd /\ c \in Client /\ c # NoClient /\ follow = next[c] /\ c \notin rfd
      /\ cptr' = follow /\ follow' = NoClient /\ rfd' = rfd /\ exited' = exited \ {c}
      /\ glob_crfd' = glob_crfd \ {c} /\ Unlink(c) /\ KillFonts(c) /\ ReleaseSaver(c)
      /\ phase' = IF follow = NoClient THEN "tail" ELSE "clients"
  BY NoClientAssumption DEF NextClient, Cursor, Unlink
<1>2. next[c] # c
  BY <1>1 DEF Ranked, Ranks
<1> HIDE DEF c
<1>3. /\ head' = IF prev[c] = NoClient THEN next[c] ELSE head
      /\ next' = [x \in Client |-> IF x = c THEN NoClient
                                   ELSE IF x = prev[c] THEN next[c] ELSE next[x]]
      /\ prev' = [x \in Client |-> IF x = c THEN NoClient
                                   ELSE IF x = next[c] THEN prev[c] ELSE prev[x]]
  BY <1>1 DEF Unlink
<1>4. SessionTypeOK'
  BY <1>1, <1>3 DEF ReleaseSaver
<1>5. Linked'
  BY <1>1, <1>2, <1>3, NoClientAssumption DEF Linked
<1>6. Ranked'
  <2>1. PICK r \in [Client -> Nat] : Ranks(r)
    BY DEF Ranked
  <2>2. ASSUME NEW x \in glob_crfd', next'[x] # NoClient PROVE r[next'[x]] < r[x]
    <3>1. x \in glob_crfd /\ x # c /\ x \in Client
      BY <1>1, <2>2
    <3>2. CASE x = prev[c]
      <4>1. next'[x] = next[c] /\ next[x] = c /\ next[c] \in Client
        BY <1>1, <1>3, <2>2, <3>1, <3>2, NoClientAssumption DEF Linked
      <4>2. r[next[c]] < r[c] /\ r[c] < r[x]
        BY <1>1, <2>1, <2>2, <3>1, <4>1 DEF Ranks
      <4>3. r[next[c]] \in Nat /\ r[c] \in Nat /\ r[x] \in Nat
        BY <1>1, <3>1, <4>1
      <4> QED
        BY <4>1, <4>2, <4>3
    <3>3. CASE x # prev[c]
      BY <1>3, <2>1, <2>2, <3>1, <3>3 DEF Ranks
    <3> QED
      BY <3>2, <3>3
  <2> QED
    BY <2>1, <2>2 DEF Ranked, Ranks
<1>7. Cursor'
  BY <1>1, <1>2, <1>3 DEF Cursor, Linked
<1>8. NothingLeft'
  <2>1. \A x \in Client : fontlist'[x] = IF x = c THEN <<>> ELSE fontlist[x]
    BY <1>1 DEF KillFonts, Inv, FontTypeOK
  <2>2. saveclient' = IF saveclient = c THEN NoClient ELSE saveclient
    BY <1>1 DEF ReleaseSaver
  <2>3. ASSUME NEW x \in Client, x \notin glob_crfd'
        PROVE  fontlist'[x] = <<>> /\ saveclient' # x /\ x \notin exited' /\ x \notin rfd'
    <3>1. CASE x = c
      BY <1>1, <2>1, <2>2, <3>1
    <3>2. CASE x # c
      <4>1. fontlist[x] = <<>> /\ saveclient # x /\ x \notin exited /\ x \notin rfd
        BY <1>1, <2>3, <3>2 DEF NothingLeft
      <4> QED
        BY <1>1, <2>1, <2>2, <3>2, <4>1, NoClientAssumption
    <3> QED
      BY <3>1, <3>2
  <2> QED
    BY <2>3 DEF NothingLeft
<1> QED
  BY <1>4, <1>5, <1>6, <1>7, <1>8

\* A packet of a client of the list touches no other client.
LEMMA PacketKeeps ==
  ASSUME SInv, Inv, Packet
  PROVE  SInv'
<1> USE DEF SInv, SessionTypeOK, Pointer, list
<1>1. /\ cptr \in glob_crfd /\ cptr \in Client /\ phase = "packets" /\ phase' = phase
      /\ head' = head /\ next' = next /\ prev' = prev /\ glob_crfd' = glob_crfd
      /\ rfd' = rfd /\ cptr' = cptr /\ follow' = follow
  BY DEF Packet, Cursor
<1>2. /\ exited' \subseteq exited \union {cptr} /\ exited' \subseteq Client
      /\ saveclient' \in {saveclient, cptr} /\ issaving' = issaving
  BY <1>1 DEF Packet, FontPacket, SaverPacket, ExitPacket, UnknownPacket, AnsweredPacket, SilentPacket, saver
<1>3. \A x \in Client : x # cptr => fontlist'[x] = fontlist[x]
  <2>1. fontlist \in [Client -> Seq(Handle)]
    BY DEF Inv, FontTypeOK
  <2>2. FontPacket => \A x \in Client : x # cptr => fontlist'[x] = fontlist[x]
    BY <1>1, <2>1 DEF FontPacket, LoadFont, UnloadFont
  <2>3. Packet /\ ~FontPacket => fontlist' = fontlist
    BY DEF Packet, SaverPacket, ExitPacket, UnknownPacket, AnsweredPacket, SilentPacket, fontvars
  <2> QED
    BY <2>2, <2>3
<1>4. SessionTypeOK' /\ Linked' /\ Ranked' /\ Cursor'
  BY <1>1, <1>2 DEF Linked, Ranked, Ranks, Cursor
<1>5. NothingLeft'
  BY <1>1, <1>2, <1>3 DEF NothingLeft
<1> QED
  BY <1>4, <1>5

\* The other steps of the main loop move only its pointers.
LEMMA OtherKeeps ==
  ASSUME SInv, \/ Select \/ EnterClients \/ Read \/ EndRound \/ MenuExit
               \/ (NextClient /\ cptr \notin exited)
  PROVE  SInv'
<1> USE DEF SInv, SessionTypeOK, Pointer, list, round, saver, fontvars
<1>1. head' = head /\ next' = next /\ prev' = prev /\ glob_crfd' = glob_crfd
      /\ fontlist' = fontlist
  BY DEF Select, EnterClients, Read, EndRound, MenuExit, NextClient
<1>2. Linked' /\ Ranked'
  BY <1>1 DEF Linked, Ranked, Ranks
<1>3. CASE Select
  BY <1>1, <1>2, <1>3 DEF Select, Cursor, NothingLeft
<1>4. CASE EnterClients
  BY <1>1, <1>2, <1>4 DEF EnterClients, Cursor, NothingLeft, Linked
<1>5. CASE Read
  BY <1>1, <1>2, <1>5 DEF Read, Cursor, NothingLeft, Linked
<1>6. CASE EndRound
  BY <1>1, <1>2, <1>6, NoClientAssumption DEF EndRound, SaverEvent, Cursor, NothingLeft
<1>7. CASE MenuExit
  BY <1>1, <1>2, <1>7 DEF MenuExit, Cursor, NothingLeft
<1>8. CASE NextClient /\ cptr \notin exited
  BY <1>1, <1>2, <1>8 DEF NextClient, Cursor, NothingLeft
<1> QED
  BY <1>3, <1>4, <1>5, <1>6, <1>7, <1>8

\* The steps of the server: those that change nothing but waiting, and the others.
Still == UNCHANGED <<list, exited, phase, round, saver, is_terminating, fontvars>>

LEMMA Steps ==
  ASSUME [Next]_vars
  PROVE  \/ Still \/ Packet \/ NextClient \/ (\E c \in Client : Accept(c))
         \/ Select \/ EnterClients \/ Read \/ EndRound \/ MenuExit
BY DEF Next, Loop, WaitEnds, Still, vars

\* The fonts change as module Fonts says, or not at all.
LEMMA FontStep ==
  ASSUME SInv, [Next]_vars
  PROVE  [FontNext]_fontvars
<1> USE DEF fontvars
<1>1. CASE Still
  BY <1>1 DEF Still
<1>2. ASSUME NEW c \in Client, Accept(c) PROVE UNCHANGED fontvars
  BY <1>2 DEF Accept
<1>3. Select \/ EnterClients \/ Read \/ EndRound \/ MenuExit => UNCHANGED fontvars
  BY DEF Select, EnterClients, Read, EndRound, MenuExit
<1>4. CASE Packet
  <2>1. cptr \in Client
    BY <1>4 DEF Packet, SInv, SessionTypeOK, Cursor
  <2> QED
    BY <1>4, <2>1 DEF Packet, FontPacket, SaverPacket, ExitPacket, UnknownPacket, AnsweredPacket, SilentPacket, FontNext
<1>5. CASE NextClient
  <2>1. cptr \in Client
    BY <1>5 DEF NextClient, SInv, SessionTypeOK, Cursor
  <2> QED
    BY <1>5, <2>1 DEF NextClient, FontNext
<1> QED
  BY <1>1, <1>2, <1>3, <1>4, <1>5, Steps

-----------------------------------------------------------------------------
(* The theorems.                                                           *)

\* The two invariants hold together.
LEMMA BothInit == Init => SInv /\ Inv
<1> SUFFICES ASSUME Init PROVE SInv /\ Inv
  OBVIOUS
<1>1. Inv
  BY InvInit DEF Init
<1>2. Ranked
  <2>1. [c \in Client |-> 0] \in [Client -> Nat] /\ Ranks([c \in Client |-> 0])
    BY DEF Init, Ranks
  <2> QED
    BY <2>1 DEF Ranked
<1>3. NothingLeft
  BY NoClientAssumption DEF Init, FontInit, NothingLeft
<1>4. SessionTypeOK /\ Linked /\ Cursor
  BY DEF Init, SessionTypeOK, Pointer, Linked, Cursor
<1> QED
  BY <1>1, <1>2, <1>3, <1>4 DEF SInv
LEMMA BothNext ==
  ASSUME SInv, Inv, [Next]_vars
  PROVE  SInv' /\ Inv'
<1>1. Inv'
  BY FontStep, InvNext
<1>2. CASE Still
  <2>1. /\ head' = head /\ next' = next /\ prev' = prev /\ glob_crfd' = glob_crfd
        /\ exited' = exited /\ phase' = phase /\ rfd' = rfd /\ cptr' = cptr /\ follow' = follow
        /\ saveclient' = saveclient /\ issaving' = issaving /\ fontlist' = fontlist
    BY <1>2 DEF Still, list, round, saver, fontvars
  <2>2. SessionTypeOK' /\ Linked'
    BY <2>1 DEF SInv, SessionTypeOK, Linked, Pointer
  <2>3. Ranked'
    BY <2>1 DEF SInv, Ranked, Ranks
  <2>4. Cursor' /\ NothingLeft'
    BY <2>1 DEF SInv, Cursor, NothingLeft
  <2> QED
    BY <1>1, <2>2, <2>3, <2>4 DEF SInv
<1>3. CASE ~Still
  <2>1. \/ \E c \in Client : Accept(c)
        \/ Packet
        \/ NextClient /\ cptr \in exited
        \/ \/ Select \/ EnterClients \/ Read \/ EndRound \/ MenuExit
           \/ (NextClient /\ cptr \notin exited)
    BY <1>3, Steps
  <2>2. ASSUME NEW c \in Client, Accept(c) PROVE SInv'
    BY <2>2, AcceptKeeps
  <2>3. CASE Packet
    BY <1>1, <2>3, PacketKeeps
  <2>4. CASE NextClient /\ cptr \in exited
    BY <1>1, <2>4, NextClientKeeps
  <2>5. CASE Select \/ EnterClients \/ Read \/ EndRound \/ MenuExit
             \/ (NextClient /\ cptr \notin exited)
    BY <1>1, <2>5, OtherKeeps
  <2> QED
    BY <1>1, <1>3, <2>1, <2>2, <2>3, <2>4, <2>5
<1> QED
  BY <1>1, <1>2, <1>3
LEMMA BothCorrect == Spec => [](SInv /\ Inv)
BY BothInit, BothNext, PTL DEF Spec

\* Whatever the main loop does, the fonts behave as module Fonts says.
THEOREM FontsImplemented == Spec => FontSpec
<1>1. Init => FontInit
  BY DEF Init
<1>2. SInv /\ [Next]_vars => [FontNext]_fontvars
  BY FontStep
<1> QED
  BY <1>1, <1>2, BothCorrect, PTL DEF Spec, FontSpec

\* The counts of the fonts stay exact while clients exit and die in the middle of a round.
THEOREM SessionUsesCorrect == Spec => []UsesExact
BY FontsImplemented, UsesCorrect, PTL

\* No font file is loaded twice, whatever the main loop does.
THEOREM SessionLoadedCorrect == Spec => []LoadedOnce
BY FontsImplemented, LoadedCorrect, PTL

\* No client's slot is given to another font, whoever exits or dies in a round.
THEOREM SessionKeptCorrect == Spec => FontKept
BY FontsImplemented, KeptCorrect, PTL

\* The links of the list of clients agree and form no circle.
THEOREM LinksCorrect == Spec => [](Linked /\ Ranked)
<1>1. SInv => Linked /\ Ranked
  BY DEF SInv
<1> QED
  BY <1>1, BothCorrect, PTL

\* killClient() leaves nothing of a client.
THEOREM NothingLeftCorrect == Spec => []NothingLeft
<1>1. SInv => NothingLeft
  BY DEF SInv
<1> QED
  BY <1>1, BothCorrect, PTL

\* A saver that was told to start is told to stop.
THEOREM SaverCorrect == Spec => []SaverStopped
<1>1. Init => SaverStopped
  BY DEF Init, SaverStopped
<1>2. ASSUME SaverStopped, SInv, [Next]_vars PROVE SaverStopped'
  <2> USE DEF SaverStopped, saver
  <2>1. CASE UNCHANGED saver
    BY <1>2, <2>1
  <2>2. CASE Packet
    <3>1. cptr # NoClient
      BY <1>2, <2>2, NoClientAssumption DEF Packet, SInv, SessionTypeOK, Cursor
    <3> QED
      BY <1>2, <2>2, <3>1 DEF Packet, FontPacket, SaverPacket, ExitPacket, UnknownPacket, AnsweredPacket, SilentPacket
  <2>3. CASE NextClient
    BY <1>2, <2>3 DEF NextClient, ReleaseSaver
  <2>4. CASE EndRound
    <3>1. SaverEvent
      BY <2>4 DEF EndRound
    <3>2. issaving \in BOOLEAN
      BY <1>2 DEF SInv, SessionTypeOK
    <3> QED
      BY <1>2, <3>1, <3>2 DEF SaverEvent
  <2>5. Still \/ Select \/ EnterClients \/ Read \/ MenuExit \/ (\E c \in Client : Accept(c))
          => UNCHANGED saver
    BY DEF Still, Select, EnterClients, Read, MenuExit, Accept
  <2> QED
    BY <1>2, <2>1, <2>2, <2>3, <2>4, <2>5, Steps
<1> QED
  BY <1>1, <1>2, BothCorrect, PTL DEF Spec

-----------------------------------------------------------------------------
(* Everyone is served.                                                     *)

\* A set of natural numbers has a least one.
LEMMA LeastExists ==
  ASSUME NEW S \in SUBSET Nat, S # {}
  PROVE  \E x \in S : \A y \in S : x <= y
<1>1. \E x \in S : \A y \in S : ~(<<y, x>> \in OpToRel(<, Nat))
  BY WFMin, NatLessThanWellFounded
<1>2. \A x \in S, y \in S : y < x => <<y, x>> \in OpToRel(<, Nat)
  BY DEF OpToRel
<1>3. \A x \in S, y \in S : ~(y < x) => x <= y
  OBVIOUS
<1> QED
  BY <1>1, <1>2, <1>3

\* Among clients that are ranked there is a first one.
LEMMA HighestExists ==
  ASSUME NEW S \in SUBSET Client, S # {}, NEW r \in [Client -> Nat]
  PROVE  \E x \in S : \A y \in S : ~(r[x] < r[y])
<1> DEFINE Over(x) == {y \in S : r[x] < r[y]}
           T == {Cardinality(Over(x)) : x \in S}
<1>1. \A x \in S : IsFiniteSet(Over(x)) /\ Cardinality(Over(x)) \in Nat
  <2> SUFFICES ASSUME NEW x \in S PROVE IsFiniteSet(Over(x)) /\ Cardinality(Over(x)) \in Nat
    OBVIOUS
  <2>1. Over(x) \in SUBSET Client
    OBVIOUS
  <2>2. IsFiniteSet(Over(x))
    BY <2>1, ClientAssumption, FS_Subset
  <2> QED
    BY <2>2, FS_CardinalityType
<1>2. T \in SUBSET Nat /\ T # {}
  BY <1>1
<1>3. PICK n \in T : \A m \in T : n <= m
  BY <1>2, LeastExists
<1>4. PICK x \in S : n = Cardinality(Over(x))
  BY <1>3
<1>5. ASSUME NEW y \in S, r[x] < r[y]
      PROVE  FALSE
  <2>1. Over(y) \in SUBSET Over(x)
    <3> SUFFICES ASSUME NEW z \in Over(y) PROVE z \in Over(x)
      OBVIOUS
    <3>1. r[x] \in Nat /\ r[y] \in Nat /\ r[z] \in Nat /\ r[y] < r[z]
      OBVIOUS
    <3> QED
      BY <1>5, <3>1
  <2>2. y \in Over(x) /\ y \notin Over(y)
    <3>1. r[y] \in Nat
      OBVIOUS
    <3> QED
      BY <1>5, <3>1
  <2>3. Cardinality(Over(y)) <= Cardinality(Over(x))
        /\ (Cardinality(Over(x)) = Cardinality(Over(y)) => Over(x) = Over(y))
    <3> HIDE DEF Over
    <3> QED
      BY <1>1, <2>1, FS_Subset
  <2>4. Cardinality(Over(y)) \in T
    OBVIOUS
  <2>5. Cardinality(Over(x)) <= Cardinality(Over(y))
    BY <1>3, <1>4, <2>4
  <2>7. Cardinality(Over(x)) \in Nat /\ Cardinality(Over(y)) \in Nat
    BY <1>1
  <2>6. Cardinality(Over(x)) = Cardinality(Over(y))
    <3> HIDE DEF Over
    <3> QED
      BY <2>3, <2>5, <2>7
  <2> QED
    BY <2>2, <2>3, <2>6
<1> QED
  BY <1>5

\* The clients of N are all those from c on, or some that lie between.
Ahead(N, c) == N \subseteq glob_crfd /\ \A x \in N : x = c \/ prev[x] \in N

\* Whoever is readable and not yet read is still ahead of event_client().
Waiting ==
  /\ phase = "clients" => \E N : rfd \subseteq N /\ Ahead(N, cptr)
  /\ phase = "packets" => \E N : rfd \subseteq N /\ cptr \notin N /\ Ahead(N, follow)
  /\ EveryoneServed

\* Behind the last client there is none.
LEMMA NoneAhead ==
  ASSUME SInv, NEW N, Ahead(N, NoClient)
  PROVE  N = {}
<1>1. SUFFICES ASSUME N # {} PROVE FALSE
  OBVIOUS
<1>2. PICK r \in [Client -> Nat] : Ranks(r)
  BY DEF SInv, Ranked
<1>3. N \in SUBSET Client /\ N \subseteq glob_crfd
  BY DEF SInv, SessionTypeOK, Ahead
<1>4. PICK x \in N : \A y \in N : ~(r[x] < r[y])
  BY <1>1, <1>2, <1>3, HighestExists
<1>5. prev[x] \in N /\ prev[x] # NoClient /\ prev[x] \in glob_crfd
  BY <1>3, NoClientAssumption DEF Ahead
<1>6. next[prev[x]] = x /\ x # NoClient
  BY <1>3, <1>5, NoClientAssumption DEF SInv, Linked
<1>7. r[x] < r[prev[x]]
  BY <1>2, <1>5, <1>6 DEF Ranks
<1> QED
  BY <1>4, <1>5, <1>7

\* Reading from a client and going on to the next one leave nobody behind.
LEMMA WaitingKept ==
  ASSUME SInv, Waiting, [Next]_vars
  PROVE  Waiting'
<1> USE DEF Waiting
<1>1. CASE EnterClients
  <2>1. /\ glob_crfd' = glob_crfd /\ prev' = prev /\ rfd' = rfd /\ cptr' = head
        /\ phase' = IF head = NoClient THEN "tail" ELSE "clients"
    BY <1>1 DEF EnterClients, list
  <2>2. Ahead(glob_crfd, head)
    BY DEF Ahead, SInv, Linked
  <2>3. rfd \subseteq glob_crfd
    BY DEF SInv, SessionTypeOK, NothingLeft
  <2>4. PICK N : N = glob_crfd
    OBVIOUS
  <2>6. Ahead(N, cptr)'
    BY <2>1, <2>2, <2>4 DEF Ahead
  <2>5. head = NoClient => rfd = {}
    BY <2>2, <2>3, NoneAhead
  <2> QED
    BY <2>1, <2>3, <2>4, <2>5, <2>6 DEF EveryoneServed
<1>2. CASE Read
  <2>1. PICK N : rfd \subseteq N /\ Ahead(N, cptr)
    BY <1>2 DEF Read
  <2>2. /\ glob_crfd' = glob_crfd /\ prev' = prev /\ rfd' = rfd \ {cptr} /\ cptr' = cptr
        /\ follow' = next[cptr] /\ phase' = "packets"
    BY <1>2 DEF Read, list
  <2>3. ASSUME NEW x \in N \ {cptr} PROVE x = next[cptr] \/ prev[x] \in N \ {cptr}
    BY <2>1, <2>3, NoClientAssumption DEF Ahead, SInv, SessionTypeOK, Linked
  <2>4. Ahead(N \ {cptr}, follow)'
    BY <2>1, <2>2, <2>3 DEF Ahead
  <2> QED
    BY <2>1, <2>2, <2>4 DEF EveryoneServed
<1>3. CASE NextClient
  <2>1. PICK N : rfd \subseteq N /\ cptr \notin N /\ Ahead(N, follow)
    BY <1>3 DEF NextClient
  <2>2. /\ rfd' = rfd /\ cptr' = follow /\ follow = next[cptr]
        /\ phase' = IF follow = NoClient THEN "tail" ELSE "clients"
    BY <1>3 DEF NextClient, SInv, Cursor
  <2>3. glob_crfd \ {cptr} \subseteq glob_crfd'
    BY <1>3 DEF NextClient, Unlink, list
  <2>4. ASSUME NEW x \in N, x # follow PROVE prev'[x] \in N
    <3>1. prev[x] \in N /\ x \in Client /\ x # cptr
      BY <2>1, <2>4 DEF Ahead, SInv, SessionTypeOK
    <3>2. prev'[x] = prev[x]
      BY <1>3, <2>2, <2>4, <3>1 DEF NextClient, Unlink, list
    <3> QED
      BY <3>1, <3>2
  <2>5. Ahead(N, cptr)'
    BY <2>1, <2>2, <2>3, <2>4 DEF Ahead
  <2>6. follow = NoClient => rfd = {}
    BY <2>1, NoneAhead
  <2> QED
    BY <2>1, <2>2, <2>5, <2>6 DEF EveryoneServed
<1>4. CASE Packet
  <2>1. UNCHANGED <<list, phase, rfd, cptr, follow>>
    BY <1>4 DEF Packet
  <2> QED
    BY <2>1 DEF Ahead, EveryoneServed, list
<1>5. CASE Still
  BY <1>5 DEF Ahead, EveryoneServed, Still, list, round
<1>6. CASE Select \/ EndRound \/ MenuExit \/ (\E c \in Client : Accept(c))
  <2>1. /\ phase' \notin {"clients", "packets"}
        /\ phase' = "tail" => phase = "tail" /\ rfd' = rfd
    BY <1>6 DEF Select, EndRound, MenuExit, Accept, round
  <2> QED
    BY <2>1 DEF EveryoneServed
<1> QED
  BY <1>1, <1>2, <1>3, <1>4, <1>5, <1>6, Steps

\* Every client that select() found readable is read in that round, whoever exits,
\* dies or connects meanwhile.
THEOREM ServedCorrect == Spec => []EveryoneServed
<1>1. Init => Waiting
  BY DEF Init, Waiting, EveryoneServed
<1>2. SInv /\ Waiting /\ [Next]_vars => Waiting'
  BY WaitingKept
<1>3. Waiting => EveryoneServed
  BY DEF Waiting
<1> QED
  BY <1>1, <1>2, <1>3, BothCorrect, PTL DEF Spec

-----------------------------------------------------------------------------
(* The way from glob_clients.                                              *)

Step(c) == IF c = NoClient THEN NoClient ELSE next[c]

\* The recursion of Walk defines something: an initial part of every length exists.
LEMMA WalkMeans ==
  ASSUME SInv
  PROVE  LET N == Cardinality(Client)
         IN  /\ N \in Nat /\ DOMAIN Walk = 0 .. N
             /\ Walk[0] = head /\ \A k \in 1 .. N : Walk[k] = Step(Walk[k - 1])
<1> DEFINE N == Cardinality(Client)
           Start(f, n) == f[0] = head /\ \A k \in 1 .. n : f[k] = Step(f[k - 1])
           Missing == {n \in Nat : ~\E f \in [0 .. n -> Pointer] : Start(f, n)}
<1>1. N \in Nat
  BY ClientAssumption, FS_CardinalityType
<1>2. ASSUME NEW n \in Nat PROVE \E f \in [0 .. n -> Pointer] : Start(f, n)
  <2>1. SUFFICES ASSUME Missing # {} PROVE FALSE
    OBVIOUS
  <2>2. PICK m \in Missing : \A k \in Missing : m <= k
    <3> HIDE DEF Missing
    <3>1. Missing \in SUBSET Nat
      BY DEF Missing
    <3> QED
      BY <2>1, <3>1, LeastExists
  <2>3. CASE m = 0
    <3> DEFINE f == [k \in 0 .. 0 |-> head]
    <3>1. f \in [0 .. 0 -> Pointer] /\ Start(f, 0)
      BY DEF SInv, SessionTypeOK
    <3> QED
      BY <2>3, <3>1
  <2>4. CASE m # 0
    <3>1. m - 1 \in Nat /\ m - 1 \notin Missing
      BY <2>2, <2>4
    <3>2. PICK f \in [0 .. m - 1 -> Pointer] : Start(f, m - 1)
      BY <3>1
    <3> DEFINE g == [k \in 0 .. m |-> IF k = m THEN Step(f[m - 1]) ELSE f[k]]
    <3>3. f[m - 1] \in Pointer
      BY <3>1
    <3>4. Step(f[m - 1]) \in Pointer
      BY <3>3 DEF Step, Pointer, SInv, SessionTypeOK
    <3>5. g \in [0 .. m -> Pointer]
      BY <3>1, <3>4
    <3>6. g[m] = Step(f[m - 1]) /\ \A k \in 0 .. m - 1 : g[k] = f[k]
      BY <3>1
    <3> HIDE DEF g
    <3>7. g[0] = head
      BY <3>1, <3>2, <3>6
    <3>8. ASSUME NEW k \in 1 .. m PROVE g[k] = Step(g[k - 1])
      <4>1. k - 1 \in 0 .. m - 1 /\ g[k - 1] = f[k - 1]
        BY <3>6
      <4>2. k # m => k \in 1 .. m - 1 /\ k \in 0 .. m - 1
        OBVIOUS
      <4> QED
        BY <3>2, <3>6, <4>1, <4>2
    <3> QED
      BY <3>5, <3>7, <3>8
  <2> QED
    BY <2>3, <2>4
<1>3. PICK f \in [0 .. N -> Pointer] : Start(f, N)
  BY <1>1, <1>2
<1> DEFINE Rec(at) == at = [k \in 0 .. N |->
             IF k = 0 THEN head ELSE IF at[k - 1] = NoClient THEN NoClient ELSE next[at[k - 1]]]
<1>4. Rec(f)
  <2>1. \A k \in 0 .. N : f[k] = IF k = 0 THEN head
                                 ELSE IF f[k - 1] = NoClient THEN NoClient ELSE next[f[k - 1]]
    BY <1>1, <1>3 DEF Step
  <2>2. f = [k \in 0 .. N |-> f[k]]
    OBVIOUS
  <2> QED
    BY <2>1, <2>2
<1>5. Walk = CHOOSE at : Rec(at)
  BY DEF Walk
<1>6. Rec(Walk)
  <2> HIDE DEF Rec
  <2> QED
    BY <1>4, <1>5
<1>7. /\ DOMAIN Walk = 0 .. N
      /\ \A k \in 0 .. N : Walk[k] = IF k = 0 THEN head ELSE Step(Walk[k - 1])
  BY <1>6 DEF Step
<1> HIDE DEF N
<1> QED
  BY <1>1, <1>7 DEF N

\* On the way the rank goes down, as long as clients follow.
LEMMA WalkDown ==
  ASSUME SInv, NEW r \in [Client -> Nat], Ranks(r), NEW k \in 0 .. Cardinality(Client),
         Walk[k] # NoClient
  PROVE  /\ Walk[k] \in glob_crfd
         /\ \A j \in 0 .. k : Walk[j] \in glob_crfd /\ (j < k => r[Walk[k]] < r[Walk[j]])
<1> DEFINE N == Cardinality(Client)
           Sound(n) == Walk[n] # NoClient =>
             \A j \in 0 .. n : Walk[j] \in glob_crfd /\ (j < n => r[Walk[n]] < r[Walk[j]])
           Wrong == {n \in 0 .. N : ~Sound(n)}
<1>1. /\ N \in Nat /\ Walk[0] = head /\ \A n \in 1 .. N : Walk[n] = Step(Walk[n - 1])
  BY WalkMeans
<1>2. SUFFICES Wrong = {}
  <2>1. Sound(k)
    BY <1>2
  <2> QED
    BY <1>1, <2>1
<1>3. SUFFICES ASSUME Wrong # {} PROVE FALSE
  OBVIOUS
<1>4. PICK m \in Wrong : \A n \in Wrong : m <= n
  <2> HIDE DEF Wrong
  <2>1. Wrong \in SUBSET Nat
    BY <1>1 DEF Wrong
  <2> QED
    BY <1>3, <2>1, LeastExists
<1>5. m \in 0 .. N /\ Walk[m] # NoClient
  OBVIOUS
<1> HIDE DEF N
<1>6. CASE m = 0
  <2>1. Walk[0] \in glob_crfd
    BY <1>1, <1>5, <1>6 DEF SInv, Linked
  <2> QED
    BY <1>6, <2>1
<1>7. CASE m # 0
  <2>1. m \in 1 .. N /\ m - 1 \in 0 .. N /\ m - 1 \notin Wrong
    BY <1>1, <1>4, <1>5, <1>7
  <2>2. Walk[m] = Step(Walk[m - 1])
    BY <1>1, <2>1
  <2>3. Walk[m - 1] # NoClient /\ Walk[m] = next[Walk[m - 1]]
    BY <1>5, <2>2 DEF Step
  <2>4. \A j \in 0 .. m - 1 : Walk[j] \in glob_crfd /\ (j < m - 1 => r[Walk[m - 1]] < r[Walk[j]])
    BY <2>1, <2>3
  <2>5. Walk[m - 1] \in glob_crfd
    BY <2>1, <2>4
  <2>6. Walk[m] \in glob_crfd /\ r[Walk[m]] < r[Walk[m - 1]]
    BY <1>5, <2>3, <2>5 DEF SInv, Linked, Ranks
  <2>7. glob_crfd \subseteq Client
    BY DEF SInv, SessionTypeOK
  <2>8. ASSUME NEW j \in 0 .. m
        PROVE  Walk[j] \in glob_crfd /\ (j < m => r[Walk[m]] < r[Walk[j]])
    <3>1. CASE j = m
      BY <2>6, <3>1
    <3>2. CASE j = m - 1
      BY <2>5, <2>6, <3>2
    <3>3. CASE j # m /\ j # m - 1
      <4>1. j \in 0 .. m - 1 /\ j < m - 1
        BY <2>1, <3>3
      <4>2. Walk[j] \in glob_crfd /\ r[Walk[m - 1]] < r[Walk[j]]
        BY <2>4, <4>1
      <4>3. r[Walk[m]] \in Nat /\ r[Walk[m - 1]] \in Nat /\ r[Walk[j]] \in Nat
        BY <2>5, <2>6, <2>7, <4>2
      <4> QED
        BY <2>6, <4>2, <4>3
    <3> QED
      BY <3>1, <3>2, <3>3
  <2>9. Sound(m)
    BY <2>8
  <2> QED
    BY <2>9
<1> QED
  BY <1>6, <1>7

\* The way ends: it would otherwise lead over more clients than there are.
LEMMA WalkEnds ==
  ASSUME SInv
  PROVE  Walk[Cardinality(Client)] = NoClient
<1> DEFINE N == Cardinality(Client)
<1>1. PICK r \in [Client -> Nat] : Ranks(r)
  BY DEF SInv, Ranked
<1>2. N \in Nat
  BY WalkMeans
<1>3. SUFFICES ASSUME Walk[N] # NoClient PROVE FALSE
  OBVIOUS
<1>4. glob_crfd \subseteq Client
  BY DEF SInv, SessionTypeOK
<1>5. N \in 0 .. N
  BY <1>2
<1>6. \A j \in 0 .. N : Walk[j] \in Client
  BY <1>1, <1>3, <1>4, <1>5, WalkDown
<1> DEFINE S == 0 .. N
           f == [j \in S |-> Walk[j]]
<1>7. f \in [S -> Client]
  BY <1>6
<1>8. IsFiniteSet(S) /\ Cardinality(S) = N + 1
  BY <1>2, FS_Interval
<1>9. PICK i, j \in S : i # j /\ f[i] = f[j]
  <2> HIDE DEF f, S
  <2>1. Cardinality(Client) < Cardinality(S)
    BY <1>2, <1>8
  <2> QED
    BY <1>7, <1>8, <2>1, ClientAssumption, FS_PigeonHole
<1>10. ASSUME NEW a \in S, NEW b \in S, a < b, Walk[a] = Walk[b] PROVE FALSE
  <2>1. Walk[b] \in Client /\ Walk[b] # NoClient
    BY <1>6, NoClientAssumption
  <2>2. a \in 0 .. b /\ b \in 0 .. N
    BY <1>2, <1>10
  <2>3. r[Walk[b]] < r[Walk[a]]
    BY <1>1, <1>10, <2>1, <2>2, WalkDown
  <2>4. r[Walk[b]] \in Nat
    BY <2>1
  <2> QED
    BY <1>10, <2>3, <2>4
<1>11. Walk[i] = Walk[j]
  BY <1>9
<1>12. i < j \/ j < i
  BY <1>2, <1>9
<1> QED
  BY <1>10, <1>11, <1>12

\* Every client with an open socket is on the way.
LEMMA WalkReaches ==
  ASSUME SInv, NEW c \in glob_crfd
  PROVE  \E k \in 0 .. Cardinality(Client) : Walk[k] = c
<1> DEFINE N == Cardinality(Client)
           Left == {x \in glob_crfd : ~\E k \in 0 .. N : Walk[k] = x}
<1>1. SUFFICES ASSUME Left # {} PROVE FALSE
  OBVIOUS
<1>2. PICK r \in [Client -> Nat] : Ranks(r)
  BY DEF SInv, Ranked
<1>3. N \in Nat /\ Walk[0] = head /\ \A k \in 1 .. N : Walk[k] = Step(Walk[k - 1])
  BY WalkMeans
<1>4. Walk[N] = NoClient
  BY WalkEnds
<1>5. Left \in SUBSET Client
  BY DEF SInv, SessionTypeOK
<1>6. PICK x \in Left : \A y \in Left : ~(r[x] < r[y])
  <2> HIDE DEF Left
  <2> QED
    BY <1>1, <1>2, <1>5, HighestExists
<1> HIDE DEF N
<1>7. x # head
  BY <1>3
<1>8. prev[x] # NoClient /\ prev[x] \in glob_crfd /\ next[prev[x]] = x
  BY <1>7 DEF SInv, Linked
<1>9. x # NoClient
  BY <1>5, NoClientAssumption
<1>10. r[x] < r[prev[x]]
  BY <1>2, <1>8, <1>9 DEF Ranks
<1>11. PICK k \in 0 .. N : Walk[k] = prev[x]
  BY <1>6, <1>8, <1>10
<1>12. k + 1 \in 1 .. N /\ k + 1 \in 0 .. N /\ (k + 1) - 1 = k
  BY <1>3, <1>4, <1>8, <1>11
<1>13. Walk[k + 1] = x
  BY <1>3, <1>8, <1>11, <1>12 DEF Step
<1> QED
  BY <1>12, <1>13

\* The list of clients is what event_connect() and killClient() should keep it: the
\* links lead from glob_clients to each client with an open socket, to no other, and
\* back again, whoever connects, exits or dies in the middle of a round.
THEOREM ListCorrect == Spec => []ListOK
<1>1. SInv => ListOK
  <2> SUFFICES ASSUME SInv PROVE ListOK
    OBVIOUS
  <2> DEFINE N == Cardinality(Client)
  <2>1. PICK r \in [Client -> Nat] : Ranks(r)
    BY DEF SInv, Ranked
  <2>2. N \in Nat /\ DOMAIN Walk = 0 .. N
    BY WalkMeans
  <2>3. \A k \in 0 .. N : Walk[k] # NoClient => Walk[k] \in glob_crfd
    BY <2>1, WalkDown
  <2>4. NoClient \notin glob_crfd
    BY NoClientAssumption DEF SInv, SessionTypeOK
  <2>5. {Walk[k] : k \in DOMAIN Walk} \ {NoClient} = glob_crfd
    <3>1. \A c \in glob_crfd : \E k \in 0 .. N : Walk[k] = c
      BY WalkReaches
    <3> HIDE DEF N
    <3> QED
      BY <2>2, <2>3, <2>4, <3>1
  <2>6. Walk[N] = NoClient
    BY WalkEnds
  <2>7. \A c \in glob_crfd : /\ prev[c] = NoClient <=> c = head
                             /\ prev[c] # NoClient => next[prev[c]] = c
    BY DEF SInv, Linked
  <2>8. /\ {cptr, follow} \subseteq glob_crfd \union {NoClient}
        /\ phase = "packets" => follow = next[cptr]
    BY DEF SInv, Cursor
  <2> QED
    BY <2>5, <2>6, <2>7, <2>8 DEF ListOK
<1> QED
  BY <1>1, BothCorrect, PTL
=============================================================================
