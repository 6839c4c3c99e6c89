----------------------------- MODULE SessionProofs -----------------------------
(***************************************************************************)
(* Proofs about the menu's list and about the start of a program.          *)
(*                                                                         *)
(* The list, for all folders, heights and points: whatever is pressed,     *)
(* dragged, opened, switched and changed in the settings, the selection    *)
(* lies on a row that is shown, each row has its own banner, a row of each *)
(* game has the type of its save, and the animated icon is that of the     *)
(* selected row.                                                           *)
(*                                                                         *)
(* The start, for all games, files, tables and speeds: wherever the two    *)
(* processors are, the words they change over with are as the other one    *)
(* needs them (HandedOver), and what the loader has prepared by then is    *)
(* right (Prepared).  This needs that the delays are long enough (Prompt). *)
(***************************************************************************)
EXTENDS Session, TLAPS

-----------------------------------------------------------------------------
(* The place in a list.                                                    *)

Views == {"icon", "list"}

(* Place p suits a list of n rows of which v fit on the screen. *)
PlaceOK(p, n, v) ==
    /\ p \in AtRows
    /\ n > 0 => p.sel < n /\ p.sel \in p.first .. p.first + v - 1
    /\ p.first = 0 \/ n - p.first >= v - 1

LEMMA VisibleIs == ASSUME NEW w \in Views PROVE VisibleRows(w) \in Nat /\ VisibleRows(w) >= 2
BY ListAssumption DEF VisibleRows, Views

LEMMA WithinIs ==
    ASSUME NEW id \in Int, NEW low \in Int, NEW high \in Int
    PROVE  /\ Within(id, low, high) \in Int /\ Within(id, low, high) >= low
           /\ Within(id, low, high) <= high \/ Within(id, low, high) = low
           /\ id <= Within(id, low, high) \/ Within(id, low, high) = high \/ high < low
           /\ Within(id, low, high) <= id \/ Within(id, low, high) = low
BY DEF Within, Larger, Smaller

(* The first row after the list has been scrolled to row id. *)
LEMMA ScrolledTo ==
    ASSUME NEW p \in AtRows, NEW id \in Int, NEW n \in Nat, NEW v \in Nat, v >= 2, n > 0
    PROVE  /\ ScrollTo(p, id, n, v) \in AtRows /\ ScrollTo(p, id, n, v).sel = p.sel
           /\ ScrollTo(p, id, n, v).first =
                (IF id <= 0 \/ n + 1 <= v THEN 0 ELSE IF id <= n - v + 1 THEN id ELSE n - v + 1)
<1> DEFINE f == Within(id, 0, Smaller(n - 1, n - v + 1))
<1>1. ScrollTo(p, id, n, v) = [p EXCEPT !.first = f]
  BY DEF ScrollTo
<1>2. f = (IF id <= 0 \/ n + 1 <= v THEN 0 ELSE IF id <= n - v + 1 THEN id ELSE n - v + 1)
  BY DEF Within, Larger, Smaller
<1>3. f \in Nat
  BY <1>2
<1> HIDE DEF f
<1> QED
  BY <1>1, <1>2, <1>3 DEF AtRows

(* The row that is meant by id, and the first row after it was selected. *)
Meant(id, n) == IF id <= 0 THEN 0 ELSE IF id < n THEN id ELSE n - 1
FirstAfter(p, row, n, v) ==
    IF p.first <= row /\ row <= p.first + v - 1 THEN p.first
    ELSE IF row - (p.sel - p.first) <= 0 \/ n + 1 <= v THEN 0
    ELSE IF row - (p.sel - p.first) <= n - v + 1 THEN row - (p.sel - p.first) ELSE n - v + 1

(* Selecting a row keeps it in sight. *)
LEMMA SelectKeeps ==
    ASSUME NEW p, NEW id \in Int, NEW n \in Nat, NEW v \in Nat, v >= 2, PlaceOK(p, n, v)
    PROVE  /\ PlaceOK(SelectRow(p, id, n, v), n, v)
           /\ n > 0 => /\ SelectRow(p, id, n, v).sel = Meant(id, n)
                       /\ SelectRow(p, id, n, v).first = FirstAfter(p, Meant(id, n), n, v)
<1>1. CASE n = 0
  BY <1>1 DEF SelectRow
<1>2. CASE n > 0
  <2> DEFINE row  == Within(id, 0, n - 1)
             last == Smaller(p.first + v - 1, n - 1)
             s    == ScrollTo(p, row - (p.sel - p.first), n, v)
             q    == IF row < p.first \/ row > last THEN s ELSE p
  <2>1. SelectRow(p, id, n, v) = [q EXCEPT !.sel = row]
    BY <1>2 DEF SelectRow
  <2>2. row = Meant(id, n) /\ row \in 0 .. n - 1
    BY <1>2 DEF Within, Larger, Smaller, Meant
  <2>3. p \in AtRows /\ p.first \in Nat /\ p.sel \in Nat /\ p.sel < n /\ p.first <= p.sel /\ p.sel <= p.first + v - 1
        /\ (p.first = 0 \/ n - p.first >= v - 1)
    BY <1>2 DEF PlaceOK, AtRows
  <2>4. last \in Int /\ last <= p.first + v - 1 /\ last <= n - 1 /\ (last = p.first + v - 1 \/ last = n - 1)
    BY <2>3 DEF Smaller
  <2> HIDE DEF row, last
  <2>5. row - (p.sel - p.first) \in Int
    BY <2>2, <2>3
  <2>6. /\ s \in AtRows
        /\ s.first = (IF row - (p.sel - p.first) <= 0 \/ n + 1 <= v THEN 0
                      ELSE IF row - (p.sel - p.first) <= n - v + 1 THEN row - (p.sel - p.first) ELSE n - v + 1)
    <3> DEFINE k == row - (p.sel - p.first)
    <3> HIDE DEF k
    <3>1. k \in Int /\ v >= 2
      BY <2>5 DEF k
    <3>2. /\ ScrollTo(p, k, n, v) \in AtRows
          /\ ScrollTo(p, k, n, v).first = (IF k <= 0 \/ n + 1 <= v THEN 0 ELSE IF k <= n - v + 1 THEN k ELSE n - v + 1)
      <4>1. p \in AtRows
        BY <2>3
      <4> QED
        BY <1>2, <3>1, <4>1, ScrolledTo
    <3> QED
      BY <3>2 DEF k
  <2> HIDE DEF s
  <2>7. q \in AtRows
    BY <2>3, <2>6
  <2>8. q.first <= row /\ row <= q.first + v - 1 /\ (q.first = 0 \/ n - q.first >= v - 1)
    <3>1. CASE row < p.first \/ row > last
      <4>1. q = s
        BY <3>1
      <4>2. s.first <= row /\ row <= s.first + v - 1 /\ (s.first = 0 \/ n - s.first >= v - 1)
        BY <2>2, <2>3, <2>6
      <4> QED
        BY <4>1, <4>2
    <3>2. CASE ~(row < p.first \/ row > last)
      <4>1. q = p
        BY <3>2
      <4>2. p.first <= row /\ row <= p.first + v - 1
        BY <2>2, <2>3, <2>4, <3>2
      <4> QED
        BY <2>3, <4>1, <4>2
    <3> QED
      BY <3>1, <3>2
  <2>11. q.first = FirstAfter(p, row, n, v)
    <3>1. CASE row < p.first \/ row > last
      BY <2>2, <2>3, <2>4, <2>6, <3>1 DEF FirstAfter
    <3>2. CASE ~(row < p.first \/ row > last)
      BY <2>2, <2>3, <2>4, <3>2 DEF FirstAfter
    <3> QED
      BY <3>1, <3>2
  <2> HIDE DEF q
  <2>9. SelectRow(p, id, n, v).first = q.first /\ SelectRow(p, id, n, v).sel = row /\ SelectRow(p, id, n, v) \in AtRows
    BY <2>1, <2>2, <2>7 DEF AtRows
  <2>10. q.first \in Nat
    BY <2>7 DEF AtRows
  <2> QED
    BY <2>2, <2>8, <2>9, <2>10, <2>11 DEF PlaceOK
<1> QED
  BY <1>1, <1>2

(* So does a movement of the pen that scrolls by one row as well, ... *)
LEMMA DragKeeps ==
    ASSUME NEW p, NEW d \in {-1, 1}, NEW n \in Nat, NEW v \in Nat, v >= 2, PlaceOK(p, n, v),
           NEW q, q = SelectRow(p, p.sel + d, n, v)
    PROVE  PlaceOK(ScrollTo(q, q.first + d, n, v), n, v)
<1>0. p \in AtRows /\ p.sel \in Nat /\ p.first \in Nat
  BY DEF PlaceOK, AtRows
<1>1. PlaceOK(q, n, v) /\ (n > 0 => q.sel = Meant(p.sel + d, n) /\ q.first = FirstAfter(p, Meant(p.sel + d, n), n, v))
  BY <1>0, SelectKeeps
<1>2. CASE n = 0
  BY <1>1, <1>2 DEF ScrollTo
<1>3. CASE n > 0
  <2> DEFINE s == ScrollTo(q, q.first + d, n, v)
  <2>1. q \in AtRows /\ q.first \in Nat /\ q.sel \in Nat /\ q.sel < n /\ q.first <= q.sel /\ q.sel <= q.first + v - 1
        /\ (q.first = 0 \/ n - q.first >= v - 1)
    BY <1>1, <1>3 DEF PlaceOK, AtRows
  <2>4. /\ p.sel < n /\ p.first <= p.sel /\ p.sel <= p.first + v - 1 /\ (p.first = 0 \/ n - p.first >= v - 1)
    BY <1>0, <1>3 DEF PlaceOK
  <2>2. /\ s \in AtRows /\ s.sel = q.sel
        /\ s.first = (IF q.first + d <= 0 \/ n + 1 <= v THEN 0
                      ELSE IF q.first + d <= n - v + 1 THEN q.first + d ELSE n - v + 1)
    <3> DEFINE k == q.first + d
    <3> HIDE DEF k
    <3>1. k \in Int /\ v >= 2
      BY <2>1 DEF k
    <3>2. /\ ScrollTo(q, k, n, v) \in AtRows /\ ScrollTo(q, k, n, v).sel = q.sel
          /\ ScrollTo(q, k, n, v).first = (IF k <= 0 \/ n + 1 <= v THEN 0 ELSE IF k <= n - v + 1 THEN k ELSE n - v + 1)
      <4>1. q \in AtRows
        BY <2>1
      <4> QED
        BY <1>3, <3>1, <4>1, ScrolledTo
    <3> QED
      BY <3>2 DEF k
  <2> HIDE DEF s
  <2>3. s.first <= q.sel /\ q.sel <= s.first + v - 1 /\ (s.first = 0 \/ n - s.first >= v - 1)
    <3>1. CASE d = 1
      BY <1>0, <1>1, <1>3, <2>1, <2>2, <2>4, <3>1 DEF Meant, FirstAfter
    <3>2. CASE d = -1
      BY <1>0, <1>1, <1>3, <2>1, <2>2, <2>4, <3>2 DEF Meant, FirstAfter
    <3> QED
      BY <3>1, <3>2
  <2> QED
    BY <1>3, <2>1, <2>2, <2>3 DEF PlaceOK, s, AtRows
<1> QED
  BY <1>2, <1>3

(* ... and another height of the rows. *)
LEMMA ScrollKeeps ==
    ASSUME NEW p \in AtRows, NEW n \in Nat, NEW v \in Nat, v >= 2, n > 0 => p.sel < n, n = 0 => p.first = 0
    PROVE  PlaceOK(ScrollTo(p, p.sel - v + 1, n, v), n, v)
<1>1. CASE n = 0
  BY <1>1 DEF ScrollTo, PlaceOK
<1>2. CASE n > 0
  <2> DEFINE s == ScrollTo(p, p.sel - v + 1, n, v)
  <2>1. p.sel \in Nat /\ p.sel < n
    BY <1>2 DEF AtRows
  <2>2. /\ s \in AtRows /\ s.sel = p.sel
        /\ s.first = (IF p.sel - v + 1 <= 0 \/ n + 1 <= v THEN 0
                      ELSE IF p.sel - v + 1 <= n - v + 1 THEN p.sel - v + 1 ELSE n - v + 1)
    <3> DEFINE k == p.sel - v + 1
    <3> HIDE DEF k
    <3>1. k \in Int /\ v >= 2
      BY <2>1 DEF k
    <3>2. /\ ScrollTo(p, k, n, v) \in AtRows /\ ScrollTo(p, k, n, v).sel = p.sel
          /\ ScrollTo(p, k, n, v).first = (IF k <= 0 \/ n + 1 <= v THEN 0 ELSE IF k <= n - v + 1 THEN k ELSE n - v + 1)
      BY <1>2, <3>1, ScrolledTo
    <3> QED
      BY <3>2 DEF k
  <2> HIDE DEF s
  <2>3. s.first <= p.sel /\ p.sel <= s.first + v - 1 /\ (s.first = 0 \/ n - s.first >= v - 1)
    BY <1>2, <2>1, <2>2
  <2> QED
    BY <1>2, <2>1, <2>2, <2>3 DEF PlaceOK, s
<1> QED
  BY <1>1, <1>2

LEMMA TopIs ==
    ASSUME NEW n \in Nat, NEW v \in Nat, v >= 2
    PROVE  PlaceOK(Top, n, v)
BY DEF Top, PlaceOK, AtRows

-----------------------------------------------------------------------------
(* The rows, their descriptions and the icon.                              *)

RowsOK  == dir \in DOMAIN Content /\ \E t \in 0 .. 2 : rows = Listing[dir][t]
InputOK ==
    /\ view \in Views /\ fileListType \in 0 .. 2 /\ pen \in Points \cup {NULL} /\ held \in Moves \cup {NULL}
    /\ idle \in BOOLEAN /\ moved \in BOOLEAN /\ sumOfMoveY \in -4 .. 4

InfoSet == [banner : Banner, isDSRom : BOOLEAN, saveType : SaveTypes \cup {NULL}]
Described == infos \in Seq(InfoSet) /\ InfosOfRows

ListInv ==
    /\ RowsOK
    /\ InputOK
    /\ saveList \in [Titles -> SaveTypes \cup {NULL}]
    /\ Described
    /\ PlaceOK(place, Len(rows), VisibleRows(view))
    /\ IconOfSelected

LEMMA ListingIs ==
    ASSUME NEW d \in DOMAIN Content, NEW t \in 0 .. 2
    PROVE  /\ Listing[d][t] \in Seq(DOMAIN Kind) /\ IsInjective(Listing[d][t])
           /\ Len(Listing[d][t]) \in Nat /\ DOMAIN Listing[d][t] = 1 .. Len(Listing[d][t])
           /\ \A i \in DOMAIN Listing[d][t] : Listing[d][t][i] \in DOMAIN Kind
           /\ ToSet(Listing[d][t]) = {e \in ToSet(Content[d]) : IsShown(e, t)}
<1>1. /\ Listing[d][t] \in Seq(ToSet(Content[d])) /\ ToSet(Content[d]) \subseteq DOMAIN Kind
      /\ IsInjective(Listing[d][t]) /\ ToSet(Listing[d][t]) = {e \in ToSet(Content[d]) : IsShown(e, t)}
  BY ListingAssumption
<1> DEFINE s == Listing[d][t]
<1> HIDE DEF s
<1>2. s \in Seq(ToSet(Content[d])) /\ ToSet(Content[d]) \subseteq DOMAIN Kind
  BY <1>1 DEF s
<1>3. s \in Seq(DOMAIN Kind) /\ Len(s) \in Nat /\ DOMAIN s = 1 .. Len(s) /\ \A i \in DOMAIN s : s[i] \in DOMAIN Kind
  BY <1>2
<1> QED
  BY <1>1, <1>3 DEF s

LEMMA RowsAre ==
    ASSUME RowsOK
    PROVE  /\ rows \in Seq(DOMAIN Kind) /\ IsInjective(rows) /\ Len(rows) \in Nat /\ DOMAIN rows = 1 .. Len(rows)
           /\ \A i \in DOMAIN rows : rows[i] \in DOMAIN Kind /\ Kind[rows[i]] # "dot"
<1>1. PICK t \in 0 .. 2 : rows = Listing[dir][t]
  BY DEF RowsOK
<1>2. dir \in DOMAIN Content
  BY DEF RowsOK
<1>3. /\ rows \in Seq(DOMAIN Kind) /\ IsInjective(rows) /\ Len(rows) \in Nat /\ DOMAIN rows = 1 .. Len(rows)
      /\ \A i \in DOMAIN rows : rows[i] \in DOMAIN Kind
      /\ ToSet(rows) = {e \in ToSet(Content[dir]) : IsShown(e, t)}
  BY <1>1, <1>2, ListingIs
<1>4. ASSUME NEW i \in DOMAIN rows PROVE Kind[rows[i]] # "dot"
  <2>1. rows[i] \in ToSet(rows)
    BY DEF ToSet
  <2>2. IsShown(rows[i], t)
    BY <1>3, <2>1
  <2> QED
    BY <2>2 DEF IsShown
<1> QED
  BY <1>3, <1>4

(* A game is described as one, and only a game is. *)
LEMMA InfoIs ==
    ASSUME NEW e \in DOMAIN Kind, Kind[e] # "dot", saveList \in [Titles -> SaveTypes \cup {NULL}]
    PROVE  /\ Info(e) \in [banner : Banner, isDSRom : BOOLEAN, saveType : SaveTypes \cup {NULL}]
           /\ Info(e).isDSRom <=> e \in Roms
<1>1. Kind[e] \in {"folder", "save", "other", "rom", "bad", "gone"}
  BY ListingAssumption
<1>2. CASE Kind[e] = "rom"
  <2>1. e \in Roms
    BY <1>2 DEF Roms
  <2>2. Info(e) = [banner |-> "rom", isDSRom |-> TRUE, saveType |-> saveList[GameOf[e]]] /\ saveList[GameOf[e]] \in SaveTypes \cup {NULL}
    BY <1>2, <2>1 DEF Info, Titles
  <2> QED
    BY <2>1, <2>2 DEF Banner
<1>3. CASE Kind[e] # "rom"
  <2>1. e \notin Roms
    BY <1>3 DEF Roms
  <2> DEFINE b == CASE Kind[e] = "gone" -> "blank" [] OTHER -> Kind[e]
  <2>2. b \in Banner
    BY <1>1 DEF Banner
  <2>3. Info(e) = [banner |-> b, isDSRom |-> FALSE, saveType |-> NULL]
    BY <1>3 DEF Info
  <2> HIDE DEF b
  <2> QED
    BY <2>1, <2>2, <2>3
<1> QED
  BY <1>2, <1>3

(* Rows that have just been described. *)
LEMMA JustDescribed ==
    ASSUME RowsOK, saveList \in [Titles -> SaveTypes \cup {NULL}], infos = [i \in DOMAIN rows |-> Info(rows[i])]
    PROVE  Described
<1>1. Len(rows) \in Nat /\ DOMAIN rows = 1 .. Len(rows) /\ infos = [i \in 1 .. Len(rows) |-> Info(rows[i])]
  BY RowsAre
<1>2. \A i \in 1 .. Len(rows) : Info(rows[i]) \in InfoSet
  BY <1>1, RowsAre, InfoIs DEF InfoSet
<1>3. infos \in Seq(InfoSet) /\ Len(infos) = Len(rows)
  <2>1. infos \in [1 .. Len(rows) -> InfoSet]
    BY <1>1, <1>2
  <2> HIDE DEF InfoSet
  <2> QED
    BY <1>1, <2>1
<1>4. \A i \in DOMAIN rows : infos[i] = Info(rows[i]) /\ SameGame(rows[i], rows[i])
  BY <1>1 DEF SameGame
<1> QED
  BY <1>3, <1>4 DEF Described, InfosOfRows

LEMMA JustDescribedThen ==
    RowsOK /\ saveList \in [Titles -> SaveTypes \cup {NULL}] /\ infos = [i \in DOMAIN rows |-> Info(rows[i])] => Described
BY JustDescribed

LEMMA InfosAre ==
    ASSUME ListInv
    PROVE  /\ Len(infos) = Len(rows) /\ DOMAIN infos = DOMAIN rows
           /\ infos \in Seq(InfoSet)
           /\ \A i \in DOMAIN rows : infos[i] \in InfoSet /\ (infos[i].isDSRom <=> rows[i] \in Roms)
<1>1. Len(rows) \in Nat /\ DOMAIN rows = 1 .. Len(rows)
  BY RowsAre DEF ListInv
<1>2. infos \in Seq(InfoSet) /\ Len(infos) = Len(rows) /\ DOMAIN infos = DOMAIN rows
  <2>1. infos \in Seq(InfoSet) /\ Len(infos) = Len(rows)
    BY DEF ListInv, Described, InfosOfRows
  <2> HIDE DEF InfoSet
  <2> QED
    BY <1>1, <2>1
<1>3. ASSUME NEW i \in DOMAIN rows PROVE infos[i] \in InfoSet /\ (infos[i].isDSRom <=> rows[i] \in Roms)
  <2>1. infos[i] \in InfoSet
    BY <1>1, <1>2
  <2>2. infos[i].isDSRom = Info(rows[i]).isDSRom
    BY DEF ListInv, Described, InfosOfRows
  <2>3. Info(rows[i]).isDSRom <=> rows[i] \in Roms
    BY RowsAre, InfoIs DEF ListInv
  <2> QED
    BY <2>1, <2>2, <2>3
<1> QED
  BY <1>2, <1>3

(* What the run checks of the list follows. *)
LEMMA ListHolds ==
    ASSUME ListInv
    PROVE  SelectedVisible /\ ListFull /\ InfosOfRows /\ IconOfSelected
<1>1. Len(rows) \in Nat /\ VisibleRows(view) \in Nat /\ PlaceOK(place, Len(rows), VisibleRows(view))
      /\ (rows # <<>> => Len(rows) > 0)
  BY RowsAre, VisibleIs DEF ListInv, InputOK
<1>2. SelectedVisible /\ ListFull
  BY <1>1 DEF SelectedVisible, ListFull, PlaceOK
<1> QED
  BY <1>2 DEF ListInv, Described

-----------------------------------------------------------------------------
(* A pass of the main loop.                                                *)

(* The icon is left alone only as long as the selection is. *)
LEMMA DrawKeeps ==
    ASSUME Draw, IconOfSelected,
           ~idle' \/ held' # NULL \/ (held = NULL /\ UNCHANGED <<place, view, infos>>)
    PROVE  IconOfSelected'
<1>1. CASE ~idle' \/ held' # NULL
  BY <1>1 DEF Draw, IconOfSelected
<1>2. CASE held = NULL /\ UNCHANGED <<place, view, infos>>
  BY <1>2 DEF Draw, IconOfSelected, IconFor
<1> QED
  BY <1>1, <1>2

LEMMA RowsKept ==
    ASSUME ListInv, UNCHANGED <<rowVars, saveList>>, InputOK', IconOfSelected',
           PlaceOK(place', Len(rows), VisibleRows(view'))
    PROVE  ListInv'
<1>1. UNCHANGED <<dir, rows, infos, saveList>>
  BY DEF rowVars
<1>2. RowsOK'
  BY <1>1 DEF ListInv, RowsOK
<1>3. Described'
  <2>1. \A i \in DOMAIN rows : Info(rows[i])' = Info(rows[i])
    BY <1>1 DEF Info
  <2>2. infos' \in Seq(InfoSet)
    BY <1>1 DEF ListInv, Described
  <2>3. InfosOfRows'
    BY <1>1, <2>1 DEF ListInv, Described, InfosOfRows, SameGame
  <2> QED
    BY <2>2, <2>3 DEF Described, InfoSet
<1>4. PlaceOK(place, Len(rows), VisibleRows(view))'
  BY <1>1 DEF PlaceOK, VisibleRows
<1> QED
  BY <1>1, <1>2, <1>3, <1>4 DEF ListInv

LEMMA Filled ==
    ASSUME NEW d \in DOMAIN Content, NEW t \in 0 .. 2, Fill(d, t), UNCHANGED saveList,
           saveList \in [Titles -> SaveTypes \cup {NULL}], InputOK', IconOfSelected',
           PlaceOK(place', Len(Listing[d][t]), VisibleRows(view'))
    PROVE  ListInv'
<1>1. dir' = d /\ rows' = Listing[d][t] /\ infos' = Describe(d, t) /\ saveList' = saveList
  BY DEF Fill
<1>2. RowsOK'
  BY <1>1 DEF RowsOK
<1>3. Described'
  <2>1. (infos = [i \in DOMAIN rows |-> Info(rows[i])])'
    BY <1>1 DEF Describe, Info
  <2>2. (saveList \in [Titles -> SaveTypes \cup {NULL}])'
    BY <1>1
  <2> QED
    BY <1>2, <2>1, <2>2, JustDescribedThen, PTL
<1>4. PlaceOK(place, Len(rows), VisibleRows(view))'
  BY <1>1 DEF PlaceOK, VisibleRows
<1> QED
  BY <1>1, <1>2, <1>3, <1>4 DEF ListInv

(* Nothing moves. *)
LEMMA Stays ==
    ASSUME ListInv, UNCHANGED <<rowVars, place, view, saveList>>, InputOK', IconOfSelected'
    PROVE  ListInv'
<1>1. PlaceOK(place', Len(rows), VisibleRows(view'))
  BY DEF ListInv
<1> QED
  BY <1>1, RowsKept

LEMMA ShowKeeps ==
    ASSUME ListInv, NEW d \in DOMAIN Content, NEW t \in 0 .. 2, Fill(d, t), place' = Top,
           UNCHANGED <<view, saveList>>, InputOK', IconOfSelected'
    PROVE  ListInv'
<1>1. Len(Listing[d][t]) \in Nat /\ VisibleRows(view') \in Nat /\ VisibleRows(view') >= 2
  BY ListingIs, VisibleIs DEF InputOK
<1>2. PlaceOK(place', Len(Listing[d][t]), VisibleRows(view'))
  BY <1>1, TopIs
<1> QED
  BY <1>2, Filled DEF ListInv

LEMMA EnterKeeps ==
    ASSUME ListInv, NEW d, EnterDir(d), UNCHANGED <<view, saveList>>, InputOK', IconOfSelected'
    PROVE  ListInv'
<1>1. CASE d \in DOMAIN Content
  <2>1. Fill(d, fileListType) /\ place' = Top /\ fileListType \in 0 .. 2
    BY <1>1 DEF EnterDir, Show, ListInv, InputOK
  <2> QED
    BY <1>1, <2>1, ShowKeeps
<1>2. CASE d \notin DOMAIN Content
  BY <1>2, Stays DEF EnterDir
<1> QED
  BY <1>1, <1>2

(* The rows of the parent hold the folder that is left. *)
LEMMA BackKeeps ==
    ASSUME ListInv, BackParentDir, UNCHANGED <<view, saveList>>, InputOK', IconOfSelected'
    PROVE  ListInv'
<1>1. CASE dir = "top" \/ Parent[dir] \notin DOMAIN Content
  BY <1>1, Stays DEF BackParentDir
<1>2. CASE ~(dir = "top" \/ Parent[dir] \notin DOMAIN Content)
  <2> DEFINE found == Listing[Parent[dir]][fileListType]
             here  == {i \in DOMAIN found : Kind[found[i]] = "folder" /\ Path[found[i]] = dir}
  <2>1. /\ Fill(Parent[dir], fileListType) /\ fileListType \in 0 .. 2
        /\ place' = IF here = {} \/ Parent[dir] = "top" THEN Top
                    ELSE SelectRow(Top, (CHOOSE i \in here : TRUE) - 1, Len(found), VisibleRows(view))
    BY <1>2 DEF BackParentDir, ListInv, InputOK
  <2>2. /\ Len(found) \in Nat /\ DOMAIN found = 1 .. Len(found)
        /\ view' = view /\ VisibleRows(view) \in Nat /\ VisibleRows(view) >= 2
    BY <1>2, <2>1, ListingIs, VisibleIs DEF ListInv, InputOK
  <2>3. PlaceOK(Top, Len(found), VisibleRows(view))
    BY <2>2, TopIs
  <2>4. PlaceOK(place', Len(found), VisibleRows(view'))
    <3>1. CASE here = {} \/ Parent[dir] = "top"
      BY <2>1, <2>2, <2>3, <3>1
    <3>2. CASE ~(here = {} \/ Parent[dir] = "top")
      <4> DEFINE j == CHOOSE i \in here : TRUE
                 k == j - 1
      <4>1. j \in DOMAIN found
        BY <3>2
      <4>2. k \in Int
        <5>1. j \in 1 .. Len(found) /\ Len(found) \in Nat
          BY <2>2, <4>1
        <5> HIDE DEF j, found
        <5> QED
          BY <5>1
      <4>3. place' = SelectRow(Top, k, Len(found), VisibleRows(view))
        BY <2>1, <3>2
      <4> HIDE DEF k, found
      <4> QED
        BY <2>2, <2>3, <4>2, <4>3, SelectKeeps
    <3> QED
      BY <3>1, <3>2
  <2> QED
    BY <1>2, <2>1, <2>4, Filled DEF ListInv
<1> QED
  BY <1>1, <1>2

LEMMA OpenKeeps ==
    ASSUME ListInv, OpenSelected, UNCHANGED saveList, InputOK', IconOfSelected'
    PROVE  ListInv'
<1>1. view' = view /\ (EnterDir(Path[Selected]) \/ UNCHANGED <<rowVars, place>>)
  BY DEF OpenSelected
<1>2. CASE EnterDir(Path[Selected])
  BY <1>1, <1>2, EnterKeeps
<1>3. CASE UNCHANGED <<rowVars, place>>
  BY <1>1, <1>3, Stays
<1> QED
  BY <1>1, <1>2, <1>3

LEMMA SelectRows ==
    ASSUME ListInv, NEW id \in Int, Select(id), UNCHANGED <<rowVars, view, saveList>>, InputOK', IconOfSelected'
    PROVE  ListInv'
<1> DEFINE n == Len(rows)
           v == VisibleRows(view)
<1>1. n \in Nat /\ v \in Nat /\ v >= 2 /\ PlaceOK(place, n, v)
  BY RowsAre, VisibleIs DEF ListInv, InputOK
<1>2. place' = SelectRow(place, id, n, v)
  BY DEF Select
<1>3. VisibleRows(view') = v
  OBVIOUS
<1>4. PlaceOK(place', n, VisibleRows(view'))
  <2> HIDE DEF n, v
  <2> QED
    BY <1>1, <1>2, <1>3, SelectKeeps
<1> QED
  BY <1>4, RowsKept

LEMMA MoveKeeps ==
    ASSUME ListInv, NEW k \in Moves, MoveSelection(k), UNCHANGED saveList, InputOK', IconOfSelected'
    PROVE  ListInv'
<1> DEFINE m == CASE k = "UP" -> -1 [] k = "DOWN" -> 1
                  [] k = "LEFT" -> -VisibleRows(view) [] k = "RIGHT" -> VisibleRows(view)
<1>1. VisibleRows(view) \in Nat /\ place.sel \in Nat
  BY VisibleIs DEF ListInv, InputOK, PlaceOK, AtRows
<1>2. m \in Int
  BY <1>1 DEF Moves
<1>3. Select(place.sel + m) /\ UNCHANGED <<rowVars, view>>
  BY DEF MoveSelection
<1> HIDE DEF m
<1>4. place.sel + m \in Int
  BY <1>1, <1>2
<1> QED
  BY <1>3, <1>4, SelectRows

LEMMA ToggleKeeps ==
    ASSUME ListInv, ToggleView, UNCHANGED saveList, InputOK', IconOfSelected'
    PROVE  ListInv'
<1> DEFINE n == Len(rows)
           w == IF view = "icon" THEN "list" ELSE "icon"
<1>1. w \in Views /\ view' = w /\ UNCHANGED rowVars
      /\ place' = ScrollTo(place, place.sel - VisibleRows(w) + 1, n, VisibleRows(w))
  BY DEF ToggleView, SetViewMode, Views
<1>2. n \in Nat /\ VisibleRows(w) \in Nat /\ VisibleRows(w) >= 2 /\ VisibleRows(view) \in Nat /\ VisibleRows(view) >= 2
  BY <1>1, RowsAre, VisibleIs DEF ListInv, InputOK
<1>3. place \in AtRows /\ (n > 0 => place.sel < n) /\ (n = 0 => place.first = 0)
  BY <1>2 DEF ListInv, PlaceOK, AtRows
<1> HIDE DEF n, w
<1>4. PlaceOK(place', n, VisibleRows(view'))
  BY <1>1, <1>2, <1>3, ScrollKeeps
<1> QED
  BY <1>1, <1>4, RowsKept DEF n

LEMMA PressKeeps ==
    ASSUME ListInv, NEW k \in Keys, Press(k)
    PROVE  ListInv'
<1>1. idle' = FALSE /\ held' = (IF k \in Moves THEN k ELSE NULL)
      /\ UNCHANGED <<setVars, penVars>> /\ Draw
  BY DEF Press
<1>2. CASE k \in Moves
  <2>1. MoveSelection(k) /\ view' = view
    BY <1>2 DEF Press, Moves, MoveSelection
  <2>2. InputOK' /\ UNCHANGED saveList
    BY <1>1, <2>1 DEF ListInv, InputOK, setVars, penVars
  <2> QED
    BY <1>1, <1>2, <2>1, <2>2, DrawKeeps, MoveKeeps DEF ListInv
<1>3. CASE k = "SELECT"
  <2>1. ToggleView /\ view' \in Views
    BY <1>3 DEF Press, Moves, ToggleView, SetViewMode, Views
  <2>2. InputOK' /\ UNCHANGED saveList
    BY <1>1, <2>1 DEF ListInv, InputOK, setVars, penVars
  <2> QED
    BY <1>1, <2>1, <2>2, DrawKeeps, ToggleKeeps DEF ListInv
<1>4. CASE k \in {"X", "B", "L", "A"}
  <2>1. view' = view
    BY <1>4 DEF Press, Moves, SwitchDisk, BackParentDir, OpenSelected
  <2>2. InputOK' /\ UNCHANGED <<view, saveList>>
    BY <1>1, <2>1 DEF ListInv, InputOK, setVars, penVars
  <2>3. IconOfSelected'
    BY <1>1, DrawKeeps DEF ListInv
  <2>4. CASE k = "X"
    <3>1. SwitchDisk
      BY <2>4 DEF Press, Moves
    <3>2. EnterDir(IF dir \in OnFlash THEN "fat1" ELSE "fat0")
      BY <3>1 DEF SwitchDisk
    <3> QED
      BY <2>2, <2>3, <3>2, EnterKeeps
  <2>5. CASE k \in {"B", "L"}
    <3>1. BackParentDir
      BY <2>5 DEF Press, Moves
    <3> QED
      BY <2>2, <2>3, <3>1, BackKeeps
  <2>6. CASE k = "A"
    <3>1. OpenSelected
      BY <2>6 DEF Press, Moves
    <3> QED
      BY <2>2, <2>3, <3>1, OpenKeeps
  <2> QED
    BY <1>4, <2>4, <2>5, <2>6
<1> QED
  BY <1>2, <1>3, <1>4 DEF Keys

LEMMA RepeatKeeps ==
    ASSUME ListInv, Repeat
    PROVE  ListInv'
<1>1. held \in Moves /\ held # NULL /\ MoveSelection(held) /\ idle' \in {idle, TRUE}
      /\ UNCHANGED <<setVars, penVars, held>> /\ Draw
  BY DEF Repeat, ListInv, InputOK
<1>2. InputOK' /\ UNCHANGED saveList
  BY <1>1 DEF ListInv, InputOK, setVars, penVars, MoveSelection
<1>3. IconOfSelected'
  BY <1>1, DrawKeeps DEF ListInv
<1> QED
  BY <1>1, <1>2, <1>3, MoveKeeps

LEMMA RestKeeps ==
    ASSUME ListInv, Release \/ Rest
    PROVE  ListInv'
<1>1. UNCHANGED <<rowVars, place, view, setVars, penVars>> /\ Draw /\ held' = NULL /\ idle' \in BOOLEAN
      /\ (~idle' \/ held = NULL)
  BY DEF Release, Rest
<1>2. InputOK' /\ UNCHANGED <<saveList, infos>>
  BY <1>1 DEF ListInv, InputOK, setVars, penVars, rowVars
<1>3. IconOfSelected'
  BY <1>1, <1>2, DrawKeeps DEF ListInv
<1> QED
  BY <1>1, <1>2, <1>3, Stays

LEMMA TouchDownKeeps ==
    ASSUME ListInv, NEW p \in Points, TouchDown(p)
    PROVE  ListInv'
<1>1. /\ pen' = p /\ moved' = FALSE /\ idle' = FALSE /\ Draw
      /\ UNCHANGED <<rowVars, view, setVars, sumOfMoveY, held>>
      /\ IF RowBelow(p.y) = NULL THEN UNCHANGED place ELSE Select(RowBelow(p.y))
  BY DEF TouchDown
<1>2. InputOK' /\ UNCHANGED saveList
  BY <1>1 DEF ListInv, InputOK, setVars
<1>3. IconOfSelected'
  BY <1>1, DrawKeeps DEF ListInv
<1>4. CASE RowBelow(p.y) = NULL
  BY <1>1, <1>2, <1>3, <1>4, Stays
<1>5. CASE RowBelow(p.y) # NULL
  <2>1. RowBelow(p.y) = place.first + p.y \div RowHeight[view]
    BY <1>5 DEF RowBelow
  <2>2. RowHeight[view] \in Nat \ {0} /\ p.y \in Nat /\ place.first \in Nat
    <3>1. p.y \in 0 .. Height - 1 /\ Height \in Nat
      BY ListAssumption
    <3>2. RowHeight[view] \in Nat \ {0} /\ place.first \in Nat
      BY ListAssumption DEF ListInv, InputOK, Views, PlaceOK, AtRows
    <3> QED
      BY <3>1, <3>2
  <2> DEFINE h == RowHeight[view]
  <2>3. RowBelow(p.y) \in Int
    <3> HIDE DEF h
    <3>1. h \in Nat \ {0} /\ p.y \div h \in Int
      BY <2>2 DEF h
    <3> QED
      BY <2>1, <2>2, <3>1 DEF h
  <2>4. Select(RowBelow(p.y))
    BY <1>1, <1>5
  <2> QED
    BY <1>1, <1>2, <1>3, <2>3, <2>4, SelectRows
<1> QED
  BY <1>4, <1>5

LEMMA TouchMoveKeeps ==
    ASSUME ListInv, NEW p \in Points, TouchMove(p)
    PROVE  ListInv'
<1> DEFINE sum == sumOfMoveY + (p.y - pen.y)
           d   == IF sum > 4 THEN 1 ELSE IF sum < -4 THEN -1 ELSE 0
<1>1. /\ pen' = p /\ idle' = FALSE /\ Draw /\ UNCHANGED <<rowVars, view, setVars, held>>
      /\ sumOfMoveY' = (IF d = 0 THEN sum ELSE 0) /\ moved' = (moved \/ d # 0)
      /\ IF d = 0 THEN UNCHANGED place ELSE Drag(d)
  BY DEF TouchMove
<1>2. sum \in Int
  <2>1. pen \in Points
    BY DEF TouchMove, ListInv, InputOK
  <2>2. \A q \in Points : q.y \in Int
    BY ListAssumption
  <2> QED
    BY <2>1, <2>2 DEF ListInv, InputOK
<1> HIDE DEF sum
<1>3. d \in {-1, 0, 1} /\ sumOfMoveY' \in -4 .. 4
  BY <1>1, <1>2
<1> HIDE DEF d
<1>4. moved' \in BOOLEAN
  BY <1>1
<1>5. InputOK' /\ UNCHANGED saveList
  BY <1>1, <1>3, <1>4 DEF ListInv, InputOK, setVars
<1>6. IconOfSelected'
  BY <1>1, DrawKeeps DEF ListInv
<1>7. CASE d = 0
  BY <1>1, <1>5, <1>6, <1>7, Stays
<1>8. CASE d \in {-1, 1}
  <2> DEFINE n == Len(rows)
             v == VisibleRows(view)
             q == SelectRow(place, place.sel + d, n, v)
  <2>1. place' = ScrollTo(q, q.first + d, n, v)
    BY <1>1, <1>8 DEF Drag
  <2>2. n \in Nat /\ v \in Nat /\ v >= 2 /\ PlaceOK(place, n, v) /\ VisibleRows(view') = v
    BY <1>1, RowsAre, VisibleIs DEF ListInv, InputOK
  <2>3. q = SelectRow(place, place.sel + d, n, v)
    OBVIOUS
  <2> HIDE DEF q
  <2>4. PlaceOK(place', n, VisibleRows(view'))
    <3> HIDE DEF n, v
    <3> QED
      BY <1>8, <2>1, <2>2, <2>3, DragKeeps
  <2> QED
    BY <1>1, <1>5, <1>6, <2>4, RowsKept
<1> QED
  BY <1>3, <1>7, <1>8

LEMMA TouchUpKeeps ==
    ASSUME ListInv, TouchUp
    PROVE  ListInv'
<1>1. /\ pen' = NULL /\ sumOfMoveY' = 0 /\ moved' = FALSE /\ idle' = FALSE /\ Draw /\ UNCHANGED <<setVars, held>>
      /\ OpenSelected \/ UNCHANGED <<rowVars, place, view>>
  BY DEF TouchUp
<1>2. view' = view
  BY <1>1 DEF OpenSelected
<1>3. InputOK' /\ UNCHANGED saveList
  <2>1. pen' = NULL /\ sumOfMoveY' = 0 /\ moved' = FALSE /\ idle' = FALSE /\ UNCHANGED <<setVars, held>>
    BY <1>1
  <2>2. view' \in Views /\ fileListType' \in 0 .. 2 /\ held' \in Moves \cup {NULL} /\ saveList' = saveList
    BY <1>2, <2>1 DEF ListInv, InputOK, setVars
  <2>3. pen' \in Points \cup {NULL}
    BY <2>1
  <2>4. idle' \in BOOLEAN /\ moved' \in BOOLEAN
    BY <2>1
  <2>5. sumOfMoveY' \in -4 .. 4
    BY <2>1
  <2> QED
    BY <2>2, <2>3, <2>4, <2>5 DEF InputOK
<1>4. IconOfSelected'
  BY <1>1, DrawKeeps DEF ListInv
<1>5. CASE OpenSelected
  BY <1>3, <1>4, <1>5, OpenKeeps
<1>6. CASE UNCHANGED <<rowVars, place, view>>
  BY <1>3, <1>4, <1>6, Stays
<1> QED
  BY <1>1, <1>5, <1>6

LEMMA ChooseKeeps ==
    ASSUME ListInv, NEW t \in SaveTypes, ChooseSaveType(t)
    PROVE  ListInv'
<1> DEFINE k == place.sel + 1
           n == Len(rows)
<1>1. /\ rows # <<>> /\ infos[k].isDSRom
      /\ saveList' = [saveList EXCEPT ![GameOf[rows[k]]] = t]
      /\ infos' = [infos EXCEPT ![k].saveType = t]
      /\ idle' = FALSE /\ UNCHANGED <<dir, rows, place, view, fileListType, penVars, held>> /\ Draw
  BY DEF ChooseSaveType, Selected
<1>2. InputOK'
  BY <1>1 DEF ListInv, InputOK, penVars
<1>3. IconOfSelected'
  BY <1>1, DrawKeeps DEF ListInv
<1>4. n \in Nat /\ DOMAIN rows = 1 .. n /\ n > 0 /\ IsInjective(rows)
      /\ \A i \in DOMAIN rows : rows[i] \in DOMAIN Kind /\ Kind[rows[i]] # "dot"
  BY <1>1, RowsAre DEF ListInv
<1>5. k \in DOMAIN rows
  <2>1. place.sel \in Nat /\ place.sel < n
    BY <1>4 DEF ListInv, PlaceOK, AtRows
  <2> QED
    BY <1>4, <2>1
<1> HIDE DEF k, n
<1>6. saveList \in [Titles -> SaveTypes \cup {NULL}]
  BY DEF ListInv
<1>7. rows[k] \in Roms /\ GameOf[rows[k]] \in Titles /\ infos[k] \in InfoSet
  <2>1. rows[k] \in Roms /\ infos[k] \in InfoSet
    BY <1>1, <1>5, InfosAre
  <2> QED
    BY <2>1 DEF Titles
<1>8. saveList' \in [Titles -> SaveTypes \cup {NULL}]
  BY <1>1, <1>6
<1>9. infos \in Seq(InfoSet) /\ Len(infos) = n /\ DOMAIN infos = DOMAIN rows
  BY InfosAre DEF n
<1>10. Described'
  <2>1. /\ DOMAIN infos' = DOMAIN infos /\ infos'[k] = [infos[k] EXCEPT !.saveType = t]
        /\ \A i \in DOMAIN rows : i # k => infos'[i] = infos[i]
    BY <1>1, <1>5, <1>9
  <2>2. infos'[k] \in InfoSet /\ infos'[k].banner = infos[k].banner /\ infos'[k].isDSRom = infos[k].isDSRom
    BY <1>7, <2>1 DEF InfoSet
  <2>3. infos' \in Seq(InfoSet) /\ Len(infos') = n
    <3> HIDE DEF InfoSet
    <3>1. \A i \in 1 .. n : infos'[i] \in InfoSet
      BY <1>4, <1>9, <2>1, <2>2
    <3>2. infos' \in [1 .. n -> InfoSet]
      BY <1>1, <1>4, <1>9, <2>1, <3>1
    <3> QED
      BY <1>4, <3>2
  <2>4. ASSUME NEW i \in DOMAIN rows
        PROVE  /\ Info(rows[i])'.banner = Info(rows[i]).banner /\ Info(rows[i])'.isDSRom = Info(rows[i]).isDSRom
               /\ ~SameGame(rows[i], rows[k]) => Info(rows[i])' = Info(rows[i])
    <3>1. CASE rows[i] \in Roms
      <4>1. GameOf[rows[i]] \in Titles /\ Kind[rows[i]] = "rom" /\ rows' = rows
        BY <1>1, <3>1 DEF Titles, Roms
      <4>2. ~SameGame(rows[i], rows[k]) => saveList'[GameOf[rows[i]]] = saveList[GameOf[rows[i]]]
        BY <1>1, <1>6, <1>7, <3>1, <4>1 DEF SameGame
      <4> DEFINE y == TRUE
      <4>3. Info(rows[i]) = [banner |-> "rom", isDSRom |-> y, saveType |-> saveList[GameOf[rows[i]]]]
        BY <4>1, Zenon DEF Info
      <4>4. Info(rows[i])' = [banner |-> "rom", isDSRom |-> y, saveType |-> saveList'[GameOf[rows[i]]]]
        BY <4>1, Zenon DEF Info
      <4> HIDE DEF y
      <4> QED
        BY <4>2, <4>3, <4>4
    <3>2. CASE rows[i] \notin Roms
      <4>1. Kind[rows[i]] # "rom" /\ rows' = rows
        BY <1>1, <1>4, <3>2 DEF Roms
      <4>2. Info(rows[i])' = Info(rows[i])
        BY <4>1 DEF Info
      <4> QED
        BY <4>2
    <3> QED
      BY <3>1, <3>2
  <2>5. Info(rows[k])' = infos'[k]
    <3>1. Kind[rows[k]] = "rom" /\ rows' = rows /\ saveList'[GameOf[rows[k]]] = t
      BY <1>1, <1>6, <1>7 DEF Roms
    <3>0. Kind[(rows[k])'] = "rom" /\ saveList'[GameOf[(rows[k])']] = t
      BY <1>1, <3>1 DEF k
    <3>2. Info(rows[k])' = [banner |-> "rom", isDSRom |-> TRUE, saveType |-> t]
      BY <3>0, Zenon DEF Info
    <3>3. Info(rows[k]) = [banner |-> "rom", isDSRom |-> TRUE, saveType |-> saveList[GameOf[rows[k]]]]
      BY <3>1, Zenon DEF Info
    <3>4. infos[k].banner = "rom" /\ infos[k].isDSRom = TRUE
      BY <1>5, <3>3 DEF ListInv, Described, InfosOfRows
    <3> DEFINE y == TRUE
    <3> HIDE DEF y
    <3>5. infos[k].isDSRom = y
      BY <3>4 DEF y
    <3>6. infos'[k] = [banner |-> "rom", isDSRom |-> y, saveType |-> t]
      BY <1>7, <2>1, <3>4, <3>5 DEF InfoSet
    <3> QED
      BY <3>2, <3>6, Zenon DEF y
  <2>6. ASSUME NEW i \in DOMAIN rows
        PROVE  /\ infos'[i].banner = Info(rows[i])'.banner /\ infos'[i].isDSRom = Info(rows[i])'.isDSRom
               /\ \E j \in DOMAIN rows : SameGame(rows[i], rows[j]) /\ infos'[j] = Info(rows[j])'
    <3>1. infos'[i].banner = infos[i].banner /\ infos'[i].isDSRom = infos[i].isDSRom
      BY <2>1, <2>2
    <3>2. infos[i].banner = Info(rows[i]).banner /\ infos[i].isDSRom = Info(rows[i]).isDSRom
      BY DEF ListInv, Described, InfosOfRows
    <3>3. infos'[i].banner = Info(rows[i])'.banner /\ infos'[i].isDSRom = Info(rows[i])'.isDSRom
      BY <2>4, <3>1, <3>2
    <3>4. CASE SameGame(rows[i], rows[k])
      BY <1>1, <1>5, <2>5, <3>3, <3>4 DEF k
    <3>5. CASE ~SameGame(rows[i], rows[k])
      <4>1. PICK j \in DOMAIN rows : SameGame(rows[i], rows[j]) /\ infos[j] = Info(rows[j])
        BY DEF ListInv, Described, InfosOfRows
      <4>2. ~SameGame(rows[j], rows[k])
        BY <1>7, <3>5, <4>1 DEF SameGame
      <4>3. j # k
        BY <4>2 DEF SameGame
      <4>4. infos'[j] = Info(rows[j])'
        BY <2>1, <2>4, <4>1, <4>2, <4>3
      <4> QED
        BY <3>3, <4>1, <4>4
    <3> QED
      BY <3>4, <3>5
  <2>7. rows' = rows
    BY <1>1
  <2>8. InfosOfRows'
    <3>1. Len(infos') = Len(rows')
      BY <2>3, <2>7 DEF n
    <3> HIDE DEF InfoSet
    <3> QED
      BY <2>6, <2>7, <3>1 DEF InfosOfRows, SameGame
  <2> HIDE DEF InfoSet
  <2> QED
    BY <2>3, <2>8 DEF Described, InfoSet
<1>11. RowsOK'
  BY <1>1 DEF ListInv, RowsOK
<1>12. PlaceOK(place, Len(rows), VisibleRows(view))'
  BY <1>1 DEF ListInv, PlaceOK, VisibleRows
<1> QED
  BY <1>2, <1>3, <1>8, <1>10, <1>11, <1>12 DEF ListInv

LEMMA ListSteps ==
    ASSUME ListInv, ListNext
    PROVE  ListInv'
BY PressKeeps, RepeatKeeps, RestKeeps, TouchDownKeeps, TouchMoveKeeps, TouchUpKeeps, ChooseKeeps DEF ListNext

LEMMA SettingsShown ==
    ASSUME ListInv, NEW t \in 0 .. 2, ShowSettings(t)
    PROVE  ListInv'
<1>1. fileListType' = t /\ idle' = FALSE /\ UNCHANGED <<rowVars, place, view, saveList, penVars, held>> /\ Draw
  BY DEF ShowSettings
<1>2. InputOK'
  BY <1>1 DEF ListInv, InputOK, penVars
<1>3. IconOfSelected'
  BY <1>1, DrawKeeps DEF ListInv
<1> QED
  BY <1>1, <1>2, <1>3, Stays

LEMMA ListRead ==
    ASSUME ListInv, NEW t, ListAnew(t)
    PROVE  ListInv'
<1>1. /\ EnterDir(dir) \/ UNCHANGED <<rowVars, place>>
      /\ idle' = FALSE /\ UNCHANGED <<view, setVars, penVars, held>> /\ Draw
  BY DEF ListAnew
<1>2. InputOK' /\ UNCHANGED saveList
  BY <1>1 DEF ListInv, InputOK, setVars, penVars
<1>3. IconOfSelected'
  BY <1>1, DrawKeeps DEF ListInv
<1>4. CASE EnterDir(dir)
  BY <1>1, <1>2, <1>3, <1>4, EnterKeeps
<1>5. CASE UNCHANGED <<rowVars, place>>
  BY <1>1, <1>2, <1>3, <1>5, Stays
<1> QED
  BY <1>1, <1>4, <1>5

(* The list at first, and after it has been forgotten: the disks. *)
AtTop(t) ==
    /\ rows = Listing["top"][t] /\ infos = [i \in DOMAIN rows |-> Info(rows[i])] /\ dir = "top"
    /\ fileListType \in 0 .. 2 /\ saveList = [g \in Titles |-> NULL] /\ place = Top /\ view = "icon"
    /\ icon = NULL /\ moved = FALSE /\ sumOfMoveY = 0 /\ pen = NULL /\ held = NULL /\ idle = FALSE

LEMMA TopList ==
    ASSUME NEW t \in 0 .. 2, AtTop(t)
    PROVE  ListInv
<1>1. "top" \in DOMAIN Content
  BY ListAssumption
<1>2. RowsOK
  BY <1>1 DEF AtTop, RowsOK
<1>3. view \in Views /\ pen \in Points \cup {NULL} /\ held \in Moves \cup {NULL} /\ fileListType \in 0 .. 2
  BY DEF AtTop, Views
<1>4. idle \in BOOLEAN /\ moved \in BOOLEAN
  BY DEF AtTop
<1>5. sumOfMoveY \in -4 .. 4
  <2>1. sumOfMoveY = 0
    BY DEF AtTop
  <2> QED
    BY <2>1
<1>6. InputOK
  BY <1>3, <1>4, <1>5 DEF InputOK
<1>7. Len(rows) \in Nat /\ VisibleRows(view) \in Nat /\ VisibleRows(view) >= 2
  BY <1>2, <1>3, RowsAre, VisibleIs
<1>8. PlaceOK(place, Len(rows), VisibleRows(view))
  BY <1>7, TopIs DEF AtTop
<1>9. saveList \in [Titles -> SaveTypes \cup {NULL}]
  BY DEF AtTop
<1>10. Described
  <2>1. infos = [i \in DOMAIN rows |-> Info(rows[i])]
    BY DEF AtTop
  <2> QED
    BY <1>2, <1>9, <2>1, JustDescribed
<1>11. IconOfSelected
  BY DEF AtTop, IconOfSelected
<1> QED
  BY <1>2, <1>6, <1>8, <1>9, <1>10, <1>11 DEF ListInv

LEMMA DisksListed == AtTop(0) => ListInv
<1>1. 0 \in 0 .. 2
  OBVIOUS
<1> QED
  BY <1>1, TopList

LEMMA Forgotten ==
    ASSUME ListForgotten
    PROVE  ListInv'
<1>1. /\ fileListType' = 0 /\ saveList' = [g \in Titles |-> NULL]
      /\ rows' = Listing["top"][0] /\ infos' = Describe("top", 0) /\ dir' = "top"
      /\ place' = Top /\ view' = "icon" /\ icon' = NULL
      /\ moved' = FALSE /\ sumOfMoveY' = 0 /\ pen' = NULL /\ held' = NULL /\ idle' = FALSE
  BY DEF ListForgotten
<1> DEFINE top == Listing["top"][0]
<1>2. \A i \in DOMAIN top : Kind[top[i]] = "folder"
  <2>1. "top" \in DOMAIN Content
    BY ListAssumption
  <2>2. \A d \in DOMAIN Content, t \in 0 .. 2 : Listing[d][t] \in Seq(ToSet(Content[d]))
    BY ListingAssumption
  <2>3. 0 \in 0 .. 2
    OBVIOUS
  <2>4. top \in Seq(ToSet(Content["top"]))
    BY <2>1, <2>2, <2>3
  <2>5. \A e \in ToSet(Content["top"]) : Kind[e] = "folder"
    BY ListingAssumption
  <2> HIDE DEF top
  <2> QED
    BY <2>4, <2>5
<1>3. infos' = [i \in DOMAIN top |-> Info(top[i])]
  BY <1>1 DEF Describe
<1> HIDE DEF top
<1>4. \A i \in DOMAIN top : Info(top[i])' = Info(top[i])
  BY <1>2 DEF Info
<1>5. (infos = [i \in DOMAIN rows |-> Info(rows[i])])'
  BY <1>1, <1>3, <1>4 DEF top
<1>6. fileListType' \in 0 .. 2
  <2>1. fileListType' = 0
    BY DEF ListForgotten
  <2> QED
    BY <2>1
<1>7. AtTop(0)'
  BY <1>1, <1>5, <1>6 DEF AtTop
<1> QED
  BY <1>7, DisksListed, PTL

-----------------------------------------------------------------------------
(* The words the processors share, the screens and what the loader keeps.  *)

Words08 == {Jump} \cup {Header(p) : p \in Programs}
Words24 == {Itself} \cup {Entry(p) : p \in Programs}

WordsOK ==
    /\ prog9 \in Programs /\ prog7 \in Programs /\ ipc9 \in Messages /\ ipc7 \in Answers
    /\ fe08 \in Words08 /\ fe24 \in Words24 /\ saved[1] \in Words08 /\ saved[2] \in Words24

LevelsOK == p1 \in Nat /\ level \in 0 .. 3 /\ brightness \in Nat /\ lights \in BOOLEAN

MenuPlaces == {"start", "sendLevel", "levelSet", "levelAsked", "main"}
Files == [disk : {"fat0", "fat1"}, name : Roms]
TheSlot == [disk |-> "slot2", name |-> "slot2"]

(* A file is named once the menu is left for one.  The loader only opens   *)
(* files that are on a disk.                                               *)
FileOK ==
    /\ file \in Files \cup {TheSlot, NoFile}
    /\ file = NoFile => prog9 = "menu" /\ pc9 \in MenuPlaces
    /\ prog9 = "loader" /\ pc9 = "open" => file.disk # "slot2"

TablesOK ==
    /\ flags \subseteq Flags /\ control \in Nat /\ measured \in Nat
    /\ sdhc \in BOOLEAN /\ video \in BOOLEAN /\ nandMap \in {<<>>, Block}

MachineOK == WordsOK /\ LevelsOK /\ FileOK /\ TablesOK /\ listed \in 0 .. 2 \cup {NULL}

(* The steps of the processors, one of which is in every step of the       *)
(* system that does not leave them alone.                                  *)
Steps ==
    \/ (Arm7 \/ Menu9 \/ Restart9 \/ BrightnessButton \/ MoveLid) /\ Shared
    \/ Loader9 \/ FileMissing \/ Fetch \/ FetchDone \/ CartridgeRuns

USE DEF Quiet, Alone, wordVars, screenVars

LEMMA Entered ==
    ASSUME NEW to \in Words24, Enter(to), prog9 \in Programs
    PROVE  /\ prog9' \in Programs
           /\ pc9' \in {"loop", "game", "start"}
           /\ pc9' = "start" \/ pc9' = "game" => to = Entry(prog9')
<1>1. CASE to = Itself
  BY <1>1 DEF Enter
<1>2. CASE to # Itself
  <2>1. PICK p \in Programs : to = Entry(p)
    BY <1>2 DEF Words24
  <2>2. to[2] = p
    BY <2>1 DEF Entry
  <2> QED
    BY <1>2, <2>1, <2>2 DEF Enter
<1> QED
  BY <1>1, <1>2

LEMMA WordsKept ==
    ASSUME WordsOK, Steps
    PROVE  WordsOK'
<1> USE DEF WordsOK
<1>1. Jump \in Words08 /\ Itself \in Words24 /\ Header("game") \in Words08 /\ Entry("game") \in Words24
  BY DEF Words08, Words24, Programs
<1>2. CASE Clear9 \/ Clear7 \/ Poll \/ SetLevel \/ GetLevel \/ Answer7 \/ Lights
  BY <1>2 DEF Clear9, Clear7, Poll, SetLevel, GetLevel, Answer7, Lights, Messages, Answers
<1>3. CASE Keep08
  BY <1>3 DEF Keep08
<1>4. CASE Keep24
  BY <1>4 DEF Keep24
<1>5. CASE PrepairReset \/ Wait100
  BY <1>5 DEF PrepairReset, Wait100, Messages, Answers
<1>6. CASE Release9 \/ Wait10
  BY <1>6 DEF Release9, Wait10
<1>7. CASE Reset7
  BY <1>7 DEF Reset7, After, Programs
<1>8. CASE Menu9 \/ BrightnessButton \/ MoveLid
  BY <1>8 DEF Menu9, WriteP1, SendLevel, LevelSet, LevelAsked, BrightnessButton, MoveLid, Ask, Messages
<1>9. CASE WaitReady \/ Write24
  BY <1>1, <1>9 DEF WaitReady, Write24
<1>10. CASE Reset9 \/ Loop
  <2>1. CASE Enter(fe24)
    BY <1>10, <2>1, Entered DEF Reset9, Loop
  <2>2. CASE UNCHANGED prog9
    BY <1>10, <2>2 DEF Reset9, Loop
  <2> QED
    BY <1>10, <2>1, <2>2 DEF Reset9, Loop
<1>11. CASE Prepare \/ FileMissing \/ CodeFetched \/ Patch \/ BuildNandMap \/ BuildFatMap \/ SetDevice \/ ClearMemory
  BY <1>11 DEF Prepare, FileMissing, CodeFetched, Patch, BuildNandMap, BuildFatMap, SetDevice, ClearMemory
<1>12. CASE OpenFile
  BY <1>1, <1>12 DEF OpenFile
<1>13. CASE ClearAnswer \/ AskCode \/ BootSlot1
  BY <1>13 DEF ClearAnswer, AskCode, BootSlot1, Ask, Messages, Answers
<1>14. CASE Fetch \/ FetchDone
  BY <1>14 DEF Fetch, FetchDone, Answers
<1>15. CASE BootSlot2
  BY <1>1, <1>15 DEF BootSlot2, Ask, Messages
<1>16. CASE CartridgeRuns
  BY <1>16 DEF CartridgeRuns, Programs
<1> QED
  BY <1>2, <1>3, <1>4, <1>5, <1>6, <1>7, <1>8, <1>9, <1>10, <1>11, <1>12, <1>13, <1>14, <1>15, <1>16
  DEF Steps, Arm7, Restart9, Loader9

LEMMA LevelsKept ==
    ASSUME LevelsOK, Steps
    PROVE  LevelsOK'
<1> USE DEF LevelsOK
<1>1. CASE SetLevel
  BY <1>1 DEF SetLevel
<1>2. CASE GetLevel
  BY <1>2 DEF GetLevel
<1>3. CASE Lights
  <2>1. lights' \in BOOLEAN
    BY <1>3 DEF Lights
  <2> QED
    BY <1>3, <2>1 DEF Lights
<1>4. CASE Wait100
  BY <1>4 DEF Wait100
<1>5. CASE WriteP1
  BY <1>5 DEF WriteP1
<1>6. CASE LevelSet
  BY <1>6 DEF LevelSet
<1>7. CASE LevelAsked
  BY <1>7 DEF LevelAsked
<1>8. CASE Clear9 \/ Clear7 \/ Poll \/ Answer7 \/ Keep08 \/ Keep24 \/ PrepairReset \/ Release9 \/ Wait10 \/ Reset7
  BY <1>8 DEF Clear9, Clear7, Poll, Answer7, Keep08, Keep24, PrepairReset, Release9, Wait10, Reset7
<1>9. CASE SendLevel \/ BrightnessButton \/ MoveLid \/ Restart9
  BY <1>9 DEF SendLevel, BrightnessButton, MoveLid, Restart9, WaitReady, Write24, Reset9, Loop
<1>10. CASE Loader9 \/ FileMissing \/ Fetch \/ FetchDone \/ CartridgeRuns
  BY <1>10 DEF Loader9, FileMissing, Fetch, FetchDone, CartridgeRuns, Prepare, OpenFile, ClearAnswer, AskCode,
               CodeFetched, Patch, BuildNandMap, BuildFatMap, SetDevice, ClearMemory, BootSlot1, BootSlot2
<1> QED
  BY <1>1, <1>2, <1>3, <1>4, <1>5, <1>6, <1>7, <1>8, <1>9, <1>10 DEF Steps, Arm7, Menu9

(* Only the menu's last step names the file. *)
LEMMA FileStays ==
    ASSUME Steps
    PROVE  file' = file
BY DEF Steps, Shared, loadVars, Loader9, FileMissing, Fetch, FetchDone, CartridgeRuns, Prepare, OpenFile, ClearAnswer, AskCode,
       CodeFetched, Patch, BuildNandMap, BuildFatMap, SetDevice, ClearMemory, BootSlot1, BootSlot2

LEMMA FileKept ==
    ASSUME FileOK, WordsOK, Steps
    PROVE  FileOK'
<1> USE DEF FileOK
<1>1. file' = file
  BY FileStays
<1>2. CASE (Arm7 \/ Fetch \/ FetchDone)
  <2>1. pc9' = pc9 /\ prog9' = prog9
    BY <1>2 DEF Arm7, Clear9, Clear7, Poll, SetLevel, GetLevel, Answer7, Lights, Keep08, Keep24, PrepairReset,
                Wait100, Release9, Wait10, Reset7, Fetch, FetchDone
  <2> QED
    BY <1>1, <2>1
<1>3. CASE Menu9 \/ BrightnessButton \/ MoveLid
  <2>1. prog9' = prog9 /\ pc9 \in MenuPlaces /\ pc9' \in MenuPlaces
    BY <1>3 DEF Menu9, WriteP1, SendLevel, LevelSet, LevelAsked, BrightnessButton, MoveLid, MenuPlaces
  <2> QED
    BY <1>1, <2>1 DEF MenuPlaces
<1>4. CASE Restart9
  <2>1. pc9 \notin MenuPlaces /\ pc9' # "open"
    <3>1. CASE WaitReady \/ Write24
      BY <3>1 DEF WaitReady, Write24, MenuPlaces
    <3>2. CASE Reset9 \/ Loop
      BY <3>2, Entered DEF Reset9, Loop, MenuPlaces, WordsOK
    <3> QED
      BY <1>4, <3>1, <3>2 DEF Restart9
  <2> QED
    BY <1>1, <2>1
<1>5. CASE Loader9 \/ FileMissing \/ CartridgeRuns
  <2>1. prog9 = "loader" \/ pc9 = "waitReady2" \/ pc9 = "loop"
    BY <1>5 DEF Loader9, FileMissing, CartridgeRuns, Prepare, OpenFile, ClearAnswer, AskCode, Steps9,
               CodeFetched, Patch, BuildNandMap, BuildFatMap, SetDevice, ClearMemory, BootSlot1, BootSlot2
  <2>2. pc9' = "open" => file.disk # "slot2"
    BY <1>5 DEF Loader9, FileMissing, CartridgeRuns, Prepare, OpenFile, ClearAnswer, AskCode, Steps9,
               CodeFetched, Patch, BuildNandMap, BuildFatMap, SetDevice, ClearMemory, BootSlot1, BootSlot2
  <2> QED
    BY <1>1, <2>1, <2>2 DEF MenuPlaces
<1> QED
  BY <1>2, <1>3, <1>4, <1>5 DEF Steps

LEMMA TablesKept ==
    ASSUME TablesOK, FileOK, Steps
    PROVE  TablesOK'
<1> USE DEF TablesOK
<1>1. CASE OpenFile
  <2>1. Loaded.speed \in Nat
    <3>1. file \in Files
      BY <1>1 DEF OpenFile, Steps9, FileOK, TheSlot, NoFile
    <3> QED
      BY <3>1, SessionAssumption, LoaderAssumption DEF Files, Loaded
  <2> QED
    BY <1>1, <2>1 DEF OpenFile, Largest
<1>2. CASE BuildNandMap
  BY <1>2 DEF BuildNandMap
<1>3. CASE ClearMemory
  BY <1>3 DEF ClearMemory
<1>4. CASE Shared \/ FileMissing \/ Fetch \/ FetchDone \/ CartridgeRuns \/ Prepare \/ ClearAnswer \/ AskCode
           \/ CodeFetched \/ Patch \/ BuildFatMap \/ SetDevice \/ BootSlot1 \/ BootSlot2
  BY <1>4 DEF Shared, loadVars, FileMissing, Fetch, FetchDone, CartridgeRuns, Prepare, ClearAnswer, AskCode,
              CodeFetched, Patch, BuildFatMap, SetDevice, BootSlot1, BootSlot2
<1> QED
  BY <1>1, <1>2, <1>3, <1>4 DEF Steps, Loader9

-----------------------------------------------------------------------------
(* The whole system.                                                       *)

SessionInv == ListInv /\ MachineOK

LEMMA InitHolds == SessionInit => SessionInv
<1> SUFFICES ASSUME SessionInit PROVE SessionInv
  OBVIOUS
<1>1. ListInit /\ ProcessorsInit /\ LoaderInit /\ listed = NULL
  BY DEF SessionInit
<1>2. ListInv
  <2>1. PICK t \in 0 .. 2 : t = fileListType
    BY <1>1 DEF ListInit
  <2>2. infos = [i \in DOMAIN rows |-> Info(rows[i])]
    BY <1>1 DEF ListInit, Describe
  <2>3. AtTop(t)
    BY <1>1, <2>1, <2>2 DEF ListInit, AtTop
  <2> QED
    BY <2>3, TopList
<1>3. WordsOK
  BY <1>1 DEF ProcessorsInit, WordsOK, Programs, Messages, Answers, Words08, Words24
<1>4. LevelsOK
  <2>1. p1 = 0 /\ level = 0 /\ brightness \in Levels
    BY <1>1 DEF ProcessorsInit
  <2>2. lights = TRUE
    BY <1>1 DEF ProcessorsInit
  <2>3. p1 \in Nat /\ level \in 0 .. 3 /\ brightness \in Nat
    BY <2>1, ProcessorsAssumption
  <2> QED
    BY <2>2, <2>3 DEF LevelsOK
<1>5. FileOK
  BY <1>1 DEF ProcessorsInit, LoaderInit, FileOK, MenuPlaces
<1>6. TablesOK
  <2>1. flags \subseteq Flags /\ control \in Nat /\ measured \in Nat
    BY <1>1 DEF LoaderInit
  <2>2. sdhc \in BOOLEAN /\ video \in BOOLEAN
    BY <1>1, LoaderAssumption DEF LoaderInit
  <2>3. nandMap \in {<<>>, Block}
    BY <1>1 DEF LoaderInit
  <2> QED
    BY <2>1, <2>2, <2>3 DEF TablesOK
<1>7. listed \in 0 .. 2 \cup {NULL}
  BY <1>1
<1> QED
  BY <1>2, <1>3, <1>4, <1>5, <1>6, <1>7 DEF SessionInv, MachineOK

LEMMA ListFrozen ==
    ASSUME ListInv, UNCHANGED listVars
    PROVE  ListInv'
<1>1. UNCHANGED <<dir, rows, infos, place, view, fileListType, saveList, icon, moved, sumOfMoveY, pen, held, idle>>
  BY DEF listVars, rowVars, setVars, penVars
<1>2. RowsOK' /\ InputOK'
  BY <1>1 DEF ListInv, RowsOK, InputOK
<1>3. IconOfSelected'
  BY <1>1 DEF ListInv, IconOfSelected, IconFor
<1> QED
  BY <1>1, <1>2, <1>3, RowsKept DEF rowVars, ListInv

LEMMA MachineKept ==
    ASSUME MachineOK, Steps, UNCHANGED listed
    PROVE  MachineOK'
BY WordsKept, LevelsKept, FileKept, TablesKept DEF MachineOK

LEMMA MachineFrozen ==
    ASSUME MachineOK, UNCHANGED vars, listed' \in 0 .. 2 \cup {NULL}
    PROVE  MachineOK'
<1>1. UNCHANGED <<pc9, prog9, prog7, ipc9, p1, ipc7, fe08, fe24, saved, level, brightness, lights>>
  BY DEF vars, procVars
<1>2. UNCHANGED <<file, flags, control, measured, sdhc, video, nandMap>>
  BY DEF vars, loadVars
<1>3. WordsOK' /\ LevelsOK'
  BY <1>1 DEF MachineOK, WordsOK, LevelsOK
<1>4. FileOK' /\ TablesOK'
  BY <1>1, <1>2 DEF MachineOK, FileOK, TablesOK
<1> QED
  BY <1>3, <1>4 DEF MachineOK

(* The windows of the settings set the brightness as well. *)
LEMMA ChosenSettings ==
    ASSUME SessionInv, NEW b \in Nat, NEW t \in 0 .. 2, NEW g, Choose(b, t, g)
    PROVE  SessionInv'
<1>1. /\ ShowSettings(t) /\ pc9 = "main" /\ pc9' = "sendLevel" /\ listed' = fileListType
      /\ brightness' = b /\ p1' = b
      /\ UNCHANGED <<prog9, prog7, ipc9, ipc7, wordVars, level, lights, loadVars>>
  BY DEF Choose
<1>2. ListInv'
  BY <1>1, SettingsShown DEF SessionInv
<1>3. WordsOK' /\ LevelsOK'
  BY <1>1 DEF SessionInv, MachineOK, WordsOK, LevelsOK
<1>4. FileOK' /\ TablesOK'
  BY <1>1 DEF SessionInv, MachineOK, FileOK, TablesOK, loadVars, MenuPlaces
<1>5. listed' \in 0 .. 2
  BY <1>1 DEF SessionInv, ListInv, InputOK
<1> QED
  BY <1>2, <1>3, <1>4, <1>5 DEF SessionInv, MachineOK

(* Only a game that the list shows is started, or the cartridge. *)
LEMMA Started ==
    ASSUME SessionInv, LaunchSelected
    PROVE  \/ \E f \in Files, s \in CardSpeeds : Launch(f, s)
           \/ Launch(TheSlot, 0)
<1>1. CASE Selected = "slot2" /\ Launch([disk |-> "slot2", name |-> "slot2"], 0)
  BY <1>1 DEF TheSlot
<1>2. CASE infos[place.sel + 1].isDSRom /\ \E s \in CardSpeeds : Launch([disk |-> Disk[dir], name |-> Selected], s)
  <2> DEFINE k == place.sel + 1
  <2>1. k \in DOMAIN rows
    <3>1. rows # <<>> /\ DOMAIN rows = 1 .. Len(rows) /\ Len(rows) \in Nat
      BY RowsAre DEF LaunchSelected, SessionInv, ListInv
    <3>2. place.sel \in Nat /\ place.sel < Len(rows)
      BY <3>1 DEF SessionInv, ListInv, PlaceOK, AtRows
    <3> QED
      BY <3>1, <3>2
  <2>2. infos[k].isDSRom /\ rows[k] = Selected
    BY <1>2 DEF Selected
  <2> HIDE DEF k
  <2>3. rows[k] \in Roms
    BY <2>1, <2>2, RowsAre, InfosAre, InfoIs DEF SessionInv, ListInv
  <2>4. Disk[dir] \in {"fat0", "fat1"}
    BY SessionAssumption DEF SessionInv, ListInv, RowsOK
  <2>5. [disk |-> Disk[dir], name |-> Selected] \in Files
    BY <2>2, <2>3, <2>4 DEF Files
  <2> QED
    BY <1>2, <2>5
<1> QED
  BY <1>1, <1>2 DEF LaunchSelected

LEMMA SpeedsAreNumbers == NandSpeed \in Nat /\ CardSpeeds \subseteq Nat
BY LoaderAssumption, Zenon

(* What the menu's last step does to the words and the tables. *)
LEMMA Launched ==
    ASSUME NEW f \in Files \cup {TheSlot}, NEW s \in CardSpeeds \cup {0}, Launch(f, s)
    PROVE  /\ file' = f /\ pc9' = "waitReady" /\ fe24' = Entry("loader") /\ ipc9' = "reboot"
           /\ UNCHANGED <<prog9, pc7, prog7, p1, ipc7, fe08, saved, level, brightness, lights, sdhc, video, nandMap>>
           /\ IF f = TheSlot \/ Game[f.name].homebrew THEN UNCHANGED <<control, measured>>
              ELSE control' \in Nat /\ measured' = control'
<1>1. f.disk = "slot2" <=> f = TheSlot
  BY DEF Files, TheSlot
<1>2. s \in Nat /\ NandSpeed \in Nat
  BY SpeedsAreNumbers
<1> QED
  BY <1>1, <1>2 DEF Launch, Reboot, Ask

LEMMA LaunchKeeps ==
    ASSUME SessionInv, LaunchSelected
    PROVE  SessionInv'
<1>1. PICK f \in Files \cup {TheSlot}, s \in CardSpeeds \cup {0} : Launch(f, s)
  BY Started
<1>2. ListInv' /\ listed' = listed
  BY Forgotten DEF LaunchSelected, ListForgotten
<1>3. WordsOK'
  BY <1>1, Launched DEF SessionInv, MachineOK, WordsOK, Messages, Words24, Programs
<1>4. LevelsOK'
  BY <1>1, Launched DEF SessionInv, MachineOK, LevelsOK
<1>5. FileOK'
  BY <1>1, Launched DEF FileOK, Files, TheSlot, NoFile
<1>6. control' \in Nat /\ measured' \in Nat
  BY <1>1, Launched DEF SessionInv, MachineOK, TablesOK
<1>7. sdhc' = sdhc /\ video' = video /\ nandMap' = nandMap
  BY <1>1, Launched
<1>8. flags' \subseteq Flags
  BY DEF LaunchSelected
<1>9. TablesOK'
  BY <1>6, <1>7, <1>8 DEF SessionInv, MachineOK, TablesOK
<1> QED
  BY <1>2, <1>3, <1>4, <1>5, <1>9 DEF SessionInv, MachineOK

LEMMA StepHolds == SessionInv /\ [Next]_all => SessionInv'
<1> SUFFICES ASSUME SessionInv, [Next]_all PROVE SessionInv'
  OBVIOUS
<1>1. CASE Browse
  BY <1>1, ListSteps, MachineFrozen DEF Browse, SessionInv, gsVars, MachineOK
<1>2. CASE SystemParam
  <2>1. CASE \E b \in Picks.brightness : \E g : Choose(b, fileListType, g)
    <3>1. Picks.brightness \subseteq Nat /\ fileListType \in 0 .. 2
      BY SessionAssumption DEF SessionInv, ListInv, InputOK
    <3> QED
      BY <2>1, <3>1, ChosenSettings
  <2>2. CASE \E t \in 0 .. 2 : \E g : Choose(brightness, t, g)
    <3>1. brightness \in Nat
      BY DEF SessionInv, MachineOK, LevelsOK
    <3> QED
      BY <2>2, <3>1, ChosenSettings
  <2> QED
    BY <1>2, <2>1, <2>2 DEF SystemParam
<1>3. CASE SetPatches
  <2>1. \E g : Choose(brightness, fileListType, g)
    BY <1>3 DEF SetPatches
  <2>2. brightness \in Nat /\ fileListType \in 0 .. 2
    BY DEF SessionInv, MachineOK, LevelsOK, ListInv, InputOK
  <2> QED
    BY <2>1, <2>2, ChosenSettings
<1>4. CASE WriteSettings
  <2>1. ListAnew(listed) /\ UNCHANGED vars /\ listed' = NULL
    BY <1>4 DEF WriteSettings
  <2> QED
    BY <2>1, ListRead, MachineFrozen DEF SessionInv
<1>5. CASE Console
  BY <1>5, ListFrozen, MachineKept DEF Console, ListStands, gsVars, Steps, SessionInv
<1>6. CASE LaunchSelected
  BY <1>6, LaunchKeeps
<1>7. CASE Over \/ UNCHANGED all
  BY <1>7, ListFrozen, MachineFrozen DEF Over, all, gsVars, SessionInv, MachineOK
<1>8. CASE Machine
  BY <1>8, ListFrozen, MachineKept DEF Machine, LoaderNext, ListStands, gsVars, Steps, SessionInv
<1> QED
  BY <1>1, <1>2, <1>3, <1>4, <1>5, <1>6, <1>7, <1>8 DEF Next

THEOREM SessionInvariant == Spec => []SessionInv
BY InitHolds, StepHolds, PTL DEF Spec

LEMMA TypesHold == SessionInv => SessionTypeOK
<1> SUFFICES ASSUME SessionInv PROVE SessionTypeOK
  OBVIOUS
<1>1. dir \in DOMAIN Content /\ rows \in Seq(DOMAIN Kind) /\ place \in AtRows
      /\ infos \in Seq([banner : Banner, isDSRom : BOOLEAN, saveType : SaveTypes \cup {NULL}])
  BY RowsAre, InfosAre DEF SessionInv, ListInv, RowsOK, PlaceOK, InfoSet
<1>2. view \in {"icon", "list"} /\ fileListType \in 0 .. 2 /\ pen \in Points \cup {NULL} /\ held \in Moves \cup {NULL}
  BY DEF SessionInv, ListInv, InputOK, Views
<1>3. {idle, moved} \subseteq BOOLEAN
  BY DEF SessionInv, ListInv, InputOK
<1>4. sumOfMoveY \in -4 .. 4
  BY DEF SessionInv, ListInv, InputOK
<1>5. {prog9, prog7} \subseteq Programs /\ ipc9 \in Messages /\ ipc7 \in Answers
      /\ fe08 \in {Jump} \cup {Header(p) : p \in Programs} /\ fe24 \in {Itself} \cup {Entry(p) : p \in Programs}
  BY DEF SessionInv, MachineOK, WordsOK, Words08, Words24
<1>6. level \in 0 .. 3 /\ brightness \in Nat /\ control \in Nat /\ flags \subseteq Flags /\ listed \in 0 .. 2 \cup {NULL}
  BY DEF SessionInv, MachineOK, LevelsOK, TablesOK
<1>7. {lights, video, sdhc} \subseteq BOOLEAN
  BY DEF SessionInv, MachineOK, LevelsOK, TablesOK
<1>8. Len(nandMap) \in 0 .. Len(Block)
  <2>1. Len(Block) \in Nat /\ Len(<<>>) = 0
    BY LoaderAssumption
  <2>2. nandMap \in {<<>>, Block}
    BY DEF SessionInv, MachineOK, TablesOK
  <2> QED
    BY <2>1, <2>2
<1> QED
  BY <1>1, <1>2, <1>3, <1>4, <1>5, <1>6, <1>7, <1>8 DEF SessionTypeOK

(* Whatever the user does with the list and its settings, the selected row *)
(* exists and is drawn, each row has its own banner, a row of each game    *)
(* has the type of its save (the only row, if there is one), and the       *)
(* animated icon is that of the selected row (listview.cpp:88-251,         *)
(* mainlist.cpp:182-455).  A row with another copy of a game may keep an   *)
(* old type.                                                               *)
THEOREM ListIsSound == Spec => []ListSound
<1>1. SessionInv => ListSound
  BY TypesHold, ListHolds DEF SessionInv, ListSound
<1> QED
  BY <1>1, SessionInvariant, PTL

(* The folder that is left is among the rows of its parent. *)
LEMMA BackFinds ==
    ASSUME ListInv, Press("B"), dir' # dir, dir' # "top"
    PROVE  Path[Selected'] = dir
<1> DEFINE found == Listing[Parent[dir]][fileListType]
           here  == {i \in DOMAIN found : Kind[found[i]] = "folder" /\ Path[found[i]] = dir}
           j     == CHOOSE i \in here : TRUE
           v     == VisibleRows(view)
<1>1. BackParentDir
  BY DEF Press, Moves
<1>2. ~(dir = "top" \/ Parent[dir] \notin DOMAIN Content)
  BY <1>1 DEF BackParentDir, rowVars
<1>3. /\ dir' = Parent[dir] /\ rows' = found /\ fileListType \in 0 .. 2 /\ dir \in DOMAIN Content
      /\ place' = IF here = {} \/ Parent[dir] = "top" THEN Top ELSE SelectRow(Top, j - 1, Len(found), v)
  BY <1>1, <1>2 DEF BackParentDir, Fill, ListInv, InputOK, RowsOK
<1>4. Parent[dir] \in DOMAIN Content \ {"top"}
  BY <1>2, <1>3
<1>5. PICK e \in ToSet(Content[Parent[dir]]) : Kind[e] = "folder" /\ Path[e] = dir
  BY <1>3, <1>4, ListingAssumption
<1>6. /\ Len(found) \in Nat /\ DOMAIN found = 1 .. Len(found)
      /\ ToSet(found) = {x \in ToSet(Content[Parent[dir]]) : IsShown(x, fileListType)}
  BY <1>3, <1>4, ListingIs
<1>7. e \in ToSet(found)
  BY <1>5, <1>6 DEF IsShown
<1>8. here # {}
  <2> HIDE DEF found
  <2>1. PICK i \in DOMAIN found : found[i] = e
    BY <1>7 DEF ToSet
  <2>2. i \in here
    BY <1>5, <2>1
  <2> QED
    BY <2>2
<1>9. j \in here
  BY <1>8
<1>10. j \in 1 .. Len(found) /\ Path[found[j]] = dir
  BY <1>6, <1>9
<1>11. v \in Nat /\ v >= 2
  BY VisibleIs DEF ListInv, InputOK
<1>12. place' = SelectRow(Top, j - 1, Len(found), v)
  BY <1>3, <1>4, <1>8
<1> HIDE DEF j, v, here, found
<1> DEFINE n == Len(found)
           k == j - 1
<1>13. n \in Nat /\ k \in Int /\ k >= 0 /\ k < n /\ k + 1 = j
  BY <1>6, <1>10
<1>14. place' = SelectRow(Top, k, n, v)
  BY <1>12
<1> HIDE DEF n, k
<1>15. PlaceOK(Top, n, v)
  BY <1>11, <1>13, TopIs
<1>16. place'.sel = Meant(k, n)
  BY <1>11, <1>13, <1>14, <1>15, SelectKeeps
<1>17. place'.sel + 1 = j
  BY <1>13, <1>16 DEF Meant
<1> QED
  BY <1>3, <1>10, <1>17 DEF Selected

(* Going back to the parent selects the folder that was left, however many *)
(* rows lie before it (mainlist.cpp:327-333).                              *)
THEOREM BackSelectsTheFolder == Spec => BackSelects
<1>1. SessionInv => [pc9 = "main" /\ dir' # dir /\ dir' # "top" /\ Press("B") => Path[Selected'] = dir]_all
  BY BackFinds DEF SessionInv
<1> QED
  BY <1>1, SessionInvariant, PTL DEF BackSelects

-----------------------------------------------------------------------------
(* The change from one program to the next.  Each phase says where the two *)
(* processors are and what is in the words they share: Menu, Asked,        *)
(* Written, Released once for the menu and once for the loader, and        *)
(* between them the loader's work, which ends otherwise for slot 2.        *)

Serving == {"poll", "setLevel", "getLevel", "answer", "suspend", "wakeup"}
HeaderOf(p) == IF p = "menu" THEN Header("menu") ELSE Header("game")
NextEntry(p) == Entry(After(p))
Together(S) == prog9 = prog7 /\ prog9 \in S

MenuRuns ==
    /\ Together({"menu"}) /\ pc9 \in MenuPlaces
    /\ fe08 = Header("menu") /\ fe24 = Entry("menu") /\ ipc9 # "reboot"
    /\ \/ pc7 \in {"clear9", "clear7"} /\ pc9 = "start"
       \/ pc7 \in Serving /\ ipc7 = "none"

RestartAsked ==
    /\ Together({"menu", "loader"}) /\ pc9 = "waitReady"
    /\ fe08 = HeaderOf(prog9) /\ fe24 = NextEntry(prog9)
    /\ prog9 = "loader" => pc7 \notin Serving \ {"poll"} /\ (pc7 = "poll" => ipc9 = "slot1")
    /\ \/ pc7 \in Serving \cup {"keep08"} /\ ipc7 # "ready"
       \/ pc7 = "keep24" /\ ipc7 # "ready" /\ saved[1] = fe08
       \/ pc7 = "stop" /\ ipc7 # "ready" /\ saved[1] = fe08 /\ saved[2] = fe24
       \/ pc7 = "wait100" /\ saved[1] = fe08 /\ saved[2] = fe24

JumpWritten ==
    /\ Together({"menu", "loader"})
    /\ fe08 = Jump /\ saved[1] = HeaderOf(prog9) /\ saved[2] = NextEntry(prog9)
    /\ \/ pc9 = "write24" /\ pc7 = "wait100"
       \/ pc9 = "reset" /\ pc7 = "wait100" /\ fe24 = Itself
       \/ pc9 = "loop" /\ pc7 \in {"wait100", "release"} /\ fe24 = Itself
       \/ pc9 = "loop" /\ pc7 = "wait10" /\ fe24 = NextEntry(prog9)

Released ==
    /\ prog7 \in {"menu", "loader"} /\ prog9 = After(prog7)
    /\ pc9 = IF prog9 = "game" THEN "game" ELSE "start"
    /\ saved[1] = HeaderOf(prog7) /\ fe24 = Entry(prog9)
    /\ \/ pc7 = "wait10"
       \/ pc7 = "reset" /\ fe08 = HeaderOf(prog7)

LoaderStarts ==
    /\ Together({"loader"}) /\ pc9 = "start"
    /\ \/ pc7 = "clear9"
       \/ pc7 = "clear7" /\ ipc9 = "none"
       \/ pc7 = "poll" /\ ipc9 = "none" /\ ipc7 = "none"

(* The ARM7 is asked for help with homebrew only, and answers when the     *)
(* ARM9 may have gone on.                                                  *)
Loading ==
    /\ Together({"loader"}) /\ file.disk # "slot2" /\ ipc7 # "ready"
    /\ pc9 # "open" => fe08 = Header("game") /\ fe24 = Entry("game")
    /\ pc9 \in {"name7", "fetched"} \/ pc7 = "answer" => Loaded.homebrew
    /\ \/ /\ pc9 \in {"open", "code7", "name7", "patch", "nandMap", "fatMap", "device", "clear", "boot"}
          /\ pc7 = "poll" /\ ipc9 = "none" /\ (pc9 = "name7" => ipc7 = "none")
       \/ pc9 = "fetched" /\ pc7 = "poll" /\ ipc9 = "homebrew" /\ ipc7 = "none"
       \/ pc9 = "fetched" /\ pc7 \in {"homebrew", "fetchDone"} /\ ipc7 = "none"
       \/ pc9 = "fetched" /\ pc7 = "poll" /\ ipc9 = "none"
       \/ pc9 \in {"fetched", "patch", "clear"} /\ pc7 = "answer"

Cartridge ==
    /\ file.disk = "slot2"
    /\ \/ /\ Together({"loader"}) /\ pc9 \in {"clear2", "boot2", "boot2b", "boot2c"}
          /\ pc7 = "poll" /\ ipc9 = "none"
          /\ pc9 \in {"boot2b", "boot2c"} => fe08 = Jump
          /\ pc9 = "boot2c" => fe24 = Itself
       \/ /\ prog9 = "loader" /\ pc9 \in {"waitReady2", "reset", "loop"} /\ fe08 = Jump /\ fe24 = Itself
          /\ \/ prog7 = "loader" /\ pc7 = "poll" /\ ipc9 = "slot2"
             \/ prog7 = "loader" /\ pc7 \in {"stop2", "reset"}
             \/ pc7 = "game"
       \/ prog9 = "game" /\ pc9 = "game" /\ pc7 = "game"

GameRuns ==
    prog9 = "game" /\ pc9 = "game" /\ pc7 = "game" /\ fe08 = Header("game") /\ fe24 = Entry("game")

Failed == pc9 = "failed"

HandedOver ==
    \/ MenuRuns \/ RestartAsked \/ JumpWritten \/ Released \/ LoaderStarts
    \/ Loading \/ Cartridge \/ GameRuns \/ Failed

USE DEF Together

(* The menu and the second processor serve each other. *)
LEMMA FromMenu ==
    ASSUME Prompt, MenuRuns, Steps
    PROVE  MenuRuns'
<1> USE DEF MenuRuns, Serving, MenuPlaces
<1>1. CASE Clear9 \/ Clear7
  BY <1>1 DEF Clear9, Clear7
<1>2. CASE Poll \/ SetLevel \/ GetLevel \/ Answer7 \/ Lights
  BY <1>2 DEF Poll, SetLevel, GetLevel, Answer7, Lights, Understood
<1>3. CASE Menu9
  BY <1>3 DEF Menu9, WriteP1, SendLevel, LevelSet, LevelAsked, Listening, Ask
<1>4. CASE BrightnessButton \/ MoveLid
  BY <1>4 DEF BrightnessButton, MoveLid, Ask
<1>5. ~(Keep08 \/ Keep24 \/ PrepairReset \/ Wait100 \/ Release9 \/ Wait10 \/ Reset7 \/ Fetch \/ FetchDone \/ Restart9)
  BY DEF Keep08, Keep24, PrepairReset, Wait100, Release9, Wait10, Reset7, Fetch, FetchDone,
         Restart9, WaitReady, Write24, Reset9, Loop
<1>6. ~(Loader9 \/ FileMissing \/ CartridgeRuns)
  BY DEF Loader9, FileMissing, CartridgeRuns, Prepare, OpenFile, ClearAnswer, AskCode, Steps9,
         CodeFetched, Patch, BuildNandMap, BuildFatMap, SetDevice, ClearMemory, BootSlot1, BootSlot2
<1> QED
  BY <1>1, <1>2, <1>3, <1>4, <1>5, <1>6 DEF Steps, Arm7

(* The words are kept before the ARM9 is told that it may write them. *)
LEMMA FromAsked ==
    ASSUME Prompt, RestartAsked, Steps
    PROVE  RestartAsked' \/ JumpWritten'
<1> USE DEF RestartAsked, Serving
<1>1. CASE Poll \/ SetLevel \/ GetLevel \/ Answer7 \/ Lights
  BY <1>1 DEF Poll, SetLevel, GetLevel, Answer7, Lights, Understood
<1>2. CASE Keep08
  BY <1>2 DEF Keep08
<1>3. CASE Keep24
  BY <1>3 DEF Keep24
<1>4. CASE PrepairReset
  BY <1>4 DEF PrepairReset
<1>5. CASE WaitReady
  BY <1>5 DEF WaitReady, JumpWritten
<1>6. ~(Clear9 \/ Clear7 \/ Wait100 \/ Release9 \/ Wait10 \/ Reset7 \/ Fetch \/ FetchDone)
  BY DEF Clear9, Clear7, Wait100, Release9, Wait10, Reset7, Fetch, FetchDone
<1>7. ~(Menu9 \/ BrightnessButton \/ MoveLid \/ Write24 \/ Reset9 \/ Loop)
  BY DEF Menu9, WriteP1, SendLevel, LevelSet, LevelAsked, BrightnessButton, MoveLid, Write24, Reset9, Loop
<1>8. ~(Loader9 \/ FileMissing \/ CartridgeRuns)
  BY DEF Loader9, FileMissing, CartridgeRuns, Prepare, OpenFile, ClearAnswer, AskCode, Steps9,
         CodeFetched, Patch, BuildNandMap, BuildFatMap, SetDevice, ClearMemory, BootSlot1, BootSlot2
<1> QED
  BY <1>1, <1>2, <1>3, <1>4, <1>5, <1>6, <1>7, <1>8 DEF Steps, Arm7, Restart9

(* The ARM9 runs round the jump until the entry of the next program is in  *)
(* the word the jump goes through.                                         *)
LEMMA FromWritten ==
    ASSUME Prompt, JumpWritten, Steps
    PROVE  JumpWritten' \/ Released'
<1> USE DEF JumpWritten
<1>1. CASE Write24
  BY <1>1 DEF Write24
<1>2. CASE Reset9
  BY <1>2 DEF Reset9, Enter
<1>3. CASE Wait100
  BY <1>3 DEF Wait100
<1>4. CASE Release9
  BY <1>4 DEF Release9
<1>5. CASE Loop
  <2>1. pc7 = "wait10" /\ fe24 = Entry(After(prog9)) /\ fe24 # Itself
    BY <1>5 DEF Loop, NextEntry
  <2>2. prog9' = After(prog9) /\ pc9' = IF prog9' = "game" THEN "game" ELSE "start"
    BY <1>5, <2>1 DEF Loop, Enter, Entry
  <2> QED
    BY <1>5, <2>1, <2>2 DEF Loop, Released
<1>6. ~(Clear9 \/ Clear7 \/ Poll \/ SetLevel \/ GetLevel \/ Answer7 \/ Lights \/ Keep08 \/ Keep24 \/ PrepairReset
        \/ Wait10 \/ Reset7 \/ Fetch \/ FetchDone)
  BY DEF Clear9, Clear7, Poll, SetLevel, GetLevel, Answer7, Lights, Keep08, Keep24, PrepairReset,
         Wait10, Reset7, Fetch, FetchDone
<1>7. ~(Menu9 \/ BrightnessButton \/ MoveLid \/ WaitReady)
  BY DEF Menu9, WriteP1, SendLevel, LevelSet, LevelAsked, BrightnessButton, MoveLid, WaitReady
<1>8. ~(Loader9 \/ FileMissing \/ CartridgeRuns)
  BY DEF Loader9, FileMissing, CartridgeRuns, Prepare, OpenFile, ClearAnswer, AskCode, Steps9,
         CodeFetched, Patch, BuildNandMap, BuildFatMap, SetDevice, ClearMemory, BootSlot1, BootSlot2
<1> QED
  BY <1>1, <1>2, <1>3, <1>4, <1>5, <1>6, <1>7, <1>8 DEF Steps, Arm7, Restart9

(* The header is put back when the ARM9 has left it. *)
LEMMA FromReleased ==
    ASSUME Prompt, Released, Steps
    PROVE  Released' \/ LoaderStarts' \/ GameRuns'
<1> USE DEF Released, After
<1>1. CASE Wait10
  BY <1>1 DEF Wait10
<1>2. CASE Reset7
  BY <1>2 DEF Reset7, LoaderStarts, GameRuns, HeaderOf
<1>3. ~(Clear9 \/ Clear7 \/ Poll \/ SetLevel \/ GetLevel \/ Answer7 \/ Lights \/ Keep08 \/ Keep24 \/ PrepairReset
        \/ Wait100 \/ Release9 \/ Fetch \/ FetchDone)
  BY DEF Clear9, Clear7, Poll, SetLevel, GetLevel, Answer7, Lights, Keep08, Keep24, PrepairReset,
         Wait100, Release9, Fetch, FetchDone
<1>4. ~(Menu9 \/ BrightnessButton \/ MoveLid \/ Restart9)
  BY DEF Menu9, WriteP1, SendLevel, LevelSet, LevelAsked, BrightnessButton, MoveLid,
         Restart9, WaitReady, Write24, Reset9, Loop
<1>5. ~(Loader9 \/ FileMissing \/ CartridgeRuns)
  BY DEF Loader9, FileMissing, CartridgeRuns, Prepare, OpenFile, ClearAnswer, AskCode, Steps9, Listening,
         CodeFetched, Patch, BuildNandMap, BuildFatMap, SetDevice, ClearMemory, BootSlot1, BootSlot2
<1> QED
  BY <1>1, <1>2, <1>3, <1>4, <1>5 DEF Steps, Arm7

LEMMA FromStart ==
    ASSUME Prompt, LoaderStarts, Steps
    PROVE  LoaderStarts' \/ Loading' \/ Cartridge' \/ Failed'
<1> USE DEF LoaderStarts
<1>1. CASE Clear9 \/ Clear7
  BY <1>1 DEF Clear9, Clear7
<1>2. CASE Prepare
  <2>1. pc7 = "poll" /\ UNCHANGED <<pc7, prog7, prog9, ipc9, ipc7, file>>
    BY <1>2 DEF Prepare, Listening, loadVars
  <2>2. pc9' \in {IF file.disk = "slot2" THEN "clear2" ELSE "open", "failed"}
    BY <1>2 DEF Prepare
  <2> QED
    BY <2>1, <2>2 DEF Loading, Cartridge, Failed
<1>3. ~(Poll \/ SetLevel \/ GetLevel \/ Answer7 \/ Lights \/ Keep08 \/ Keep24 \/ PrepairReset
        \/ Wait100 \/ Release9 \/ Wait10 \/ Reset7 \/ Fetch \/ FetchDone)
  BY DEF Poll, SetLevel, GetLevel, Answer7, Lights, Keep08, Keep24, PrepairReset,
         Wait100, Release9, Wait10, Reset7, Fetch, FetchDone, Understood
<1>4. ~(Menu9 \/ BrightnessButton \/ MoveLid \/ Restart9)
  BY DEF Menu9, WriteP1, SendLevel, LevelSet, LevelAsked, BrightnessButton, MoveLid,
         Restart9, WaitReady, Write24, Reset9, Loop
<1>5. ~(OpenFile \/ ClearAnswer \/ AskCode \/ CodeFetched \/ Patch \/ BuildNandMap \/ BuildFatMap \/ SetDevice
        \/ ClearMemory \/ BootSlot1 \/ BootSlot2 \/ FileMissing \/ CartridgeRuns)
  BY DEF FileMissing, CartridgeRuns, OpenFile, ClearAnswer, AskCode, Steps9,
         CodeFetched, Patch, BuildNandMap, BuildFatMap, SetDevice, ClearMemory, BootSlot1, BootSlot2
<1> QED
  BY <1>1, <1>2, <1>3, <1>4, <1>5 DEF Steps, Arm7, Loader9

(* The loader leaves the two words as the header it read has them. *)
LEMMA FromLoading ==
    ASSUME Prompt, Loading, Steps
    PROVE  Loading' \/ RestartAsked' \/ Failed'
<1> USE DEF Loading
<1>1. CASE Poll \/ Answer7
  BY <1>1, FileStays DEF Poll, Answer7, Understood, Loaded
<1>2. CASE Fetch
  BY <1>2 DEF Fetch, Loaded
<1>3. CASE FetchDone
  BY <1>3 DEF FetchDone, loadVars, Loaded
<1>4. CASE OpenFile
  BY <1>4 DEF OpenFile, Steps9, Loaded
<1>5. CASE FileMissing
  BY <1>5 DEF FileMissing, Steps9, Failed
<1>6. CASE ClearAnswer
  BY <1>6 DEF ClearAnswer, Steps9, loadVars, Loaded
<1>7. CASE AskCode
  BY <1>7 DEF AskCode, Steps9, Ask, loadVars, Loaded
<1>8. CASE CodeFetched
  BY <1>8 DEF CodeFetched, Steps9, loadVars, Loaded
<1>9. CASE Patch
  BY <1>9 DEF Patch, Steps9, Loaded
<1>10. CASE BuildNandMap
  BY <1>10 DEF BuildNandMap, Steps9, Loaded
<1>11. CASE BuildFatMap
  BY <1>11 DEF BuildFatMap, Steps9, Loaded
<1>12. CASE SetDevice
  BY <1>12 DEF SetDevice, Steps9, Loaded
<1>13. CASE ClearMemory
  BY <1>13 DEF ClearMemory, Loaded
<1>14. CASE BootSlot1
  BY <1>14 DEF BootSlot1, Steps9, Ask, RestartAsked, Serving, HeaderOf, NextEntry, After
<1>15. ~(Clear9 \/ Clear7 \/ SetLevel \/ GetLevel \/ Lights \/ Keep08 \/ Keep24 \/ PrepairReset
        \/ Wait100 \/ Release9 \/ Wait10 \/ Reset7)
  BY DEF Clear9, Clear7, SetLevel, GetLevel, Lights, Keep08, Keep24, PrepairReset, Wait100, Release9, Wait10, Reset7
<1>16. ~(Menu9 \/ BrightnessButton \/ MoveLid \/ Restart9)
  BY DEF Menu9, WriteP1, SendLevel, LevelSet, LevelAsked, BrightnessButton, MoveLid,
         Restart9, WaitReady, Write24, Reset9, Loop
<1>17. ~(Prepare \/ BootSlot2 \/ CartridgeRuns)
  BY DEF Prepare, BootSlot2, Steps9, CartridgeRuns
<1> QED
  BY <1>1, <1>2, <1>3, <1>4, <1>5, <1>6, <1>7, <1>8, <1>9, <1>10, <1>11, <1>12, <1>13, <1>14, <1>15, <1>16, <1>17
  DEF Steps, Arm7, Loader9

(* For slot 2 the jump is written before the ARM7 is asked, and stays. *)
LEMMA FromCartridge ==
    ASSUME Prompt, Cartridge, Steps
    PROVE  Cartridge'
<1> USE DEF Cartridge
<1>1. CASE Poll
  BY <1>1, FileStays DEF Poll, Understood
<1>2. CASE PrepairReset
  BY <1>2, FileStays DEF PrepairReset
<1>3. CASE Reset7
  BY <1>3, FileStays DEF Reset7, After
<1>4. CASE ClearMemory
  BY <1>4 DEF ClearMemory
<1>5. CASE BootSlot2
  BY <1>5 DEF BootSlot2, Steps9, Ask, loadVars
<1>6. CASE Reset9
  BY <1>6, FileStays DEF Reset9, Enter
<1>7. CASE CartridgeRuns
  BY <1>7 DEF CartridgeRuns, loadVars
<1>8. ~(Clear9 \/ Clear7 \/ SetLevel \/ GetLevel \/ Answer7 \/ Lights \/ Keep08 \/ Keep24
        \/ Wait100 \/ Release9 \/ Wait10 \/ Fetch \/ FetchDone)
  BY DEF Clear9, Clear7, SetLevel, GetLevel, Answer7, Lights, Keep08, Keep24, Wait100, Release9, Wait10, Fetch, FetchDone
<1>9. ~(Menu9 \/ BrightnessButton \/ MoveLid \/ WaitReady \/ Write24 \/ Loop)
  BY DEF Menu9, WriteP1, SendLevel, LevelSet, LevelAsked, BrightnessButton, MoveLid, WaitReady, Write24, Loop
<1>10. ~(Prepare \/ OpenFile \/ ClearAnswer \/ AskCode \/ CodeFetched \/ Patch \/ BuildNandMap \/ BuildFatMap
         \/ SetDevice \/ BootSlot1 \/ FileMissing)
  BY DEF Prepare, FileMissing, OpenFile, ClearAnswer, AskCode, Steps9,
         CodeFetched, Patch, BuildNandMap, BuildFatMap, SetDevice, BootSlot1
<1> QED
  BY <1>1, <1>2, <1>3, <1>4, <1>5, <1>6, <1>7, <1>8, <1>9, <1>10 DEF Steps, Arm7, Restart9, Loader9

(* A game that runs, or a loader that has failed, does nothing any more. *)
LEMMA FromGame ==
    ASSUME GameRuns
    PROVE  ~Steps
<1> USE DEF GameRuns
<1>1. ~Arm7 /\ ~Fetch /\ ~FetchDone
  BY DEF Arm7, Clear9, Clear7, Poll, SetLevel, GetLevel, Answer7, Lights, Keep08, Keep24, PrepairReset,
         Wait100, Release9, Wait10, Reset7, Fetch, FetchDone
<1>2. ~(Menu9 \/ BrightnessButton \/ MoveLid \/ Restart9)
  BY DEF Menu9, WriteP1, SendLevel, LevelSet, LevelAsked, BrightnessButton, MoveLid,
         Restart9, WaitReady, Write24, Reset9, Loop
<1>3. ~(Loader9 \/ FileMissing \/ CartridgeRuns)
  BY DEF Loader9, FileMissing, CartridgeRuns, Prepare, OpenFile, ClearAnswer, AskCode, Steps9,
         CodeFetched, Patch, BuildNandMap, BuildFatMap, SetDevice, ClearMemory, BootSlot1, BootSlot2
<1> QED
  BY <1>1, <1>2, <1>3 DEF Steps

LEMMA FromFailed ==
    ASSUME Failed, Steps
    PROVE  Failed'
<1> USE DEF Failed
<1>1. CASE Arm7 \/ Fetch \/ FetchDone
  BY <1>1 DEF Arm7, Clear9, Clear7, Poll, SetLevel, GetLevel, Answer7, Lights, Keep08, Keep24, PrepairReset,
         Wait100, Release9, Wait10, Reset7, Fetch, FetchDone
<1>2. ~(Menu9 \/ BrightnessButton \/ MoveLid \/ Restart9)
  BY DEF Menu9, WriteP1, SendLevel, LevelSet, LevelAsked, BrightnessButton, MoveLid,
         Restart9, WaitReady, Write24, Reset9, Loop
<1>3. ~(Loader9 \/ FileMissing \/ CartridgeRuns)
  BY DEF Loader9, FileMissing, CartridgeRuns, Prepare, OpenFile, ClearAnswer, AskCode, Steps9,
         CodeFetched, Patch, BuildNandMap, BuildFatMap, SetDevice, ClearMemory, BootSlot1, BootSlot2
<1> QED
  BY <1>1, <1>2, <1>3 DEF Steps

LEMMA ChangeOver ==
    ASSUME Prompt, HandedOver, Steps
    PROVE  HandedOver'
BY FromMenu, FromAsked, FromWritten, FromReleased, FromStart, FromLoading, FromCartridge, FromGame, FromFailed DEF HandedOver

-----------------------------------------------------------------------------
(* What the loader has prepared by then.                                   *)

Ends        == {"waitReady", "write24", "reset", "loop"}
AfterDevice == {"clear", "boot"} \cup Ends
AfterFat    == {"device"} \cup AfterDevice
AfterNand   == {"fatMap"} \cup AfterFat
AfterCode   == {"patch", "nandMap"} \cup AfterNand
AfterOpen   == {"code7", "name7", "fetched"} \cup AfterCode

(* The loader is at a place of S, or the program it has loaded runs. *)
Past(S) == file.disk # "slot2" /\ (prog9 = "game" \/ (prog9 = "loader" /\ pc9 \in S))

Speeds == file \in Files /\ ~Loaded.homebrew => control >= measured

Codes ==
    /\ Past(AfterOpen) => code9 = "game" /\ control >= Loaded.speed /\ (Loaded.homebrew \/ code7 = "game")
    /\ prog9 = "loader" /\ pc9 = "fetched" /\ (pc7 \in {"fetchDone", "answer"} \/ ipc7 = "loadDone") => code7 = "game"
    /\ Past(AfterCode) => code7 = "game"

Tables ==
    /\ Past(AfterNand) /\ ~Loaded.homebrew => nandMap = Block
    /\ Past(AfterFat) /\ ~Loaded.homebrew /\ Chain[file] # <<>> => fatMap = MapOf(file)
    /\ Past(AfterDevice) /\ ~Loaded.homebrew => device.disk = file.disk /\ (device.sdhc <=> Wide(file))

Prepared == Speeds /\ Codes /\ Tables

LEMMA SpeedsKept ==
    ASSUME Speeds, MachineOK, Steps
    PROVE  Speeds'
<1>1. file' = file /\ Loaded' = Loaded
  BY FileStays DEF Loaded
<1>2. CASE OpenFile
  <2>1. control \in Nat /\ measured \in Nat /\ measured' = measured /\ control' = Largest(control, Loaded.speed)
    BY <1>2 DEF OpenFile, MachineOK, TablesOK
  <2>2. file \in Files => Loaded.speed \in Nat
    BY SessionAssumption, LoaderAssumption DEF Files, Loaded
  <2> DEFINE s == Loaded.speed
  <2> HIDE DEF s
  <2>3. s \in Nat => Largest(control, s) >= control /\ Largest(control, s) \in Nat
    BY <2>1 DEF Largest
  <2>4. control' = Largest(control, s) /\ (file \in Files => s \in Nat)
    BY <2>1, <2>2 DEF s
  <2>5. file \in Files /\ control >= measured => control' >= measured
    BY <2>1, <2>3, <2>4
  <2> QED
    BY <1>1, <2>1, <2>5 DEF Speeds
<1>3. CASE ~OpenFile
  <2>1. control' = control /\ measured' = measured
    BY <1>3 DEF Steps, Shared, loadVars, Loader9, FileMissing, Fetch, FetchDone, CartridgeRuns, Prepare, ClearAnswer, AskCode,
                CodeFetched, Patch, BuildNandMap, BuildFatMap, SetDevice, ClearMemory, BootSlot1, BootSlot2
  <2> QED
    BY <1>1, <2>1 DEF Speeds
<1> QED
  BY <1>2, <1>3

(* The restart and the ARM7 bring the ARM9 to no place of the loader's. *)
LEMMA Onward ==
    ASSUME Prompt, HandedOver, Steps, ~Loader9, NEW S, Ends \subseteq S, S \cap ({"start", "failed"} \cup MenuPlaces) = {},
           Past(S)'
    PROVE  Past(S)
<1>1. file' = file /\ file.disk # "slot2" /\ (prog9' = "game" \/ (prog9' = "loader" /\ pc9' \in S))
  BY FileStays DEF Past
<1>2. CASE Arm7 \/ Fetch \/ FetchDone
  <2>1. pc9' = pc9 /\ prog9' = prog9
    BY <1>2 DEF Arm7, Clear9, Clear7, Poll, SetLevel, GetLevel, Answer7, Lights, Keep08, Keep24, PrepairReset,
                Wait100, Release9, Wait10, Reset7, Fetch, FetchDone
  <2> QED
    BY <1>1, <2>1 DEF Past
<1>3. CASE Menu9 \/ BrightnessButton \/ MoveLid
  <2>1. prog9' = prog9 /\ pc9 \in MenuPlaces /\ pc9' \in MenuPlaces
    BY <1>3 DEF Menu9, WriteP1, SendLevel, LevelSet, LevelAsked, BrightnessButton, MoveLid, MenuPlaces
  <2> QED
    BY <1>1, <2>1 DEF Past
<1>4. CASE WaitReady \/ Write24
  <2>1. pc9 \in Ends /\ prog9' = prog9
    BY <1>4 DEF WaitReady, Write24, Ends
  <2> QED
    BY <1>1, <2>1 DEF Past
<1>5. CASE Reset9
  <2>1. pc9 \in Ends /\ fe24 = Itself
    BY <1>1, <1>5 DEF Reset9, HandedOver, MenuRuns, RestartAsked, JumpWritten, Released, LoaderStarts, Loading, Cartridge,
                      GameRuns, Failed, Ends, MenuPlaces
  <2>2. prog9' = prog9
    BY <1>5, <2>1 DEF Reset9, Enter
  <2> QED
    BY <1>1, <2>1, <2>2 DEF Past
<1>6. CASE Loop
  <2>1. pc9 = "loop" /\ JumpWritten
    BY <1>1, <1>6 DEF Loop, HandedOver, MenuRuns, RestartAsked, Released, LoaderStarts, Loading, Cartridge,
                      GameRuns, Failed, MenuPlaces
  <2>2. JumpWritten' \/ Released'
    BY <2>1, FromWritten
  <2>3. prog9 = "loader" \/ pc9' = "start"
    <3>1. CASE prog9 = "menu"
      <4>1. fe24 = Entry("loader") /\ fe24 # Itself
        BY <1>6, <2>1, <3>1 DEF JumpWritten, Loop, NextEntry, After
      <4> QED
        BY <1>6, <2>1, <4>1 DEF JumpWritten, Loop, Enter, Entry
    <3> QED
      BY <2>1, <3>1 DEF JumpWritten
  <2>4. CASE prog9 = "loader"
    BY <1>1, <2>1, <2>4 DEF Past, Ends
  <2>5. CASE pc9' = "start"
    <3>1. prog9' = "game"
      BY <1>1, <2>5
    <3> QED
      BY <2>2, <2>5, <3>1 DEF JumpWritten, Released
  <2> QED
    BY <2>3, <2>4, <2>5
<1>7. CASE FileMissing
  BY <1>1, <1>7 DEF FileMissing, Steps9, Alone, Past
<1>8. CASE CartridgeRuns
  BY <1>1, <1>8 DEF CartridgeRuns
<1> QED
  BY <1>2, <1>3, <1>4, <1>5, <1>6, <1>7, <1>8 DEF Steps, Restart9

LEMMA SlotOnly ==
    ASSUME HandedOver, BootSlot2
    PROVE  file.disk = "slot2" /\ file' = file
<1>1. pc9 \in {"boot2", "boot2b", "boot2c", "waitReady2"}
  BY DEF BootSlot2, Steps9
<1>2. file.disk = "slot2"
  BY <1>1 DEF HandedOver, MenuRuns, RestartAsked, JumpWritten, Released, LoaderStarts, Loading, Cartridge,
              GameRuns, Failed, MenuPlaces
<1>3. file' = file
  BY DEF BootSlot2, loadVars
<1> QED
  BY <1>2, <1>3

USE DEF Ends, AfterDevice, AfterFat, AfterNand, AfterCode, AfterOpen

(* Steps that are not the loader's. *)
LEMMA CodesLeft ==
    ASSUME Prompt, HandedOver, Codes, Steps, ~Loader9
    PROVE  Codes'
<1>1. Past(AfterOpen)' => Past(AfterOpen)
  BY Onward DEF MenuPlaces
<1>2. Past(AfterCode)' => Past(AfterCode)
  BY Onward DEF MenuPlaces
<1>3. file' = file /\ Loaded' = Loaded
  BY FileStays DEF Loaded
<1>4. code9' = code9 /\ control' = control /\ (code7' = code7 \/ code7' = "game")
  BY DEF Steps, Shared, loadVars, FileMissing, Fetch, FetchDone, CartridgeRuns
<1>5. ASSUME prog9' = "loader", pc9' = "fetched", pc7' \in {"fetchDone", "answer"} \/ ipc7' = "loadDone"
      PROVE  code7' = "game"
  <2>1. CASE Fetch
    BY <2>1 DEF Fetch
  <2>2. CASE FetchDone
    BY <1>4, <1>5, <2>2 DEF FetchDone, Codes
  <2>3. CASE Arm7
    <3>1. pc9' = pc9 /\ prog9' = prog9
      BY <2>3 DEF Arm7, Clear9, Clear7, Poll, SetLevel, GetLevel, Answer7, Lights, Keep08, Keep24, PrepairReset,
                  Wait100, Release9, Wait10, Reset7
    <3>2. Loading
      BY <1>5, <3>1 DEF HandedOver, MenuRuns, RestartAsked, JumpWritten, Released, LoaderStarts, Cartridge,
                        GameRuns, Failed, MenuPlaces
    <3>3. CASE Poll
      BY <1>4, <1>5, <3>1, <3>2, <3>3 DEF Poll, Codes, Loading, Understood
    <3>4. CASE Answer7
      BY <1>4, <1>5, <3>1, <3>4 DEF Answer7, Codes
    <3>5. ~(Clear9 \/ Clear7 \/ SetLevel \/ GetLevel \/ Lights \/ Keep08 \/ Keep24 \/ PrepairReset
            \/ Wait100 \/ Release9 \/ Wait10 \/ Reset7)
      BY <1>5, <3>1, <3>2 DEF Loading, Clear9, Clear7, SetLevel, GetLevel, Lights, Keep08, Keep24, PrepairReset,
                              Wait100, Release9, Wait10, Reset7
    <3> QED
      BY <2>3, <3>3, <3>4, <3>5 DEF Arm7
  <2>4. ~(Menu9 \/ BrightnessButton \/ MoveLid \/ FileMissing \/ CartridgeRuns)
    BY <1>5 DEF Menu9, WriteP1, SendLevel, LevelSet, LevelAsked, BrightnessButton, MoveLid, FileMissing, Steps9, CartridgeRuns
  <2>5. ~Restart9
    BY <1>5, Entered DEF Restart9, WaitReady, Write24, Reset9, Loop, Enter
  <2> QED
    BY <2>1, <2>2, <2>3, <2>4, <2>5 DEF Steps
<1> QED
  BY <1>1, <1>2, <1>3, <1>4, <1>5 DEF Codes

(* The loader's: it goes on to the tables only with the code of both. *)
LEMMA CodesMade ==
    ASSUME Prompt, HandedOver, Codes, MachineOK, Loader9
    PROVE  Codes'
<1>1. Steps
  BY DEF Steps
<1>2. file' = file /\ Loaded' = Loaded
  BY <1>1, FileStays DEF Loaded
<1> USE DEF Codes, Past, Steps9
<1>3. CASE Prepare
  BY <1>2, <1>3 DEF Prepare
<1>4. CASE OpenFile
  <2>1. /\ prog9' = "loader" /\ pc9' = "code7" /\ code9' = "game" /\ (Loaded.homebrew \/ code7' = "game")
        /\ control' = Largest(control, Loaded.speed)
    BY <1>4 DEF OpenFile
  <2>2. control \in Nat /\ Loaded.speed \in Nat
    <3>1. file \in Files
      BY <1>4 DEF OpenFile, MachineOK, FileOK, TheSlot, NoFile
    <3> QED
      BY <3>1, SessionAssumption, LoaderAssumption DEF Files, Loaded, MachineOK, TablesOK
  <2> DEFINE s == Loaded.speed
  <2>3. control' >= s
    <3> HIDE DEF s
    <3>1. control \in Nat /\ s \in Nat /\ control' = Largest(control, s)
      BY <2>1, <2>2 DEF s
    <3> QED
      BY <3>1 DEF Largest
  <2> QED
    BY <1>2, <2>1, <2>3
<1>5. CASE ClearAnswer
  BY <1>2, <1>5 DEF ClearAnswer, loadVars
<1>6. CASE AskCode
  <2>1. Loading /\ pc9 = "name7"
    BY <1>6 DEF AskCode, HandedOver, MenuRuns, RestartAsked, JumpWritten, Released, LoaderStarts, Cartridge,
                GameRuns, Failed, MenuPlaces
  <2>2. pc7' \notin {"fetchDone", "answer"} /\ ipc7' # "loadDone"
    BY <1>6, <2>1 DEF AskCode, Loading
  <2> QED
    BY <1>2, <1>6, <2>2 DEF AskCode, loadVars
<1>7. CASE CodeFetched
  BY <1>2, <1>7 DEF CodeFetched, loadVars
<1>8. CASE Patch \/ BuildNandMap
  BY <1>2, <1>8 DEF Patch, BuildNandMap
<1>9. CASE BuildFatMap \/ SetDevice
  BY <1>2, <1>9 DEF BuildFatMap, SetDevice
<1>10. CASE ClearMemory
  BY <1>2, <1>10 DEF ClearMemory
<1>11. CASE BootSlot1
  BY <1>2, <1>11 DEF BootSlot1, loadVars
<1>12. CASE BootSlot2
  <2>1. pc9' # "fetched" /\ file'.disk = "slot2"
    BY <1>12, SlotOnly DEF BootSlot2
  <2> QED
    BY <2>1
<1> QED
  BY <1>3, <1>4, <1>5, <1>6, <1>7, <1>8, <1>9, <1>10, <1>11, <1>12 DEF Loader9

LEMMA TablesLeft ==
    ASSUME Prompt, HandedOver, Tables, Steps, ~Loader9
    PROVE  Tables'
<1>1. (Past(AfterNand)' => Past(AfterNand)) /\ (Past(AfterFat)' => Past(AfterFat)) /\ (Past(AfterDevice)' => Past(AfterDevice))
  BY Onward DEF MenuPlaces
<1>2. file' = file /\ Loaded' = Loaded
  BY FileStays DEF Loaded
<1>3. UNCHANGED <<nandMap, fatMap, device, sdhc>>
  BY DEF Steps, Shared, loadVars, FileMissing, Fetch, FetchDone, CartridgeRuns
<1>4. MapOf(file)' = MapOf(file) /\ Wide(file)' = Wide(file)
  BY <1>2, <1>3 DEF MapOf, Wide
<1> QED
  BY <1>1, <1>2, <1>3, <1>4 DEF Tables

LEMMA TablesMade ==
    ASSUME Prompt, HandedOver, Tables, MachineOK, Loader9
    PROVE  Tables'
<1>1. Steps
  BY DEF Steps
<1>2. file' = file /\ Loaded' = Loaded
  BY <1>1, FileStays DEF Loaded
<1>3. sdhc' = sdhc
  BY DEF Loader9, Prepare, OpenFile, ClearAnswer, AskCode, CodeFetched, Patch, BuildNandMap, BuildFatMap, SetDevice,
         ClearMemory, BootSlot1, BootSlot2, loadVars
<1>4. MapOf(file)' = MapOf(file) /\ Wide(file)' = Wide(file)
  BY <1>2, <1>3 DEF MapOf, Wide
<1> USE DEF Tables, Past, Steps9
<1>5. CASE Prepare \/ OpenFile \/ ClearAnswer \/ AskCode \/ CodeFetched
  BY <1>2, <1>5 DEF Prepare, OpenFile, ClearAnswer, AskCode, CodeFetched
<1>6. CASE Patch
  BY <1>2, <1>6 DEF Patch
<1>7. CASE BuildNandMap
  BY <1>2, <1>4, <1>7 DEF BuildNandMap
<1>8. CASE BuildFatMap
  BY <1>2, <1>4, <1>8 DEF BuildFatMap
<1>9. CASE SetDevice
  <2>1. file \in Files
    BY <1>9 DEF SetDevice, MachineOK, FileOK, TheSlot, NoFile, HandedOver, MenuRuns, RestartAsked, JumpWritten, Released,
                LoaderStarts, Loading, Cartridge, GameRuns, Failed, MenuPlaces
  <2>2. file.disk \in {"fat0", "fat1"}
    BY <2>1 DEF Files
  <2>3. device'.disk = file.disk
    BY <1>9, <2>2 DEF SetDevice
  <2>4. device'.sdhc <=> Wide(file)
    BY <1>9, <2>2 DEF SetDevice, Wide
  <2> QED
    BY <1>2, <1>4, <1>9, <2>3, <2>4 DEF SetDevice
<1>10. CASE ClearMemory \/ BootSlot1
  BY <1>2, <1>4, <1>10 DEF ClearMemory, BootSlot1, loadVars
<1>11. CASE BootSlot2
  BY <1>11, SlotOnly
<1> QED
  BY <1>5, <1>6, <1>7, <1>8, <1>9, <1>10, <1>11 DEF Loader9

StartInv == SessionInv /\ HandedOver /\ Prepared

LEMMA AtFirst == SessionInit => HandedOver /\ Prepared
<1> SUFFICES ASSUME SessionInit PROVE HandedOver /\ Prepared
  OBVIOUS
<1>1. ProcessorsInit /\ LoaderInit
  BY DEF SessionInit
<1>2. MenuRuns
  BY <1>1 DEF ProcessorsInit, MenuRuns, MenuPlaces
<1>3. Speeds
  BY <1>1 DEF LoaderInit, Speeds, Files, NoFile
<1>4. Codes /\ Tables
  BY <1>1 DEF ProcessorsInit, Codes, Tables, Past
<1> QED
  BY <1>2, <1>3, <1>4 DEF HandedOver, Prepared

LEMMA InMain ==
    ASSUME HandedOver, pc9 = "main"
    PROVE  MenuRuns
BY DEF HandedOver, RestartAsked, JumpWritten, Released, LoaderStarts, Loading, Cartridge, GameRuns, Failed, MenuPlaces

LEMMA PreparedKept ==
    ASSUME Prompt, MachineOK, HandedOver, Prepared, Steps
    PROVE  HandedOver' /\ Prepared'
BY ChangeOver, SpeedsKept, CodesLeft, CodesMade, TablesLeft, TablesMade DEF Prepared

LEMMA PreparedFrozen ==
    ASSUME HandedOver, Prepared, UNCHANGED vars
    PROVE  HandedOver' /\ Prepared'
<1>1. UNCHANGED <<pc9, pc7, prog9, prog7, ipc9, ipc7, fe08, fe24, saved>>
  BY DEF vars, procVars
<1>2. UNCHANGED <<file, control, measured, sdhc, code9, code7, nandMap, fatMap, device>>
  BY DEF vars, loadVars
<1>3. HandedOver'
  BY <1>1, <1>2 DEF HandedOver, MenuRuns, RestartAsked, JumpWritten, Released, LoaderStarts, Loading, Cartridge,
                    GameRuns, Failed, Loaded
<1>4. Speeds' /\ Codes'
  BY <1>1, <1>2 DEF Prepared, Speeds, Codes, Past, Loaded
<1>5. MapOf(file)' = MapOf(file) /\ Wide(file)' = Wide(file)
  BY <1>2 DEF MapOf, Wide
<1>6. Tables'
  BY <1>1, <1>2, <1>5 DEF Prepared, Tables, Past, Loaded
<1> QED
  BY <1>3, <1>4, <1>6 DEF Prepared

LEMMA PreparedChosen ==
    ASSUME HandedOver, Prepared, NEW b, NEW t, NEW g, Choose(b, t, g)
    PROVE  HandedOver' /\ Prepared'
<1>1. /\ pc9 = "main" /\ pc9' = "sendLevel"
      /\ UNCHANGED <<pc7, prog9, prog7, ipc9, ipc7, wordVars, loadVars>>
  BY DEF Choose
<1>2. MenuRuns
  BY <1>1, InMain
<1>3. MenuRuns'
  BY <1>1, <1>2 DEF MenuRuns, MenuPlaces, Serving
<1>4. Speeds'
  BY <1>1 DEF Prepared, Speeds, Loaded, loadVars
<1>5. prog9' = "menu"
  BY <1>3 DEF MenuRuns
<1> QED
  BY <1>3, <1>4, <1>5 DEF HandedOver, Prepared, Codes, Tables, Past

LEMMA PreparedLaunched ==
    ASSUME SessionInv, HandedOver, Prepared, LaunchSelected
    PROVE  HandedOver' /\ Prepared'
<1>1. PICK f \in Files \cup {TheSlot}, s \in CardSpeeds \cup {0} : Launch(f, s)
  BY Started
<1>2. pc9 = "main"
  BY <1>1 DEF Launch, Reboot
<1>3. MenuRuns
  BY <1>2, InMain
<1>4. /\ file' = f /\ pc9' = "waitReady" /\ fe24' = Entry("loader") /\ ipc9' = "reboot"
      /\ UNCHANGED <<prog9, pc7, prog7, ipc7, fe08, saved>>
      /\ IF f = TheSlot \/ Game[f.name].homebrew THEN UNCHANGED <<control, measured>>
         ELSE control' \in Nat /\ measured' = control'
  BY <1>1, Launched
<1>5. RestartAsked'
  BY <1>2, <1>3, <1>4 DEF MenuRuns, RestartAsked, Serving, HeaderOf, NextEntry, After
<1>6. Speeds'
  BY <1>4 DEF Speeds, Loaded, Files, TheSlot
<1>7. prog9' = "menu"
  BY <1>3, <1>4 DEF MenuRuns
<1> QED
  BY <1>5, <1>6, <1>7 DEF HandedOver, Prepared, Codes, Tables, Past

LEMMA StartStep == Prompt /\ StartInv /\ [Next]_all => StartInv'
<1> SUFFICES ASSUME Prompt, StartInv, [Next]_all PROVE StartInv'
  OBVIOUS
<1> USE DEF StartInv
<1>1. SessionInv'
  BY StepHolds
<1>2. CASE Browse \/ WriteSettings \/ Over \/ UNCHANGED all
  BY <1>1, <1>2, PreparedFrozen DEF Browse, WriteSettings, Over, all
<1>3. CASE SystemParam \/ SetPatches
  <2>1. \E b, t, g : Choose(b, t, g)
    BY <1>3 DEF SystemParam, SetPatches
  <2> QED
    BY <1>1, <2>1, PreparedChosen
<1>4. CASE Console
  BY <1>1, <1>4, PreparedKept DEF Console, Steps, SessionInv
<1>5. CASE LaunchSelected
  BY <1>1, <1>5, PreparedLaunched
<1>6. CASE Machine
  BY <1>1, <1>6, PreparedKept DEF Machine, LoaderNext, Steps, SessionInv
<1> QED
  BY <1>2, <1>3, <1>4, <1>5, <1>6 DEF Next

-----------------------------------------------------------------------------
(* What the program finds.                                                 *)

LEMMA TimesDiv ==
    ASSUME NEW a \in Nat, NEW b \in Nat \ {0}
    PROVE  (a * b) \div b = a
OBVIOUS

LEMMA GameFinds ==
    ASSUME StartInv
    PROVE  JumpInPlace /\ HeaderBack /\ BothLoaded /\ SlowEnough
<1> USE DEF StartInv
<1>1. JumpInPlace
  BY DEF JumpInPlace, HandedOver, MenuRuns, RestartAsked, JumpWritten, Released, LoaderStarts, Loading, Cartridge,
         GameRuns, Failed, MenuPlaces
<1>2. HeaderBack
  BY DEF HeaderBack, HandedOver, MenuRuns, RestartAsked, JumpWritten, Released, LoaderStarts, Loading, Cartridge,
         GameRuns, Failed, MenuPlaces
<1>3. pc9 = "game" => prog9 = "game"
  BY DEF HandedOver, MenuRuns, RestartAsked, JumpWritten, Released, LoaderStarts, Loading, Cartridge,
         GameRuns, Failed, MenuPlaces
<1>4. ASSUME pc9 = "game", file.disk # "slot2"
      PROVE  Past(AfterOpen) /\ Past(AfterCode) /\ file \in Files
  BY <1>3, <1>4 DEF Past, SessionInv, MachineOK, FileOK, TheSlot
<1>5. BothLoaded
  BY <1>4 DEF BothLoaded, Prepared, Codes
<1>6. SlowEnough
  BY <1>4 DEF SlowEnough, Prepared, Codes, Speeds
<1> QED
  BY <1>1, <1>2, <1>5, <1>6

LEMMA GameFindsFile ==
    ASSUME StartInv
    PROVE  MapFindsFile
<1> SUFFICES ASSUME pc9 = "game", file.disk # "slot2", ~Loaded.homebrew
             PROVE  /\ device.disk = file.disk /\ nandMap = Block
                    /\ \A i \in DOMAIN Chain[file] : FoundAt(i) = Sector[file.disk][Chain[file][i]]
  BY DEF MapFindsFile
<1>1. prog9 = "game"
  BY DEF StartInv, HandedOver, MenuRuns, RestartAsked, JumpWritten, Released, LoaderStarts, Loading, Cartridge,
         GameRuns, Failed, MenuPlaces
<1>2. Past(AfterNand) /\ Past(AfterFat) /\ Past(AfterDevice) /\ file \in Files
  BY <1>1 DEF Past, StartInv, SessionInv, MachineOK, FileOK, TheSlot
<1>3. /\ device.disk = file.disk /\ nandMap = Block /\ (device.sdhc <=> Wide(file))
      /\ Chain[file] # <<>> => fatMap = MapOf(file)
  BY <1>2 DEF StartInv, Prepared, Tables
<1>4. file \in DOMAIN Chain
  BY <1>2, LoaderAssumption, SessionAssumption DEF Files
<1>5. ASSUME NEW i \in DOMAIN Chain[file]
      PROVE  FoundAt(i) = Sector[file.disk][Chain[file][i]]
  <2> DEFINE c == Chain[file]
             a == Sector[file.disk][c[i]]
  <2>1. c \in Seq(Nat) /\ a \in Nat
    BY <1>4, <1>5, LoaderAssumption
  <2>2. i \in 1 .. Len(c) /\ Len(c) \in Nat /\ c # <<>>
    <3> HIDE DEF a
    <3>1. c \in Seq(Nat) /\ i \in DOMAIN c
      BY <1>5, <2>1
    <3> HIDE DEF c
    <3> QED
      BY <3>1
  <2>3. fatMap = MapOf(file)
    BY <1>3, <2>2
  <2>4. fatMap[i] = a * (IF Wide(file) THEN 1 ELSE Bytes)
    <3>1. i \in 1 .. Len(c) + 1 /\ ~(i > Len(c))
      <4> HIDE DEF c, a
      <4> QED
        BY <2>2
    <3> QED
      BY <2>3, <3>1 DEF MapOf
  <2>5. Bytes \in Nat \ {0}
    BY LoaderAssumption
  <2> HIDE DEF a, c
  <2>6. CASE Wide(file)
    <3>1. FoundAt(i) = fatMap[i] /\ fatMap[i] = a * 1
      BY <1>3, <2>4, <2>6 DEF FoundAt
    <3>2. FoundAt(i) = a
      BY <2>1, <3>1
    <3> QED
      BY <3>2 DEF a, c
  <2>7. CASE ~Wide(file)
    <3>1. FoundAt(i) = fatMap[i] \div Bytes /\ fatMap[i] = a * Bytes
      BY <1>3, <2>4, <2>7 DEF FoundAt
    <3>2. FoundAt(i) = a
      BY <2>1, <2>5, <3>1, TimesDiv
    <3> QED
      BY <3>2 DEF a, c
  <2> QED
    BY <2>6, <2>7
<1> QED
  BY <1>3, <1>5

(* If the delays are long enough, whatever was chosen in the menu finds    *)
(* its header and code, a speed its file can be read at, and the tables    *)
(* for its disk, and the ARM9 is never let go elsewhere than it should     *)
(* (romloader.cpp:50-69, arm7/source/main.cpp:153-204, akloader            *)
(* main.cpp:60-212, rpgmaps.cpp:44-250).                                   *)
THEOREM ProgramsStartRight == ASSUME Prompt PROVE Spec => []StartedRight
<1>1. SessionInit => StartInv
  BY InitHolds, AtFirst DEF StartInv
<1>2. StartInv /\ [Next]_all => StartInv'
  BY StartStep
<1>3. StartInv => StartedRight
  BY GameFinds, GameFindsFile DEF StartedRight
<1> QED
  BY <1>1, <1>2, <1>3, PTL DEF Spec
=============================================================================
