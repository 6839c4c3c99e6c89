------------------------------ MODULE ListView ------------------------------
(***************************************************************************)
(* The list of files on the lower screen: the list widget                  *)
(* (ui/listview.cpp), what the menu makes of it (mainlist.cpp, dsrom.cpp), *)
(* the animated icon over the selected row (zoomingicon.cpp) and the keys  *)
(* and the pen that reach it (input.cpp, mainwnd.cpp).  Each action is one *)
(* pass of the main loop: it samples the input, handles it and draws.      *)
(*                                                                         *)
(* Rows are numbered from 0 as in the code, row r is rows[r + 1].  A point *)
(* of the list is its distance in pixels from the upper edge, and whether  *)
(* it lies on the icons; colours and texts are left out.                   *)
(***************************************************************************)
EXTENDS Integers, SequencesExt

CONSTANTS
  NULL,
  Content,       \* folder |-> its entries in the order of the disk, if it can be opened
  Kind,          \* entry |-> "folder", "dot", "save", "other", "rom", "bad", "gone"
  GameOf,        \* ROM |-> the title, code and checksum in its header
  Less(_, _),    \* the order of the names
  Path,          \* entry that is a folder |-> that folder
  Parent,        \* folder |-> the one it is in
  OnFlash,       \* the folders of fat0
  Height,        \* the height of the list
  RowHeight,     \* view |-> the height of a row
  Points,        \* where the pen touches the list
  SaveTypes      \* the kinds of save memory that can be chosen

ASSUME ListAssumption ==
    /\ "top" \in DOMAIN Content /\ Height \in Nat
    /\ \A v \in {"icon", "list"} : RowHeight[v] \in Nat \ {0} /\ Height \div RowHeight[v] >= 2
    /\ Points \subseteq [y : 0 .. Height - 1, onIcon : BOOLEAN]

VARIABLES
  dir,           \* _currentDir
  rows,          \* _rows: the entries shown
  infos,         \* _romInfoList
  place,         \* _firstVisibleRowId and _selectedRowId
  view,          \* _viewMode
  fileListType,  \* gs().fileListType
  saveList,      \* the save manager's types, by title, code and checksum
  icon,          \* _activeIcon: NULL or where it is and what it shows
  moved,         \* _touchMovedAfterTouchDown
  sumOfMoveY,
  pen,           \* lastInputs.touchPt, NULL without touchHeld
  held,          \* the key that is held and repeats, NULL if none
  idle           \* getInputIdleMs() > 1000

rowVars == <<dir, rows, infos>>
penVars == <<moved, sumOfMoveY, pen>>
setVars == <<fileListType, saveList>>
listVars == <<rowVars, place, view, setVars, icon, penVars, held, idle>>

Banner == {"folder", "save", "other", "rom", "bad", "blank"}
AtRows == [first : Nat, sel : Nat]
Smaller(a, b) == IF a < b THEN a ELSE b
Larger(a, b) == IF a > b THEN a ELSE b

VisibleRows(v) == Height \div RowHeight[v]      \* setListViewSize
Roms == {e \in DOMAIN Kind : Kind[e] = "rom"}
Titles == {GameOf[e] : e \in Roms}
Selected == rows[place.sel + 1]

-----------------------------------------------------------------------------
(* The widget.  n is the number of rows, v the number of those that fit.   *)
Within(id, low, high) == Larger(low, Smaller(id, high))

(* Mutant of ScrollTo: only the last row limits how far the list scrolls.  *)
ScrollToLast(p, id, n, v) == IF n = 0 THEN p ELSE [p EXCEPT !.first = Within(id, 0, n - 1)]

ScrollTo(p, id, n, v) ==
    IF n = 0 THEN p
    ELSE [p EXCEPT !.first = Within(id, 0, Smaller(n - 1, n - v + 1))]

SelectRow(p, id, n, v) ==
    IF n = 0 THEN p
    ELSE LET row  == Within(id, 0, n - 1)
             last == Smaller(p.first + v - 1, n - 1)
         IN  [IF row < p.first \/ row > last THEN ScrollTo(p, row - (p.sel - p.first), n, v) ELSE p
                EXCEPT !.sel = row]

(* rowBelowPoint; in an empty list no row is beyond the last one. *)
RowBelow(y) ==
    LET row == place.first + y \div RowHeight[view]
    IN  IF Len(rows) > 0 /\ row > Len(rows) - 1 THEN NULL ELSE row

Select(id) == place' = SelectRow(place, id, Len(rows), VisibleRows(view))

-----------------------------------------------------------------------------
(* What a row shows.  A file that is gone when its header is read keeps    *)
(* the empty description it was given at first.                            *)
Info(e) ==
    IF Kind[e] = "rom" THEN [banner |-> "rom", isDSRom |-> TRUE, saveType |-> saveList[GameOf[e]]]
    ELSE [banner |-> CASE Kind[e] = "gone" -> "blank" [] OTHER -> Kind[e],
          isDSRom |-> FALSE, saveType |-> NULL]

(* extnameFilter: games, then saves, then all files.  Folders whose name   *)
(* begins with a dot are left out.                                         *)
IsShown(e, t) ==
    CASE Kind[e] \in {"rom", "bad", "gone", "folder"} -> TRUE
      [] Kind[e] = "dot"   -> FALSE
      [] Kind[e] = "save"  -> t > 0
      [] Kind[e] = "other" -> t > 1

(* itemSortComp: folders before files. *)
Before(a, b) ==
    IF Kind[a] = "folder" /\ Kind[b] = "folder" THEN Less(a, b)
    ELSE Kind[a] = "folder" \/ (Kind[b] # "folder" /\ Less(a, b))

(* The rows of a folder; the disks at the top are not sorted. *)
Found(d, t) == SelectSeq(Content[d], LAMBDA e : IsShown(e, t))
Listing == [d \in DOMAIN Content |-> [t \in 0 .. 2 |->
              IF d = "top" THEN Found(d, t) ELSE SortSeq(Found(d, t), Before)]]

(* Names are unique in a folder, and sorting keeps each entry that is shown *)
(* once.  At the top there are the disks; a folder is in its parent.       *)
ASSUME ListingAssumption ==
    /\ \A e \in DOMAIN Kind : Kind[e] \in {"folder", "dot", "save", "other", "rom", "bad", "gone"}
    /\ \A d \in DOMAIN Content : ToSet(Content[d]) \subseteq DOMAIN Kind
    /\ \A d \in DOMAIN Content, t \in 0 .. 2 :
         /\ Listing[d][t] \in Seq(ToSet(Content[d])) /\ IsInjective(Listing[d][t])
         /\ ToSet(Listing[d][t]) = {e \in ToSet(Content[d]) : IsShown(e, t)}
    /\ \A e \in ToSet(Content["top"]) : Kind[e] = "folder"
    /\ \A d \in DOMAIN Content : Parent[d] \in DOMAIN Content \ {"top"} =>
         \E e \in ToSet(Content[Parent[d]]) : Kind[e] = "folder" /\ Path[e] = d

Describe(d, t) == [i \in DOMAIN Listing[d][t] |-> Info(Listing[d][t][i])]

(* removeAllRows puts the selection and the scroll position back. *)
Top == [first |-> 0, sel |-> 0]
Fill(d, t) == rows' = Listing[d][t] /\ infos' = Describe(d, t) /\ dir' = d
Show(d) == Fill(d, fileListType) /\ place' = Top

(* enterDir; a folder that cannot be opened leaves the list as it is. *)
EnterDir(d) ==
    IF d \in DOMAIN Content THEN Show(d) ELSE UNCHANGED <<rowVars, place>>

(* backParentDir: the folder that was left is selected in its parent.      *)
(* The parent of "" is "", which cannot be opened.                         *)
(* Mutant: the folder is looked for among the rows that were shown before. *)
BackParentDirEarly ==
    IF dir = "top" \/ Parent[dir] \notin DOMAIN Content THEN UNCHANGED <<rowVars, place>>
    ELSE Show(Parent[dir])

BackParentDir ==
    IF dir = "top" \/ Parent[dir] \notin DOMAIN Content THEN UNCHANGED <<rowVars, place>>
    ELSE LET found == Listing[Parent[dir]][fileListType]
             here  == {i \in DOMAIN found : Kind[found[i]] = "folder" /\ Path[found[i]] = dir}
         IN  /\ Fill(Parent[dir], fileListType)
             /\ place' = IF here = {} \/ Parent[dir] = "top" THEN Top
                         ELSE SelectRow(Top, (CHOOSE i \in here : TRUE) - 1, Len(found), VisibleRows(view))

(* setViewMode keeps the selected row in sight.                            *)
SetViewMode(v) ==
    /\ view' = v
    /\ place' = ScrollTo(place, place.sel - VisibleRows(v) + 1, Len(rows), VisibleRows(v))

-----------------------------------------------------------------------------
(* drawIcons and updateActiveIcon at the end of the pass: the icon appears *)
(* over the selected row when there was no input for a second, and then    *)
(* stays as it is until there is one.                                      *)
IconFor(p, v, is) == [y |-> (p.sel - p.first) * RowHeight[v], banner |-> is[p.sel + 1].banner]

Draw ==
    icon' = IF idle' /\ view' = "icon" /\ infos' # <<>>
              THEN IF icon = NULL THEN IconFor(place', view', infos') ELSE icon
              ELSE NULL

ListInit ==
    /\ fileListType \in 0 .. 2
    /\ saveList = [g \in Titles |-> NULL]
    /\ rows = Listing["top"][fileListType] /\ infos = Describe("top", fileListType) /\ dir = "top"
    /\ place = Top /\ view = "icon"
    /\ icon = NULL /\ moved = FALSE /\ sumOfMoveY = 0 /\ pen = NULL /\ held = NULL /\ idle = FALSE

-----------------------------------------------------------------------------
(* The keys.  Those that move the selection repeat while they are held.    *)
Moves == {"UP", "DOWN", "LEFT", "RIGHT"}

MoveSelection(k) ==
    /\ Select(place.sel + CASE k = "UP" -> -1 [] k = "DOWN" -> 1
                            [] k = "LEFT" -> -VisibleRows(view) [] k = "RIGHT" -> VisibleRows(view))
    /\ UNCHANGED <<rowVars, view>>

SwitchDisk ==
    /\ EnterDir(IF dir \in OnFlash THEN "fat1" ELSE "fat0")
    /\ UNCHANGED view

ToggleView == SetViewMode(IF view = "icon" THEN "list" ELSE "icon") /\ UNCHANGED rowVars

(* launchSelected opens a folder; what it does with a game is in Session.  *)
OpenSelected ==
    /\ UNCHANGED view
    /\ IF rows # <<>> /\ Kind[Selected] = "folder" THEN EnterDir(Path[Selected])
       ELSE UNCHANGED <<rowVars, place>>

Press(k) ==
    /\ held = NULL /\ pen = NULL
    /\ CASE k \in Moves    -> MoveSelection(k)
         [] k = "SELECT"   -> ToggleView
         [] k = "X"        -> SwitchDisk
         [] k \in {"B", "L"} -> BackParentDir /\ UNCHANGED view
         [] k = "A"        -> OpenSelected
    /\ held' = IF k \in Moves THEN k ELSE NULL
    /\ idle' = FALSE /\ UNCHANGED <<setVars, penVars>> /\ Draw

(* A key that repeats gives the same input in every pass. *)
Repeat ==
    /\ held # NULL /\ MoveSelection(held)
    /\ idle' \in {idle, TRUE} /\ UNCHANGED <<setVars, penVars, held>> /\ Draw

Release ==
    /\ held # NULL /\ held' = NULL
    /\ idle' = FALSE /\ UNCHANGED <<rowVars, place, view, setVars, penVars>> /\ Draw

Rest ==
    /\ held = NULL /\ idle' = TRUE
    /\ UNCHANGED <<rowVars, place, view, setVars, penVars, held>> /\ Draw

-----------------------------------------------------------------------------
(* processTouchMessage.  A row is selected when it is touched, and opened  *)
(* when the pen is lifted from the icon of the selected row.               *)
TouchDown(p) ==
    /\ pen = NULL /\ held = NULL /\ pen' = p
    /\ moved' = FALSE
    /\ IF RowBelow(p.y) = NULL THEN UNCHANGED place ELSE Select(RowBelow(p.y))
    /\ idle' = FALSE /\ UNCHANGED <<rowVars, view, setVars, sumOfMoveY, held>> /\ Draw

(* A movement of more than four pixels selects the next row and scrolls.   *)
Drag(d) ==
    LET n == Len(rows)
        v == VisibleRows(view)
        p == SelectRow(place, place.sel + d, n, v)
    IN  place' = ScrollTo(p, p.first + d, n, v)

TouchMove(p) ==
    /\ pen # NULL /\ p # pen /\ pen' = p
    /\ LET sum == sumOfMoveY + (p.y - pen.y)
           d   == IF sum > 4 THEN 1 ELSE IF sum < -4 THEN -1 ELSE 0
       IN  /\ sumOfMoveY' = IF d = 0 THEN sum ELSE 0
           /\ moved' = (moved \/ d # 0)
           /\ IF d = 0 THEN UNCHANGED place ELSE Drag(d)
    /\ idle' = FALSE /\ UNCHANGED <<rowVars, view, setVars, held>> /\ Draw

TouchUp ==
    /\ pen # NULL /\ pen' = NULL
    /\ sumOfMoveY' = 0 /\ moved' = FALSE
    /\ IF ~moved /\ RowBelow(pen.y) = place.sel /\ pen.onIcon THEN OpenSelected
       ELSE UNCHANGED <<rowVars, place, view>>
    /\ idle' = FALSE /\ UNCHANGED <<setVars, held>> /\ Draw

-----------------------------------------------------------------------------
(* showFileInfo with another type of save memory chosen in its window: the *)
(* save manager is told, and setRomInfo keeps the row in step; a row with  *)
(* another copy of the game is left as it is.                              *)
ChooseSaveType(t) ==
    /\ rows # <<>> /\ infos[place.sel + 1].isDSRom /\ pen = NULL /\ held = NULL
    /\ saveList' = [saveList EXCEPT ![GameOf[Selected]] = t]
    /\ infos' = [infos EXCEPT ![place.sel + 1].saveType = t]
    /\ idle' = FALSE /\ UNCHANGED <<dir, rows, place, view, fileListType, penVars, held>> /\ Draw

(* The window of the settings covers the list, and has the input.  When it *)
(* is done and other files are to be listed than before, the list is read  *)
(* anew (setSystemParam).                                                  *)
ShowSettings(t) ==
    /\ pen = NULL /\ held = NULL /\ fileListType' = t
    /\ idle' = FALSE /\ UNCHANGED <<rowVars, place, view, saveList, penVars, held>> /\ Draw

ListAnew(before) ==
    /\ IF fileListType = before THEN UNCHANGED <<rowVars, place>> ELSE EnterDir(dir)
    /\ idle' = FALSE /\ UNCHANGED <<view, setVars, penVars, held>> /\ Draw

Keys == Moves \cup {"SELECT", "X", "B", "L", "A"}

ListNext ==
    \/ \E k \in Keys : Press(k)
    \/ Repeat \/ Release \/ Rest
    \/ \E p \in Points : TouchDown(p) \/ TouchMove(p)
    \/ TouchUp
    \/ \E t \in SaveTypes : ChooseSaveType(t)
=============================================================================
