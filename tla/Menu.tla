-------------------------------- MODULE Menu --------------------------------
(***************************************************************************)
(* The main window of the menu (mainwnd.cpp), its file list as far as it   *)
(* is browsed (mainlist.cpp), the start menu, the setting windows, the     *)
(* window with the facts about a file, and the input that reaches them     *)
(* (input.cpp, windowmanager.cpp).  The windows are those of Windows, the  *)
(* files and their copies those of FileCopy.                               *)
(*                                                                         *)
(* A sample of the input that has several keys pressed is the same as some *)
(* of them pressed one after the other.  What a spin box shows, the        *)
(* brightness and the scroll position are not modelled: a setting that has *)
(* changed is a choice made when its window is closed.                     *)
(***************************************************************************)
EXTENDS FileCopy

CONSTANTS
  Games,         \* the names that are DS programs
  Sorted,        \* the folders and the names, in the order they are listed
  Cartridge,     \* there may be a cartridge in slot 2
  SdCard,        \* the cases: there is a card, there is none
  Disks,         \* what may be on the disks at first
  Touched,       \* bound: the contents with which the pen is used
  Heads,         \* the points of the list where the icons are
  OkButton, CancelButton     \* form |-> its buttons; "save type" for "cancel" in one

ASSUME MenuAssumption ==
    /\ Games \subseteq Names /\ Sorted \in Seq(Names \cup (Folders \ Roots)) /\ ToSet(Sorted) = Names \cup (Folders \ Roots)
    /\ Cartridge \in BOOLEAN /\ SdCard \subseteq BOOLEAN
    /\ Disks \subseteq [Paths -> {Absent, IsDir} \cup {Whole(n) : n \in Names}]
    /\ \A f \in Forms : OkButton[f] \in ToSet(Children[f])
    /\ \A f \in Forms \ {"help"} : CancelButton[f] \in ToSet(Children[f])

VARIABLES
  dir,           \* _currentDir, "top" for ""
  rows,          \* the names in the list
  sel,           \* _selectedRowId + 1
  pen            \* lastInputs.touchPt, NULL without touchHeld

listVars == <<dir, rows, sel>>
vars == <<uiVars, copyVars, listVars, pen>>

MenuItems == {"copy", "cut", "delete", "paste", "patches", "setting", "info", "help"}
FileItems == {"copy", "cut", "delete", "paste"}
Keys == {"A", "B", "X", "Y", "START", "UP", "DOWN"}

(* Bounds.  The pen, and the forms that have nothing to do with files, are *)
(* used before anything is copied; files are not touched with the pen down,*)
(* a button held or a window in focus.                                     *)
Fresh  == disk \in Touched /\ clip = NoClip /\ ~stopCopying
Chosen == (IF Fresh THEN MenuItems ELSE FileItems) \ (IF pen = NULL /\ captured = {} /\ focused = NULL THEN {} ELSE FileItems)

TopRows == <<"fat0", "fat1", "slot2">>
Listing(d) ==
    LET upTo[i \in 0 .. Len(Sorted)] ==
          IF i = 0 THEN <<>>
          ELSE upTo[i - 1] \o IF disk[<<d, Sorted[i]>>] # Absent THEN <<Sorted[i]>> ELSE <<>>
    IN  upTo[Len(Sorted)]
Selected == <<dir, rows[sel]>>
Nothing == sel > Len(rows)
IsGame == ~Nothing /\ rows[sel] \in Games

Init ==
    /\ WindowsInit /\ CopyInit /\ disk \in Disks /\ card \in SdCard
    /\ dir = "top" /\ rows = TopRows /\ sel = 1 /\ pen = NULL

-----------------------------------------------------------------------------
(* enterDir.  Without a card in the slot a message box tells so, and only  *)
(* for the root of the card.  The entry of slot 2 starts the cartridge.    *)
EnterStep(d) == [do |-> "enterDir", dir |-> d]

Show(d, names) == dir' = d /\ rows' = names /\ sel' = 1

EnterSlot2 ==
    /\ At("enterDir") /\ Head(todo).dir = "slot2"
    /\ UNCHANGED <<copyVars, pen, rows, sel>> /\ dir' = "top"
    /\ \/ /\ Cartridge
          /\ Go(<<Step("loadRom")>>) /\ UNCHANGED windowVars
       \/ MessageBox(NULL, <<EnterStep("top"), Step("slot2")>> \o Tail(todo))

SelectSlot2 ==
    /\ At("slot2") /\ sel' = 3 /\ Go(<<>>)
    /\ UNCHANGED <<windowVars, copyVars, dir, rows, pen>>

EnterTop ==
    /\ At("enterDir") /\ Head(todo).dir = "top"
    /\ Show("top", TopRows) /\ Return(Success)
    /\ UNCHANGED <<windowVars, copyVars, pen>>

EnterFails ==
    /\ At("enterDir") /\ Head(todo).dir \notin {"top", "slot2"} /\ ~Reachable(Head(todo).dir)
    /\ UNCHANGED <<copyVars, listVars, pen>>
    /\ IF Head(todo).dir = "fat1"
         THEN MessageBox(NULL, <<Step("false")>> \o Tail(todo))
         ELSE Return(Failure) /\ UNCHANGED windowVars

EnterDir ==
    /\ At("enterDir") /\ Reachable(Head(todo).dir)
    /\ Show(Head(todo).dir, Listing(Head(todo).dir)) /\ Return(Success)
    /\ UNCHANGED <<windowVars, copyVars, pen>>

(* backParentDir; the parent of "" is "", which cannot be opened. *)
BackParentDir ==
    /\ At("back")
    /\ UNCHANGED <<windowVars, copyVars, listVars, pen>>
    /\ CASE dir = "top"   -> Go(<<EnterStep("")>>)
         [] dir \in Roots -> Go(<<EnterStep("top")>>)
         [] OTHER         -> Go(<<EnterStep(Parent[dir]), [do |-> "entered", from |-> dir]>>)

SelectEntered ==
    /\ At("entered") /\ Go(<<>>)
    /\ sel' = IF answer = Success /\ Contains(rows, Head(todo).from)
                THEN CHOOSE i \in DOMAIN rows : rows[i] = Head(todo).from ELSE sel
    /\ UNCHANGED <<windowVars, copyVars, dir, rows, pen>>

-----------------------------------------------------------------------------
(* launchSelected.  With an empty list it looks at the character before    *)
(* the first of an empty string; whatever is there, nothing comes of it.   *)
Launch ==
    /\ At("launch")
    /\ UNCHANGED <<copyVars, listVars, pen>>
    /\ IF Nothing \/ (rows[sel] \in Names /\ ~IsGame) THEN Return(Failure) /\ UNCHANGED windowVars
       ELSE IF ~IsGame THEN Go(<<EnterStep(rows[sel])>>) /\ UNCHANGED windowVars
       ELSE \/ Go(<<Step("loadRom")>>) /\ UNCHANGED windowVars
            \/ /\ Volume(dir) = "fat1"         \* a slow card, shown by sdidCheckSDSpeed
               /\ MessageBox(NULL, <<Step("false")>> \o Tail(todo))

(* loadRom does not return.  The program that is started comes back to the *)
(* menu by a reset, which starts the card that is in then.                 *)
LoadRom ==
    /\ At("loadRom")
    /\ windows' = <<"progress", "main", "startMenu">> /\ visible' = Family("main")
    /\ alive' = Family("main") \cup {"startMenu", "progress"}
    /\ popup' = NULL /\ focused' = NULL /\ below' = NULL /\ captured' = {}
    /\ todo' = <<>> /\ answer' = None
    /\ clip' = NoClip /\ job' = NoJob /\ asked' = FALSE /\ kept' = Absent /\ missed' = FALSE
    /\ Show("top", TopRows) /\ pen' = NULL
    /\ card' \in (IF CardPulled THEN BOOLEAN ELSE {card})
    /\ UNCHANGED <<disk, copyingFile, stopCopying>>

(* showFileInfo, and showSaveType of the window it opens. *)
ShowFileInfo ==
    /\ At("info")
    /\ UNCHANGED <<copyVars, listVars, pen>>
    /\ IF Nothing THEN Return(Failure) /\ UNCHANGED windowVars
       ELSE Open("rominfo", "main", Deleted("rominfo") \o Tail(todo))

ShowSaveType ==
    /\ At("saveType")
    /\ UNCHANGED <<copyVars, listVars, pen>>
    /\ IF ~IsGame THEN Go(<<>>) /\ UNCHANGED windowVars
       ELSE Open("savetype", "rominfo", Deleted("savetype") \o Tail(todo))

-----------------------------------------------------------------------------
(* startMenuItemClicked. *)
ItemStep(i) == [do |-> "item", item |-> i]
AtItem(i) == At("item") /\ Head(todo).item = i

(* The answer of stat is not looked at: for a file that is not there the   *)
(* mode is what the stack holds.                                           *)
CopyOrCut(mode) ==
    /\ AtItem(mode)
    /\ UNCHANGED <<disk, card, copyingFile, stopCopying, job, asked, kept, missed, listVars, pen>>
    /\ IF Nothing THEN Return(Failure) /\ UNCHANGED <<windowVars, clip>>
       ELSE \/ /\ There(Selected) => disk[Selected] = IsDir
               /\ MessageBox("main", Tail(todo)) /\ UNCHANGED clip
            \/ /\ There(Selected) => disk[Selected] # IsDir
               /\ clip' = [path |-> IF dir = "top" THEN NoPath ELSE Selected, mode |-> mode]
               /\ Return(Success) /\ UNCHANGED windowVars

Paste ==
    /\ AtItem("paste") /\ Go(<<Step("paste"), Step("refresh")>>)
    /\ UNCHANGED <<windowVars, copyVars, listVars, pen>>

DeleteItem ==
    /\ AtItem("delete")
    /\ UNCHANGED <<windowVars, disk, card, clip, copyingFile, stopCopying, asked, kept, missed, listVars, pen>>
    /\ IF Nothing THEN Return(Failure) /\ UNCHANGED job
       ELSE job' = [NoJob EXCEPT !.src = Selected] /\ Go(<<Step("deleteFile"), Step("refresh")>>)

Refresh ==
    /\ At("refresh")
    /\ job' = NoJob
    /\ Go(IF answer = Success THEN <<EnterStep(IF dir = "top" THEN "" ELSE dir)>> ELSE <<>>)
    /\ UNCHANGED <<windowVars, disk, card, clip, copyingFile, stopCopying, asked, kept, missed, listVars, pen>>

OpenForm(i, f, then) ==
    /\ AtItem(i) /\ Open(f, "main", then \o Deleted(f) \o Tail(todo))
    /\ UNCHANGED <<copyVars, listVars, pen>>

ShowHelp    == OpenForm("help", "help", <<>>)
SetPatches  == OpenForm("patches", "patches", <<>>)
InfoItem    == AtItem("info") /\ Go(<<Step("info")>>) /\ UNCHANGED <<windowVars, copyVars, listVars, pen>>

(* setSystemParam: its window lives until the function returns. *)
SetSystemParam ==
    OpenForm("setting", "setting", <<Step("uiStyle"), Step("language"), Step("listType")>>)

(* The questions that follow: a new style or language needs a restart. *)
Changed(what) ==
    /\ At(what)
    /\ UNCHANGED <<copyVars, listVars, pen>>
    /\ \/ MessageBox("main", <<Step("restart")>> \o Tail(todo))
       \/ Go(<<>>) /\ UNCHANGED windowVars

SettingsDone ==
    /\ At("uiStyle") /\ answer = CANCEL
    /\ todo' = SubSeq(todo, 4, Len(todo)) /\ Answer(answer)
    /\ UNCHANGED <<windowVars, copyVars, listVars, pen>>

UiStyle  == answer = OK /\ Changed("uiStyle")
Language == Changed("language")

Restart ==
    /\ At("restart") /\ Go(IF answer = OK THEN <<Step("loadRom")>> ELSE <<>>)
    /\ UNCHANGED <<windowVars, copyVars, listVars, pen>>

ListType ==
    /\ At("listType")
    /\ \E changed \in BOOLEAN :
         Go(IF changed THEN <<EnterStep(IF dir = "top" THEN "" ELSE dir)>> ELSE <<>>)
    /\ UNCHANGED <<windowVars, copyVars, listVars, pen>>

-----------------------------------------------------------------------------
(* Buttons.  Keys do what the buttons do; a handler is the steps that      *)
(* follow, and comes back to the loop that called it.                      *)
Handle(steps) == todo' = steps \o todo /\ Answer(answer)
ClickStep(c) == [do |-> "click", on |-> c]
Clicked(c) == At("click") /\ Head(todo).on = c

(* cForm::onOK, cMessageBox::onCANCEL and so on, in the loop of form f,    *)
(* which ends.                                                             *)
EndForm(f, button, x) ==
    /\ Clicked(button) /\ todo[2].form = f
    /\ CloseModal(Tail(todo), x)
    /\ UNCHANGED <<copyVars, listVars, pen>>

OnOK     == \E f \in Forms \ SettingWnds : EndForm(f, OkButton[f], OK)
OnCancel == \E f \in Forms \ {"help", "rominfo"} : EndForm(f, CancelButton[f], CANCEL)

(* cSettingWnd::onOK asks first. *)
OnSettingOK ==
    /\ \E f \in SettingWnds :
         /\ Clicked(OkButton[f])
         /\ MessageBox(f, <<Step("confirm")>> \o Tail(todo))
    /\ UNCHANGED <<copyVars, listVars, pen>>

Confirm ==
    /\ At("confirm")
    /\ IF answer = OK THEN CloseModal(Tail(todo), OK) ELSE Go(<<>>) /\ UNCHANGED windowVars
    /\ UNCHANGED <<copyVars, listVars, pen>>

OnSaveType ==
    /\ Clicked(CancelButton["rominfo"]) /\ Go(<<Step("saveType")>>)
    /\ UNCHANGED <<windowVars, copyVars, listVars, pen>>

(* startButtonClicked. *)
StartButton ==
    /\ Clicked("start")
    /\ visible' = visible \cup {"startMenu"} /\ popup' = "startMenu" /\ windows' = Raised("startMenu")
    /\ Go(<<>>)
    /\ UNCHANGED <<focused, below, captured, alive, copyVars, listVars, pen>>

(* The start menu is hidden before one of its items is clicked. *)
ClickItem ==
    /\ At("clickItem") /\ HideMenu
    /\ \E i \in Chosen : Go(<<ItemStep(i)>>)
    /\ UNCHANGED <<windows, focused, below, captured, alive, copyVars, listVars, pen>>

LeaveMenu ==
    /\ At("leave") /\ HideMenu /\ Go(<<>>)
    /\ UNCHANGED <<windows, focused, below, captured, alive, copyVars, listVars, pen>>

-----------------------------------------------------------------------------
(* Keys.  L is the same as B; R and SELECT change nothing that is modelled. *)
KeyOfForm(f, k) ==
    CASE k = "A" -> <<ClickStep(OkButton[f])>>
      [] k = "B" /\ f = "rominfo" -> <<ClickStep(OkButton[f])>>
      [] k = "B" /\ f \in SettingWnds \cup {"msgbox"} -> <<ClickStep(CancelButton[f])>>
      [] k = "Y" /\ f = "rominfo" -> <<Step("saveType")>>
      [] OTHER -> <<>>

KeyOfMenu(k) ==
    CASE k = "A" /\ Chosen # {} -> <<Step("clickItem")>> [] k \in {"B", "START"} -> <<Step("leave")>> [] OTHER -> <<>>

KeyOfMain(k) ==
    CASE k = "A" -> <<Step("launch")>>
      [] k = "B" -> <<Step("back")>>
      [] k = "Y" /\ Fresh -> <<Step("info")>>
      [] k = "X" -> <<EnterStep(IF dir # "top" /\ Volume(dir) = "fat0" THEN "fat1" ELSE "fat0")>>
      [] k = "START" -> <<ClickStep("start")>>
      [] OTHER -> <<>>

KeyOf(w, k) ==
    CASE w \in Forms -> KeyOfForm(w, k) [] w = "startMenu" -> KeyOfMenu(k) [] w = "main" -> KeyOfMain(k)
      [] OTHER -> <<>>

(* The first window in the list that is visible takes the key. *)
Key ==
    /\ Waiting
    /\ LET shown == Foremost(Receivers, visible) IN
         \E k \in Keys : KeyOf(shown, k) # <<>> /\ Handle(KeyOf(shown, k))
    /\ UNCHANGED <<windowVars, copyVars, listVars, pen>>

(* Up and down in a setting window: from the item that has the focus, or   *)
(* else the first.                                                         *)
MoveFocus ==
    /\ Waiting /\ popup \in SettingWnds
    /\ LET items == Items[popup]
           n     == Len(items)
           from  == IF Contains(items, focused) THEN CHOOSE i \in 1 .. n : items[i] = focused ELSE 1
       IN  \E d \in {1, n - 1} : focused' = items[((from - 1 + d) % n) + 1]
    /\ UNCHANGED <<windows, visible, popup, below, captured, alive, flow, copyVars, listVars, pen>>

(* The arrow keys in the file list: selectRow. *)
SelectRow(r) == r \in DOMAIN rows /\ sel' = r
Arrow ==
    /\ Waiting /\ Contains(Receivers, "main")
    /\ \E r \in DOMAIN rows \ {sel} : SelectRow(r)
    /\ UNCHANGED <<uiVars, copyVars, dir, rows, pen>>

-----------------------------------------------------------------------------
(* The child of a form that a touch reaches; a child gets it directly.     *)
Hit(w, p) == IF w \in TopLevel THEN ChildAt(w, p) ELSE w

SpinBoxes == UNION {ToSet(Items[f]) : f \in SettingWnds}
Buttons   == Window \ (TopLevel \cup SpinBoxes \cup {"list"})

(* onTouchDown.  The button that leads up calls its handler as soon as it  *)
(* is pressed.                                                             *)
TouchDown(p) ==
    /\ Waiting /\ Fresh /\ pen = NULL /\ pen' = p /\ below' = BelowPen(p)
    /\ LET target == TouchTarget(below')
           h    == IF target = NULL THEN NULL ELSE Hit(target, p)
           last == <<[do |-> "focus", at |-> p]>>
       IN  /\ captured' = IF h \in Buttons THEN captured \cup {h} ELSE captured
           /\ focused' = IF h \in SpinBoxes THEN h ELSE focused
           /\ IF h = "list" /\ rows # <<>> THEN \E r \in DOMAIN rows : SelectRow(r) ELSE UNCHANGED sel
           /\ Handle(IF h = "up" THEN <<Step("back")>> \o last ELSE last)
    /\ UNCHANGED <<windows, visible, popup, alive, copyVars, dir, rows>>

(* onTouchMove; the list follows the pen while it has the focus. *)
TouchMove(p) ==
    /\ Waiting /\ Fresh /\ pen \notin {NULL, p} /\ pen' = p /\ below' = BelowPen(p)
    /\ IF TouchTarget(below') = "list" /\ focused = "list" /\ rows # <<>>
         THEN \E r \in DOMAIN rows : SelectRow(r) ELSE UNCHANGED sel
    /\ UNCHANGED <<windows, visible, popup, focused, captured, alive, flow, copyVars, dir, rows>>

(* The buttons of the window w that are pressed; the list of the main      *)
(* window takes the message before its buttons.                            *)
Down(w) ==
    captured \cap (IF w \in {NULL, "main"} THEN {} ELSE IF w \in TopLevel THEN ToSet(Children[w]) ELSE {w})

Released(w) == IF w \in TopLevel THEN Foremost(Children[w], captured) ELSE w

(* onTouchUp, where the pen was seen last.  What is below the pen is       *)
(* forgotten unless a touch is still being handled.                        *)
TouchUp ==
    /\ Waiting /\ pen # NULL /\ pen' = NULL
    /\ LET b == BelowPen(pen)
           w == UpTarget(b)
           c == Released(w)
       IN  /\ below' = IF \E i \in DOMAIN todo : todo[i].do = "focus" THEN b ELSE NULL
           /\ captured' = captured \ Down(w)
           /\ IF w = "startMenu"
                     THEN /\ pen \in Rect[w] => Chosen # {}
                          /\ Handle(<<Step(IF pen \in Rect[w] THEN "clickItem" ELSE "leave")>>)
              ELSE IF Down(w) # {} /\ pen \in Rect[c] /\ c # "up" THEN Handle(<<ClickStep(c)>>)
              ELSE IF w = "list" /\ pen \in Heads
                     THEN \E selected \in BOOLEAN : Handle(IF selected THEN <<Step("launch")>> ELSE <<>>)
              ELSE UNCHANGED flow
    /\ UNCHANGED <<windows, visible, popup, focused, alive, copyVars, listVars>>

-----------------------------------------------------------------------------
Input == Key \/ MoveFocus \/ Arrow \/ TouchUp \/ \E p \in Points : TouchDown(p) \/ TouchMove(p)

MainStep ==
    \/ EnterSlot2 \/ SelectSlot2 \/ EnterTop \/ EnterFails \/ EnterDir \/ BackParentDir \/ SelectEntered
    \/ Launch \/ LoadRom \/ ShowFileInfo \/ ShowSaveType
    \/ CopyOrCut("copy") \/ CopyOrCut("cut") \/ Paste \/ DeleteItem \/ Refresh
    \/ ShowHelp \/ SetPatches \/ InfoItem \/ SetSystemParam \/ SettingsDone \/ UiStyle \/ Language
    \/ Restart \/ ListType
    \/ OnOK \/ OnCancel \/ OnSettingOK \/ Confirm \/ OnSaveType \/ StartButton \/ ClickItem \/ LeaveMenu

WindowStep == Delete \/ FocusBelow
FileStep == CopyStep \/ \E trim \in BOOLEAN : CopyOrMove(dir, trim)

Handlers ==
    \/ MainStep
    \/ WindowStep /\ UNCHANGED <<copyVars, listVars, pen>>
    \/ FileStep /\ UNCHANGED <<listVars, pen>>
Interrupt == (VBlank \/ Pull) /\ UNCHANGED <<listVars, pen>>

Next == Input \/ Handlers \/ Interrupt

(* The program goes on as long as a handler has something to do. *)
Spec == Init /\ [][Next]_vars /\ WF_vars(Handlers)

-----------------------------------------------------------------------------
(* The menu's variables have their types (window.h, mainwnd.h, files.cpp). *)
TypeOK ==
    /\ WindowsTypeOK /\ CopyTypeOK
    /\ dir \in Folders \cup {"top"} /\ sel \in 1 .. Len(rows) + 1 /\ pen \in Points \cup {NULL}

(* The loop that is running gets the input: the innermost form is the      *)
(* pop-up window, however the forms were opened and closed, and without a  *)
(* form there is none but the start menu that is shown; the progress       *)
(* window does not stay (form.cpp:218, progresswnd.cpp:102).               *)
InputReachesTop ==
    /\ InModal => popup = Head(todo).form /\ popup \in visible
    /\ Idle => /\ popup = NULL \/ (popup = "startMenu" /\ popup \in visible)
               /\ "progress" \notin visible

(* The forms in the list of the window manager are those whose loops are   *)
(* running, each once, the inner ones in front of the outer ones           *)
(* (windowmanager.cpp:65 and :89).                                         *)
FormsAreRunning ==
    LET loops == {i \in DOMAIN todo : todo[i].do = "modal"}
    IN  /\ IsInjective(windows)
        /\ ToSet(windows) \cap Forms = {todo[i].form : i \in loops}
        /\ \A i, j \in loops : i < j =>
              \E k, l \in DOMAIN windows : k < l /\ windows[k] = todo[i].form /\ windows[l] = todo[j].form

(* No deleted window is listed, pops up, or has the focus, which the next  *)
(* touch would be sent to; nor is it what the end of a touch will give the *)
(* focus to (window.cpp:55, windowmanager.cpp:325).                        *)
NoStaleWindow ==
    /\ (ToSet(windows) \cup {popup, focused}) \ {NULL} \subseteq alive
    /\ At("focus") => below \in alive \cup {NULL}

(* What gets the next key or touch is a window that exists, is listed, and *)
(* whose loop is running (form.cpp:218, windowmanager.cpp:65, 89, 325).    *)
WindowsSound == TypeOK /\ InputReachesTop /\ FormsAreRunning /\ NoStaleWindow

(* A copy stops only if B was pressed while it went on: not by a request   *)
(* that was made to an earlier copy (files.cpp:190, irqs.cpp:98).          *)
StopIsAsked == copyingFile /\ stopCopying => asked

(* The interrupt handler looks at the keys only while no loop of the menu  *)
(* does: scanKeys is not called from both (files.cpp:197, irqs.cpp:98).    *)
OneReader == Waiting => ~copyingFile

(* The loop that copies and the interrupt handler share the keys and the   *)
(* request to stop without a lock (files.cpp:190-214, irqs.cpp:98).        *)
CopyInterrupt == StopIsAsked /\ OneReader

(* A file that is moved is whole in one place or the other at every step,  *)
(* though the card with either place is pulled out at any step, the volume *)
(* is full or the user stops the copy.  It is lost only by an error that   *)
(* copyFile does not look at: a read that came short although the disk was *)
(* there, or an fclose of what a card that is out should hold              *)
(* (files.cpp:214-235, 264).                                               *)
MoveKeepsFile == kept # Absent /\ ~missed => \E p \in Paths : disk[p] = kept

(* The same without the exception.  The code does not keep it: the result  *)
(* of freadex only says how much is written, that of fclose nothing.       *)
MovesLoseNothing == kept # Absent => \E p \in Paths : disk[p] = kept

(* Every handler returns to the loop that waits for input.                 *)
Responds == ~Waiting ~> Waiting
=============================================================================
