------------------------------ MODULE Windows ------------------------------
(***************************************************************************)
(* The windows of the menu (akui: windowmanager.cpp, window.cpp, form.cpp, *)
(* msgbox.cpp, progresswnd.cpp, popmenu.cpp).  The window manager has a    *)
(* list of top-level windows, the first in front, one pop-up window that   *)
(* gets the input before all others, one window with the focus, and the    *)
(* window below the pen.                                                   *)
(*                                                                         *)
(* A modal form runs a loop of its own inside the handler that opened it.  *)
(* The handlers that have not returned are the sequence todo: each element *)
(* is a step still to be done, the first is the next; the step "modal" is  *)
(* the loop of a form and waits for input.                                 *)
(***************************************************************************)
EXTENDS Naturals, Sequences, SequencesExt

CONSTANTS
  NULL,
  Points,        \* of the screen, as far as the windows tell them apart
  Rect,          \* window |-> the points it surrounds
  Children,      \* form |-> its child windows, in order
  Items          \* cSettingWnd |-> its spin boxes

SettingWnds == {"setting", "patches", "savetype"}
Forms    == SettingWnds \cup {"msgbox", "rominfo", "help"}      \* modal
TopLevel == Forms \cup {"main", "startMenu", "progress"}
Family(w) == {w} \cup ToSet(Children[w])
Window  == UNION {Family(w) : w \in TopLevel}

ASSUME WindowsAssumption ==
    /\ NULL \notin Window
    /\ Children \in [TopLevel -> Seq(Window \ TopLevel)]
    /\ \A v, w \in TopLevel : v # w => ToSet(Children[v]) \cap ToSet(Children[w]) = {}
    /\ {"list", "start", "up"} \subseteq ToSet(Children["main"])
    /\ Rect \in [Window -> SUBSET Points]
    /\ DOMAIN Items = SettingWnds
    /\ \A f \in SettingWnds : Items[f] # <<>> /\ Items[f] \in Seq(ToSet(Children[f]))

VARIABLES
  windows,     \* _windows: the window with the largest zVal is the first
  visible,     \* windows with _isVisible
  popup,       \* _popUpWindow
  focused,     \* _focusedWindow
  below,       \* _windowBelowPen
  captured,    \* the buttons that are pressed
  alive,       \* windows that have been made and not deleted
  todo,        \* the steps the running handlers have left
  answer       \* what the last call returned

windowVars == <<windows, visible, popup, focused, below, captured, alive>>
flow       == <<todo, answer>>
uiVars     == <<windowVars, flow>>

OK == "ok"         \* ID_OK = ID_YES
CANCEL == "cancel" \* ID_CANCEL = ID_NO
Success == "true"
Failure == "false"
None == "none"

-----------------------------------------------------------------------------
(* Steps.  Return(x): the first step is done and returns x; Call(s): its   *)
(* place is taken by the steps s.                                          *)
Step(name) == [do |-> name]
Call(s)   == todo' = s \o Tail(todo)
Answer(x) == answer' = IF todo' = <<>> THEN None ELSE x         \* nobody asks any more
Return(x) == Call(<<>>) /\ Answer(x)
Go(s)     == Call(s) /\ Answer(answer)
At(name)  == todo # <<>> /\ Head(todo).do = name

InModal == At("modal")
Idle    == todo = <<>>
Waiting == Idle \/ InModal          \* updateInput, processInput

-----------------------------------------------------------------------------
(* cWindowManager::removeWindow: forms do not overwrite                    *)
(* doesHierarchyContain, so that a child keeps the focus.                  *)
Without(w) == RemoveFirst(windows, w)

(* setActiveWindow: the window comes to the front. *)
Raised(w) == IF Contains(windows, w) THEN <<w>> \o Without(w) ELSE windows

(* The first of the sequence s that is in S, or NULL. *)
Foremost(s, S) ==
    LET hit == {i \in DOMAIN s : s[i] \in S} IN IF hit = {} THEN NULL ELSE s[Min(hit)]

ChildAt(w, p) == Foremost(Children[w], {c \in visible : p \in Rect[c]})

(* cWindow::windowBelow and cForm::windowBelow. *)
WindowBelow(w, p) ==
    IF w \notin visible \/ p \notin Rect[w] THEN NULL
    ELSE IF ChildAt(w, p) # NULL THEN ChildAt(w, p) ELSE w

(* checkForWindowBelowPen. *)
BelowPen(p) ==
    LET hit == Foremost(windows, {w \in TopLevel : WindowBelow(w, p) # NULL})
    IN  IF popup # NULL /\ WindowBelow(popup, p) = popup THEN popup
        ELSE IF hit = NULL THEN NULL ELSE WindowBelow(hit, p)

(* process(): the windows a message is offered to, until one handles it. *)
Receivers == IF popup # NULL /\ popup \in visible THEN <<popup>> ELSE windows

(* processTouchMessage and onTouchUp: the window a touch goes to; NULL     *)
(* when it is offered to all, which do not handle it then.                 *)
TouchTarget(b) == IF popup # NULL THEN popup ELSE b
UpTarget(b) ==
    IF popup = NULL /\ focused # NULL /\ b # focused THEN focused ELSE TouchTarget(b)

-----------------------------------------------------------------------------
(* cForm::doModal, up to its loop.  A form is visible, with its children,  *)
(* from its construction.                                                  *)
OnShow(f) == IF f \in SettingWnds THEN Items[f][1] ELSE focused

Modal(f, parent) == [do |-> "modal", form |-> f, parent |-> parent, back |-> popup = parent, was |-> popup]

(* Form f is made and its loop begins; the steps s follow. *)
Open(f, parent, s) ==
    /\ alive' = alive \cup Family(f)
    /\ visible' = visible \cup Family(f)
    /\ todo' = <<Modal(f, parent)>> \o s
    /\ windows' = <<f>> \o windows
    /\ focused' = OnShow(f)
    /\ popup' = f /\ answer' = None
    /\ UNCHANGED <<below, captured>>

Deleted(f) == <<[do |-> "delete", form |-> f]>>

(* messageBox(). *)
MessageBox(parent, s) == Open("msgbox", parent, Deleted("msgbox") \o s)

(* Mutant of Destroy: the focus is not given up. *)
DestroyFocused(gone, focus) ==
    /\ alive' = alive \ gone /\ visible' = visible \ gone /\ captured' = captured \ gone
    /\ focused' = focus

(* The destructors of a form and its children: cWindow::~cWindow gives up  *)
(* the focus.                                                              *)
Destroy(gone, focus) ==
    /\ alive' = alive \ gone /\ visible' = visible \ gone /\ captured' = captured \ gone
    /\ focused' = IF focus \in gone THEN NULL ELSE focus

PopupAfter(frame) == IF frame.back THEN frame.parent ELSE NULL

(* The end of doModal, when the handlers that are to go on are s: the loop *)
(* first, and most often the destructor of its form next.                  *)
CloseModal(s, x) ==
    LET form == s[1].form
        dies == Len(s) > 1 /\ s[2] = [do |-> "delete", form |-> form]
    IN  /\ windows' = Without(form)
        /\ popup' = PopupAfter(s[1])
        /\ Destroy(IF dies THEN Family(form) ELSE {}, IF focused = form THEN NULL ELSE focused)
        /\ todo' = SubSeq(s, IF dies THEN 3 ELSE 2, Len(s)) /\ Answer(x)
        /\ UNCHANGED below

Delete ==
    /\ At("delete") /\ Destroy(Family(Head(todo).form), focused) /\ Go(<<>>)
    /\ UNCHANGED <<windows, popup, below>>

-----------------------------------------------------------------------------
(* The progress window: cProgressWnd::onShow and onHide. *)
ShowProgress == visible' = visible \cup {"progress"} /\ popup' = "progress"
HideProgress == visible' = visible \ {"progress"} /\ popup' = NULL

(* cStartMenu::onHide. *)
HideMenu == visible' = visible \ {"startMenu"} /\ popup' = NULL

(* The end of onTouchDown: updateFocusIfNecessary, with the window that    *)
(* was found below the pen before the touch was processed, or by a modal   *)
(* loop since.                                                             *)
FocusBelow ==
    /\ At("focus")
    /\ focused' = IF popup = NULL \/ Head(todo).at \notin Rect[popup] THEN below ELSE focused
    /\ Go(<<>>)
    /\ UNCHANGED <<windows, visible, popup, below, captured, alive>>

WindowsInit ==
    /\ windows = <<"progress", "main", "startMenu">>
    /\ visible = Family("main") /\ alive = Family("main") \cup {"startMenu", "progress"}
    /\ popup = NULL /\ focused = NULL /\ below = NULL /\ captured = {}
    /\ todo = <<>> /\ answer = None

WindowsTypeOK ==
    /\ windows \in Seq(TopLevel) /\ visible \cup captured \cup alive \subseteq Window
    /\ {popup, focused, below} \subseteq Window \cup {NULL}
=============================================================================
