----------------------------- MODULE MenuProofs -----------------------------
(***************************************************************************)
(* Proofs about the menu, for all windows, places on the screen, files,    *)
(* folders and volumes.                                                    *)
(*                                                                         *)
(* The handlers that have not returned are the steps of todo.  WindowsInv  *)
(* says which step may stand on which (Stack), and that the windows are    *)
(* what these steps make of them: the pop-up window is that of the         *)
(* innermost loop (PopupInv), the listed forms are those of the loops in   *)
(* the same order (ListInv), and what is shown, pressed or listed has been *)
(* made and not deleted (AliveInv).  A step that is done, or whose place   *)
(* is taken by others, keeps all of it if the new steps fit on what they   *)
(* stand on.                                                               *)
(*                                                                         *)
(* RowsInv, FilesInv and FlagsInv are about the list, the files with the   *)
(* copy that goes on, and the flags of the interrupt handler.  Most steps  *)
(* leave the files alone and bring no step of a copy along (Quiet); those  *)
(* of a copy, a renaming or a deletion are taken one by one.  KeptInv says *)
(* where the file that is being moved lies after each step; it needs that  *)
(* all that is read comes.                                                 *)
(***************************************************************************)
EXTENDS Menu, SequenceTheorems, WellFoundedInduction, TLAPS

IsSeq(s) == s \in Seq(ToSet(s))

(* The steps of the handlers, and what may come after each of them.        *)
Kinds(s) == {s[i].do : i \in DOMAIN s}
Has(s, names) == Kinds(s) \cap names # {}
FormsIn(s, name) == {s[i].form : i \in {j \in DOMAIN s : s[j].do = name}}
Running(s) == FormsIn(s, "modal")
Pending(s) == FormsIn(s, "delete")

(* The window that gets the input while the steps s are left: that of the  *)
(* innermost loop, or the progress window of a copy.                       *)
ShowingProgress == {"chunk", "write", "stop"}
Takes(a) == a.do \in ShowingProgress \cup {"modal"}
Target(a) == IF a.do = "modal" THEN a.form ELSE "progress"
Takers(s) == {i \in DOMAIN s : Takes(s[i])}
Under(s) == IF Takers(s) = {} THEN NULL ELSE Target(s[Min(Takers(s))])

ListSteps   == {"slot2", "enterDir", "back", "entered", "launch", "loadRom", "info", "restart", "language",
                "uiStyle", "listType", "false"}
LastSteps   == {"clickItem", "leave", "item", "refresh"}
CopySteps   == {"copyFile", "overwrite", "open", "full"} \cup ShowingProgress
RenameSteps == {"renameFile", "replace", "rename", "moved"}
BeforeRefresh == {"paste", "pasted", "deleteFile", "unlink"}
JobSteps == (CopySteps \ {"full"}) \cup RenameSteps

ToRefresh == <<Step("refresh")>>
ToPasted  == <<Step("pasted"), Step("refresh")>>
ToMoved   == <<Step("moved"), Step("pasted"), Step("refresh")>>

(* The forms whose loops may be running when form f opens. *)
Openers(f) == IF f = "msgbox" THEN Forms \ {"msgbox", "help"} ELSE IF f = "savetype" THEN {"rominfo"} ELSE {}

InLoop(s, forms) == s # <<>> /\ Head(s).do = "modal" /\ Head(s).form \in forms

Fits(a, rest) ==
    /\ a.do \in ListSteps => Under(rest) = NULL
    /\ a.do \in LastSteps => rest = <<>>
    /\ a.do \in BeforeRefresh => rest = ToRefresh
    /\ a.do \in RenameSteps => rest = ToPasted
    /\ a.do \in CopySteps => rest \in {ToPasted, ToMoved}
    /\ a.do \in {"modal", "delete"} => a.form \in Forms /\ Running(rest) \subseteq Openers(a.form)
    /\ a.do = "modal" =>
         /\ PopupAfter(a) = Under(rest)
         /\ rest # <<>>
         /\ Head(rest) = [do |-> "delete", form |-> a.form] \/ (a.form = "setting" /\ Head(rest).do = "uiStyle")
    /\ a.do = "confirm" => InLoop(rest, SettingWnds)
    /\ a.do = "saveType" => InLoop(rest, {"rominfo"})
    /\ a.do = "click" =>
         \/ rest = <<>> /\ a.on \in ToSet(Children["main"])
         \/ \E f \in Forms : InLoop(rest, {f}) /\ a.on \in ToSet(Children[f])
    /\ a.do = "focus" => a.at \in Points /\ (rest = <<>> \/ InLoop(rest, Forms))
    /\ a.do = "uiStyle" =>
         /\ rest # <<>> /\ Head(rest) = Step("language")
         /\ Tail(rest) # <<>> /\ Head(Tail(rest)) = Step("listType")
    /\ rest # <<>> /\ Head(rest).do = "slot2" => a = EnterStep("top")
    /\ rest # <<>> /\ Head(rest).do = "moved" => a.do \in CopySteps \cup {"false"}
    /\ a.do \in ListSteps \cup LastSteps \cup BeforeRefresh \cup RenameSteps \cup CopySteps
         \cup {"modal", "delete", "confirm", "saveType", "click", "focus"}

Stack(s) == \A i \in DOMAIN s : Fits(s[i], SubSeq(s, i + 1, Len(s)))

(* The loops of s are those of windows in the list w, the inner in front.  *)
InFront(w, f, g) == \E k, l \in DOMAIN w : k < l /\ w[k] = f /\ w[l] = g
Ordered(s, w) ==
    \A i, j \in DOMAIN s : s[i].do = "modal" /\ s[j].do = "modal" /\ i < j => InFront(w, s[i].form, s[j].form)

-----------------------------------------------------------------------------
StackInv == IsSeq(todo) /\ Stack(todo)

MenuStays == popup = "startMenu" /\ "startMenu" \in visible /\ Under(todo) = NULL
             /\ (todo = <<>> \/ Head(todo).do \in {"focus", "clickItem", "leave"})
PopupInv == popup = Under(todo) \/ MenuStays

Lasting == Family("main") \cup {"startMenu", "progress"}
Opened(s) == UNION {Family(f) : f \in Pending(s)}

AliveInv ==
    /\ alive \subseteq Lasting \cup Opened(todo) /\ Lasting \subseteq alive
    /\ visible \cup captured \cup ToSet(windows) \subseteq alive
    /\ \A f \in Running(todo) : Family(f) \subseteq visible
    /\ "progress" \in visible => Has(todo, ShowingProgress)

ListInv ==
    /\ windows \in Seq(TopLevel) /\ IsInjective(windows)
    /\ ToSet(windows) \cap Forms = Running(todo)
    /\ Ordered(todo, windows)

WindowsInv == StackInv /\ PopupInv /\ AliveInv /\ ListInv /\ {focused, below} \subseteq Window \cup {NULL}

RowsInv ==
    /\ dir \in Folders \cup {"top"} /\ pen \in Points \cup {NULL}
    /\ rows \in Seq(Names \cup Folders \cup {"slot2"}) /\ (dir # "top" => rows \in Seq(Names \cup Folders))
    /\ sel \in 1 .. Len(rows) + 1
    /\ At("slot2") => Len(rows) = 3

Entries == [of : Names \cup {"none", "dir"}, len : Nat]
Places == (Folders \cup {"top"}) \X (Names \cup Folders \cup {"none", "slot2"})
Jobs == [src : Places, dest : Places, silent : BOOLEAN, length : Nat, done : Nat, copied : Nat]

FilesInv ==
    /\ disk \in [Paths -> Entries]
    /\ card \in BOOLEAN /\ copyingFile \in BOOLEAN /\ stopCopying \in BOOLEAN /\ asked \in BOOLEAN
    /\ clip.path \in Paths \cup {NoPath} /\ clip.mode \in {"none", "copy", "cut"}
    /\ missed \in BOOLEAN /\ job \in Jobs /\ job.copied <= job.done /\ job.done <= job.length
    /\ Has(todo, JobSteps) => job.dest[2] = job.src[2] /\ job.src # job.dest
    /\ Has(todo, CopySteps \ {"copyFile", "full"}) => job.src \in Paths /\ job.dest \in Paths
    /\ Has(todo, RenameSteps \ {"moved"}) => job.done = 0

(* The source is there until it has been copied; it is out of reach from   *)
(* then on if its card is pulled out.                                      *)
SourceOut == ~Reachable(job.src[1])

KeptInv ==
    kept # Absent =>
        /\ missed \/ \E p \in Paths : disk[p] = kept
        /\ todo = ToPasted \/ Has(todo, {"moved"})
        /\ Has(todo, {"moved"}) =>
             /\ job.src \in Paths /\ job.dest \in Paths /\ disk[job.src] = kept
             /\ Has(todo, {"copyFile", "overwrite", "open"}) => job.length = 0
             /\ Has(todo, ShowingProgress) => job.length = kept.len /\ (missed \/ SourceOut \/ job.copied = job.done)
             /\ At("moved") /\ answer = Success => missed \/ SourceOut \/ disk[job.dest] = kept

(* The flags of the interrupt handler are set while the next step of a copy *)
(* is a chunk.                                                             *)
Copying == At("chunk") \/ At("write")
FlagsInv == (copyingFile => Copying) /\ StopIsAsked

(* The end of a touch gives the focus, and nothing runs before it ...      *)
FocusInv ==
    /\ {popup, focused} \subseteq alive \cup {NULL}
    /\ At("focus") => below \in alive \cup {NULL}
    /\ todo # <<>> => ~Has(Tail(todo), {"focus"})

Push(a, t) == <<a>> \o t

(* ... but for the handler of the button that leads up. *)
FocusSteps == {<<[do |-> "focus", at |-> p]>> : p \in Points}
LeadingUp ==
    /\ todo # <<>> /\ Head(todo).do \in {"back", "enterDir", "entered"}
    /\ At("enterDir") => Head(todo).dir # "slot2"
    /\ \E last \in FocusSteps :
          \/ Tail(todo) = last
          \/ At("enterDir") /\ \E e : e.do = "entered" /\ Tail(todo) = Push(e, last)
UpInv == LeadingUp /\ {popup, focused, below} \subseteq alive \cup {NULL}

(* It opens a message box: the card with the folder above is out. *)
BoxWhileTouched == EnterFails /\ Head(todo).dir = "fat1" /\ Has(Tail(todo), {"focus"})

-----------------------------------------------------------------------------
(* Sequences of steps, whatever the steps are.                             *)

LEMMA StepsOf == ASSUME NEW S, NEW s \in Seq(S) PROVE IsSeq(s)
  <1>1. DOMAIN s = 1 .. Len(s) /\ Len(s) \in Nat /\ s = [i \in 1 .. Len(s) |-> s[i]]
    BY LenProperties
  <1>2. s \in [1 .. Len(s) -> ToSet(s)]
    BY <1>1 DEF ToSet
  <1> QED
    BY <1>1, <1>2, SeqDef DEF IsSeq

LEMMA Tuples ==
    /\ IsSeq(<<>>)
    /\ \A a : IsSeq(<<a>>)
    /\ \A a, b : IsSeq(<<a, b>>)
    /\ \A a, b, c : IsSeq(<<a, b, c>>)
  <1>1. /\ <<>> \in Seq({}) /\ \A a : <<a>> \in Seq({a})
        /\ \A a, b : <<a, b>> \in Seq({a, b})
        /\ \A a, b, c : <<a, b, c>> \in Seq({a, b, c})
    OBVIOUS
  <1> QED
    BY <1>1, StepsOf

LEMMA Joined ==
    ASSUME NEW s, NEW t, IsSeq(s), IsSeq(t)
    PROVE  IsSeq(s \o t)
  <1> DEFINE S == ToSet(s) \cup ToSet(t)
  <1>1. s \in Seq(S) /\ t \in Seq(S)
    BY SeqMonotonic DEF IsSeq
  <1> HIDE DEF S
  <1>2. s \o t \in Seq(S)
    BY <1>1, ConcatProperties
  <1> QED
    BY <1>2, StepsOf

(* One step more: what it is made of. *)
LEMMA Pushed ==
    ASSUME NEW a, NEW t, IsSeq(t)
    PROVE  /\ IsSeq(Push(a, t)) /\ Push(a, t) # <<>>
           /\ Head(Push(a, t)) = a /\ Tail(Push(a, t)) = t
           /\ Len(Push(a, t)) = Len(t) + 1 /\ Len(t) \in Nat
           /\ DOMAIN t = 1 .. Len(t) /\ DOMAIN Push(a, t) = 1 .. Len(t) + 1
           /\ Push(a, t)[1] = a
           /\ \A i \in 1 .. Len(t) : Push(a, t)[i + 1] = t[i]
  <1> DEFINE S == ToSet(t) \cup {a}
  <1>1. t \in Seq(S) /\ <<a>> \in Seq(S)
    BY SeqMonotonic DEF IsSeq
  <1> HIDE DEF S
  <1>2. Len(<<a>>) = 1 /\ <<a>>[1] = a
    OBVIOUS
  <1>3. /\ Push(a, t) \in Seq(S) /\ Len(Push(a, t)) = Len(t) + 1 /\ Len(t) \in Nat
        /\ \A i \in 1 .. Len(t) + 1 : Push(a, t)[i] = IF i = 1 THEN a ELSE t[i - 1]
    BY <1>1, <1>2, ConcatProperties, LenProperties DEF Push
  <1>4. DOMAIN t = 1 .. Len(t) /\ DOMAIN Push(a, t) = 1 .. Len(t) + 1
    BY <1>1, <1>3, LenProperties
  <1>5. Push(a, t)[1] = a /\ \A i \in 1 .. Len(t) : Push(a, t)[i + 1] = t[i]
    BY <1>3
  <1>6. Push(a, t) # <<>> /\ Head(Push(a, t)) = a
    BY <1>3, <1>5, EmptySeq
  <1>7. /\ Tail(Push(a, t)) \in Seq(S) /\ Len(Tail(Push(a, t))) = Len(t)
        /\ \A i \in 1 .. Len(t) : Tail(Push(a, t))[i] = t[i]
    BY <1>3, <1>5, <1>6, HeadTailProperties
  <1>8. Tail(Push(a, t)) = t
    BY <1>1, <1>7, SeqEqual
  <1> QED
    BY <1>3, <1>4, <1>5, <1>6, <1>8, StepsOf

LEMMA IsPush ==
    ASSUME NEW s, NEW a, NEW t, IsSeq(s), IsSeq(t),
           Len(s) = Len(t) + 1, s[1] = a, \A i \in 1 .. Len(t) : s[i + 1] = t[i]
    PROVE  s = Push(a, t)
  <1> DEFINE p == Push(a, t)
             S == ToSet(s) \cup ToSet(p)
  <1>1. /\ IsSeq(p) /\ Len(p) = Len(t) + 1 /\ p[1] = a /\ Len(t) \in Nat
        /\ \A i \in 1 .. Len(t) : p[i + 1] = t[i]
    BY Pushed
  <1>2. p \in Seq(S) /\ s \in Seq(S)
    BY <1>1, SeqMonotonic DEF IsSeq
  <1> HIDE DEF p, S
  <1>3. ASSUME NEW i \in 1 .. Len(p), i # 1 PROVE p[i] = s[i]
    <2>1. i - 1 \in 1 .. Len(t) /\ (i - 1) + 1 = i
      BY <1>1, <1>3
    <2> QED
      BY <1>1, <2>1
  <1>4. \A i \in 1 .. Len(p) : p[i] = s[i]
    BY <1>1, <1>3
  <1>5. p = s
    BY <1>1, <1>2, <1>4, SeqEqual
  <1> QED
    BY <1>5 DEF p

LEMMA Popped ==
    ASSUME NEW s, IsSeq(s), s # <<>>
    PROVE  IsSeq(Tail(s)) /\ s = Push(Head(s), Tail(s))
  <1>1. /\ Tail(s) \in Seq(ToSet(s)) /\ Len(Tail(s)) = Len(s) - 1
        /\ \A i \in 1 .. Len(Tail(s)) : Tail(s)[i] = s[i + 1]
    BY HeadTailProperties DEF IsSeq
  <1>2. Len(s) \in Nat /\ Len(s) # 0 /\ Head(s) = s[1]
    BY EmptySeq, HeadTailProperties, LenProperties DEF IsSeq
  <1>3. Len(s) = Len(Tail(s)) + 1
    BY <1>1, <1>2
  <1>4. IsSeq(Tail(s))
    BY <1>1, StepsOf
  <1> QED
    BY <1>1, <1>2, <1>3, <1>4, IsPush

(* Concatenations, one step at a time. *)
LEMMA Unfold ==
    ASSUME NEW t, IsSeq(t)
    PROVE  /\ <<>> \o t = t
           /\ \A a : <<a>> \o t = Push(a, t)
           /\ \A a, s : IsSeq(s) => Push(a, s) \o t = Push(a, s \o t)
           /\ \A a, b : <<a, b>> \o t = Push(a, Push(b, t))
           /\ \A a, b, c : <<a, b, c>> \o t = Push(a, Push(b, Push(c, t)))
  <1>1. <<>> \o t = t
    BY DEF IsSeq
  <1>2. ASSUME NEW a, NEW s, IsSeq(s) PROVE Push(a, s) \o t = Push(a, s \o t)
    <2> DEFINE S == ToSet(s) \cup ToSet(t) \cup {a}
    <2>1. s \in Seq(S) /\ t \in Seq(S) /\ <<a>> \in Seq(S)
      BY <1>2, SeqMonotonic DEF IsSeq
    <2> HIDE DEF S
    <2> QED
      BY <2>1, ConcatAssociative DEF Push
  <1>3. ASSUME NEW a PROVE <<a>> = Push(a, <<>>)
    <2>1. <<a>> \in Seq({a})
      OBVIOUS
    <2> QED
      BY <2>1, ConcatEmptySeq DEF Push
  <1>4. ASSUME NEW a, NEW b PROVE <<a, b>> = Push(a, <<b>>)
    <2>1. Len(<<b>>) = 1 /\ <<b>>[1] = b
      OBVIOUS
    <2>2. Len(<<a, b>>) = 2 /\ <<a, b>>[1] = a /\ <<a, b>>[1 + 1] = b
      OBVIOUS
    <2>3. \A i \in 1 .. Len(<<b>>) : <<a, b>>[i + 1] = <<b>>[i]
      BY <2>1, <2>2
    <2>4. Len(<<a, b>>) = Len(<<b>>) + 1
      BY <2>1, <2>2
    <2>5. IsSeq(<<a, b>>) /\ IsSeq(<<b>>)
      BY Tuples
    <2> QED
      BY <2>2, <2>3, <2>4, <2>5, IsPush, Zenon
  <1>5. ASSUME NEW a, NEW b, NEW c PROVE <<a, b, c>> = Push(a, <<b, c>>)
    BY DEF Push
  <1>6. \A a : <<a>> \o t = Push(a, t)
    BY DEF Push
  <1>7. ASSUME NEW a, NEW b PROVE <<a, b>> \o t = Push(a, Push(b, t))
    <2>1. Push(a, <<b>>) \o t = Push(a, <<b>> \o t)
      BY <1>2, Tuples
    <2> QED
      BY <1>4, <1>6, <2>1
  <1>8. ASSUME NEW a, NEW b, NEW c PROVE <<a, b, c>> \o t = Push(a, Push(b, Push(c, t)))
    <2>1. Push(a, <<b, c>>) \o t = Push(a, <<b, c>> \o t)
      BY <1>2, Tuples
    <2> QED
      BY <1>5, <1>7, <2>1
  <1> QED
    BY <1>1, <1>2, <1>6, <1>7, <1>8

(* Where the steps of a longer sequence are. *)
LEMMA StepPlaces ==
    ASSUME NEW a, NEW t, IsSeq(t)
    PROVE  /\ 1 \in DOMAIN Push(a, t) /\ Push(a, t)[1] = a
           /\ \A i \in DOMAIN t : i \in Nat /\ i >= 1 /\ i + 1 \in DOMAIN Push(a, t) /\ Push(a, t)[i + 1] = t[i]
           /\ \A i \in DOMAIN Push(a, t) :
                i \in Nat /\ i >= 1 /\ (i = 1 \/ (i - 1 \in DOMAIN t /\ Push(a, t)[i] = t[i - 1]))
  <1> DEFINE p == Push(a, t)
             n == Len(t)
  <1>1. /\ n \in Nat /\ DOMAIN t = 1 .. n /\ DOMAIN p = 1 .. n + 1 /\ p[1] = a
        /\ \A i \in 1 .. n : p[i + 1] = t[i]
    BY Pushed
  <1> HIDE DEF p, n
  <1>2. ASSUME NEW i \in DOMAIN p, i # 1 PROVE i - 1 \in DOMAIN t /\ p[i] = t[i - 1]
    <2>1. i - 1 \in 1 .. n /\ (i - 1) + 1 = i
      BY <1>1, <1>2
    <2> QED
      BY <1>1, <2>1
  <1>3. \A i \in DOMAIN t : i \in Nat /\ i >= 1 /\ i + 1 \in DOMAIN p
    BY <1>1
  <1>4. 1 \in DOMAIN p /\ \A i \in DOMAIN p : i \in Nat /\ i >= 1
    BY <1>1
  <1>5. \A i \in DOMAIN t : p[i + 1] = t[i]
    BY <1>1
  <1> QED
    BY <1>1, <1>2, <1>3, <1>4, <1>5 DEF p

LEMMA NoSteps ==
    /\ Kinds(<<>>) = {} /\ \A names : ~Has(<<>>, names)
    /\ \A name : FormsIn(<<>>, name) = {}
    /\ Under(<<>>) = NULL /\ Stack(<<>>)
    /\ \A w : Ordered(<<>>, w)
  <1>1. DOMAIN <<>> = {}
    OBVIOUS
  <1> QED
    BY <1>1 DEF Kinds, Has, FormsIn, Under, Takers, Stack, Ordered

LEMMA KindsPushed ==
    ASSUME NEW a, NEW t, IsSeq(t)
    PROVE  Kinds(Push(a, t)) = {a.do} \cup Kinds(t)
  BY StepPlaces DEF Kinds

LEMMA HasPushed ==
    ASSUME NEW a, NEW t, IsSeq(t), NEW names
    PROVE  Has(Push(a, t), names) <=> a.do \in names \/ Has(t, names)
  BY KindsPushed DEF Has

LEMMA FormsPushed ==
    ASSUME NEW a, NEW t, IsSeq(t), NEW name
    PROVE  FormsIn(Push(a, t), name) = IF a.do = name THEN {a.form} \cup FormsIn(t, name) ELSE FormsIn(t, name)
  <1>1. ASSUME NEW f \in FormsIn(t, name) PROVE f \in FormsIn(Push(a, t), name)
    BY StepPlaces DEF FormsIn
  <1>2. ASSUME a.do = name PROVE a.form \in FormsIn(Push(a, t), name)
    BY <1>2, StepPlaces DEF FormsIn
  <1>3. ASSUME NEW f \in FormsIn(Push(a, t), name)
        PROVE  f \in FormsIn(t, name) \/ (a.do = name /\ f = a.form)
    BY StepPlaces DEF FormsIn
  <1> QED
    BY <1>1, <1>2, <1>3

(* The least of a set of natural numbers. *)
LEMMA Least ==
    ASSUME NEW S, S \subseteq Nat, S # {}
    PROVE  Min(S) \in S /\ \A n \in S : Min(S) <= n
  <1>1. PICK n \in S : TRUE
    OBVIOUS
  <1> DEFINE R == OpToRel(LAMBDA x, y : x < y, Nat)
  <1>2. IsWellFoundedOn(R, Nat)
    BY NatLessThanWellFounded
  <1>3. PICK m \in S : \A k \in Nat : <<k, m>> \in R => k \notin S
    BY <1>1, <1>2, WFMin, Zenon
  <1>4. \A k \in Nat : <<k, m>> \in R <=> k < m
    BY <1>3 DEF OpToRel
  <1> HIDE DEF R
  <1>5. ASSUME NEW k \in S PROVE m <= k
    <2>1. k \in Nat /\ m \in Nat /\ ~(k < m)
      BY <1>3, <1>4
    <2> QED
      BY <2>1
  <1>6. \E x \in S : \A y \in S : x <= y
    BY <1>5
  <1> QED
    BY <1>6 DEF Min

LEMMA UnderPushed ==
    ASSUME NEW a, NEW t, IsSeq(t)
    PROVE  Under(Push(a, t)) = IF Takes(a) THEN Target(a) ELSE Under(t)
  <1> DEFINE p == Push(a, t)
  <1>1. /\ 1 \in DOMAIN p /\ p[1] = a
        /\ \A i \in DOMAIN t : i \in Nat /\ i >= 1 /\ i + 1 \in DOMAIN p /\ p[i + 1] = t[i]
        /\ \A i \in DOMAIN p :
             i \in Nat /\ i >= 1 /\ (i = 1 \/ (i - 1 \in DOMAIN t /\ p[i] = t[i - 1]))
    BY StepPlaces
  <1> HIDE DEF p
  <1>2. Takers(p) \subseteq Nat /\ Takers(t) \subseteq Nat
    BY <1>1 DEF Takers
  <1>3. CASE Takes(a)
    <2>1. 1 \in Takers(p)
      BY <1>1, <1>3 DEF Takers
    <2>2. Min(Takers(p)) \in Takers(p) /\ Min(Takers(p)) <= 1
      BY <1>2, <2>1, Least
    <2>3. Min(Takers(p)) = 1
      BY <1>1, <2>2 DEF Takers
    <2>4. Takers(p) # {} /\ Under(p) = Target(a)
      BY <1>1, <2>1, <2>3 DEF Under
    <2> QED
      BY <1>3, <2>4 DEF p
  <1>4. CASE ~Takes(a)
    <2>1. \A i : i \in Takers(t) => i + 1 \in Takers(p)
      BY <1>1 DEF Takers
    <2>2. \A i \in Takers(p) : i - 1 \in Takers(t)
      BY <1>1, <1>4 DEF Takers
    <2>3. CASE Takers(t) = {}
      <3>1. Takers(p) = {}
        BY <2>2, <2>3
      <3> QED
        BY <1>4, <2>3, <3>1 DEF Under, p
    <2>4. CASE Takers(t) # {}
      <3> DEFINE m == Min(Takers(t))
                 n == Min(Takers(p))
      <3>1. m \in Takers(t) /\ \A k \in Takers(t) : m <= k
        BY <1>2, <2>4, Least
      <3>2. Takers(p) # {}
        BY <2>1, <3>1
      <3>3. n \in Takers(p) /\ \A k \in Takers(p) : n <= k
        BY <1>2, <3>2, Least
      <3>4. n <= m + 1 /\ m <= n - 1
        BY <2>1, <2>2, <3>1, <3>3
      <3>5. n = m + 1
        BY <1>2, <3>1, <3>3, <3>4
      <3>6. m \in DOMAIN t
        BY <3>1 DEF Takers
      <3>7. Target(p[n]) = Target(t[m])
        BY <1>1, <3>5, <3>6
      <3> QED
        BY <1>4, <2>4, <3>2, <3>7 DEF Under, p
    <2> QED
      BY <2>3, <2>4
  <1> QED
    BY <1>3, <1>4

LEMMA OrderedPushed ==
    ASSUME NEW a, NEW t, IsSeq(t), NEW w
    PROVE  Ordered(Push(a, t), w)
             <=> Ordered(t, w) /\ (a.do = "modal" => \A g \in Running(t) : InFront(w, a.form, g))
  <1> DEFINE p == Push(a, t)
  <1>1. /\ 1 \in DOMAIN p /\ p[1] = a
        /\ \A i \in DOMAIN t : i \in Nat /\ i >= 1 /\ i + 1 \in DOMAIN p /\ p[i + 1] = t[i]
        /\ \A i \in DOMAIN p :
             i \in Nat /\ i >= 1 /\ (i = 1 \/ (i - 1 \in DOMAIN t /\ p[i] = t[i - 1]))
    BY StepPlaces
  <1> HIDE DEF p
  <1>2. ASSUME Ordered(p, w) PROVE Ordered(t, w)
    <2> SUFFICES ASSUME NEW i \in DOMAIN t, NEW j \in DOMAIN t,
                        t[i].do = "modal", t[j].do = "modal", i < j
                 PROVE  InFront(w, t[i].form, t[j].form)
      BY DEF Ordered
    <2>1. i + 1 \in DOMAIN p /\ j + 1 \in DOMAIN p /\ i + 1 < j + 1 /\ p[i + 1] = t[i] /\ p[j + 1] = t[j]
      BY <1>1
    <2> QED
      BY <1>2, <2>1 DEF Ordered
  <1>3. ASSUME Ordered(p, w), a.do = "modal", NEW g \in Running(t) PROVE InFront(w, a.form, g)
    <2>1. PICK j \in DOMAIN t : t[j].do = "modal" /\ t[j].form = g
      BY DEF Running, FormsIn
    <2>2. j + 1 \in DOMAIN p /\ 1 < j + 1 /\ p[j + 1] = t[j]
      BY <1>1
    <2> QED
      BY <1>1, <1>3, <2>1, <2>2 DEF Ordered
  <1>4. ASSUME Ordered(t, w), a.do = "modal" => \A g \in Running(t) : InFront(w, a.form, g)
        PROVE  Ordered(p, w)
    <2> SUFFICES ASSUME NEW i \in DOMAIN p, NEW j \in DOMAIN p,
                        p[i].do = "modal", p[j].do = "modal", i < j
                 PROVE  InFront(w, p[i].form, p[j].form)
      BY DEF Ordered
    <2>1. j - 1 \in DOMAIN t /\ p[j] = t[j - 1]
      BY <1>1
    <2>2. CASE i = 1
      <3>1. p[j].form \in Running(t)
        BY <2>1 DEF Running, FormsIn
      <3> QED
        BY <1>1, <1>4, <2>2, <3>1
    <2>3. CASE i # 1
      <3>1. i - 1 \in DOMAIN t /\ p[i] = t[i - 1] /\ i - 1 < j - 1
        BY <1>1, <2>3
      <3> QED
        BY <1>4, <2>1, <3>1 DEF Ordered
    <2> QED
      BY <2>2, <2>3
  <1> QED
    BY <1>2, <1>3, <1>4 DEF p

(* What follows a step in a longer sequence. *)
LEMMA Following ==
    ASSUME NEW a, NEW t, IsSeq(t)
    PROVE  /\ SubSeq(Push(a, t), 2, Len(Push(a, t))) = t
           /\ \A i \in DOMAIN t :
                SubSeq(Push(a, t), i + 2, Len(Push(a, t))) = SubSeq(t, i + 1, Len(t))
  <1> DEFINE p == Push(a, t)
             n == Len(t)
             S == ToSet(p) \cup ToSet(t)
  <1>1. /\ IsSeq(p) /\ Len(p) = n + 1 /\ n \in Nat /\ DOMAIN t = 1 .. n
        /\ \A i \in 1 .. n : p[i + 1] = t[i]
    BY Pushed
  <1>2. p \in Seq(S) /\ t \in Seq(S)
    BY <1>1, SeqMonotonic DEF IsSeq
  <1> HIDE DEF p, n, S
  <1>3. ASSUME NEW i \in Nat, NEW s, s = SubSeq(p, i + 2, n + 1), NEW u, u = SubSeq(t, i + 1, n) PROVE s = u
    <2>1. i + 2 \in Int /\ i + 1 \in Int /\ n \in Int /\ n + 1 \in Int
      BY <1>1
    <2>2. (\A k \in i + 2 .. n + 1 : p[k] \in S) /\ (\A k \in i + 1 .. n : t[k] \in S)
      BY <1>1, <1>2, ElementOfSeq
    <2>3. /\ s \in Seq(S) /\ Len(s) = IF i + 2 <= n + 1 THEN (n + 1) - (i + 2) + 1 ELSE 0
          /\ \A k \in 1 .. (n + 1) - (i + 2) + 1 : s[k] = p[(i + 2) + k - 1]
      BY <1>3, <2>1, <2>2, SubSeqProperties
    <2>4. /\ u \in Seq(S) /\ Len(u) = IF i + 1 <= n THEN n - (i + 1) + 1 ELSE 0
          /\ \A k \in 1 .. n - (i + 1) + 1 : u[k] = t[(i + 1) + k - 1]
      BY <1>3, <2>1, <2>2, SubSeqProperties
    <2>5. Len(s) = Len(u) /\ Len(s) = IF i + 1 <= n THEN n - i ELSE 0
      BY <1>1, <2>3, <2>4
    <2>6. ASSUME NEW k \in 1 .. Len(s) PROVE s[k] = u[k]
      <3>1. k \in 1 .. n - i /\ (n + 1) - (i + 2) + 1 = n - i /\ n - (i + 1) + 1 = n - i
        BY <1>1, <2>5
      <3>2. s[k] = p[(i + 2) + k - 1] /\ u[k] = t[(i + 1) + k - 1]
        BY <2>3, <2>4, <3>1
      <3>3. (i + 2) + k - 1 = (i + k) + 1 /\ (i + 1) + k - 1 = i + k /\ i + k \in 1 .. n
        BY <1>1, <3>1
      <3> QED
        BY <1>1, <3>2, <3>3
    <2> QED
      BY <2>3, <2>4, <2>5, <2>6, SeqEqual
  <1>4. SubSeq(t, 0 + 1, n) = t
    BY <1>2, SubSeqFull DEF n
  <1>5. SubSeq(p, 0 + 2, n + 1) = t
    BY <1>3, <1>4
  <1>6. ASSUME NEW i \in DOMAIN t PROVE SubSeq(p, i + 2, n + 1) = SubSeq(t, i + 1, n)
    <2>1. i \in Nat
      BY <1>1
    <2> QED
      BY <1>3, <2>1, Zenon
  <1> QED
    BY <1>1, <1>5, <1>6 DEF p, n

LEMMA StackPushed ==
    ASSUME NEW a, NEW t, IsSeq(t)
    PROVE  Stack(Push(a, t)) <=> Fits(a, t) /\ Stack(t)
  <1> DEFINE p == Push(a, t)
             After(i) == SubSeq(p, i + 1, Len(p))
  <1>1. /\ 1 \in DOMAIN p /\ p[1] = a
        /\ \A i \in DOMAIN t : i \in Nat /\ i >= 1 /\ i + 1 \in DOMAIN p /\ p[i + 1] = t[i]
        /\ \A i \in DOMAIN p :
             i \in Nat /\ i >= 1 /\ (i = 1 \/ (i - 1 \in DOMAIN t /\ p[i] = t[i - 1]))
    BY StepPlaces
  <1>2. After(1) = t
    BY Following
  <1>3. ASSUME NEW i \in DOMAIN t PROVE After(i + 1) = SubSeq(t, i + 1, Len(t))
    <2>1. (i + 1) + 1 = i + 2
      BY <1>1
    <2>2. SubSeq(p, i + 2, Len(p)) = SubSeq(t, i + 1, Len(t))
      BY Following
    <2> QED
      BY <2>1, <2>2
  <1>4. Stack(p) <=> \A i \in DOMAIN p : Fits(p[i], After(i))
    BY DEF Stack
  <1> HIDE DEF p, After
  <1>5. ASSUME Stack(p) PROVE Fits(a, t) /\ Stack(t)
    <2>1. Fits(a, t)
      BY <1>1, <1>2, <1>4, <1>5
    <2>2. ASSUME NEW i \in DOMAIN t PROVE Fits(t[i], SubSeq(t, i + 1, Len(t)))
      <3>1. i + 1 \in DOMAIN p /\ p[i + 1] = t[i]
        BY <1>1
      <3>2. Fits(p[i + 1], After(i + 1))
        BY <1>4, <1>5, <3>1
      <3> QED
        BY <1>3, <3>1, <3>2
    <2> QED
      BY <2>1, <2>2 DEF Stack
  <1>6. ASSUME Fits(a, t), Stack(t) PROVE Stack(p)
    <2> SUFFICES ASSUME NEW i \in DOMAIN p PROVE Fits(p[i], After(i))
      BY <1>4
    <2>1. CASE i = 1
      BY <1>1, <1>2, <1>6, <2>1
    <2>2. CASE i # 1
      <3>1. i - 1 \in DOMAIN t /\ p[i] = t[i - 1] /\ (i - 1) + 1 = i
        BY <1>1, <2>2
      <3>2. After(i) = SubSeq(t, (i - 1) + 1, Len(t))
        BY <1>3, <3>1
      <3>3. Fits(t[i - 1], SubSeq(t, (i - 1) + 1, Len(t)))
        BY <1>6, <3>1 DEF Stack
      <3> QED
        BY <3>1, <3>2, <3>3
    <2> QED
      BY <2>1, <2>2
  <1> QED
    BY <1>5, <1>6 DEF p

(* What gets the input is a form whose loop is running, or the progress    *)
(* window while a file is copied.                                          *)
LEMMA UnderIs ==
    ASSUME NEW s, IsSeq(s), Stack(s)
    PROVE  /\ Running(s) \subseteq Forms /\ Pending(s) \subseteq Forms
           /\ \/ Under(s) = NULL /\ Running(s) = {} /\ ~Has(s, ShowingProgress)
              \/ Under(s) \in Running(s)
              \/ Under(s) = "progress" /\ Has(s, ShowingProgress)
  <1>1. DOMAIN s \subseteq Nat
    <2>1. DOMAIN s = 1 .. Len(s) /\ Len(s) \in Nat
      BY LenProperties DEF IsSeq
    <2> QED
      BY <2>1
  <1>2. ASSUME NEW i \in DOMAIN s, s[i].do \in {"modal", "delete"} PROVE s[i].form \in Forms
    BY <1>2 DEF Stack, Fits
  <1>3. Running(s) \subseteq Forms /\ Pending(s) \subseteq Forms
    BY <1>2 DEF Running, Pending, FormsIn
  <1>4. CASE Takers(s) = {}
    <2>1. Under(s) = NULL
      BY <1>4 DEF Under
    <2>2. ~Has(s, ShowingProgress) /\ Running(s) = {}
      BY <1>4 DEF Takers, Takes, Has, Kinds, Running, FormsIn
    <2> QED
      BY <1>3, <2>1, <2>2
  <1>5. CASE Takers(s) # {}
    <2> DEFINE m == Min(Takers(s))
    <2>1. m \in Takers(s)
      <3>1. Takers(s) \subseteq Nat
        BY <1>1 DEF Takers
      <3> QED
        BY <1>5, <3>1, Least
    <2>2. Under(s) = Target(s[m])
      BY <1>5 DEF Under
    <2> HIDE DEF m
    <2>3. m \in DOMAIN s /\ s[m].do \in ShowingProgress \cup {"modal"}
      BY <2>1 DEF Takers, Takes
    <2>4. CASE s[m].do = "modal"
      BY <1>3, <2>2, <2>3, <2>4 DEF Target, Running, FormsIn
    <2>5. CASE s[m].do # "modal"
      BY <1>3, <2>2, <2>3, <2>5 DEF Target, Has, Kinds
    <2> QED
      BY <2>4, <2>5
  <1> QED
    BY <1>4, <1>5

(* Steps after which the same windows get the input, and are deleted. *)
Alike(s, t) ==
    /\ Under(s) = Under(t) /\ Running(s) = Running(t) /\ Pending(s) = Pending(t)
    /\ Has(s, ShowingProgress) <=> Has(t, ShowingProgress)
    /\ \A w : Ordered(s, w) <=> Ordered(t, w)

Plain(a) == a.do \notin ShowingProgress \cup {"modal", "delete"}

LEMMA PlainAlike ==
    ASSUME NEW a, NEW t, IsSeq(t), Plain(a)
    PROVE  Alike(Push(a, t), t)
  <1>1. ~Takes(a) /\ a.do # "modal" /\ a.do # "delete" /\ a.do \notin ShowingProgress
    BY DEF Plain, Takes
  <1>2. \A w : Ordered(Push(a, t), w) <=> Ordered(t, w)
    BY <1>1, OrderedPushed
  <1> QED
    BY <1>1, <1>2, UnderPushed, FormsPushed, HasPushed DEF Alike, Running, Pending

(* The first step gives place to others. *)
LEMMA Alikes ==
    ASSUME NEW a, NEW t, IsSeq(t), Plain(a)
    PROVE  /\ Alike(t, Push(a, t))
           /\ \A b : Plain(b) => Alike(Push(b, t), Push(a, t))
           /\ \A b, c : Plain(b) /\ Plain(c) => Alike(Push(b, Push(c, t)), Push(a, t))
  <1>1. \A b : IsSeq(Push(b, t))
    BY Pushed
  <1>2. \A b : Plain(b) => Alike(Push(b, t), t)
    BY PlainAlike
  <1>3. \A b, c : Plain(b) /\ Plain(c) => Alike(Push(b, Push(c, t)), Push(c, t))
    BY <1>1, PlainAlike
  <1> QED
    BY <1>2, <1>3 DEF Alike

(* A sequence without its i-th element. *)
LEMMA Cut ==
    ASSUME NEW S, NEW s \in Seq(S), NEW i \in 1 .. Len(s)
    PROVE  /\ RemoveAt(s, i) \in Seq(S) /\ Len(RemoveAt(s, i)) = Len(s) - 1
           /\ \A k \in 1 .. Len(s) - 1 : RemoveAt(s, i)[k] = IF k < i THEN s[k] ELSE s[k + 1]
  <1> DEFINE n == Len(s)
             u == SubSeq(s, 1, i - 1)
             v == SubSeq(s, i + 1, n)
             r == RemoveAt(s, i)
  <1>1. n \in Nat /\ i \in 1 .. n /\ \A k \in 1 .. n : s[k] \in S
    BY LenProperties, ElementOfSeq
  <1>2. u \in Seq(S) /\ Len(u) = i - 1 /\ \A k \in 1 .. i - 1 : u[k] = s[k]
    <2>1. 1 \in Int /\ i - 1 \in Int /\ \A k \in 1 .. i - 1 : s[k] \in S
      BY <1>1
    <2>2. /\ u \in Seq(S) /\ Len(u) = IF 1 <= i - 1 THEN (i - 1) - 1 + 1 ELSE 0
          /\ \A k \in 1 .. (i - 1) - 1 + 1 : u[k] = s[1 + k - 1]
      BY <2>1, SubSeqProperties
    <2> HIDE DEF u, n
    <2> QED
      BY <1>1, <2>2
  <1>3. v \in Seq(S) /\ Len(v) = n - i /\ \A k \in 1 .. n - i : v[k] = s[i + k]
    <2>1. i + 1 \in Int /\ n \in Int /\ \A k \in i + 1 .. n : s[k] \in S
      BY <1>1
    <2>2. /\ v \in Seq(S) /\ Len(v) = IF i + 1 <= n THEN n - (i + 1) + 1 ELSE 0
          /\ \A k \in 1 .. n - (i + 1) + 1 : v[k] = s[(i + 1) + k - 1]
      BY <2>1, SubSeqProperties
    <2> HIDE DEF v, n
    <2>3. n - (i + 1) + 1 = n - i /\ \A k \in 1 .. n - i : (i + 1) + k - 1 = i + k
      BY <1>1
    <2> QED
      BY <1>1, <2>2, <2>3
  <1>4. r = u \o v
    BY DEF RemoveAt
  <1> HIDE DEF n, u, v, r
  <1>5. /\ r \in Seq(S) /\ Len(r) = Len(u) + Len(v)
        /\ \A k \in 1 .. Len(u) + Len(v) : r[k] = IF k <= Len(u) THEN u[k] ELSE v[k - Len(u)]
    BY <1>2, <1>3, <1>4, ConcatProperties
  <1>6. Len(r) = n - 1
    BY <1>1, <1>2, <1>3, <1>5
  <1>7. ASSUME NEW k \in 1 .. n - 1 PROVE r[k] = IF k < i THEN s[k] ELSE s[k + 1]
    <2>1. k \in 1 .. Len(u) + Len(v)
      BY <1>1, <1>2, <1>3
    <2>2. CASE k < i
      <3>1. k <= Len(u) /\ k \in 1 .. i - 1
        BY <1>1, <1>2, <2>2
      <3> QED
        BY <1>2, <1>5, <2>1, <2>2, <3>1
    <2>3. CASE ~(k < i)
      <3>1. ~(k <= Len(u)) /\ k - Len(u) = k - i + 1 /\ k - i + 1 \in 1 .. n - i /\ i + (k - i + 1) = k + 1
        BY <1>1, <1>2, <2>3
      <3> QED
        BY <1>3, <1>5, <2>1, <2>3, <3>1
    <2> QED
      BY <2>2, <2>3
  <1> QED
    BY <1>5, <1>6, <1>7 DEF n, r

(* A window leaves the list. *)
LEMMA Removed ==
    ASSUME NEW S, NEW s \in Seq(S), IsInjective(s), NEW e
    PROVE  /\ RemoveFirst(s, e) \in Seq(S) /\ IsInjective(RemoveFirst(s, e))
           /\ ToSet(RemoveFirst(s, e)) = ToSet(s) \ {e}
           /\ \A f, g : f # e /\ g # e /\ InFront(s, f, g) => InFront(RemoveFirst(s, e), f, g)
  <1> DEFINE n == Len(s)
             r == RemoveFirst(s, e)
  <1>1. n \in Nat /\ DOMAIN s = 1 .. n
    BY LenProperties
  <1>2. CASE ~\E i \in 1 .. Len(s) : s[i] = e
    <2>1. r = s
      BY <1>2 DEF RemoveFirst
    <2>2. e \notin ToSet(s)
      BY <1>1, <1>2 DEF ToSet
    <2> QED
      BY <2>1, <2>2
  <1>3. CASE \E i \in 1 .. Len(s) : s[i] = e
    <2> DEFINE I == {i \in 1 .. Len(s) : s[i] = e}
               m == Min(I)
    <2>1. I # {} /\ I \subseteq Nat
      BY <1>1, <1>3
    <2>2. m \in I
      BY <2>1, Least
    <2>3. r = RemoveAt(s, m)
      BY <1>3, <2>1 DEF RemoveFirst, SelectInSeq
    <2>4. m \in 1 .. n /\ s[m] = e
      BY <2>2
    <2>5. /\ r \in Seq(S) /\ Len(r) = n - 1
          /\ \A k \in 1 .. n - 1 : r[k] = IF k < m THEN s[k] ELSE s[k + 1]
      BY <2>3, <2>4, Cut
    <2> HIDE DEF m, I, r, n
    <2>6. DOMAIN r = 1 .. n - 1
      BY <2>5, LenProperties
    <2>7. \A i, j \in 1 .. n : s[i] = s[j] => i = j
      BY <1>1 DEF IsInjective
    <2> DEFINE At1(k) == IF k < m THEN k ELSE k + 1
               To(k) == IF k < m THEN k ELSE k - 1
    <2>8. \A k \in 1 .. n - 1 : At1(k) \in 1 .. n /\ At1(k) # m /\ r[k] = s[At1(k)]
      BY <1>1, <2>4, <2>5
    <2>9. \A k \in 1 .. n : k # m => To(k) \in 1 .. n - 1 /\ At1(To(k)) = k
      BY <1>1, <2>4
    <2>10. IsInjective(r)
      <3> SUFFICES ASSUME NEW a \in DOMAIN r, NEW b \in DOMAIN r, r[a] = r[b] PROVE a = b
        BY DEF IsInjective
      <3>1. At1(a) = At1(b)
        BY <2>6, <2>7, <2>8
      <3> QED
        BY <1>1, <2>4, <2>6, <3>1
    <2>11. ToSet(r) = ToSet(s) \ {e}
      <3>1. ASSUME NEW k \in 1 .. n - 1 PROVE r[k] \in ToSet(s) \ {e}
        BY <1>1, <2>4, <2>7, <2>8 DEF ToSet
      <3>2. ASSUME NEW k \in 1 .. n, s[k] # e PROVE \E j \in 1 .. n - 1 : r[j] = s[k]
        <4>1. k # m
          BY <2>4, <3>2
        <4>2. To(k) \in 1 .. n - 1 /\ At1(To(k)) = k
          BY <2>9, <4>1
        <4>3. r[To(k)] = s[k]
          BY <2>8, <4>2
        <4> QED
          BY <4>2, <4>3
      <3> QED
        BY <1>1, <2>6, <3>1, <3>2 DEF ToSet
    <2>12. ASSUME NEW f, NEW g, f # e, g # e, InFront(s, f, g) PROVE InFront(r, f, g)
      <3>1. PICK k, l \in 1 .. n : k < l /\ s[k] = f /\ s[l] = g
        BY <1>1, <2>12 DEF InFront
      <3>2. k # m /\ l # m
        BY <2>4, <2>12, <3>1
      <3>3. To(k) \in 1 .. n - 1 /\ At1(To(k)) = k /\ To(l) \in 1 .. n - 1 /\ At1(To(l)) = l
        BY <2>9, <3>2
      <3>4. To(k) < To(l)
        BY <1>1, <2>4, <3>1, <3>2
      <3>5. r[To(k)] = f /\ r[To(l)] = g
        BY <2>8, <3>1, <3>3
      <3> QED
        BY <2>6, <3>3, <3>4, <3>5 DEF InFront
    <2> QED
      BY <2>5, <2>10, <2>11, <2>12 DEF r
  <1> QED
    BY <1>2, <1>3

(* The first of a sequence that is in a set, if there is one. *)
LEMMA ForemostIs ==
    ASSUME NEW s, IsSeq(s), NEW S
    PROVE  /\ Foremost(s, S) = NULL \/ Foremost(s, S) \in ToSet(s) \cap S
           /\ ToSet(s) \cap S # {} => Foremost(s, S) \in ToSet(s) \cap S
  <1> DEFINE hit == {i \in DOMAIN s : s[i] \in S}
  <1>1. hit \subseteq Nat
    <2>1. DOMAIN s = 1 .. Len(s) /\ Len(s) \in Nat
      BY LenProperties DEF IsSeq
    <2> QED
      BY <2>1
  <1>2. Foremost(s, S) = IF hit = {} THEN NULL ELSE s[Min(hit)]
    BY DEF Foremost
  <1>3. ASSUME hit # {} PROVE s[Min(hit)] \in ToSet(s) \cap S
    <2>1. Min(hit) \in hit
      BY <1>1, <1>3, Least
    <2> QED
      BY <2>1 DEF ToSet
  <1>4. ToSet(s) \cap S # {} => hit # {}
    BY DEF ToSet
  <1> QED
    BY <1>2, <1>3, <1>4

(* A window comes to the front. *)
LEMMA InFrontOf ==
    ASSUME NEW S, NEW s \in Seq(S), IsInjective(s), NEW e \in S, e \notin ToSet(s)
    PROVE  /\ <<e>> \o s \in Seq(S) /\ IsInjective(<<e>> \o s) /\ ToSet(<<e>> \o s) = ToSet(s) \cup {e}
           /\ \A g \in ToSet(s) : InFront(<<e>> \o s, e, g)
           /\ \A f, g : InFront(s, f, g) => InFront(<<e>> \o s, f, g)
  <1> DEFINE p == Push(e, s)
  <1>1. IsSeq(s) /\ p = <<e>> \o s
    BY StepsOf DEF Push
  <1>2. /\ 1 \in DOMAIN p /\ p[1] = e
        /\ \A i \in DOMAIN s : i \in Nat /\ i >= 1 /\ i + 1 \in DOMAIN p /\ p[i + 1] = s[i]
        /\ \A i \in DOMAIN p :
             i \in Nat /\ i >= 1 /\ (i = 1 \/ (i - 1 \in DOMAIN s /\ p[i] = s[i - 1]))
    BY <1>1, StepPlaces
  <1>3. p \in Seq(S)
    <2>1. <<e>> \in Seq(S)
      OBVIOUS
    <2> QED
      BY <2>1, ConcatProperties DEF Push
  <1> HIDE DEF p
  <1>4. IsInjective(p)
    <2> SUFFICES ASSUME NEW a \in DOMAIN p, NEW b \in DOMAIN p, p[a] = p[b] PROVE a = b
      BY DEF IsInjective
    <2>1. \A i \in DOMAIN s : s[i] # e
      BY DEF ToSet
    <2>2. a = 1 <=> b = 1
      BY <1>2, <2>1
    <2>3. CASE a # 1
      <3>1. a - 1 = b - 1
        BY <1>2, <2>2, <2>3 DEF IsInjective
      <3> QED
        BY <1>2, <3>1
    <2> QED
      BY <2>2, <2>3
  <1>5. ToSet(p) = ToSet(s) \cup {e}
    <2>1. ASSUME NEW x \in ToSet(s) PROVE x \in ToSet(p)
      BY <1>2 DEF ToSet
    <2> QED
      BY <1>2, <2>1 DEF ToSet
  <1>6. ASSUME NEW g \in ToSet(s) PROVE InFront(p, e, g)
    <2>1. PICK i \in DOMAIN s : s[i] = g
      BY DEF ToSet
    <2>2. i + 1 \in DOMAIN p /\ 1 < i + 1 /\ p[i + 1] = g
      BY <1>2, <2>1
    <2> QED
      BY <1>2, <2>2 DEF InFront
  <1>7. ASSUME NEW f, NEW g, InFront(s, f, g) PROVE InFront(p, f, g)
    <2>1. PICK k, l \in DOMAIN s : k < l /\ s[k] = f /\ s[l] = g
      BY <1>7 DEF InFront
    <2>2. k + 1 \in DOMAIN p /\ l + 1 \in DOMAIN p /\ k + 1 < l + 1 /\ p[k + 1] = f /\ p[l + 1] = g
      BY <1>2, <2>1
    <2> QED
      BY <2>2 DEF InFront
  <1> QED
    BY <1>1, <1>3, <1>4, <1>5, <1>6, <1>7

(* The windows that a form brings along are its own. *)
LEMMA Shapes ==
    /\ Forms \subseteq TopLevel /\ TopLevel \subseteq Window /\ NULL \notin Window
    /\ {"main", "startMenu", "progress"} \subseteq TopLevel \ Forms
    /\ \A w \in TopLevel :
         /\ w \in Family(w) /\ Family(w) \subseteq Window /\ IsSeq(Children[w])
         /\ ToSet(Children[w]) \cap TopLevel = {}
    /\ \A v, w \in TopLevel : v # w => Family(v) \cap Family(w) = {}
    /\ \A f \in Forms : Family(f) \cap Lasting = {}
    /\ Lasting \subseteq Window /\ TopLevel \ Forms \subseteq Lasting
  <1>1. \A w \in TopLevel : ToSet(Children[w]) \cap TopLevel = {} /\ IsSeq(Children[w])
    <2>1. ASSUME NEW w \in TopLevel PROVE Children[w] \in Seq(Window \ TopLevel)
      BY WindowsAssumption
    <2>2. ASSUME NEW w \in TopLevel PROVE \A x \in ToSet(Children[w]) : x \in Window \ TopLevel
      BY <2>1, ElementOfSeq, LenProperties DEF ToSet
    <2> QED
      BY <2>1, <2>2, StepsOf
  <1>2. \A w \in TopLevel : w \in Family(w) /\ Family(w) \subseteq Window
    BY DEF Family, Window
  <1>3. \A v, w \in TopLevel : v # w => Family(v) \cap Family(w) = {}
    BY <1>1, WindowsAssumption DEF Family
  <1>4. Forms \subseteq TopLevel /\ {"main", "startMenu", "progress"} \subseteq TopLevel \ Forms
    BY DEF Forms, TopLevel, SettingWnds
  <1>5. \A f \in Forms : Family(f) \cap Lasting = {}
    BY <1>2, <1>3, <1>4 DEF Lasting
  <1>6. TopLevel \subseteq Window
    BY <1>2
  <1>7. TopLevel \ Forms \subseteq Lasting
    BY <1>2, <1>4 DEF TopLevel, Lasting
  <1> QED
    BY <1>1, <1>2, <1>3, <1>4, <1>5, <1>6, <1>7, WindowsAssumption DEF Lasting

LEMMA Top ==
    ASSUME StackInv, todo # <<>>
    PROVE  /\ IsSeq(Tail(todo)) /\ todo = Push(Head(todo), Tail(todo))
           /\ Fits(Head(todo), Tail(todo)) /\ Stack(Tail(todo))
  BY Popped, StackPushed DEF StackInv

(* The window that gets the input exists. *)
LEMMA PopupAlive == WindowsInv => popup \in alive \cup {NULL}
  <1> SUFFICES ASSUME WindowsInv PROVE popup \in alive \cup {NULL}
    OBVIOUS
  <1>1. CASE MenuStays
    BY <1>1, Shapes DEF MenuStays, WindowsInv, AliveInv, Lasting
  <1>2. CASE popup = Under(todo)
    <2>1. \A f \in Running(todo) : f \in alive
      BY UnderIs, Shapes DEF WindowsInv, StackInv, AliveInv
    <2> QED
      BY <1>2, <2>1, UnderIs DEF WindowsInv, StackInv, AliveInv, Lasting
  <1> QED
    BY <1>1, <1>2 DEF WindowsInv, PopupInv

LEMMA PopupAliveNext == (WindowsInv => popup \in alive \cup {NULL})'
  BY PopupAlive, PTL

(* A step that makes and deletes no window. *)
LEMMA Staying ==
    ASSUME WindowsInv, UNCHANGED <<windows, visible, popup, alive>>,
           IsSeq(todo'), Stack(todo'), Alike(todo', todo),
           MenuStays => todo' = <<>> \/ Head(todo').do \in {"focus", "clickItem", "leave"},
           captured' \subseteq alive, {focused', below'} \subseteq Window \cup {NULL}
    PROVE  WindowsInv'
  <1>1. StackInv'
    BY DEF StackInv
  <1>2. PopupInv'
    <2>1. Under(todo') = Under(todo)
      BY DEF Alike
    <2> QED
      BY <2>1 DEF WindowsInv, PopupInv, MenuStays
  <1>3. AliveInv'
    BY DEF WindowsInv, AliveInv, Alike, Opened
  <1>4. ListInv'
    BY DEF WindowsInv, ListInv, Alike
  <1> QED
    BY <1>1, <1>2, <1>3, <1>4 DEF WindowsInv

(* Steps that are neither loops nor parts of a copy nor the end of a touch *)
(* or of the start menu.                                                   *)
Ordinary(a) == a.do \notin ShowingProgress \cup {"modal", "delete", "focus", "clickItem", "leave"}

(* What has the focus is kept by a step that leaves no touch to be ended.  *)
LEMMA FocusKept ==
    ASSUME WindowsInv', FocusInv, IsSeq(todo'), ~Has(todo', {"focus"}),
           focused' \in alive' \cup {NULL}
    PROVE  FocusInv'
  <1>1. popup' \in alive' \cup {NULL}
    BY PopupAliveNext
  <1>2. todo' # <<>> => Head(todo').do # "focus" /\ ~Has(Tail(todo'), {"focus"})
    BY Popped, HasPushed
  <1> QED
    BY <1>1, <1>2 DEF FocusInv, At

(* What an ordinary step may be followed by. *)
Follows(s) ==
    \/ s = <<>>
    \/ \E b : s = <<b>> /\ Ordinary(b) /\ Fits(b, Tail(todo))
    \/ \E b, c : s = <<b, c>> /\ Ordinary(b) /\ Ordinary(c)
                   /\ Fits(b, Push(c, Tail(todo))) /\ Fits(c, Tail(todo))

LEMMA Replaced ==
    ASSUME WindowsInv, todo # <<>>, Ordinary(Head(todo)), NEW s, Follows(s),
           NEW r, r = s \o Tail(todo)
    PROVE  /\ IsSeq(r) /\ Stack(r) /\ Alike(r, todo) /\ ~MenuStays
           /\ FocusInv => ~Has(r, {"focus"})
           /\ s = <<>> => r = Tail(todo)
           /\ s # <<>> => r # <<>> /\ Head(r) = Head(s)
  <1> DEFINE a == Head(todo)
             t == Tail(todo)
  <1>1. IsSeq(t) /\ todo = Push(a, t) /\ Fits(a, t) /\ Stack(t)
    BY Top DEF WindowsInv
  <1>2. Ordinary(a) /\ ~MenuStays
    BY DEF Ordinary, MenuStays
  <1>3. r = s \o t /\ t = Tail(todo) /\ (FocusInv => ~Has(t, {"focus"}))
    BY DEF FocusInv
  <1>4. Follows(s) <=> \/ s = <<>>
                       \/ \E b : s = <<b>> /\ Ordinary(b) /\ Fits(b, t)
                       \/ \E b, c : s = <<b, c>> /\ Ordinary(b) /\ Ordinary(c)
                                      /\ Fits(b, Push(c, t)) /\ Fits(c, t)
    BY DEF Follows
  <1> HIDE DEF a, t
  <1>5. \A b : Ordinary(b) => Plain(b) /\ b.do # "focus"
    BY DEF Ordinary, Plain
  <1>6. CASE s = <<>>
    <2>1. r = t
      BY <1>1, <1>3, <1>6, Unfold
    <2>2. Alike(r, todo)
      BY <1>1, <1>2, <1>5, <2>1, Alikes
    <2> QED
      BY <1>1, <1>2, <1>3, <1>6, <2>1, <2>2
  <1>7. ASSUME NEW b, s = <<b>>, Ordinary(b), Fits(b, t)
        PROVE  IsSeq(r) /\ Stack(r) /\ Alike(r, todo) /\ (FocusInv => ~Has(r, {"focus"})) /\ r # <<>> /\ Head(r) = b
    <2>1. r = Push(b, t)
      BY <1>1, <1>3, <1>7, Unfold
    <2>2. Alike(r, todo)
      BY <1>1, <1>2, <1>5, <1>7, <2>1, Alikes
    <2>3. IsSeq(r) /\ r # <<>> /\ Head(r) = b
      BY <1>1, <2>1, Pushed
    <2>4. Stack(r)
      BY <1>1, <1>7, <2>1, StackPushed
    <2>5. ~Has(t, {"focus"}) => ~Has(r, {"focus"})
      BY <1>1, <1>5, <1>7, <2>1, HasPushed
    <2> QED
      BY <1>3, <2>2, <2>3, <2>4, <2>5
  <1>8. ASSUME NEW b, NEW c, s = <<b, c>>, Ordinary(b), Ordinary(c), Fits(b, Push(c, t)), Fits(c, t)
        PROVE  IsSeq(r) /\ Stack(r) /\ Alike(r, todo) /\ (FocusInv => ~Has(r, {"focus"})) /\ r # <<>> /\ Head(r) = b
    <2>1. r = Push(b, Push(c, t))
      <3>1. <<b, c>> \o t = Push(b, Push(c, t))
        BY <1>1, Unfold
      <3> QED
        BY <1>3, <1>8, <3>1
    <2>2. Alike(r, todo)
      BY <1>1, <1>2, <1>5, <1>8, <2>1, Alikes
    <2>3. IsSeq(Push(c, t))
      BY <1>1, Pushed
    <2>4. IsSeq(Push(c, t)) /\ Stack(Push(c, t))
      BY <1>1, <1>8, <2>3, StackPushed
    <2>5. IsSeq(r) /\ r # <<>> /\ Head(r) = b
      BY <2>1, <2>4, Pushed
    <2>6. Stack(r)
      BY <1>8, <2>1, <2>4, StackPushed
    <2>7. ~Has(t, {"focus"}) => ~Has(r, {"focus"})
      <3>1. b.do # "focus" /\ c.do # "focus"
        BY <1>5, <1>8
      <3> DEFINE u == Push(c, t)
      <3>2. Has(u, {"focus"}) => Has(t, {"focus"})
        BY <1>1, <3>1, HasPushed
      <3>3. IsSeq(u) /\ r = Push(b, u)
        BY <2>1, <2>4
      <3> HIDE DEF u
      <3>4. Has(r, {"focus"}) => Has(u, {"focus"})
        BY <3>1, <3>3, HasPushed
      <3> QED
        BY <3>2, <3>4
    <2> QED
      BY <1>3, <2>2, <2>5, <2>6, <2>7
  <1> QED
    BY <1>2, <1>4, <1>6, <1>7, <1>8 DEF t

(* An ordinary step gives place to others. *)
LEMMA Calling ==
    ASSUME WindowsInv, todo # <<>>, Ordinary(Head(todo)), UNCHANGED windowVars, NEW s, Call(s), Follows(s)
    PROVE  WindowsInv' /\ (FocusInv => FocusInv')
  <1>1. todo' = s \o Tail(todo) /\ UNCHANGED <<windows, visible, popup, focused, below, captured, alive>>
    BY DEF Call, windowVars
  <1>2. IsSeq(todo') /\ Stack(todo') /\ Alike(todo', todo) /\ ~MenuStays /\ (FocusInv => ~Has(todo', {"focus"}))
    BY <1>1, Replaced
  <1>3. captured' \subseteq alive /\ {focused', below'} \subseteq Window \cup {NULL}
    BY <1>1 DEF WindowsInv, AliveInv
  <1>4. WindowsInv'
    BY <1>1, <1>2, <1>3, Staying
  <1>5. ASSUME FocusInv PROVE FocusInv'
    <2>1. focused' \in alive' \cup {NULL}
      BY <1>1, <1>5 DEF FocusInv
    <2> QED
      BY <1>2, <1>4, <1>5, <2>1, FocusKept
  <1> QED
    BY <1>4, <1>5

(* A form opens: its loop, and what is to be done afterwards. *)
LEMMA Opening ==
    ASSUME WindowsInv, ~MenuStays, NEW f \in Forms, NEW parent, NEW s, Open(f, parent, s),
           Under(todo) = NULL \/ parent = Under(todo), Running(todo) \subseteq Openers(f),
           IsSeq(s), Stack(s), s # <<>>,
           Head(s) = [do |-> "delete", form |-> f] \/ (f = "setting" /\ Head(s).do = "uiStyle"),
           f \in Pending(s), Pending(todo) \subseteq Pending(s),
           Under(s) = Under(todo), Running(s) = Running(todo),
           Has(s, ShowingProgress) <=> Has(todo, ShowingProgress),
           \A w : Ordered(s, w) <=> Ordered(todo, w),
           FocusInv => ~Has(s, {"focus"})
    PROVE  WindowsInv' /\ (FocusInv => FocusInv')
  <1> DEFINE m == Modal(f, parent)
  <1>1. /\ alive' = alive \cup Family(f) /\ visible' = visible \cup Family(f)
        /\ todo' = Push(m, s) /\ windows' = <<f>> \o windows
        /\ focused' = OnShow(f) /\ popup' = f /\ UNCHANGED <<below, captured>>
    BY DEF Open, Push
  <1>2. m.do = "modal" /\ m.form = f /\ PopupAfter(m) = Under(s)
    BY DEF Modal, PopupAfter, WindowsInv, PopupInv
  <1> HIDE DEF m
  <1>3. f \in TopLevel /\ f \in Family(f) /\ Family(f) \subseteq Window
    BY Shapes
  <1>4. f \notin Running(todo)
    BY DEF Openers
  <1>5. StackInv'
    <2>1. Fits(m, s)
      <3>1. m.do # "confirm" /\ Head(s).do \notin {"slot2", "moved"}
        BY <1>2
      <3> QED
        BY <1>2, <3>1 DEF Fits, ListSteps, LastSteps, BeforeRefresh, RenameSteps, CopySteps, ShowingProgress
    <2> QED
      BY <1>1, <2>1, Pushed, StackPushed DEF StackInv
  <1>6. Under(todo') = f /\ Running(todo') = {f} \cup Running(todo) /\ Pending(todo') = Pending(s)
    BY <1>1, <1>2, UnderPushed, FormsPushed DEF Takes, Target, Running, Pending
  <1>7. PopupInv'
    BY <1>1, <1>6 DEF PopupInv
  <1>8. Has(todo', ShowingProgress) <=> Has(todo, ShowingProgress)
    BY <1>1, <1>2, HasPushed DEF ShowingProgress
  <1>9. windows \in Seq(TopLevel) /\ IsInjective(windows) /\ f \notin ToSet(windows)
    BY <1>4 DEF WindowsInv, ListInv
  <1>10. /\ windows' \in Seq(TopLevel) /\ IsInjective(windows') /\ ToSet(windows') = ToSet(windows) \cup {f}
         /\ \A g \in ToSet(windows) : InFront(windows', f, g)
         /\ \A g, h : InFront(windows, g, h) => InFront(windows', g, h)
    BY <1>1, <1>3, <1>9, InFrontOf
  <1>11. AliveInv'
    <2>1. alive' \subseteq Lasting \cup Opened(todo')
      BY <1>1, <1>6 DEF WindowsInv, AliveInv, Opened
    <2>2. "progress" \notin Family(f)
      BY Shapes DEF Lasting
    <2> QED
      BY <1>1, <1>3, <1>6, <1>8, <1>10, <2>1, <2>2 DEF WindowsInv, AliveInv
  <1>12. ListInv'
    <2>1. Ordered(todo', windows')
      <3>1. Ordered(s, windows)
        BY DEF WindowsInv, ListInv
      <3>2. Ordered(s, windows')
        BY <1>10, <3>1 DEF Ordered
      <3>3. \A g \in Running(s) : InFront(windows', f, g)
        BY <1>10 DEF WindowsInv, ListInv
      <3> QED
        BY <1>1, <1>2, <3>2, <3>3, OrderedPushed
    <2> QED
      BY <1>6, <1>10, <2>1 DEF WindowsInv, ListInv
  <1>13. focused' \in Family(f) \cup {focused}
    <2>1. ASSUME f \in SettingWnds PROVE Items[f][1] \in ToSet(Children[f])
      BY <2>1, WindowsAssumption, EmptySeq, ElementOfSeq, LenProperties
    <2> QED
      BY <1>1, <2>1 DEF OnShow, Family
  <1>14. WindowsInv'
    BY <1>1, <1>3, <1>5, <1>7, <1>11, <1>12, <1>13 DEF WindowsInv
  <1>15. ASSUME FocusInv PROVE FocusInv'
    <2>1. IsSeq(todo') /\ ~Has(todo', {"focus"})
      BY <1>1, <1>2, <1>15, HasPushed, Pushed
    <2>2. focused' \in alive' \cup {NULL}
      BY <1>1, <1>13, <1>15 DEF FocusInv
    <2> QED
      BY <1>14, <1>15, <2>1, <2>2, FocusKept
  <1> QED
    BY <1>14, <1>15

(* A message box opens, and its form is deleted before the steps r. *)
LEMMA Asking ==
    ASSUME WindowsInv, ~MenuStays, NEW parent, NEW r, MessageBox(parent, r),
           IsSeq(r), Stack(r), Alike(r, todo),
           FocusInv => ~Has(r, {"focus"}),
           r = <<>> \/ Head(r).do \notin {"slot2", "moved"},
           Under(todo) = NULL \/ parent = Under(todo), Running(todo) \subseteq Openers("msgbox")
    PROVE  WindowsInv' /\ (FocusInv => FocusInv')
  <1> DEFINE d == [do |-> "delete", form |-> "msgbox"]
             s == Push(d, r)
  <1>1. Open("msgbox", parent, s)
    BY Unfold DEF MessageBox, Deleted
  <1>2. d.do = "delete" /\ d.form = "msgbox" /\ ~Takes(d)
    BY DEF Takes, ShowingProgress
  <1>3. Running(r) = Running(todo) /\ Under(r) = Under(todo) /\ Pending(r) = Pending(todo)
    BY DEF Alike
  <1>4. Fits(d, r)
    <2>1. Running(r) \subseteq Openers("msgbox") /\ "msgbox" \in Forms
      BY <1>3 DEF Forms
    <2> QED
      BY <2>1 DEF Fits, ListSteps, LastSteps, BeforeRefresh, RenameSteps, CopySteps, ShowingProgress
  <1> HIDE DEF d
  <1>5. IsSeq(s) /\ s # <<>> /\ Head(s) = d
    BY Pushed
  <1>6. Stack(s)
    BY <1>4, StackPushed
  <1>7. Under(s) = Under(todo)
    BY <1>2, <1>3, UnderPushed
  <1>8. Running(s) = Running(todo) /\ Pending(s) = {"msgbox"} \cup Pending(todo)
    BY <1>2, <1>3, FormsPushed DEF Running, Pending
  <1>9. Has(s, ShowingProgress) <=> Has(todo, ShowingProgress)
    BY <1>2, HasPushed DEF Alike, ShowingProgress
  <1>10. \A w : Ordered(s, w) <=> Ordered(todo, w)
    BY <1>2, OrderedPushed DEF Alike
  <1>11. FocusInv => ~Has(s, {"focus"})
    BY <1>2, HasPushed
  <1>12. "msgbox" \in Forms /\ Head(s) = [do |-> "delete", form |-> "msgbox"]
    BY <1>5 DEF Forms, d
  <1> HIDE DEF s
  <1> QED
    BY <1>1, <1>5, <1>6, <1>7, <1>8, <1>9, <1>10, <1>11, <1>12, Opening

(* An ordinary step asks a question. *)
LEMMA Asks ==
    ASSUME WindowsInv, todo # <<>>, Ordinary(Head(todo)), NEW parent, NEW s, Follows(s),
           NEW r, r = s \o Tail(todo), MessageBox(parent, r),
           r = <<>> \/ Head(r).do \notin {"slot2", "moved"},
           Under(todo) = NULL \/ parent = Under(todo), Running(todo) \subseteq Openers("msgbox")
    PROVE  WindowsInv' /\ (FocusInv => FocusInv')
  <1>1. IsSeq(r) /\ Stack(r) /\ Alike(r, todo) /\ ~MenuStays /\ (FocusInv => ~Has(r, {"focus"}))
    BY Replaced
  <1> QED
    BY <1>1, Asking

(* The form of an ordinary step's window opens. *)
LEMMA OpensForm ==
    ASSUME WindowsInv, todo # <<>>, Ordinary(Head(todo)), NEW f \in Forms, NEW parent,
           Under(todo) = NULL \/ parent = Under(todo), Running(todo) \subseteq Openers(f),
           Tail(todo) = <<>> \/ Head(Tail(todo)).do \notin {"slot2", "moved"},
           Open(f, parent, Deleted(f) \o Tail(todo))
    PROVE  WindowsInv' /\ (FocusInv => FocusInv')
  <1> DEFINE d == [do |-> "delete", form |-> f]
             t == Tail(todo)
             s == Push(d, t)
  <1>1. IsSeq(t) /\ Stack(t) /\ Alike(t, todo) /\ ~MenuStays /\ (FocusInv => ~Has(t, {"focus"}))
    <2>1. Follows(<<>>)
      BY DEF Follows
    <2>2. IsSeq(t) /\ t = <<>> \o t
      BY Top, Unfold DEF WindowsInv
    <2> QED
      BY <2>1, <2>2, Replaced
  <1>2. Open(f, parent, s)
    BY <1>1, Unfold DEF Deleted
  <1>3. t = <<>> \/ Head(t).do \notin {"slot2", "moved"}
    OBVIOUS
  <1> HIDE DEF t
  <1>4. d.do = "delete" /\ d.form = f /\ ~Takes(d)
    BY DEF Takes, ShowingProgress
  <1>5. Running(t) = Running(todo) /\ Under(t) = Under(todo) /\ Pending(t) = Pending(todo)
    BY <1>1 DEF Alike
  <1>6. Fits(d, t)
    BY <1>3, <1>5 DEF Fits, ListSteps, LastSteps, BeforeRefresh, RenameSteps, CopySteps, ShowingProgress
  <1> HIDE DEF d
  <1>7. IsSeq(s) /\ s # <<>> /\ Head(s) = d
    BY <1>1, Pushed
  <1>8. Stack(s)
    BY <1>1, <1>6, StackPushed
  <1>9. Under(s) = Under(todo)
    BY <1>1, <1>4, <1>5, UnderPushed
  <1>10. Running(s) = Running(todo) /\ Pending(s) = {f} \cup Pending(todo)
    BY <1>1, <1>4, <1>5, FormsPushed DEF Running, Pending
  <1>11. Has(s, ShowingProgress) <=> Has(todo, ShowingProgress)
    BY <1>1, <1>4, HasPushed DEF Alike, ShowingProgress
  <1>12. \A w : Ordered(s, w) <=> Ordered(todo, w)
    BY <1>1, <1>4, OrderedPushed DEF Alike
  <1>13. FocusInv => ~Has(s, {"focus"})
    BY <1>1, <1>4, HasPushed
  <1>14. Head(s) = [do |-> "delete", form |-> f]
    BY <1>7 DEF d
  <1> HIDE DEF s
  <1> QED
    BY <1>1, <1>2, <1>7, <1>8, <1>9, <1>10, <1>11, <1>12, <1>13, <1>14, Opening

(* The settings open: their window lives until the questions are asked. *)
LEMMA OpensSettings ==
    ASSUME WindowsInv, NEW a, todo = Push(a, <<>>), Ordinary(a),
           Open("setting", "main", <<Step("uiStyle"), Step("language"), Step("listType")>> \o Deleted("setting") \o <<>>)
    PROVE  WindowsInv' /\ (FocusInv => FocusInv')
  <1> DEFINE d == [do |-> "delete", form |-> "setting"]
             u == Push(d, <<>>)
             x == Push(Step("listType"), u)
             y == Push(Step("language"), x)
             s == Push(Step("uiStyle"), y)
  <1>1. IsSeq(u) /\ IsSeq(x) /\ IsSeq(y) /\ IsSeq(s) /\ IsSeq(<<>>)
    BY Pushed, Tuples
  <1>2. Open("setting", "main", s)
    <2>1. Deleted("setting") = u
      <3>1. IsSeq(<<d>>)
        BY Tuples
      <3>2. <<d>> \o <<>> = <<d>>
        BY <3>1, ConcatEmptySeq DEF IsSeq
      <3> QED
        BY <3>2 DEF Deleted, Push
    <2>2. s \o <<>> = s
      BY <1>1, ConcatEmptySeq DEF IsSeq
    <2>3. \A b, c, e : <<b, c, e>> \o u = Push(b, Push(c, Push(e, u)))
      BY <1>1, Unfold, Zenon
    <2>4. <<Step("uiStyle"), Step("language"), Step("listType")>> \o u = s
      BY <2>3, Zenon
    <2> QED
      BY <2>1, <2>4, <2>2
  <1>3. d.do = "delete" /\ d.form = "setting" /\ ~Takes(d)
    BY DEF Takes, ShowingProgress
  <1>4. Fits(d, <<>>)
    <2>1. Running(<<>>) = {} /\ "setting" \in Forms
      BY NoSteps DEF Running, Forms, SettingWnds
    <2> QED
      BY <2>1 DEF Fits, ListSteps, LastSteps, BeforeRefresh, RenameSteps, CopySteps, ShowingProgress
  <1> HIDE DEF d
  <1>5. Stack(u) /\ Under(u) = NULL /\ Running(u) = {} /\ Pending(u) = {"setting"} /\ ~Has(u, ShowingProgress)
        /\ ~Has(u, {"focus"}) /\ \A w : Ordered(u, w)
    BY <1>1, <1>3, <1>4, NoSteps, StackPushed, UnderPushed, FormsPushed, HasPushed, OrderedPushed
    DEF Running, Pending, ShowingProgress
  <1>6. u # <<>> /\ Head(u) = d
    BY <1>1, Pushed
  <1>7. Plain(Step("listType")) /\ Plain(Step("language")) /\ Plain(Step("uiStyle")) /\ Plain(a)
    BY DEF Plain, Step, ShowingProgress, Ordinary
  <1> HIDE DEF u
  <1>8. Alike(x, u) /\ Alike(y, x) /\ Alike(s, y) /\ Alike(todo, <<>>)
    BY <1>1, <1>7, PlainAlike
  <1>9. x # <<>> /\ Head(x) = Step("listType") /\ y # <<>> /\ Head(y) = Step("language") /\ Tail(y) = x
    BY <1>1, Pushed
  <1>10. s # <<>> /\ Head(s) = Step("uiStyle")
    BY <1>1, Pushed
  <1>11. Fits(Step("listType"), u) /\ Fits(Step("language"), x) /\ Fits(Step("uiStyle"), y)
    <2>1. Under(u) = NULL /\ Under(x) = NULL /\ Under(y) = NULL
      BY <1>5, <1>8 DEF Alike
    <2>2. Fits(Step("listType"), u)
      BY <1>3, <1>6, <2>1 DEF Fits, Step, ListSteps, LastSteps, BeforeRefresh, RenameSteps, CopySteps, ShowingProgress
    <2>3. Fits(Step("language"), x)
      BY <1>9, <2>1 DEF Fits, Step, ListSteps, LastSteps, BeforeRefresh, RenameSteps, CopySteps, ShowingProgress
    <2>4. Fits(Step("uiStyle"), y)
      BY <1>9, <2>1 DEF Fits, Step, ListSteps, LastSteps, BeforeRefresh, RenameSteps, CopySteps, ShowingProgress
    <2> QED
      BY <2>2, <2>3, <2>4
  <1>12. Stack(x) /\ Stack(y) /\ Stack(s)
    BY <1>1, <1>5, <1>11, StackPushed
  <1>13. ~Has(s, {"focus"})
    BY <1>1, <1>5, HasPushed DEF Step
  <1> HIDE DEF x, y, s
  <1>14. /\ Under(todo) = NULL /\ Running(todo) = {} /\ Pending(todo) = {} /\ ~Has(todo, ShowingProgress)
         /\ \A w : Ordered(todo, w)
    BY <1>8, NoSteps DEF Alike, Running, Pending
  <1>15. /\ Under(s) = NULL /\ Running(s) = {} /\ Pending(s) = {"setting"} /\ ~Has(s, ShowingProgress)
         /\ \A w : Ordered(s, w)
    BY <1>5, <1>8 DEF Alike
  <1>16. ~MenuStays
    <2>1. todo # <<>> /\ Head(todo) = a
      BY <1>1, Pushed
    <2> QED
      BY <2>1 DEF MenuStays, Ordinary
  <1>17. "setting" \in Forms /\ Head(s).do = "uiStyle"
    BY <1>10 DEF Forms, SettingWnds, Step
  <1> QED
    BY <1>1, <1>2, <1>10, <1>12, <1>13, <1>14, <1>15, <1>16, <1>17, Opening

(* A loop ends: that of the form in front, whose window goes. *)
(* What the end of a loop leaves. *)
LEMMA Closed ==
    ASSUME WindowsInv, NEW a, NEW m, NEW r, IsSeq(r), todo = Push(a, Push(m, r)), Plain(a),
           m.do = "modal", NEW x, CloseModal(Push(m, r), x)
    PROVE  LET form == m.form
               dies == Head(r) = [do |-> "delete", form |-> form]
           IN  /\ Fits(m, r) /\ Stack(r) /\ r # <<>> /\ r = Push(Head(r), Tail(r)) /\ IsSeq(Tail(r))
               /\ ~dies => form = "setting" /\ Head(r).do = "uiStyle"
               /\ todo' = IF dies THEN Tail(r) ELSE r
               /\ windows' = RemoveFirst(windows, form) /\ popup' = PopupAfter(m) /\ below' = below
               /\ Destroy(IF dies THEN Family(form) ELSE {}, IF focused = form THEN NULL ELSE focused)
  <1> DEFINE s == Push(m, r)
             form == m.form
             dies == Len(s) > 1 /\ s[2] = [do |-> "delete", form |-> form]
  <1>1. /\ IsSeq(s) /\ s[1] = m /\ Len(s) = Len(r) + 1 /\ Len(r) \in Nat /\ DOMAIN r = 1 .. Len(r)
        /\ \A i \in 1 .. Len(r) : s[i + 1] = r[i]
    BY Pushed
  <1>2. Fits(m, r) /\ Stack(r) /\ Stack(s) /\ IsSeq(todo)
    <2>1. Stack(s)
      BY <1>1, StackPushed DEF WindowsInv, StackInv
    <2> QED
      BY <2>1, StackPushed DEF WindowsInv, StackInv
  <1>3. r # <<>> /\ (Head(r) = [do |-> "delete", form |-> form] \/ (form = "setting" /\ Head(r).do = "uiStyle"))
    BY <1>2 DEF Fits
  <1>4. s[2] = Head(r) /\ Len(s) > 1 /\ r = Push(Head(r), Tail(r)) /\ IsSeq(Tail(r))
    <2>1. Len(r) # 0 /\ Head(r) = r[1]
      BY <1>3, EmptySeq, HeadTailProperties DEF IsSeq
    <2>2. 1 \in 1 .. Len(r)
      BY <1>1, <2>1
    <2>3. s[1 + 1] = r[1]
      BY <1>1, <2>2
    <2> QED
      BY <1>1, <1>3, <2>1, <2>3, Popped
  <1>5. SubSeq(s, 2, Len(s)) = r /\ SubSeq(s, 3, Len(s)) = Tail(r)
    <2> DEFINE t == Tail(r)
               h == Head(r)
    <2>1. IsSeq(t) /\ r = Push(h, t)
      BY <1>4
    <2>2. SubSeq(s, 2, Len(s)) = r
      BY Following
    <2>3. 1 \in DOMAIN r
      BY <2>1, StepPlaces
    <2>4. SubSeq(s, 1 + 2, Len(s)) = SubSeq(r, 1 + 1, Len(r))
      BY <2>3, Following
    <2>5. SubSeq(r, 2, Len(r)) = t
      BY <2>1, Following
    <2> QED
      BY <2>2, <2>4, <2>5
  <1>6. dies <=> Head(r) = [do |-> "delete", form |-> form]
    BY <1>4
  <1>7. /\ windows' = RemoveFirst(windows, form) /\ popup' = PopupAfter(m) /\ below' = below
        /\ Destroy(IF dies THEN Family(form) ELSE {}, IF focused = form THEN NULL ELSE focused)
        /\ todo' = SubSeq(s, IF dies THEN 3 ELSE 2, Len(s))
    BY <1>1 DEF CloseModal, Without
  <1> HIDE DEF dies
  <1>8. todo' = IF dies THEN Tail(r) ELSE r
    BY <1>5, <1>7
  <1> QED
    BY <1>2, <1>3, <1>4, <1>6, <1>7, <1>8

LEMMA Closing ==
    ASSUME WindowsInv, NEW a, NEW m, NEW r, IsSeq(r), todo = Push(a, Push(m, r)), Plain(a),
           m.do = "modal", NEW x, CloseModal(Push(m, r), x)
    PROVE  WindowsInv' /\ (FocusInv => FocusInv')
  <1> DEFINE s == Push(m, r)
             form == m.form
             dies == Head(r) = [do |-> "delete", form |-> form]
             gone == IF dies THEN Family(form) ELSE {}
  <1>1. IsSeq(s)
    BY Pushed
  <1>2. Fits(m, r) /\ Stack(r)
    BY Closed
  <1>3. Alike(todo, s)
    BY <1>1, PlainAlike
  <1>4. form \in Forms /\ Running(r) \subseteq Openers(form) /\ PopupAfter(m) = Under(r)
    BY <1>2 DEF Fits
  <1>5. r = Push(Head(r), Tail(r)) /\ IsSeq(Tail(r))
    BY Closed
  <1>6. /\ windows' = RemoveFirst(windows, form) /\ popup' = Under(r) /\ below' = below
        /\ Destroy(gone, IF focused = form THEN NULL ELSE focused)
        /\ todo' = IF dies THEN Tail(r) ELSE r
    BY <1>4, Closed
  <1> HIDE DEF dies
  <1>7. /\ windows' = RemoveFirst(windows, form) /\ popup' = Under(r) /\ below' = below
        /\ alive' = alive \ gone /\ visible' = visible \ gone /\ captured' = captured \ gone
        /\ focused' = IF (IF focused = form THEN NULL ELSE focused) \in gone THEN NULL
                      ELSE IF focused = form THEN NULL ELSE focused
        /\ todo' = IF dies THEN Tail(r) ELSE r
    BY <1>6 DEF Destroy
  <1>8. dies <=> Head(r) = [do |-> "delete", form |-> form]
    BY DEF dies
  <1>9. (dies => gone = Family(form)) /\ (~dies => gone = {})
    OBVIOUS
  <1> DEFINE next == IF dies THEN Tail(r) ELSE r
  <1>10. /\ IsSeq(next) /\ Stack(next) /\ Under(next) = Under(r) /\ Running(next) = Running(r)
         /\ \A w : Ordered(next, w) <=> Ordered(r, w)
         /\ Has(next, ShowingProgress) <=> Has(r, ShowingProgress)
         /\ dies => Pending(r) = {form} \cup Pending(next)
         /\ ~dies => Pending(next) = Pending(r)
         /\ ~Has(r, {"focus"}) => ~Has(next, {"focus"})
    <2>1. CASE ~dies
      BY <1>2, <2>1
    <2>2. CASE dies
      <3> DEFINE d == [do |-> "delete", form |-> form]
                 t == Tail(r)
      <3>1. r = Push(d, t) /\ IsSeq(t) /\ next = t
        BY <1>5, <1>8, <2>2
      <3>2. d.do = "delete" /\ d.form = form /\ ~Takes(d)
        BY DEF Takes, ShowingProgress
      <3> HIDE DEF d, t
      <3>3. Stack(t)
        BY <1>2, <3>1, StackPushed
      <3>4. Under(t) = Under(r) /\ Running(t) = Running(r) /\ Pending(r) = {form} \cup Pending(t)
        BY <3>1, <3>2, UnderPushed, FormsPushed DEF Running, Pending
      <3>5. \A w : Ordered(t, w) <=> Ordered(r, w)
        BY <3>1, <3>2, OrderedPushed
      <3>6. Has(t, ShowingProgress) <=> Has(r, ShowingProgress)
        BY <3>1, <3>2, HasPushed DEF ShowingProgress
      <3>7. ~Has(r, {"focus"}) => ~Has(t, {"focus"})
        BY <3>1, HasPushed
      <3> QED
        BY <2>2, <3>1, <3>3, <3>4, <3>5, <3>6, <3>7
    <2> QED
      BY <2>1, <2>2
  <1>11. todo' = next
    BY <1>7
  <1> HIDE DEF next
  <1>12. /\ Running(todo) = {form} \cup Running(r) /\ Pending(todo) = Pending(r)
         /\ Has(todo, ShowingProgress) <=> Has(r, ShowingProgress)
         /\ \A w : Ordered(todo, w) => Ordered(r, w)
    <2>1. Running(s) = {form} \cup Running(r) /\ Pending(s) = Pending(r)
      BY FormsPushed DEF Running, Pending
    <2>2. Has(s, ShowingProgress) <=> Has(r, ShowingProgress)
      BY HasPushed DEF ShowingProgress
    <2>3. \A w : Ordered(s, w) => Ordered(r, w)
      BY OrderedPushed
    <2> QED
      BY <1>3, <2>1, <2>2, <2>3 DEF Alike
  <1>13. form \notin Running(r)
    BY <1>4 DEF Openers
  <1>14. /\ form \in TopLevel /\ form \in Family(form) /\ Lasting \cap Family(form) = {}
         /\ \A g \in TopLevel : g # form => g \notin Family(form)
         /\ \A g \in Running(r) : Family(g) \cap Family(form) = {}
    <2>1. form \in TopLevel /\ form \in Family(form) /\ Lasting \cap Family(form) = {}
      BY <1>4, Shapes
    <2>2. \A g \in TopLevel : g # form => Family(g) \cap Family(form) = {} /\ g \in Family(g)
      BY <2>1, Shapes
    <2>3. Running(r) \subseteq Forms
      BY <1>2, UnderIs
    <2> QED
      BY <1>13, <2>1, <2>2, <2>3, Shapes
  <1>15. StackInv' /\ PopupInv'
    BY <1>7, <1>10, <1>11 DEF StackInv, PopupInv
  <1>16. windows \in Seq(TopLevel) /\ IsInjective(windows)
    BY DEF WindowsInv, ListInv
  <1>17. /\ windows' \in Seq(TopLevel) /\ IsInjective(windows') /\ ToSet(windows') = ToSet(windows) \ {form}
         /\ \A f, g : f # form /\ g # form /\ InFront(windows, f, g) => InFront(windows', f, g)
    BY <1>7, <1>16, Removed
  <1> HIDE DEF gone
  <1>18. AliveInv'
    <2>1. alive' \subseteq Lasting \cup Opened(todo')
      <3>1. Opened(todo) = Opened(r)
        BY <1>12 DEF Opened
      <3>2. dies => Opened(r) = Family(form) \cup Opened(todo')
        BY <1>10, <1>11 DEF Opened
      <3>3. ~dies => Opened(r) = Opened(todo')
        BY <1>10, <1>11 DEF Opened
      <3> QED
        BY <1>7, <1>9, <3>1, <3>2, <3>3 DEF WindowsInv, AliveInv
    <2>2. Lasting \subseteq alive' /\ visible' \cup captured' \subseteq alive'
      BY <1>7, <1>14, <1>9 DEF WindowsInv, AliveInv
    <2>3. ToSet(windows') \subseteq alive'
      <3>1. ToSet(windows') \subseteq TopLevel
        BY <1>17, ElementOfSeq, LenProperties DEF ToSet
      <3> QED
        BY <1>7, <1>14, <1>17, <1>9, <3>1 DEF WindowsInv, AliveInv
    <2>4. \A f \in Running(todo') : Family(f) \subseteq visible'
      BY <1>7, <1>10, <1>11, <1>12, <1>14, <1>9 DEF WindowsInv, AliveInv
    <2>5. "progress" \in visible' => Has(todo', ShowingProgress)
      BY <1>7, <1>10, <1>11, <1>12 DEF WindowsInv, AliveInv
    <2> QED
      BY <2>1, <2>2, <2>3, <2>4, <2>5 DEF AliveInv
  <1>19. ListInv'
    <2>1. ToSet(windows') \cap Forms = Running(todo')
      BY <1>10, <1>11, <1>12, <1>13, <1>17 DEF WindowsInv, ListInv
    <2>2. Ordered(r, windows)
      BY <1>12 DEF WindowsInv, ListInv
    <2>3. \A i \in DOMAIN r : r[i].do = "modal" => r[i].form # form
      BY <1>13 DEF Running, FormsIn
    <2>4. Ordered(r, windows')
      BY <1>17, <2>2, <2>3 DEF Ordered
    <2> QED
      BY <1>10, <1>11, <1>17, <2>1, <2>4 DEF ListInv
  <1>20. focused' \in {focused, NULL} /\ focused' \notin gone \ {NULL}
    BY <1>7
  <1>21. WindowsInv'
    BY <1>7, <1>15, <1>18, <1>19, <1>20 DEF WindowsInv
  <1>22. ASSUME FocusInv PROVE FocusInv'
    <2>1. todo # <<>> /\ Tail(todo) = s
      BY <1>1, Pushed
    <2>2. ~Has(r, {"focus"})
      BY <1>22, <2>1, HasPushed DEF FocusInv
    <2>3. focused' \in alive' \cup {NULL}
      BY <1>7, <1>20, <1>22 DEF FocusInv
    <2> QED
      BY <1>10, <1>11, <1>21, <1>22, <2>2, <2>3, FocusKept
  <1> QED
    BY <1>21, <1>22

(* The end of a window's life. *)
LEMMA Deleting ==
    ASSUME WindowsInv, Delete
    PROVE  WindowsInv' /\ (FocusInv => FocusInv')
  <1> DEFINE d == Head(todo)
             t == Tail(todo)
             f == d.form
  <1>1. /\ IsSeq(t) /\ todo = Push(d, t) /\ Fits(d, t) /\ Stack(t)
        /\ d.do = "delete" /\ todo # <<>> /\ ~MenuStays
    BY Top DEF WindowsInv, Delete, At, MenuStays
  <1>2. /\ alive' = alive \ Family(f) /\ visible' = visible \ Family(f) /\ captured' = captured \ Family(f)
        /\ focused' = (IF focused \in Family(f) THEN NULL ELSE focused)
        /\ todo' = <<>> \o t /\ UNCHANGED <<windows, popup, below>>
    BY DEF Delete, Destroy, Go, Call
  <1>3. FocusInv => ~Has(t, {"focus"})
    BY <1>1 DEF FocusInv
  <1> HIDE DEF d, t
  <1>4. todo' = t
    BY <1>1, <1>2, Unfold
  <1>5. f \in Forms /\ Running(t) \subseteq Openers(f)
    BY <1>1 DEF Fits
  <1>6. f \notin Running(t)
    BY <1>5 DEF Openers
  <1>7. /\ Under(t) = Under(todo) /\ Running(t) = Running(todo) /\ Pending(todo) = {f} \cup Pending(t)
        /\ Has(t, ShowingProgress) <=> Has(todo, ShowingProgress)
        /\ \A w : Ordered(t, w) <=> Ordered(todo, w)
    BY <1>1, UnderPushed, FormsPushed, HasPushed, OrderedPushed DEF Takes, ShowingProgress, Running, Pending
  <1> HIDE DEF f
  <1>8. StackInv' /\ PopupInv'
    BY <1>1, <1>2, <1>4, <1>7 DEF WindowsInv, StackInv, PopupInv
  <1>9. ListInv'
    BY <1>2, <1>4, <1>7 DEF WindowsInv, ListInv
  <1>10. /\ f \in TopLevel /\ Lasting \cap Family(f) = {}
         /\ \A g \in TopLevel : g # f => g \notin Family(f) /\ Family(g) \cap Family(f) = {}
    BY <1>5, Shapes
  <1>11. AliveInv'
    <2>1. Opened(todo) = Family(f) \cup Opened(t)
      BY <1>7 DEF Opened
    <2>2. alive' \subseteq Lasting \cup Opened(todo') /\ Lasting \subseteq alive'
      BY <1>2, <1>4, <1>10, <2>1 DEF WindowsInv, AliveInv
    <2>3. ToSet(windows) \subseteq TopLevel /\ f \notin ToSet(windows)
      BY <1>5, <1>6, <1>7, ElementOfSeq, LenProperties DEF WindowsInv, ListInv, ToSet
    <2>4. visible' \cup captured' \cup ToSet(windows') \subseteq alive'
      BY <1>2, <1>10, <2>3 DEF WindowsInv, AliveInv
    <2>5. Running(t) \subseteq TopLevel
      BY <1>1, UnderIs, Shapes
    <2>6. \A g \in Running(todo') : Family(g) \subseteq visible'
      BY <1>2, <1>4, <1>6, <1>7, <1>10, <2>5 DEF WindowsInv, AliveInv
    <2>7. "progress" \in visible' => Has(todo', ShowingProgress)
      BY <1>2, <1>4, <1>7 DEF WindowsInv, AliveInv
    <2> QED
      BY <2>2, <2>4, <2>6, <2>7 DEF AliveInv
  <1>12. WindowsInv'
    BY <1>2, <1>8, <1>9, <1>11 DEF WindowsInv
  <1>13. ASSUME FocusInv PROVE FocusInv'
    <2>1. focused' \in alive' \cup {NULL}
      BY <1>2, <1>13 DEF FocusInv
    <2> QED
      BY <1>1, <1>3, <1>4, <1>12, <1>13, <2>1, FocusKept
  <1> QED
    BY <1>12, <1>13

(* Without a form, the progress window and the start menu come and go. *)
LEMMA NoForms ==
    ASSUME WindowsInv, UNCHANGED alive, visible' \cup captured' \subseteq alive,
           {focused', below'} \subseteq Window \cup {NULL},
           IsSeq(todo'), Stack(todo'), Running(todo) = {}, Running(todo') = {},
           Pending(todo') = Pending(todo), popup' = Under(todo') \/ MenuStays',
           "progress" \in visible' => Has(todo', ShowingProgress),
           windows' \in Seq(TopLevel), IsInjective(windows'), ToSet(windows') = ToSet(windows)
    PROVE  WindowsInv'
  <1>1. StackInv' /\ PopupInv'
    BY DEF StackInv, PopupInv
  <1>2. AliveInv'
    BY DEF WindowsInv, AliveInv, Opened
  <1>3. Ordered(todo', windows')
    BY DEF Ordered, Running, FormsIn
  <1>4. ListInv'
    BY <1>3 DEF WindowsInv, ListInv
  <1> QED
    BY <1>1, <1>2, <1>4 DEF WindowsInv

LEMMA RestsMade ==
    /\ ToRefresh = Push(Step("refresh"), <<>>) /\ ToPasted = Push(Step("pasted"), ToRefresh)
    /\ ToMoved = Push(Step("moved"), ToPasted)
  <1> DEFINE a == Step("moved")
             b == Step("pasted")
             c == Step("refresh")
  <1>1. <<c>> \o <<>> = <<c>> /\ <<b, c>> \o <<>> = <<b, c>> /\ <<a, b, c>> \o <<>> = <<a, b, c>>
    <2>1. IsSeq(<<c>>) /\ IsSeq(<<b, c>>) /\ IsSeq(<<a, b, c>>)
      BY Tuples
    <2> QED
      BY <2>1, ConcatEmptySeq DEF IsSeq
  <1>2. /\ <<c>> \o <<>> = Push(c, <<>>) /\ <<b, c>> \o <<>> = Push(b, Push(c, <<>>))
        /\ <<a, b, c>> \o <<>> = Push(a, Push(b, Push(c, <<>>)))
    <2>1. IsSeq(<<>>)
      BY Tuples
    <2> HIDE DEF a, b, c
    <2>2. /\ \A x : <<x>> \o <<>> = Push(x, <<>>)
          /\ \A x, y : <<x, y>> \o <<>> = Push(x, Push(y, <<>>))
          /\ \A x, y, z : <<x, y, z>> \o <<>> = Push(x, Push(y, Push(z, <<>>)))
      BY <2>1, Unfold, Zenon
    <2> QED
      BY <2>2, Zenon
  <1> QED
    BY <1>1, <1>2, Zenon DEF ToRefresh, ToPasted, ToMoved

(* What may be left to do after the step of a copy. *)
LEMMA Rests ==
    \A t \in {<<>>, ToRefresh, ToPasted, ToMoved} :
      /\ IsSeq(t) /\ Stack(t) /\ Under(t) = NULL /\ Running(t) = {} /\ Pending(t) = {}
      /\ ~Has(t, ShowingProgress) /\ ~Has(t, {"focus"})
  <1> DEFINE Good(t) == /\ IsSeq(t) /\ Stack(t) /\ Under(t) = NULL /\ Running(t) = {} /\ Pending(t) = {}
                        /\ ~Has(t, ShowingProgress) /\ ~Has(t, {"focus"})
  <1>1. Good(<<>>)
    BY Tuples, NoSteps DEF Running, Pending
  <1>2. ASSUME NEW t, Good(t), NEW name, Fits(Step(name), t),
               name \notin ShowingProgress \cup {"modal", "delete", "focus"}
        PROVE  Good(Push(Step(name), t))
    <2> DEFINE b == Step(name)
    <2>1. b.do = name /\ ~Takes(b)
      BY <1>2 DEF Step, Takes
    <2> HIDE DEF b
    <2> QED
      BY <1>2, <2>1, Pushed, StackPushed, UnderPushed, FormsPushed, HasPushed DEF Running, Pending, b
  <1> HIDE DEF Good
  <1> USE DEF Fits, Step, ListSteps, LastSteps, BeforeRefresh, RenameSteps, CopySteps, ShowingProgress
  <1>3. Fits(Step("refresh"), <<>>)
    OBVIOUS
  <1>4. Good(ToRefresh)
    BY <1>1, <1>2, <1>3, RestsMade
  <1>5. ToRefresh # <<>> /\ Head(ToRefresh).do = "refresh" /\ ToPasted # <<>> /\ Head(ToPasted).do = "pasted"
    BY DEF ToRefresh, ToPasted
  <1>6. Fits(Step("pasted"), ToRefresh)
    BY <1>5
  <1>7. Good(ToPasted)
    BY <1>2, <1>4, <1>6, RestsMade
  <1>8. Fits(Step("moved"), ToPasted)
    BY <1>5
  <1>9. Good(ToMoved)
    BY <1>2, <1>7, <1>8, RestsMade
  <1> QED
    BY <1>1, <1>4, <1>7, <1>9 DEF Good

(* The steps of a copy: no form is open, and the progress window gets the  *)
(* input while it is shown.                                                *)
LEMMA InCopy ==
    ASSUME WindowsInv, todo # <<>>, Head(todo).do \in CopySteps
    PROVE  /\ Tail(todo) \in {ToPasted, ToMoved} /\ todo = Push(Head(todo), Tail(todo)) /\ IsSeq(Tail(todo))
           /\ Under(todo) = (IF Head(todo).do \in ShowingProgress THEN "progress" ELSE NULL)
           /\ Running(todo) = {} /\ Pending(todo) = {} /\ ~MenuStays /\ popup = Under(todo)
  <1> DEFINE a == Head(todo)
             t == Tail(todo)
  <1>1. IsSeq(t) /\ todo = Push(a, t) /\ Fits(a, t)
    BY Top DEF WindowsInv
  <1>2. a.do \in CopySteps /\ ~MenuStays
    BY DEF MenuStays, CopySteps, ShowingProgress
  <1> HIDE DEF a, t
  <1>3. t \in {ToPasted, ToMoved}
    BY <1>1, <1>2 DEF Fits
  <1>4. Under(t) = NULL /\ Running(t) = {} /\ Pending(t) = {}
    BY <1>3, Rests
  <1>5. a.do # "modal" /\ a.do # "delete" /\ (Takes(a) <=> a.do \in ShowingProgress)
    BY <1>2 DEF CopySteps, ShowingProgress, Takes
  <1>6. Under(todo) = (IF a.do \in ShowingProgress THEN "progress" ELSE NULL)
    BY <1>1, <1>4, <1>5, UnderPushed DEF Target
  <1>7. Running(todo) = {} /\ Pending(todo) = {}
    BY <1>1, <1>4, <1>5, FormsPushed DEF Running, Pending
  <1> QED
    BY <1>1, <1>2, <1>3, <1>6, <1>7 DEF a, t, WindowsInv, PopupInv

LEMMA Copies ==
    ASSUME WindowsInv, todo # <<>>, Head(todo).do \in CopySteps, NEW s, Call(s),
           s = <<>> \/ \E n \in CopySteps : s = <<Step(n)>>,
           UNCHANGED <<windows, focused, below, captured, alive>>,
           visible' \subseteq visible \cup {"progress"},
           popup' = (IF s # <<>> /\ s[1].do \in ShowingProgress THEN "progress" ELSE NULL),
           "progress" \in visible' => s # <<>> /\ s[1].do \in ShowingProgress
    PROVE  WindowsInv' /\ (FocusInv => FocusInv')
  <1> DEFINE t == Tail(todo)
  <1>1. /\ t \in {ToPasted, ToMoved} /\ IsSeq(t) /\ todo' = s \o t
        /\ Running(todo) = {} /\ Pending(todo) = {}
    BY InCopy DEF Call
  <1> HIDE DEF t
  <1>2. Stack(t) /\ Under(t) = NULL /\ Running(t) = {} /\ Pending(t) = {} /\ ~Has(t, {"focus"})
    BY <1>1, Rests
  <1>3. /\ IsSeq(todo') /\ Stack(todo') /\ Under(todo') = popup' /\ Running(todo') = {} /\ Pending(todo') = {}
        /\ "progress" \in visible' => Has(todo', ShowingProgress)
        /\ ~Has(todo', {"focus"})
    <2>1. CASE s = <<>>
      <3>1. todo' = t
        BY <1>1, <2>1, Unfold
      <3> QED
        BY <1>1, <1>2, <2>1, <3>1
    <2>2. ASSUME NEW n \in CopySteps, s = <<Step(n)>>
          PROVE  /\ IsSeq(todo') /\ Stack(todo') /\ Under(todo') = popup' /\ Running(todo') = {} /\ Pending(todo') = {}
                 /\ "progress" \in visible' => Has(todo', ShowingProgress)
                 /\ ~Has(todo', {"focus"})
      <3> DEFINE b == Step(n)
      <3>1. s # <<>> /\ s[1] = b
        BY <2>2
      <3>2. b.do \in CopySteps
        BY DEF Step
      <3> HIDE DEF b
      <3>3. todo' = Push(b, t)
        BY <1>1, <2>2, Unfold DEF b
      <3>4. Head(t).do \in {"pasted", "moved"} /\ t # <<>>
        BY <1>1 DEF ToPasted, ToMoved, Step
      <3>5. Fits(b, t)
        BY <1>1, <3>2, <3>4 DEF Fits, ListSteps, LastSteps, BeforeRefresh, RenameSteps, CopySteps, ShowingProgress
      <3>6. b.do \notin {"modal", "delete", "focus"} /\ (Takes(b) <=> b.do \in ShowingProgress)
        BY <3>2 DEF CopySteps, ShowingProgress, Takes
      <3>7. IsSeq(todo')
        BY <1>1, <3>3, Pushed
      <3>8. Stack(todo')
        BY <1>1, <1>2, <3>3, <3>5, StackPushed
      <3>9. Under(todo') = popup'
        BY <1>1, <1>2, <3>1, <3>3, <3>6, UnderPushed DEF Target
      <3>10. Running(todo') = {} /\ Pending(todo') = {}
        BY <1>1, <1>2, <3>3, <3>6, FormsPushed DEF Running, Pending
      <3>11. ("progress" \in visible' => Has(todo', ShowingProgress)) /\ ~Has(todo', {"focus"})
        BY <1>1, <1>2, <3>1, <3>3, <3>6, HasPushed
      <3> QED
        BY <3>7, <3>8, <3>9, <3>10, <3>11
    <2> QED
      BY <2>1, <2>2
  <1>4. WindowsInv'
    <2>1. visible' \cup captured' \subseteq alive
      <3>1. "progress" \in alive
        BY DEF WindowsInv, AliveInv, Lasting
      <3> QED
        BY <3>1 DEF WindowsInv, AliveInv
    <2>2. {focused', below'} \subseteq Window \cup {NULL} /\ windows' \in Seq(TopLevel) /\ IsInjective(windows')
      BY DEF WindowsInv, ListInv
    <2> QED
      BY <1>1, <1>3, <2>1, <2>2, NoForms
  <1>5. ASSUME FocusInv PROVE FocusInv'
    <2>1. focused' \in alive' \cup {NULL}
      BY <1>5 DEF FocusInv
    <2> QED
      BY <1>3, <1>4, <1>5, <2>1, FocusKept
  <1> QED
    BY <1>4, <1>5

LEMMA CopyingWindows ==
    ASSUME WindowsInv, StartCopy \/ StopCopy \/ GoOnCopying \/ Chunk \/ WriteFails \/ CopyDone
    PROVE  WindowsInv' /\ (FocusInv => FocusInv')
  <1> USE DEF CopySteps, ShowingProgress, Step
  <1>1. CASE StartCopy
    BY <1>1, Copies DEF StartCopy, At, Go, ShowProgress
  <1>2. CASE StopCopy
    BY <1>2, Copies DEF StopCopy, At, Return, EndCopy, HideProgress
  <1>3. CASE GoOnCopying
    BY <1>3, Copies, InCopy DEF GoOnCopying, At, Go, windowVars
  <1>4. CASE Chunk
    BY <1>4, Copies, InCopy DEF Chunk, At, Go, windowVars
  <1>5. CASE WriteFails
    BY <1>5, Copies DEF WriteFails, At, Go, EndCopy, HideProgress
  <1>6. CASE CopyDone
    BY <1>6, Copies DEF CopyDone, At, Return, EndCopy, HideProgress
  <1> QED
    BY <1>1, <1>2, <1>3, <1>4, <1>5, <1>6

(* B has been pressed while a file is copied. *)
LEMMA AskingToStop ==
    ASSUME WindowsInv, AskStop
    PROVE  WindowsInv' /\ (FocusInv => FocusInv')
  <1> DEFINE t == Tail(todo)
             a == Head(todo)
             b == Step("stop")
             r == Push(b, t)
  <1>1. /\ todo # <<>> /\ a.do = "chunk" /\ MessageBox("progress", <<b>> \o t)
    BY DEF AskStop, At
  <1>2. /\ t \in {ToPasted, ToMoved} /\ IsSeq(t) /\ todo = Push(a, t) /\ ~MenuStays
        /\ Under(todo) = "progress" /\ Running(todo) = {} /\ Pending(todo) = {}
    BY <1>1, InCopy DEF CopySteps, ShowingProgress
  <1> HIDE DEF t, a
  <1>3. Stack(t) /\ Under(t) = NULL /\ Running(t) = {} /\ Pending(t) = {} /\ ~Has(t, {"focus"})
    BY <1>2, Rests
  <1>4. b.do = "stop"
    BY DEF Step
  <1> HIDE DEF b
  <1>5. MessageBox("progress", r)
    BY <1>1, <1>2, Unfold
  <1>6. Head(t).do \in {"pasted", "moved"} /\ t # <<>>
    BY <1>2 DEF ToPasted, ToMoved, Step
  <1>7. Fits(b, t)
    BY <1>2, <1>4, <1>6 DEF Fits, ListSteps, LastSteps, BeforeRefresh, RenameSteps, CopySteps, ShowingProgress
  <1>8. IsSeq(r) /\ r # <<>> /\ Head(r) = b
    BY <1>2, Pushed
  <1>9. Stack(r)
    BY <1>2, <1>3, <1>7, StackPushed
  <1>10. Under(r) = "progress" /\ Running(r) = {} /\ Pending(r) = {}
    BY <1>2, <1>3, <1>4, UnderPushed, FormsPushed DEF Takes, Target, ShowingProgress, Running, Pending
  <1>11. Has(r, ShowingProgress) /\ Has(todo, ShowingProgress) /\ ~Has(r, {"focus"})
    BY <1>1, <1>2, <1>3, <1>4, HasPushed DEF ShowingProgress
  <1>12. \A w : Ordered(r, w) /\ Ordered(todo, w)
    BY <1>2, <1>10 DEF Ordered, Running, FormsIn
  <1>13. Alike(r, todo)
    BY <1>2, <1>10, <1>11, <1>12 DEF Alike
  <1>14. Head(r).do \notin {"slot2", "moved"}
    BY <1>4, <1>8
  <1>15. Running(todo) \subseteq Openers("msgbox")
    BY <1>2
  <1> HIDE DEF r
  <1> QED
    BY <1>2, <1>5, <1>8, <1>9, <1>11, <1>13, <1>14, <1>15, Asking

FileSteps == (CopySteps \ ShowingProgress) \cup RenameSteps \cup BeforeRefresh

LEMMA FitsFiles ==
    /\ \A n \in CopySteps \cup {"false"} : \A t \in {ToPasted, ToMoved} : Fits(Step(n), t)
    /\ \A n \in RenameSteps \cup {"false"} : Fits(Step(n), ToPasted)
    /\ \A n \in BeforeRefresh \cup {"false"} : Fits(Step(n), ToRefresh)
    /\ \A n \in FileSteps \cup {"false"} : Ordinary(Step(n)) /\ Step(n).do = n
    /\ Push(Step("moved"), ToPasted) = ToMoved /\ Push(Step("pasted"), ToRefresh) = ToPasted
  <1>1. /\ ToRefresh # <<>> /\ Head(ToRefresh).do = "refresh" /\ ToPasted # <<>> /\ Head(ToPasted).do = "pasted"
        /\ ToMoved # <<>> /\ Head(ToMoved).do = "moved"
    BY DEF ToRefresh, ToPasted, ToMoved, Step
  <1>2. \A t \in {ToRefresh, ToPasted, ToMoved} : Under(t) = NULL
    BY Rests
  <1>3. \A n : Step(n).do = n
    BY DEF Step
  <1>4. Push(Step("moved"), ToPasted) = ToMoved /\ Push(Step("pasted"), ToRefresh) = ToPasted
    BY RestsMade
  <1> USE DEF Fits, ListSteps, LastSteps, BeforeRefresh, RenameSteps, CopySteps, ShowingProgress
  <1>5. ASSUME NEW b, NEW t \in {ToPasted, ToMoved}, b.do \in CopySteps \cup {"false"} PROVE Fits(b, t)
    BY <1>1, <1>2, <1>5
  <1>6. ASSUME NEW b, b.do \in RenameSteps \cup {"false"} PROVE Fits(b, ToPasted)
    BY <1>1, <1>2, <1>6
  <1>7. ASSUME NEW b, b.do \in BeforeRefresh \cup {"false"} PROVE Fits(b, ToRefresh)
    BY <1>1, <1>2, <1>7
  <1>8. \A b : b.do \in FileSteps \cup {"false"} => Ordinary(b)
    BY DEF Ordinary, FileSteps, BeforeRefresh, RenameSteps, CopySteps, ShowingProgress
  <1> QED
    BY <1>3, <1>4, <1>5, <1>6, <1>7, <1>8

LEMMA AtFiles ==
    ASSUME WindowsInv, todo # <<>>, Head(todo).do \in FileSteps
    PROVE  /\ Ordinary(Head(todo)) /\ Under(todo) = NULL /\ Running(todo) = {}
           /\ Head(todo).do \in CopySteps => Tail(todo) \in {ToPasted, ToMoved}
           /\ Head(todo).do \in RenameSteps => Tail(todo) = ToPasted
           /\ Head(todo).do \in BeforeRefresh => Tail(todo) = ToRefresh
  <1> DEFINE a == Head(todo)
             t == Tail(todo)
  <1>1. IsSeq(t) /\ todo = Push(a, t) /\ Fits(a, t) /\ a.do \in FileSteps
    BY Top DEF WindowsInv
  <1> HIDE DEF a, t
  <1>2. Ordinary(a) /\ Plain(a)
    BY <1>1 DEF Ordinary, Plain, FileSteps, BeforeRefresh, RenameSteps, CopySteps, ShowingProgress
  <1>3. /\ a.do \in CopySteps => t \in {ToPasted, ToMoved}
        /\ a.do \in RenameSteps => t = ToPasted
        /\ a.do \in BeforeRefresh => t = ToRefresh
    BY <1>1 DEF Fits
  <1>4. t \in {ToRefresh, ToPasted, ToMoved}
    BY <1>1, <1>3 DEF FileSteps
  <1>5. Under(todo) = NULL /\ Running(todo) = {}
    BY <1>1, <1>2, <1>4, Rests, PlainAlike DEF Alike
  <1> QED
    BY <1>2, <1>3, <1>5 DEF a, t

(* What the handlers of the files do with the windows. *)
Kept == WindowsInv' /\ (FocusInv => FocusInv')

AlongWith(n, k) ==
    \/ n \in CopySteps /\ k \in CopySteps
    \/ n \in RenameSteps /\ k \in RenameSteps
    \/ n \in BeforeRefresh /\ k \in BeforeRefresh

LEMMA FilesFollow ==
    ASSUME WindowsInv, todo # <<>>, Head(todo).do \in FileSteps
    PROVE  /\ Follows(<<>>) /\ Follows(<<Step("false")>>)
           /\ \A n \in FileSteps : AlongWith(Head(todo).do, n) => Follows(<<Step(n)>>)
  <1>1. Follows(<<>>)
    BY DEF Follows
  <1>2. \A n : Ordinary(Step(n)) /\ Fits(Step(n), Tail(todo)) => Follows(<<Step(n)>>)
    BY DEF Follows
  <1>3. Fits(Step("false"), Tail(todo))
    BY AtFiles, FitsFiles DEF FileSteps
  <1>4. ASSUME NEW n \in FileSteps, AlongWith(Head(todo).do, n) PROVE Fits(Step(n), Tail(todo))
    BY <1>4, AtFiles, FitsFiles DEF AlongWith
  <1> QED
    BY <1>1, <1>2, <1>3, <1>4, FitsFiles

LEMMA FilesReturn ==
    ASSUME WindowsInv, todo # <<>>, Head(todo).do \in FileSteps, Call(<<>>), UNCHANGED windowVars
    PROVE  Kept
  BY AtFiles, FilesFollow, Calling DEF Kept

LEMMA FilesGo ==
    ASSUME WindowsInv, todo # <<>>, Head(todo).do \in FileSteps,
           NEW n \in FileSteps, AlongWith(Head(todo).do, n), Call(<<Step(n)>>), UNCHANGED windowVars
    PROVE  Kept
  BY AtFiles, FilesFollow, Calling DEF Kept

LEMMA FilesAsk ==
    ASSUME WindowsInv, todo # <<>>, Head(todo).do \in FileSteps,
           NEW n, n = "false" \/ (n \in FileSteps /\ n # "moved" /\ AlongWith(Head(todo).do, n)),
           MessageBox(NULL, <<Step(n)>> \o Tail(todo))
    PROVE  Kept
  <1> DEFINE b == Step(n)
             s == <<b>>
             r == s \o Tail(todo)
  <1>1. b.do \notin {"slot2", "moved"} /\ Head(s) = b /\ s # <<>> /\ MessageBox(NULL, r)
    BY DEF Step, FileSteps, BeforeRefresh, RenameSteps, CopySteps, ShowingProgress
  <1>2. Follows(s)
    BY FilesFollow
  <1> HIDE DEF b, s
  <1>3. Ordinary(Head(todo)) /\ Under(todo) = NULL /\ Running(todo) \subseteq Openers("msgbox")
    BY AtFiles
  <1>4. Head(r) = b
    BY <1>1, <1>2, <1>3, Replaced
  <1> HIDE DEF r
  <1>5. r = s \o Tail(todo)
    BY DEF r
  <1> QED
    BY <1>1, <1>2, <1>3, <1>4, <1>5, Asks DEF Kept

LEMMA FileWindows ==
    ASSUME WindowsInv,
           \/ CopyFile \/ Overwrite \/ Full \/ RenameFile \/ Replace \/ Rename \/ Moved \/ Pasted
           \/ DeleteFile \/ Confirmed \/ \E trim \in BOOLEAN : CopyOrMove(dir, trim)
    PROVE  Kept
  <1> DEFINE Is(name) == todo # <<>> /\ Head(todo).do = name
  <1>1. /\ {"copyFile", "overwrite", "open", "full"} \subseteq CopySteps /\ CopySteps \ ShowingProgress \subseteq FileSteps
        /\ {"renameFile", "replace", "rename", "moved"} \subseteq RenameSteps /\ RenameSteps \subseteq FileSteps
        /\ {"paste", "pasted", "deleteFile", "unlink"} \subseteq BeforeRefresh /\ BeforeRefresh \subseteq FileSteps
        /\ {"copyFile", "overwrite", "open", "full"} \cap ShowingProgress = {}
    BY DEF FileSteps, BeforeRefresh, RenameSteps, CopySteps, ShowingProgress
  <1>2. ASSUME NEW name \in FileSteps, Is(name), Fail \/ \E x : Return(x) /\ UNCHANGED windowVars PROVE Kept
    BY <1>2, FilesReturn DEF Fail, Return
  <1>3. ASSUME NEW name \in FileSteps, Is(name), FailWith("ok") \/ FailWith("cancel") PROVE Kept
    BY <1>3, FilesAsk DEF FailWith
  <1>4. ASSUME NEW name \in FileSteps, Is(name), NEW n \in FileSteps, AlongWith(name, n),
               n # "moved" /\ MessageBox(NULL, <<Step(n)>> \o Tail(todo))
        PROVE  Kept
    BY <1>4, FilesAsk
  <1>5. ASSUME NEW name \in FileSteps, Is(name), NEW n \in FileSteps, AlongWith(name, n),
               Go(<<Step(n)>>) /\ UNCHANGED windowVars
        PROVE  Kept
    BY <1>5, FilesGo DEF Go
  <1>6. AlongWith("copyFile", "open") /\ AlongWith("copyFile", "overwrite") /\ AlongWith("overwrite", "open")
        /\ AlongWith("renameFile", "rename") /\ AlongWith("renameFile", "replace") /\ AlongWith("replace", "rename")
        /\ AlongWith("deleteFile", "unlink")
    BY <1>1 DEF AlongWith
  <1> HIDE DEF Is
  <1>7. CASE CopyFile
    <2>1. Is("copyFile") /\ "copyFile" \in FileSteps /\ "open" \in FileSteps /\ "overwrite" \in FileSteps
      BY <1>1, <1>7 DEF CopyFile, At, Is
    <2>2. \/ FailWith("ok") \/ FailWith("cancel") \/ Fail \/ (Go(<<Step("open")>>) /\ UNCHANGED windowVars)
          \/ MessageBox(NULL, <<Step("overwrite")>> \o Tail(todo))
      BY <1>7 DEF CopyFile
    <2> QED
      BY <1>2, <1>3, <1>4, <1>5, <1>6, <2>1, <2>2
  <1>8. CASE Overwrite
    <2>1. Is("overwrite") /\ "overwrite" \in FileSteps /\ "open" \in FileSteps
      BY <1>1, <1>8 DEF Overwrite, At, Is
    <2>2. Fail \/ (Go(<<Step("open")>>) /\ UNCHANGED windowVars)
      BY <1>8 DEF Overwrite
    <2> QED
      BY <1>2, <1>5, <1>6, <2>1, <2>2
  <1>9. CASE Full
    <2>1. Is("full") /\ "full" \in FileSteps /\ FailWith("ok")
      BY <1>1, <1>9 DEF Full, At, Is
    <2> QED
      BY <1>3, <2>1
  <1>10. CASE RenameFile
    <2>1. Is("renameFile") /\ "renameFile" \in FileSteps /\ "rename" \in FileSteps /\ "replace" \in FileSteps
      BY <1>1, <1>10 DEF RenameFile, At, Is
    <2>2. \/ FailWith("cancel") \/ (Go(<<Step("rename")>>) /\ UNCHANGED windowVars)
          \/ MessageBox(NULL, <<Step("replace")>> \o Tail(todo))
      BY <1>10 DEF RenameFile
    <2> QED
      BY <1>3, <1>4, <1>5, <1>6, <2>1, <2>2
  <1>11. CASE Replace
    <2>1. Is("replace") /\ "replace" \in FileSteps /\ "rename" \in FileSteps
      BY <1>1, <1>11 DEF Replace, At, Is
    <2>2. Fail \/ (Go(<<Step("rename")>>) /\ UNCHANGED windowVars)
      BY <1>11 DEF Replace
    <2> QED
      BY <1>2, <1>5, <1>6, <2>1, <2>2
  <1>12. CASE Rename
    <2>1. Is("rename") /\ "rename" \in FileSteps /\ todo # <<>> /\ Head(todo).do = "rename"
      BY <1>1, <1>12 DEF Rename, At, Is
    <2>2. \/ Fail \/ (Return(Success) /\ UNCHANGED windowVars)
          \/ Go(<<Step("copyFile"), Step("moved")>>) /\ UNCHANGED windowVars
      BY <1>12 DEF Rename
    <2>3. CASE Go(<<Step("copyFile"), Step("moved")>>) /\ UNCHANGED windowVars
      <3>1. Ordinary(Head(todo)) /\ Tail(todo) = ToPasted
        BY <1>1, <2>1, AtFiles
      <3>2. Ordinary(Step("copyFile")) /\ Ordinary(Step("moved"))
        BY <1>1, <2>1, FitsFiles
      <3>3. Fits(Step("copyFile"), Push(Step("moved"), Tail(todo))) /\ Fits(Step("moved"), Tail(todo))
        BY <1>1, <3>1, FitsFiles
      <3>4. Follows(<<Step("copyFile"), Step("moved")>>)
        BY <3>2, <3>3 DEF Follows
      <3> QED
        BY <2>1, <2>3, <3>1, <3>4, Calling DEF Go, Kept
    <2> QED
      BY <1>2, <2>1, <2>2, <2>3
  <1>13. CASE Moved
    <2>1. Is("moved") /\ "moved" \in FileSteps /\ Return(answer) /\ UNCHANGED windowVars
      BY <1>1, <1>13 DEF Moved, At, Is
    <2> QED
      BY <1>2, <2>1
  <1>14. CASE Pasted
    <2>1. Is("pasted") /\ "pasted" \in FileSteps /\ Return(answer) /\ UNCHANGED windowVars
      BY <1>1, <1>14 DEF Pasted, At, Is
    <2> QED
      BY <1>2, <2>1
  <1>15. CASE DeleteFile
    <2>1. Is("deleteFile") /\ "deleteFile" \in FileSteps /\ "unlink" \in FileSteps
      BY <1>1, <1>15 DEF DeleteFile, At, Is
    <2>2. Fail \/ MessageBox(NULL, <<Step("unlink")>> \o Tail(todo))
      BY <1>15 DEF DeleteFile
    <2> QED
      BY <1>2, <1>4, <1>6, <2>1, <2>2
  <1>16. CASE Confirmed
    <2>1. Is("unlink") /\ "unlink" \in FileSteps
      BY <1>1, <1>16 DEF Confirmed, At, Is
    <2>2. Fail \/ FailWith("ok") \/ (Return(Success) /\ UNCHANGED windowVars)
      BY <1>16 DEF Confirmed
    <2> QED
      BY <1>2, <1>3, <2>1, <2>2
  <1>17. ASSUME NEW trim \in BOOLEAN, CopyOrMove(dir, trim) PROVE Kept
    <2>1. Is("paste") /\ "paste" \in FileSteps /\ todo # <<>> /\ Head(todo).do = "paste"
      BY <1>1, <1>17 DEF CopyOrMove, At, Is
    <2>2. \/ Fail
          \/ \E n \in {"copyFile", "renameFile"} : Go(<<Step(n), Step("pasted")>>) /\ UNCHANGED windowVars
      BY <1>17 DEF CopyOrMove
    <2>3. ASSUME NEW n \in {"copyFile", "renameFile"}, Go(<<Step(n), Step("pasted")>>), UNCHANGED windowVars
          PROVE  Kept
      <3>1. Ordinary(Head(todo)) /\ Tail(todo) = ToRefresh
        BY <1>1, <2>1, AtFiles
      <3>2. Ordinary(Step(n)) /\ Ordinary(Step("pasted"))
        BY <1>1, FitsFiles
      <3>3. Fits(Step(n), Push(Step("pasted"), Tail(todo))) /\ Fits(Step("pasted"), Tail(todo))
        BY <1>1, <3>1, FitsFiles
      <3>4. Follows(<<Step(n), Step("pasted")>>)
        BY <3>2, <3>3 DEF Follows
      <3> QED
        BY <2>1, <2>3, <3>1, <3>4, Calling DEF Go, Kept
    <2> QED
      BY <1>2, <2>1, <2>2, <2>3
  <1> QED
    BY <1>7, <1>8, <1>9, <1>10, <1>11, <1>12, <1>13, <1>14, <1>15, <1>16, <1>17

(* The steps of the list come when no form is open. *)
LEMMA AtList ==
    ASSUME WindowsInv, todo # <<>>, Head(todo).do \in ListSteps
    PROVE  /\ Ordinary(Head(todo)) /\ Under(todo) = NULL /\ Running(todo) = {}
           /\ Under(Tail(todo)) = NULL /\ IsSeq(Tail(todo)) /\ Fits(Head(todo), Tail(todo))
  <1> DEFINE a == Head(todo)
             t == Tail(todo)
  <1>1. IsSeq(t) /\ todo = Push(a, t) /\ Fits(a, t) /\ Stack(t) /\ a.do \in ListSteps
    BY Top DEF WindowsInv
  <1> HIDE DEF a, t
  <1>2. Ordinary(a) /\ Plain(a)
    BY <1>1 DEF Ordinary, Plain, ListSteps, ShowingProgress
  <1>3. Under(t) = NULL
    BY <1>1 DEF Fits
  <1>4. Running(t) = {}
    <2>1. NULL \notin Forms /\ NULL # "progress"
      BY Shapes
    <2> QED
      BY <1>1, <1>3, <2>1, UnderIs
  <1>5. Under(todo) = NULL /\ Running(todo) = {}
    BY <1>1, <1>2, <1>3, <1>4, PlainAlike DEF Alike
  <1> QED
    BY <1>1, <1>2, <1>3, <1>5 DEF a, t

LEMMA FitsList ==
    ASSUME NEW a, NEW t, Fits(a, t), a.do \in ListSteps \cup LastSteps, a.do # "false", a # EnterStep("top"), Under(t) = NULL,
           NEW b, b.do \in ListSteps \ {"uiStyle"}
    PROVE  Fits(b, t)
  <1>1. ~(t # <<>> /\ Head(t).do = "slot2") /\ ~(t # <<>> /\ Head(t).do = "moved")
    BY DEF Fits, ListSteps, LastSteps, CopySteps, ShowingProgress
  <1> QED
    BY <1>1 DEF Fits, ListSteps, LastSteps, BeforeRefresh, RenameSteps, CopySteps, ShowingProgress

LEMMA ListGo ==
    ASSUME WindowsInv, todo # <<>>, Head(todo).do \in ListSteps, UNCHANGED windowVars, NEW s, Call(s),
           \/ s = <<>>
           \/ /\ Head(todo).do # "false" /\ Head(todo) # EnterStep("top")
              /\ \E b : s = <<b>> /\ b.do \in ListSteps \ {"uiStyle"}
    PROVE  Kept
  <1>1. CASE s = <<>>
    BY <1>1, AtList, Calling DEF Follows, Kept
  <1>2. ASSUME NEW b, s = <<b>>, b.do \in ListSteps \ {"uiStyle"}, Head(todo).do # "false", Head(todo) # EnterStep("top")
        PROVE  Kept
    <2>1. Fits(b, Tail(todo))
      BY <1>2, AtList, FitsList
    <2>2. Ordinary(b)
      BY <1>2 DEF Ordinary, ListSteps, ShowingProgress
    <2>3. Follows(s)
      BY <1>2, <2>1, <2>2 DEF Follows
    <2> QED
      BY <2>3, AtList, Calling DEF Kept
  <1> QED
    BY <1>1, <1>2

(* A question about the list. *)
LEMMA ListAsks ==
    ASSUME WindowsInv, todo # <<>>, Head(todo).do \in ListSteps, Head(todo).do # "false", Head(todo) # EnterStep("top"),
           NEW parent, NEW b, b.do \in ListSteps \ {"uiStyle", "slot2"}, MessageBox(parent, <<b>> \o Tail(todo))
    PROVE  Kept
  <1> DEFINE s == <<b>>
             r == s \o Tail(todo)
  <1>1. Ordinary(Head(todo)) /\ Under(todo) = NULL /\ Running(todo) \subseteq Openers("msgbox")
    BY AtList
  <1>2. Fits(b, Tail(todo))
    BY AtList, FitsList
  <1>3. Ordinary(b) /\ b.do \notin {"slot2", "moved"}
    BY DEF Ordinary, ListSteps, ShowingProgress
  <1>4. Follows(s)
    BY <1>2, <1>3 DEF Follows
  <1>5. s # <<>> /\ Head(s) = b /\ MessageBox(parent, r)
    OBVIOUS
  <1> HIDE DEF s
  <1>6. Head(r) = b
    BY <1>1, <1>4, <1>5, Replaced
  <1> HIDE DEF r
  <1>7. r = s \o Tail(todo)
    BY DEF r
  <1> QED
    BY <1>1, <1>3, <1>4, <1>5, <1>6, <1>7, Asks DEF Kept

(* What the menu starts with. *)
AtStart ==
    /\ windows = <<"progress", "main", "startMenu">> /\ visible = Family("main") /\ alive = Lasting
    /\ popup = NULL /\ focused = NULL /\ below = NULL /\ captured = {} /\ todo = <<>>

LEMMA Started == AtStart => WindowsInv /\ FocusInv
  <1> SUFFICES ASSUME AtStart PROVE WindowsInv /\ FocusInv
    OBVIOUS
  <1> USE DEF AtStart
  <1>1. StackInv /\ PopupInv
    BY NoSteps, Tuples DEF StackInv, PopupInv
  <1>2. ToSet(windows) = {"progress", "main", "startMenu"} /\ DOMAIN windows = 1 .. 3
    BY DEF ToSet
  <1>3. AliveInv
    <2>1. Running(<<>>) = {} /\ Pending(<<>>) = {} /\ ~Has(<<>>, ShowingProgress)
      BY NoSteps DEF Running, Pending
    <2>2. "progress" \notin Family("main")
      BY Shapes DEF Family
    <2> QED
      BY <1>2, <2>1, <2>2 DEF AliveInv, Opened, Lasting, Family
  <1>4. ListInv
    <2>1. windows \in Seq(TopLevel)
      <3>1. {"progress", "main", "startMenu"} \subseteq TopLevel
        BY Shapes
      <3> HIDE DEF TopLevel
      <3> QED
        BY <3>1
    <2>2. IsInjective(windows)
      BY <1>2 DEF IsInjective
    <2>3. {"progress", "main", "startMenu"} \cap Forms = {}
      BY Shapes
    <2> QED
      BY <1>2, <2>1, <2>2, <2>3, NoSteps DEF ListInv, Running
  <1> QED
    BY <1>1, <1>3, <1>4 DEF WindowsInv, FocusInv, At

LEMMA StartedNext == (AtStart => WindowsInv /\ FocusInv)'
  BY Started, PTL

(* The program that is started comes back. *)
LEMMA Restarted ==
    ASSUME LoadRom
    PROVE  WindowsInv' /\ FocusInv'
  BY StartedNext DEF LoadRom, AtStart, Lasting

LEMMA ListWindows ==
    ASSUME WindowsInv,
           \/ EnterSlot2 \/ SelectSlot2 \/ EnterTop \/ EnterFails \/ EnterDir \/ BackParentDir
           \/ SelectEntered \/ Launch \/ LoadRom \/ ShowFileInfo \/ GiveUp \/ Restart \/ ListType
           \/ UiStyle \/ Language
    PROVE  Kept
  <1> DEFINE Is(name) == todo # <<>> /\ Head(todo).do = name
  <1>1. {"slot2", "enterDir", "back", "entered", "launch", "loadRom", "info", "restart", "language", "listType",
         "false"} \subseteq ListSteps \ {"uiStyle"} /\ "uiStyle" \in ListSteps
    BY DEF ListSteps
  <1>2. \A n, d : Step(n).do = n /\ EnterStep(d).do = "enterDir" /\ EnterStep(d).dir = d
    BY DEF Step, EnterStep
  <1>3. ASSUME NEW n \in ListSteps, Is(n), \E x : Return(x), UNCHANGED windowVars PROVE Kept
    BY <1>3, ListGo DEF Return
  <1>4. ASSUME NEW n \in ListSteps, Is(n), Go(<<>>), UNCHANGED windowVars PROVE Kept
    BY <1>4, ListGo DEF Go
  <1>5. ASSUME NEW n \in ListSteps, Is(n), n # "false", Head(todo) # EnterStep("top"),
               NEW b, b.do \in ListSteps \ {"uiStyle"}, Go(<<b>>), UNCHANGED windowVars
        PROVE  Kept
    BY <1>5, ListGo DEF Go
  <1>6. ASSUME NEW n \in ListSteps, Is(n), n # "false", Head(todo) # EnterStep("top"),
               NEW b, b.do \in ListSteps \ {"uiStyle", "slot2"}, NEW parent, MessageBox(parent, <<b>> \o Tail(todo))
        PROVE  Kept
    BY <1>6, ListAsks
  <1>7. CASE EnterSlot2
    <2>1. Is("enterDir") /\ Head(todo).dir = "slot2" /\ Head(todo) # EnterStep("top")
      BY <1>2, <1>7 DEF EnterSlot2, At
    <2>2. CASE MessageBox(NULL, <<EnterStep("top"), Step("slot2")>> \o Tail(todo))
      <3> DEFINE b == EnterStep("top")
                 c == Step("slot2")
                 t == Tail(todo)
                 s == <<b, c>>
                 r == s \o t
      <3>1. IsSeq(t) /\ Under(t) = NULL /\ Ordinary(Head(todo)) /\ Under(todo) = NULL /\ Running(todo) = {}
        BY <1>1, <2>1, AtList
      <3>2. Fits(c, t)
        BY <1>1, <1>2, <2>1, AtList, FitsList
      <3>3. b.do = "enterDir" /\ c.do = "slot2"
        BY <1>2
      <3> HIDE DEF t, c
      <3>4. Push(c, t) # <<>> /\ Head(Push(c, t)).do = "slot2" /\ Under(Push(c, t)) = NULL
        BY <3>1, <3>3, Pushed, UnderPushed DEF Takes, ShowingProgress
      <3>5. Fits(b, Push(c, t))
        BY <3>3, <3>4 DEF Fits, ListSteps, LastSteps, BeforeRefresh, RenameSteps, CopySteps, ShowingProgress
      <3>6. Ordinary(b) /\ Ordinary(c)
        BY <3>3 DEF Ordinary, ShowingProgress
      <3> HIDE DEF b
      <3>7. Follows(s) /\ s # <<>> /\ Head(s) = b
        BY <3>2, <3>5, <3>6 DEF Follows, t
      <3>8. MessageBox(NULL, r)
        BY <2>2 DEF b, c, t
      <3> HIDE DEF s
      <3>9. Head(r) = b
        BY <2>1, <3>1, <3>7, Replaced DEF t
      <3> HIDE DEF r
      <3>10. r = s \o Tail(todo)
        BY DEF r, t
      <3> QED
        BY <2>1, <3>1, <3>3, <3>7, <3>8, <3>9, <3>10, Asks DEF Kept
    <2>3. CASE Go(<<Step("loadRom")>>) /\ UNCHANGED windowVars
      BY <1>1, <1>2, <1>5, <2>1, <2>3
    <2> QED
      BY <1>7, <2>2, <2>3 DEF EnterSlot2
  <1>8. CASE SelectSlot2
    BY <1>1, <1>4, <1>8 DEF SelectSlot2, At
  <1>9. CASE EnterTop
    BY <1>1, <1>3, <1>9 DEF EnterTop, At
  <1>10. CASE EnterFails
    <2>1. Is("enterDir") /\ Head(todo) # EnterStep("top")
      BY <1>2, <1>10 DEF EnterFails, At
    <2>2. CASE MessageBox(NULL, <<Step("false")>> \o Tail(todo))
      BY <1>1, <1>2, <1>6, <2>1, <2>2
    <2>3. CASE Return(Failure) /\ UNCHANGED windowVars
      BY <1>1, <1>3, <2>1, <2>3
    <2> QED
      BY <1>10, <2>2, <2>3 DEF EnterFails
  <1>11. CASE EnterDir
    BY <1>1, <1>3, <1>11 DEF EnterDir, At
  <1>12. CASE BackParentDir
    <2>1. Is("back") /\ Head(todo) # EnterStep("top") /\ UNCHANGED windowVars
      BY <1>2, <1>12 DEF BackParentDir, At
    <2>2. \/ \E d : Go(<<EnterStep(d)>>)
          \/ Go(<<EnterStep(Parent[dir]), [do |-> "entered", from |-> dir]>>)
      BY <1>12 DEF BackParentDir
    <2>3. CASE \E d : Go(<<EnterStep(d)>>)
      BY <1>1, <1>2, <1>5, <2>1, <2>3
    <2>4. CASE Go(<<EnterStep(Parent[dir]), [do |-> "entered", from |-> dir]>>)
      <3> DEFINE b == EnterStep(Parent[dir])
                 c == [do |-> "entered", from |-> dir]
                 t == Tail(todo)
      <3>1. IsSeq(t) /\ Under(t) = NULL /\ Ordinary(Head(todo))
        BY <1>1, <2>1, AtList
      <3>2. b.do = "enterDir" /\ c.do = "entered"
        BY <1>2
      <3>3. Fits(c, t)
        BY <1>1, <2>1, <3>2, AtList, FitsList
      <3> HIDE DEF t, c, b
      <3>4. Push(c, t) # <<>> /\ Head(Push(c, t)).do = "entered" /\ Under(Push(c, t)) = NULL
        BY <3>1, <3>2, Pushed, UnderPushed DEF Takes, ShowingProgress
      <3>5. Fits(b, Push(c, t))
        BY <3>2, <3>4 DEF Fits, ListSteps, LastSteps, BeforeRefresh, RenameSteps, CopySteps, ShowingProgress
      <3>6. Ordinary(b) /\ Ordinary(c)
        BY <3>2 DEF Ordinary, ShowingProgress
      <3>7. Follows(<<b, c>>) /\ Call(<<b, c>>)
        BY <2>4, <3>3, <3>5, <3>6 DEF Follows, Go, b, c, t
      <3> QED
        BY <2>1, <3>1, <3>7, Calling DEF Kept
    <2> QED
      BY <2>2, <2>3, <2>4
  <1>13. CASE SelectEntered
    BY <1>1, <1>4, <1>13 DEF SelectEntered, At
  <1>14. CASE Launch
    <2>1. Is("launch") /\ Head(todo) # EnterStep("top")
      BY <1>2, <1>14 DEF Launch, At
    <2>2. \/ Return(Failure) /\ UNCHANGED windowVars
          \/ Go(<<EnterStep(rows[sel])>>) /\ UNCHANGED windowVars
          \/ Go(<<Step("loadRom")>>) /\ UNCHANGED windowVars
          \/ MessageBox(NULL, <<Step("false")>> \o Tail(todo))
      BY <1>14 DEF Launch
    <2> QED
      BY <1>1, <1>2, <1>3, <1>5, <1>6, <2>1, <2>2
  <1>15. CASE LoadRom
    BY <1>15, Restarted DEF Kept
  <1>16. CASE ShowFileInfo
    <2>1. Is("info")
      BY <1>16 DEF ShowFileInfo, At
    <2>2. CASE Return(Failure) /\ UNCHANGED windowVars
      BY <1>1, <1>3, <2>1, <2>2
    <2>3. CASE Open("rominfo", "main", Deleted("rominfo") \o Tail(todo))
      <3>1. Fits(Head(todo), Tail(todo)) /\ Ordinary(Head(todo)) /\ Under(todo) = NULL /\ Running(todo) = {}
        BY <1>1, <2>1, AtList
      <3>2. Head(todo) # EnterStep("top")
        BY <1>2, <2>1
      <3>3. Tail(todo) = <<>> \/ Head(Tail(todo)).do \notin {"slot2", "moved"}
        BY <2>1, <3>1, <3>2 DEF Fits, CopySteps, ShowingProgress
      <3>4. "rominfo" \in Forms
        BY DEF Forms
      <3> QED
        BY <2>1, <2>3, <3>1, <3>3, <3>4, OpensForm DEF Kept
    <2> QED
      BY <1>16, <2>2, <2>3 DEF ShowFileInfo
  <1>17. CASE GiveUp
    BY <1>1, <1>3, <1>17 DEF GiveUp, Fail, At
  <1>18. CASE Restart
    <2>1. Is("restart") /\ Head(todo) # EnterStep("top")
      BY <1>2, <1>18 DEF Restart, At
    <2>2. (Go(<<Step("loadRom")>>) \/ Go(<<>>)) /\ UNCHANGED windowVars
      BY <1>18 DEF Restart
    <2> QED
      BY <1>1, <1>2, <1>4, <1>5, <2>1, <2>2
  <1>19. CASE ListType
    <2>1. Is("listType") /\ Head(todo) # EnterStep("top")
      BY <1>2, <1>19 DEF ListType, At
    <2>2. (\E d : Go(<<EnterStep(d)>>) \/ Go(<<>>)) /\ UNCHANGED windowVars
      BY <1>19 DEF ListType
    <2> QED
      BY <1>1, <1>2, <1>4, <1>5, <2>1, <2>2
  <1>20. ASSUME NEW what \in {"uiStyle", "language"}, Changed(what) PROVE Kept
    <2>1. Is(what) /\ Head(todo) # EnterStep("top")
      BY <1>2, <1>20 DEF Changed, At
    <2>2. MessageBox("main", <<Step("restart")>> \o Tail(todo)) \/ (Go(<<>>) /\ UNCHANGED windowVars)
      BY <1>20 DEF Changed
    <2> QED
      BY <1>1, <1>2, <1>4, <1>6, <2>1, <2>2
  <1> QED
    BY <1>7, <1>8, <1>9, <1>10, <1>11, <1>12, <1>13, <1>14, <1>15, <1>16, <1>17, <1>18, <1>19, <1>20
    DEF UiStyle, Language

(* The loop of a form that a step came from. *)
LEMMA LoopUnder ==
    ASSUME NEW t, IsSeq(t), Stack(t), NEW S, InLoop(t, S)
    PROVE  /\ t = Push(Head(t), Tail(t)) /\ IsSeq(Tail(t)) /\ Head(t).do = "modal"
           /\ Head(t).form \in Forms \cap S /\ Under(t) = Head(t).form
           /\ Running(t) = {Head(t).form} \cup Running(Tail(t))
           /\ Running(Tail(t)) \subseteq Openers(Head(t).form)
  <1> DEFINE m == Head(t)
             r == Tail(t)
  <1>1. m.do = "modal" /\ m.form \in S /\ t = Push(m, r) /\ IsSeq(r)
    BY Popped DEF InLoop
  <1> HIDE DEF m, r
  <1>2. Fits(m, r)
    BY <1>1, StackPushed
  <1>3. m.form \in Forms /\ Running(r) \subseteq Openers(m.form)
    BY <1>1, <1>2 DEF Fits
  <1>4. Under(t) = m.form
    BY <1>1, UnderPushed DEF Takes, Target
  <1>5. Running(t) = {m.form} \cup Running(r)
    BY <1>1, FormsPushed DEF Running
  <1> QED
    BY <1>1, <1>3, <1>4, <1>5 DEF m, r

(* The steps of the start menu come last. *)
LEMMA AtItems ==
    ASSUME WindowsInv, todo # <<>>, Head(todo).do \in {"item", "refresh"}
    PROVE  /\ Ordinary(Head(todo)) /\ Under(todo) = NULL /\ Running(todo) = {}
           /\ Tail(todo) = <<>> /\ todo = Push(Head(todo), <<>>) /\ Fits(Head(todo), Tail(todo))
  <1> DEFINE a == Head(todo)
             t == Tail(todo)
  <1>1. IsSeq(t) /\ todo = Push(a, t) /\ Fits(a, t) /\ a.do \in {"item", "refresh"}
    BY Top DEF WindowsInv
  <1> HIDE DEF a, t
  <1>2. Ordinary(a) /\ Plain(a)
    BY <1>1 DEF Ordinary, Plain, ShowingProgress
  <1>3. t = <<>>
    BY <1>1 DEF Fits, LastSteps
  <1>4. Under(todo) = NULL /\ Running(todo) = {}
    BY <1>1, <1>2, <1>3, NoSteps, PlainAlike DEF Alike, Running
  <1> QED
    BY <1>1, <1>2, <1>3, <1>4 DEF a, t

LEMMA ItemGo ==
    ASSUME WindowsInv, todo # <<>>, Head(todo).do \in {"item", "refresh"}, UNCHANGED windowVars, NEW s, Call(s),
           \/ s = <<>>
           \/ \E b : s = <<b>> /\ b.do \in ListSteps \ {"uiStyle"}
           \/ \E n \in {"paste", "deleteFile"} : s = <<Step(n), Step("refresh")>>
    PROVE  Kept
  <1>1. CASE s = <<>>
    BY <1>1, AtItems, Calling DEF Follows, Kept
  <1>2. ASSUME NEW b, s = <<b>>, b.do \in ListSteps \ {"uiStyle"} PROVE Kept
    <2>1. Head(todo) # EnterStep("top") /\ Head(todo).do # "false" /\ Head(todo).do \in LastSteps
      BY DEF EnterStep, LastSteps
    <2>2. Under(Tail(todo)) = NULL
      BY AtItems, NoSteps
    <2>3. Fits(b, Tail(todo))
      BY <1>2, <2>1, <2>2, AtItems, FitsList
    <2>4. Ordinary(b)
      BY <1>2 DEF Ordinary, ListSteps, ShowingProgress
    <2>5. Follows(s)
      BY <1>2, <2>3, <2>4 DEF Follows
    <2> QED
      BY <2>5, AtItems, Calling DEF Kept
  <1>3. ASSUME NEW n \in {"paste", "deleteFile"}, s = <<Step(n), Step("refresh")>> PROVE Kept
    <2>1. Fits(Step(n), ToRefresh) /\ Ordinary(Step(n))
      BY FitsFiles DEF FileSteps, BeforeRefresh
    <2>2. Ordinary(Step("refresh")) /\ Fits(Step("refresh"), <<>>)
      BY DEF Ordinary, Step, Fits, ListSteps, LastSteps, BeforeRefresh, RenameSteps, CopySteps, ShowingProgress
    <2>3. Push(Step("refresh"), Tail(todo)) = ToRefresh /\ Tail(todo) = <<>>
      BY AtItems, RestsMade
    <2>4. Follows(s)
      BY <1>3, <2>1, <2>2, <2>3 DEF Follows
    <2> QED
      BY <2>4, AtItems, Calling DEF Kept
  <1> QED
    BY <1>1, <1>2, <1>3

(* The questions about the settings are over. *)
LEMMA SettingsLeft ==
    ASSUME WindowsInv, SettingsDone
    PROVE  \E a, u : /\ a.do = "uiStyle" /\ IsSeq(u) /\ todo' = u
                     /\ todo = Push(a, Push(Step("language"), Push(Step("listType"), u)))
  <1> DEFINE a == Head(todo)
             t == Tail(todo)
             b == Head(t)
             v == Tail(t)
             c == Head(v)
             u == Tail(v)
  <1>1. todo # <<>> /\ a.do = "uiStyle" /\ todo' = SubSeq(todo, 4, Len(todo))
    BY DEF SettingsDone, At
  <1>2. IsSeq(t) /\ todo = Push(a, t) /\ Fits(a, t)
    BY <1>1, Top DEF WindowsInv
  <1>3. t # <<>> /\ b = Step("language") /\ v # <<>> /\ c = Step("listType")
    BY <1>1, <1>2 DEF Fits
  <1>4. t = Push(b, v) /\ IsSeq(v)
    BY <1>2, <1>3, Popped
  <1>5. v = Push(c, u) /\ IsSeq(u)
    BY <1>3, <1>4, Popped
  <1> HIDE DEF a, b, c, t, v, u
  <1>6. todo' = u
    <2>1. 1 \in DOMAIN v /\ 1 \in DOMAIN t /\ 2 \in DOMAIN t
      <3>1. 1 \in DOMAIN v /\ 1 + 1 \in DOMAIN t
        BY <1>4, <1>5, StepPlaces
      <3> QED
        BY <1>4, <3>1, StepPlaces
    <2> DEFINE p == Push(a, t)
               q == Push(b, v)
               r == Push(c, u)
    <2>2. SubSeq(p, 2 + 2, Len(p)) = SubSeq(t, 2 + 1, Len(t))
      BY <1>2, <2>1, Following
    <2>3. SubSeq(q, 1 + 2, Len(q)) = SubSeq(v, 1 + 1, Len(v))
      BY <1>4, <2>1, Following
    <2>4. SubSeq(r, 2, Len(r)) = u
      BY <1>5, Following
    <2>5. todo = p /\ t = q /\ v = r
      BY <1>2, <1>4, <1>5
    <2> HIDE DEF p, q, r
    <2>6. 2 + 2 = 4 /\ 2 + 1 = 3 /\ 1 + 2 = 3 /\ 1 + 1 = 2
      OBVIOUS
    <2>7. SubSeq(p, 4, Len(p)) = SubSeq(t, 3, Len(t)) /\ SubSeq(q, 3, Len(q)) = SubSeq(v, 2, Len(v))
      BY <2>2, <2>3, <2>6, Zenon
    <2> QED
      BY <1>1, <2>4, <2>5, <2>7, Zenon
  <1> QED
    BY <1>1, <1>2, <1>3, <1>4, <1>5, <1>6

LEMMA SettingsOver ==
    ASSUME WindowsInv, SettingsDone
    PROVE  Kept
  <1> DEFINE b == Step("language")
             c == Step("listType")
  <1>1. PICK a, u : /\ a.do = "uiStyle" /\ IsSeq(u) /\ todo' = u
                    /\ todo = Push(a, Push(b, Push(c, u)))
    BY SettingsLeft
  <1> DEFINE v == Push(c, u)
             t == Push(b, v)
  <1>2. UNCHANGED <<windows, visible, popup, focused, below, captured, alive>>
    BY DEF SettingsDone, windowVars
  <1>3. t = Push(b, v) /\ IsSeq(v)
    BY <1>1, Pushed
  <1>4. v = Push(c, u) /\ IsSeq(u)
    BY <1>1
  <1>5. /\ IsSeq(t) /\ todo = Push(a, t) /\ Stack(t) /\ (FocusInv => ~Has(t, {"focus"}))
        /\ todo # <<>> /\ a = Head(todo)
    <2>1. IsSeq(t) /\ todo = Push(a, t)
      BY <1>1, <1>3, Pushed
    <2> HIDE DEF t
    <2>2. todo # <<>> /\ a = Head(todo) /\ t = Tail(todo)
      BY <2>1, Pushed
    <2> QED
      BY <2>1, <2>2, Top DEF WindowsInv, FocusInv
  <1>6. a.do = "uiStyle" /\ b = Step("language") /\ c = Step("listType") /\ todo' = u
    BY <1>1
  <1>7. ~MenuStays
    BY <1>1, <1>5 DEF MenuStays
  <1> HIDE DEF b, c, t, v
  <1>8. Stack(v) /\ Stack(u)
    BY <1>5, <1>3, <1>4, StackPushed
  <1>9. Plain(a) /\ Plain(b) /\ Plain(c)
    BY <1>6 DEF Plain, Step, ShowingProgress
  <1>10. Alike(todo, t) /\ Alike(t, v) /\ Alike(v, u)
    BY <1>5, <1>3, <1>4, <1>9, PlainAlike
  <1>11. Alike(u, todo)
    BY <1>10 DEF Alike
  <1>12. ~Has(t, {"focus"}) => ~Has(u, {"focus"})
    BY <1>3, <1>4, HasPushed
  <1>13. captured' \subseteq alive /\ {focused', below'} \subseteq Window \cup {NULL}
    BY <1>2 DEF WindowsInv, AliveInv
  <1>14. WindowsInv'
    BY <1>2, <1>6, <1>4, <1>7, <1>8, <1>11, <1>13, Staying
  <1>15. ASSUME FocusInv PROVE FocusInv'
    <2>1. focused' \in alive' \cup {NULL}
      BY <1>2, <1>15 DEF FocusInv
    <2> QED
      BY <1>5, <1>6, <1>4, <1>12, <1>14, <1>15, <2>1, FocusKept
  <1> QED
    BY <1>14, <1>15 DEF Kept

LEMMA ItemWindows ==
    ASSUME WindowsInv,
           \/ CopyOrCut("copy") \/ CopyOrCut("cut") \/ Paste \/ DeleteItem \/ Refresh \/ ShowHelp \/ SetPatches
           \/ InfoItem \/ SetSystemParam \/ SettingsDone
    PROVE  Kept
  <1> DEFINE Is(names) == todo # <<>> /\ Head(todo).do \in names
  <1>1. "enterDir" \in ListSteps \ {"uiStyle"} /\ "info" \in ListSteps \ {"uiStyle"}
        /\ \A n, d : Step(n).do = n /\ EnterStep(d).do = "enterDir"
    BY DEF ListSteps, Step, EnterStep
  <1>2. ASSUME NEW mode, CopyOrCut(mode) PROVE Kept
    <2>1. Is({"item", "refresh"})
      BY <1>2 DEF CopyOrCut, AtItem, At
    <2>2. \/ \E x : Return(x) /\ UNCHANGED windowVars
          \/ MessageBox("main", Tail(todo))
      BY <1>2 DEF CopyOrCut
    <2>3. CASE MessageBox("main", Tail(todo))
      <3> DEFINE r == Tail(todo)
      <3>1. Follows(<<>>) /\ r = <<>> /\ r = <<>> \o Tail(todo)
        BY <2>1, AtItems, Tuples, Unfold DEF Follows
      <3>2. MessageBox("main", r)
        BY <2>3
      <3> HIDE DEF r
      <3> QED
        BY <2>1, <3>1, <3>2, AtItems, Asks DEF Kept
    <2> QED
      BY <2>1, <2>2, <2>3, ItemGo DEF Return
  <1>3. CASE Paste
    <2>1. Is({"item", "refresh"}) /\ UNCHANGED windowVars /\ Call(<<Step("paste"), Step("refresh")>>)
      BY <1>3 DEF Paste, AtItem, At, Go
    <2> QED
      BY <2>1, ItemGo
  <1>4. CASE DeleteItem
    <2>1. /\ Is({"item", "refresh"}) /\ UNCHANGED windowVars
          /\ Call(<<>>) \/ Call(<<Step("deleteFile"), Step("refresh")>>)
      BY <1>4 DEF DeleteItem, AtItem, At, Go, Return
    <2> QED
      BY <2>1, ItemGo
  <1>5. CASE Refresh
    <2>1. /\ Is({"item", "refresh"}) /\ UNCHANGED windowVars
          /\ Call(<<>>) \/ \E d : Call(<<EnterStep(d)>>)
      BY <1>5 DEF Refresh, At, Go
    <2> QED
      BY <1>1, <2>1, ItemGo
  <1>6. ASSUME NEW i, NEW f \in Forms, OpenForm(i, f, <<>>) PROVE Kept
    <2>1. Is({"item", "refresh"}) /\ Open(f, "main", <<>> \o Deleted(f) \o Tail(todo))
      BY <1>6 DEF OpenForm, AtItem, At
    <2>2. <<>> \o Deleted(f) = Deleted(f)
      BY DEF Deleted
    <2> QED
      BY <2>1, <2>2, AtItems, OpensForm DEF Kept
  <1>7. CASE InfoItem
    <2>1. Is({"item", "refresh"}) /\ UNCHANGED windowVars /\ Call(<<Step("info")>>)
      BY <1>7 DEF InfoItem, AtItem, At, Go
    <2> QED
      BY <1>1, <2>1, ItemGo
  <1>8. CASE SetSystemParam
    <2>1. /\ Is({"item", "refresh"})
          /\ Open("setting", "main", <<Step("uiStyle"), Step("language"), Step("listType")>> \o Deleted("setting")
                    \o Tail(todo))
      BY <1>8 DEF SetSystemParam, OpenForm, AtItem, At
    <2> QED
      BY <2>1, AtItems, OpensSettings DEF Kept
  <1>9. "help" \in Forms /\ "patches" \in Forms
    BY DEF Forms, SettingWnds
  <1> QED
    BY <1>2, <1>3, <1>4, <1>5, <1>6, <1>7, <1>8, <1>9, SettingsOver DEF ShowHelp, SetPatches

(* The handlers of a form's buttons and keys come back to its loop. *)
LEMMA AtForm ==
    ASSUME WindowsInv, todo # <<>>, NEW S, InLoop(Tail(todo), S),
           Head(todo).do \in {"click", "confirm", "saveType", "focus"}
    PROVE  /\ Plain(Head(todo)) /\ IsSeq(Tail(todo)) /\ Stack(Tail(todo)) /\ Alike(Tail(todo), todo)
           /\ Tail(todo) = Push(Head(Tail(todo)), Tail(Tail(todo))) /\ IsSeq(Tail(Tail(todo)))
           /\ todo = Push(Head(todo), Tail(todo))
           /\ Head(Tail(todo)).form \in Forms \cap S /\ Head(Tail(todo)).do = "modal"
           /\ Under(todo) = Head(Tail(todo)).form
           /\ Running(todo) \subseteq {Head(Tail(todo)).form} \cup Openers(Head(Tail(todo)).form)
  <1> DEFINE a == Head(todo)
             t == Tail(todo)
  <1>1. IsSeq(t) /\ todo = Push(a, t) /\ Fits(a, t) /\ Stack(t) /\ InLoop(t, S)
    BY Top DEF WindowsInv
  <1>2. Plain(a)
    BY DEF Plain, ShowingProgress
  <1> HIDE DEF a, t
  <1>3. Alike(todo, t)
    BY <1>1, <1>2, PlainAlike
  <1>4. Alike(t, todo)
    BY <1>3 DEF Alike
  <1>5. /\ t = Push(Head(t), Tail(t)) /\ IsSeq(Tail(t)) /\ Head(t).do = "modal"
        /\ Head(t).form \in Forms \cap S /\ Under(t) = Head(t).form
        /\ Running(t) \subseteq {Head(t).form} \cup Openers(Head(t).form)
    BY <1>1, LoopUnder
  <1>6. Under(todo) = Under(t) /\ Running(todo) = Running(t)
    BY <1>3 DEF Alike
  <1> QED
    BY <1>1, <1>2, <1>4, <1>5, <1>6 DEF a, t

(* A button that is clicked belongs to the form whose loop runs. *)
LEMMA ButtonOf ==
    ASSUME WindowsInv, NEW f \in TopLevel, NEW b \in ToSet(Children[f]), Clicked(b)
    PROVE  /\ todo # <<>> /\ Head(todo).do = "click" /\ Fits(Head(todo), Tail(todo))
           /\ f \in Forms => InLoop(Tail(todo), {f})
           /\ f = "main" => Tail(todo) = <<>>
  <1>1. todo # <<>> /\ Head(todo).do = "click" /\ Head(todo).on = b
    BY DEF Clicked, At
  <1>2. Fits(Head(todo), Tail(todo))
    BY <1>1, Top DEF WindowsInv
  <1>3. \/ Tail(todo) = <<>> /\ b \in ToSet(Children["main"])
        \/ \E g \in Forms : InLoop(Tail(todo), {g}) /\ b \in ToSet(Children[g])
    BY <1>1, <1>2 DEF Fits
  <1>4. \A v \in TopLevel : v # f => b \notin ToSet(Children[v])
    BY WindowsAssumption
  <1> QED
    BY <1>1, <1>2, <1>3, <1>4, Shapes

LEMMA FormEnds ==
    ASSUME WindowsInv, todo # <<>>, InLoop(Tail(todo), Forms), Head(todo).do \in {"click", "confirm"},
           NEW x, CloseModal(Tail(todo), x)
    PROVE  Kept
  <1> DEFINE a == Head(todo)
             t == Tail(todo)
             m == Head(t)
             r == Tail(t)
  <1>1. Plain(a) /\ t = Push(m, r) /\ IsSeq(r) /\ todo = Push(a, t) /\ m.do = "modal"
    BY AtForm
  <1>2. CloseModal(t, x)
    OBVIOUS
  <1> HIDE DEF a, t, m, r
  <1>3. CloseModal(Push(m, r), x) /\ todo = Push(a, Push(m, r))
    BY <1>1, <1>2
  <1> QED
    BY <1>1, <1>3, Closing DEF Kept

LEMMA FormGo ==
    ASSUME WindowsInv, todo # <<>>, InLoop(Tail(todo), Forms), Head(todo).do \in {"click", "confirm", "saveType"},
           UNCHANGED windowVars, NEW s, Call(s),
           s = <<>> \/ (s = <<Step("saveType")>> /\ InLoop(Tail(todo), {"rominfo"}))
    PROVE  Kept
  <1>1. Ordinary(Head(todo))
    BY DEF Ordinary, ShowingProgress
  <1>2. CASE s = <<>>
    BY <1>1, <1>2, Calling DEF Follows, Kept
  <1>3. CASE s = <<Step("saveType")>> /\ InLoop(Tail(todo), {"rominfo"})
    <2>1. Fits(Step("saveType"), Tail(todo))
      BY <1>3 DEF Fits, InLoop, Step, ListSteps, LastSteps, BeforeRefresh, RenameSteps, CopySteps, ShowingProgress
    <2>2. Ordinary(Step("saveType"))
      BY DEF Ordinary, Step, ShowingProgress
    <2>3. Follows(s)
      BY <1>3, <2>1, <2>2 DEF Follows
    <2> QED
      BY <1>1, <2>3, Calling DEF Kept
  <1> QED
    BY <1>2, <1>3

LEMMA FormWindows ==
    ASSUME WindowsInv,
           \/ ShowSaveType \/ OnOK \/ OnCancel \/ OnSettingOK \/ Confirm \/ OnSaveType
    PROVE  Kept
  <1>1. Forms \subseteq TopLevel /\ SettingWnds \subseteq Forms /\ "rominfo" \in Forms
    BY Shapes DEF Forms
  <1>2. CASE ShowSaveType
    <2>1. todo # <<>> /\ Head(todo).do = "saveType"
      BY <1>2 DEF ShowSaveType, At
    <2>2. InLoop(Tail(todo), {"rominfo"})
      BY <2>1, Top DEF Fits, WindowsInv
    <2>3. InLoop(Tail(todo), Forms)
      BY <1>1, <2>2 DEF InLoop
    <2>4. CASE Go(<<>>) /\ UNCHANGED windowVars
      BY <2>1, <2>3, <2>4, FormGo DEF Go
    <2>5. CASE Open("savetype", "rominfo", Deleted("savetype") \o Tail(todo))
      <3>1. Ordinary(Head(todo)) /\ "savetype" \in Forms
        BY <2>1 DEF Ordinary, ShowingProgress, Forms, SettingWnds
      <3>2. Head(Tail(todo)).do = "modal" /\ Under(todo) = "rominfo" /\ Running(todo) \subseteq {"rominfo"} \cup Openers("rominfo")
        BY <2>1, <2>2, AtForm
      <3>3. Running(todo) \subseteq Openers("savetype")
        BY <3>2 DEF Openers
      <3> QED
        BY <2>1, <2>5, <3>1, <3>2, <3>3, OpensForm DEF Kept
    <2> QED
      BY <1>2, <2>4, <2>5 DEF ShowSaveType
  <1>3. ASSUME NEW f \in Forms, NEW b \in ToSet(Children[f]), NEW x, EndForm(f, b, x) PROVE Kept
    <2>1. Clicked(b) /\ CloseModal(Tail(todo), x)
      BY <1>3 DEF EndForm
    <2>2. todo # <<>> /\ Head(todo).do = "click" /\ InLoop(Tail(todo), Forms)
      BY <1>1, <1>3, <2>1, ButtonOf DEF InLoop
    <2> QED
      BY <2>1, <2>2, FormEnds
  <1>4. CASE OnOK
    <2>1. PICK f \in Forms \ SettingWnds : EndForm(f, OkButton[f], OK)
      BY <1>4 DEF OnOK
    <2>2. OkButton[f] \in ToSet(Children[f])
      BY MenuAssumption
    <2> QED
      BY <1>3, <2>1, <2>2
  <1>5. CASE OnCancel
    <2>1. PICK f \in Forms \ {"help", "rominfo"} : EndForm(f, CancelButton[f], CANCEL)
      BY <1>5 DEF OnCancel
    <2>2. CancelButton[f] \in ToSet(Children[f])
      BY MenuAssumption
    <2> QED
      BY <1>3, <2>1, <2>2
  <1>6. CASE OnSettingOK
    <2>1. PICK f \in SettingWnds : Clicked(OkButton[f]) /\ MessageBox(f, <<Step("confirm")>> \o Tail(todo))
      BY <1>6 DEF OnSettingOK
    <2>2. OkButton[f] \in ToSet(Children[f]) /\ f \in Forms
      BY <1>1, MenuAssumption
    <2>3. todo # <<>> /\ Head(todo).do = "click" /\ InLoop(Tail(todo), {f})
      BY <1>1, <2>1, <2>2, ButtonOf
    <2>4. Under(todo) = f /\ Running(todo) \subseteq {f} \cup Openers(f)
      BY <2>3, AtForm
    <2>5. Running(todo) \subseteq Openers("msgbox")
      BY <1>1, <2>4 DEF Openers, SettingWnds, Forms
    <2> DEFINE b == Step("confirm")
               s == <<b>>
               r == s \o Tail(todo)
    <2>6. Fits(b, Tail(todo))
      BY <2>3 DEF Fits, InLoop, Step, ListSteps, LastSteps, BeforeRefresh, RenameSteps, CopySteps, ShowingProgress
    <2>7. b.do \notin {"slot2", "moved"} /\ Ordinary(b)
      BY DEF Step, Ordinary, ShowingProgress
    <2>8. Ordinary(Head(todo))
      BY <2>3 DEF Ordinary, ShowingProgress
    <2>9. Follows(s) /\ s # <<>> /\ Head(s) = b /\ MessageBox(f, r)
      BY <2>1, <2>6, <2>7 DEF Follows
    <2> HIDE DEF b, s
    <2>10. Head(r) = b
      BY <2>3, <2>8, <2>9, Replaced
    <2> HIDE DEF r
    <2>11. r = s \o Tail(todo)
      BY DEF r
    <2> QED
      BY <2>3, <2>4, <2>5, <2>7, <2>8, <2>9, <2>10, <2>11, Asks DEF Kept
  <1>7. CASE Confirm
    <2>1. todo # <<>> /\ Head(todo).do = "confirm"
      BY <1>7 DEF Confirm, At
    <2>2. InLoop(Tail(todo), Forms)
      BY <1>1, <2>1, Top DEF Fits, InLoop, WindowsInv
    <2>3. CASE CloseModal(Tail(todo), OK)
      BY <2>1, <2>2, <2>3, FormEnds
    <2>4. CASE Go(<<>>) /\ UNCHANGED windowVars
      BY <2>1, <2>2, <2>4, FormGo DEF Go
    <2> QED
      BY <1>7, <2>3, <2>4 DEF Confirm
  <1>8. CASE OnSaveType
    <2>1. Clicked(CancelButton["rominfo"]) /\ Call(<<Step("saveType")>>) /\ UNCHANGED windowVars
      BY <1>8 DEF OnSaveType, Go
    <2>2. CancelButton["rominfo"] \in ToSet(Children["rominfo"])
      BY <1>1, MenuAssumption
    <2>3. todo # <<>> /\ Head(todo).do = "click" /\ InLoop(Tail(todo), {"rominfo"})
      BY <1>1, <2>1, <2>2, ButtonOf
    <2>4. InLoop(Tail(todo), Forms)
      BY <1>1, <2>3 DEF InLoop
    <2> QED
      BY <2>1, <2>3, <2>4, FormGo
  <1> QED
    BY <1>2, <1>4, <1>5, <1>6, <1>7, <1>8

-----------------------------------------------------------------------------
(* The window that comes to the front is listed once. *)
LEMMA RaisedIs ==
    ASSUME NEW w \in TopLevel, windows \in Seq(TopLevel), IsInjective(windows)
    PROVE  Raised(w) \in Seq(TopLevel) /\ IsInjective(Raised(w)) /\ ToSet(Raised(w)) = ToSet(windows)
  <1>1. CASE Contains(windows, w)
    <2>1. w \in ToSet(windows)
      BY <1>1 DEF Contains, ToSet
    <2> DEFINE u == Without(w)
    <2>2. u \in Seq(TopLevel) /\ IsInjective(u) /\ ToSet(u) = ToSet(windows) \ {w}
      BY Removed DEF Without
    <2> HIDE DEF u
    <2>3. <<w>> \o u \in Seq(TopLevel) /\ IsInjective(<<w>> \o u) /\ ToSet(<<w>> \o u) = ToSet(u) \cup {w}
      BY <2>2, InFrontOf
    <2>4. Raised(w) = <<w>> \o u
      BY <1>1 DEF Raised, u
    <2> QED
      BY <2>1, <2>2, <2>3, <2>4
  <1>2. CASE ~Contains(windows, w)
    BY <1>2 DEF Raised
  <1> QED
    BY <1>1, <1>2

(* The last step that is left. *)
LEMMA AtLast ==
    ASSUME WindowsInv, todo # <<>>, Plain(Head(todo)), Tail(todo) = <<>>
    PROVE  /\ Running(todo) = {} /\ Pending(todo) = {} /\ ~Has(todo, ShowingProgress)
           /\ "progress" \notin visible
  <1>1. IsSeq(Tail(todo)) /\ todo = Push(Head(todo), Tail(todo))
    BY Top DEF WindowsInv
  <1>2. Alike(todo, Tail(todo))
    BY <1>1, PlainAlike
  <1>3. Running(todo) = {} /\ Pending(todo) = {} /\ ~Has(todo, ShowingProgress)
    BY <1>2, NoSteps DEF Alike, Running, Pending
  <1> QED
    BY <1>3 DEF WindowsInv, AliveInv

LEMMA StartWindows ==
    ASSUME WindowsInv, StartButton \/ ClickItem \/ LeaveMenu
    PROVE  Kept
  <1>1. /\ IsSeq(<<>>) /\ Stack(<<>>) /\ Running(<<>>) = {} /\ Pending(<<>>) = {} /\ Under(<<>>) = NULL
        /\ ~Has(<<>>, {"focus"}) /\ ~Has(<<>>, ShowingProgress)
    BY Tuples, NoSteps DEF Running, Pending
  <1>2. CASE StartButton
    <2>1. "start" \in ToSet(Children["main"]) /\ "main" \in TopLevel /\ "startMenu" \in TopLevel /\ "startMenu" \in Lasting
      BY WindowsAssumption, Shapes DEF Lasting
    <2>2. todo # <<>> /\ Head(todo).do = "click" /\ Tail(todo) = <<>>
      BY <1>2, <2>1, ButtonOf DEF StartButton
    <2>3. Plain(Head(todo))
      BY <2>2 DEF Plain, ShowingProgress
    <2>4. /\ visible' = visible \cup {"startMenu"} /\ popup' = "startMenu" /\ windows' = Raised("startMenu")
          /\ UNCHANGED <<focused, below, captured, alive>> /\ todo' = <<>>
      BY <1>2, <2>2, <1>1, Unfold DEF StartButton, Go, Call
    <2>5. windows' \in Seq(TopLevel) /\ IsInjective(windows') /\ ToSet(windows') = ToSet(windows)
      BY <2>1, <2>4, RaisedIs DEF WindowsInv, ListInv
    <2>6. MenuStays'
      BY <1>1, <2>4 DEF MenuStays
    <2>7. Running(todo) = {} /\ Pending(todo) = {} /\ "progress" \notin visible
      BY <2>2, <2>3, AtLast
    <2>8. visible' \cup captured' \subseteq alive /\ {focused', below'} \subseteq Window \cup {NULL} /\ "progress" \notin visible'
      BY <2>1, <2>4, <2>7 DEF WindowsInv, AliveInv
    <2>9. WindowsInv'
      BY <1>1, <2>4, <2>5, <2>6, <2>7, <2>8, NoForms
    <2>10. ASSUME FocusInv PROVE FocusInv'
      <3>1. focused' \in alive' \cup {NULL}
        BY <2>4, <2>10 DEF FocusInv
      <3> QED
        BY <1>1, <2>4, <2>9, <2>10, <3>1, FocusKept
    <2> QED
      BY <2>9, <2>10 DEF Kept
  <1>3. ASSUME ClickItem \/ LeaveMenu PROVE Kept
    <2>1. todo # <<>> /\ Head(todo).do \in {"clickItem", "leave"}
      BY <1>3 DEF ClickItem, LeaveMenu, At
    <2>2. Tail(todo) = <<>>
      BY <2>1, Top DEF WindowsInv, Fits, LastSteps
    <2>3. Plain(Head(todo))
      BY <2>1 DEF Plain, ShowingProgress
    <2>4. /\ visible' = visible \ {"startMenu"} /\ popup' = NULL /\ UNCHANGED <<windows, focused, below, captured, alive>>
          /\ (\E s : todo' = s \o <<>> /\ (s = <<>> \/ \E i : s = <<ItemStep(i)>>))
      BY <1>3, <2>2 DEF ClickItem, LeaveMenu, HideMenu, Go, Call
    <2>5. /\ IsSeq(todo') /\ Stack(todo') /\ Running(todo') = {} /\ Pending(todo') = {} /\ Under(todo') = NULL
          /\ ~Has(todo', {"focus"}) /\ ~Has(todo', ShowingProgress)
      <3>1. CASE todo' = <<>>
        BY <1>1, <3>1
      <3>2. ASSUME NEW i, todo' = Push(ItemStep(i), <<>>)
            PROVE  /\ IsSeq(todo') /\ Stack(todo') /\ Running(todo') = {} /\ Pending(todo') = {} /\ Under(todo') = NULL
                   /\ ~Has(todo', {"focus"}) /\ ~Has(todo', ShowingProgress)
        <4> DEFINE b == ItemStep(i)
        <4>1. b.do = "item"
          BY DEF ItemStep
        <4> HIDE DEF b
        <4>2. Fits(b, <<>>)
          BY <4>1 DEF Fits, ListSteps, LastSteps, BeforeRefresh, RenameSteps, CopySteps, ShowingProgress
        <4>3. todo' = Push(b, <<>>)
          BY <3>2 DEF b
        <4>4. IsSeq(todo') /\ Stack(todo')
          BY <1>1, <4>2, <4>3, Pushed, StackPushed
        <4>5. Running(todo') = {} /\ Pending(todo') = {} /\ Under(todo') = NULL
          BY <1>1, <4>1, <4>3, FormsPushed, UnderPushed DEF Running, Pending, Takes, ShowingProgress
        <4>6. ~Has(todo', {"focus"}) /\ ~Has(todo', ShowingProgress)
          BY <1>1, <4>1, <4>3, HasPushed DEF ShowingProgress
        <4> QED
          BY <4>4, <4>5, <4>6
      <3>3. /\ \A i : <<ItemStep(i)>> \o <<>> = Push(ItemStep(i), <<>>)
            /\ <<>> \o <<>> = <<>>
        BY <1>1, Unfold
      <3> QED
        BY <2>4, <3>1, <3>2, <3>3
    <2>6. Running(todo) = {} /\ Pending(todo) = {} /\ "progress" \notin visible
      BY <2>1, <2>2, <2>3, AtLast
    <2>7. visible' \cup captured' \subseteq alive /\ {focused', below'} \subseteq Window \cup {NULL} /\ "progress" \notin visible'
      BY <2>4, <2>6 DEF WindowsInv, AliveInv
    <2>8. windows \in Seq(TopLevel) /\ IsInjective(windows)
      BY DEF WindowsInv, ListInv
    <2>9. WindowsInv'
      BY <2>4, <2>5, <2>6, <2>7, <2>8, NoForms
    <2>10. ASSUME FocusInv PROVE FocusInv'
      <3>1. focused' \in alive' \cup {NULL}
        BY <2>4, <2>10 DEF FocusInv
      <3> QED
        BY <2>5, <2>9, <2>10, <3>1, FocusKept
    <2> QED
      BY <2>9, <2>10 DEF Kept
  <1> QED
    BY <1>2, <1>3

LEMMA FocusGiven ==
    ASSUME WindowsInv, FocusBelow
    PROVE  Kept
  <1> DEFINE a == Head(todo)
             t == Tail(todo)
  <1>1. todo # <<>> /\ a.do = "focus" /\ UNCHANGED <<windows, visible, popup, below, captured, alive>>
        /\ focused' \in {below, focused} /\ todo' = <<>> \o t
    BY DEF FocusBelow, At, Go, Call
  <1>2. IsSeq(t) /\ todo = Push(a, t) /\ Fits(a, t) /\ Stack(t)
    BY <1>1, Top DEF WindowsInv
  <1>3. FocusInv => ~Has(t, {"focus"}) /\ below \in alive \cup {NULL}
    BY <1>1 DEF FocusInv, At
  <1> HIDE DEF a, t
  <1>4. todo' = t
    BY <1>1, <1>2, Unfold
  <1>5. Plain(a)
    BY <1>1 DEF Plain, ShowingProgress
  <1>6. Alike(todo, t)
    BY <1>2, <1>5, PlainAlike
  <1>7. Alike(t, todo)
    BY <1>6 DEF Alike
  <1>8. MenuStays => t = <<>>
    <2>1. t = <<>> \/ InLoop(t, Forms)
      BY <1>1, <1>2 DEF Fits
    <2>2. InLoop(t, Forms) => Under(t) \in Forms
      BY <1>2, LoopUnder
    <2>3. NULL \notin Forms
      BY Shapes
    <2> QED
      BY <1>6, <2>1, <2>2, <2>3 DEF MenuStays, Alike
  <1>9. captured' \subseteq alive /\ {focused', below'} \subseteq Window \cup {NULL}
    BY <1>1 DEF WindowsInv, AliveInv
  <1>10. WindowsInv'
    BY <1>1, <1>2, <1>4, <1>7, <1>8, <1>9, Staying
  <1>11. ASSUME FocusInv PROVE FocusInv'
    <2>1. focused' \in alive' \cup {NULL}
      BY <1>1, <1>3, <1>11 DEF FocusInv
    <2> QED
      BY <1>2, <1>3, <1>4, <1>10, <1>11, <2>1, FocusKept
  <1> QED
    BY <1>10, <1>11 DEF Kept

(* Nothing about the windows changes. *)
LEMMA SameWindows ==
    ASSUME WindowsInv, UNCHANGED uiVars
    PROVE  Kept
  <1>1. UNCHANGED <<windows, visible, popup, focused, below, captured, alive, todo, answer>>
    BY DEF uiVars, windowVars, flow
  <1>2. StackInv' /\ PopupInv'
    BY <1>1 DEF WindowsInv, StackInv, PopupInv, MenuStays
  <1>3. AliveInv' /\ ListInv'
    BY <1>1 DEF WindowsInv, AliveInv, ListInv
  <1>4. FocusInv => FocusInv'
    BY <1>1 DEF FocusInv, At
  <1> QED
    BY <1>1, <1>2, <1>3, <1>4 DEF Kept, WindowsInv

(* Who waits for input. *)
LEMMA AtWaiting ==
    ASSUME WindowsInv, Waiting
    PROVE  /\ \/ /\ todo = <<>> /\ Running(todo) = {} /\ Pending(todo) = {} /\ "progress" \notin visible
                 /\ popup = NULL \/ (MenuStays /\ popup = "startMenu" /\ popup \in visible)
              \/ /\ todo # <<>> /\ popup \in Forms \cap visible /\ ~MenuStays
                 /\ Family(popup) \subseteq visible
                 /\ Head(todo).do = "modal" /\ Head(todo).form = popup /\ InLoop(todo, {popup})
           /\ FocusInv => ~Has(todo, {"focus"})
  <1>1. CASE todo = <<>>
    BY <1>1, NoSteps DEF Running, Pending, WindowsInv, PopupInv, MenuStays, AliveInv
  <1>2. CASE InModal
    <2> DEFINE f == Head(todo).form
    <2>1. todo # <<>> /\ Head(todo).do = "modal" /\ InLoop(todo, {f})
      BY <1>2 DEF InModal, At, InLoop
    <2>2. IsSeq(todo) /\ Stack(todo)
      BY DEF WindowsInv, StackInv
    <2>3. f \in Forms /\ Under(todo) = f /\ f \in Running(todo)
      BY <2>1, <2>2, LoopUnder
    <2>4. ~MenuStays /\ popup = f
      BY <2>1, <2>3, Shapes DEF MenuStays, WindowsInv, PopupInv
    <2>5. Family(f) \subseteq visible /\ f \in Family(f)
      BY <2>3, Shapes DEF WindowsInv, AliveInv
    <2>6. FocusInv => ~Has(todo, {"focus"})
      BY <2>1, <2>2, Popped, HasPushed DEF FocusInv
    <2> QED
      BY <2>1, <2>3, <2>4, <2>5, <2>6
  <1> QED
    BY <1>1, <1>2 DEF Waiting, Idle

(* The loop that is running gets the input. *)
LEMMA InputFromInv == WindowsInv => InputReachesTop
  <1> SUFFICES ASSUME WindowsInv PROVE InputReachesTop
    OBVIOUS
  <1> QED
    BY AtWaiting DEF InputReachesTop, Waiting, Idle, InModal, At

(* A handler begins, in the loop that waits. *)
LEMMA Handling ==
    ASSUME WindowsInv, Waiting, UNCHANGED <<windows, visible, popup, alive>>, NEW s, todo' = s \o todo,
           \/ s = <<>>
           \/ \E b : s = <<b>> /\ Plain(b) /\ Fits(b, todo) /\ (MenuStays => b.do \in {"focus", "clickItem", "leave"})
           \/ \E b, c : s = <<b, c>> /\ Plain(b) /\ Plain(c) /\ Fits(b, Push(c, todo)) /\ Fits(c, todo) /\ ~MenuStays,
           captured' \subseteq alive, {focused', below'} \subseteq Window \cup {NULL}
    PROVE  /\ WindowsInv' /\ IsSeq(todo')
           /\ s = <<>> => todo' = todo
           /\ \A b : s = <<b>> => todo' = Push(b, todo)
  <1>1. IsSeq(todo) /\ Stack(todo)
    BY DEF WindowsInv, StackInv
  <1>2. CASE s = <<>>
    <2>1. todo' = todo
      BY <1>1, <1>2, Unfold
    <2>2. Alike(todo', todo)
      BY <2>1 DEF Alike
    <2>3. WindowsInv'
      BY <1>1, <2>1, <2>2, Staying DEF MenuStays
    <2> QED
      BY <1>1, <1>2, <2>1, <2>3
  <1>3. ASSUME NEW b, s = <<b>>, Plain(b), Fits(b, todo), MenuStays => b.do \in {"focus", "clickItem", "leave"}
        PROVE  WindowsInv' /\ IsSeq(todo') /\ todo' = Push(b, todo)
    <2>1. todo' = Push(b, todo)
      BY <1>1, <1>3, Unfold
    <2>2. IsSeq(todo') /\ Head(todo') = b
      BY <1>1, <2>1, Pushed
    <2>3. Stack(todo')
      BY <1>1, <1>3, <2>1, StackPushed
    <2>4. Alike(todo', todo)
      BY <1>1, <1>3, <2>1, PlainAlike
    <2> QED
      BY <1>3, <2>1, <2>2, <2>3, <2>4, Staying
  <1>4. ASSUME NEW b, NEW c, s = <<b, c>>, Plain(b), Plain(c), Fits(b, Push(c, todo)), Fits(c, todo), ~MenuStays
        PROVE  WindowsInv' /\ IsSeq(todo')
    <2>1. todo' = Push(b, Push(c, todo))
      <3>1. <<b, c>> \o todo = Push(b, Push(c, todo))
        BY <1>1, Unfold
      <3> QED
        BY <1>4, <3>1
    <2>2. IsSeq(Push(c, todo))
      BY <1>1, Pushed
    <2>3. Stack(Push(c, todo))
      BY <1>1, <1>4, StackPushed
    <2>4. IsSeq(todo')
      BY <2>1, <2>2, Pushed
    <2>5. Stack(todo')
      BY <1>4, <2>1, <2>2, <2>3, StackPushed
    <2>6. Alike(Push(c, todo), todo) /\ Alike(todo', Push(c, todo))
      BY <1>1, <1>4, <2>1, <2>2, PlainAlike
    <2>7. Alike(todo', todo)
      BY <2>6 DEF Alike
    <2> QED
      BY <1>4, <2>4, <2>5, <2>7, Staying
  <1>5. (\E b : s = <<b>>) => s # <<>>
    OBVIOUS
  <1>6. (\E b, c : s = <<b, c>>) => s # <<>> /\ \A b : s # <<b>>
    <2>1. ASSUME NEW b, NEW c, NEW d PROVE <<b, c>> # <<d>>
      <3>1. Len(<<b, c>>) = 2 /\ Len(<<d>>) = 1
        OBVIOUS
      <3> QED
        BY <3>1
    <2> QED
      BY <2>1
  <1>7. \A b, c : <<b>> = <<c>> => b = c
    OBVIOUS
  <1> QED
    BY <1>2, <1>3, <1>4, <1>5, <1>6, <1>7

(* The first visible window takes a key. *)
LEMMA KeyWindows ==
    ASSUME WindowsInv, Key
    PROVE  Kept
  <1> DEFINE shown == Foremost(Receivers, visible)
  <1>1. PICK k \in Keys : KeyOf(shown, k) # <<>> /\ Handle(KeyOf(shown, k))
    BY DEF Key
  <1>2. Waiting /\ UNCHANGED <<windows, visible, popup, focused, below, captured, alive>>
    BY DEF Key, windowVars
  <1>3. IsSeq(Receivers)
    <2>1. windows \in Seq(TopLevel)
      BY DEF WindowsInv, ListInv
    <2> QED
      BY <2>1, StepsOf, Tuples DEF Receivers
  <1>4. shown = NULL \/ shown \in ToSet(Receivers) \cap visible
    BY <1>3, ForemostIs
  <1>5. \A x : ToSet(<<x>>) = {x}
    BY DEF ToSet
  <1> DEFINE Right(b) == /\ Plain(b) /\ Fits(b, todo) /\ b.do # "focus"
                         /\ MenuStays => b.do \in {"focus", "clickItem", "leave"}
             s == KeyOf(shown, k)
  <1>6. \E b : s = <<b>> /\ Right(b)
    <2>1. NULL \notin Forms \cup {"startMenu", "main"} /\ Forms \cap {"startMenu", "main"} = {}
      BY Shapes
    <2>2. CASE todo = <<>> /\ popup = NULL
      <3>1. ~MenuStays /\ Under(todo) = NULL /\ Running(todo) = {}
        BY <2>1, <2>2, NoSteps DEF MenuStays, Running
      <3>2. shown \notin Forms
        BY <1>4, <2>1, <2>2, <3>1 DEF Receivers, WindowsInv, ListInv
      <3> HIDE DEF shown
      <3>3. s = KeyOfMenu(k) \/ s = KeyOfMain(k)
        BY <1>1, <3>2 DEF KeyOf
      <3>4. \/ \E n \in {"launch", "back", "info", "clickItem", "leave"} : s = <<Step(n)>>
            \/ \E d : s = <<EnterStep(d)>>
            \/ s = <<ClickStep("start")>>
        BY <1>1, <3>3 DEF KeyOfMenu, KeyOfMain
      <3> HIDE DEF s
      <3> USE DEF Fits, ListSteps, LastSteps, BeforeRefresh, RenameSteps, CopySteps, ShowingProgress, Plain
      <3>5. \A n \in {"launch", "back", "info", "clickItem", "leave"} : Right(Step(n))
        BY <2>2, <3>1 DEF Step
      <3>6. \A d : Right(EnterStep(d))
        BY <2>2, <3>1 DEF EnterStep
      <3>7. Right(ClickStep("start"))
        BY <2>2, <3>1, WindowsAssumption DEF ClickStep
      <3> HIDE DEF Right
      <3> QED
        BY <3>4, <3>5, <3>6, <3>7
    <2>3. CASE todo = <<>> /\ popup = "startMenu" /\ popup \in visible
      <3>1. ToSet(Receivers) = {"startMenu"}
        BY <1>5, <2>1, <2>3, Shapes DEF Receivers
      <3>2. shown \in {"startMenu", NULL}
        BY <1>4, <3>1
      <3> HIDE DEF shown
      <3>3. s = KeyOfMenu(k)
        BY <1>1, <2>1, <3>2 DEF KeyOf
      <3>4. \E n \in {"clickItem", "leave"} : s = <<Step(n)>>
        BY <1>1, <3>3 DEF KeyOfMenu
      <3> HIDE DEF s
      <3>5. \A n \in {"clickItem", "leave"} : Right(Step(n))
        BY <2>3 DEF Step, Fits, ListSteps, LastSteps, BeforeRefresh, RenameSteps, CopySteps, ShowingProgress, Plain
      <3> QED
        BY <3>4, <3>5
    <2>4. CASE /\ todo # <<>> /\ popup \in Forms \cap visible /\ ~MenuStays
               /\ Head(todo).do = "modal" /\ Head(todo).form = popup
      <3>1. ToSet(Receivers) = {popup}
        BY <1>5, <2>1, <2>4 DEF Receivers
      <3>2. shown \in {popup, NULL}
        BY <1>4, <3>1
      <3> HIDE DEF shown
      <3>3. s = KeyOfForm(popup, k)
        BY <1>1, <2>1, <2>4, <3>2 DEF KeyOf
      <3>4. \/ s = <<ClickStep(OkButton[popup])>>
            \/ popup \in SettingWnds \cup {"msgbox"} /\ s = <<ClickStep(CancelButton[popup])>>
            \/ popup = "rominfo" /\ s = <<Step("saveType")>>
        BY <1>1, <3>3 DEF KeyOfForm
      <3> HIDE DEF s
      <3> USE DEF Fits, ListSteps, LastSteps, BeforeRefresh, RenameSteps, CopySteps, ShowingProgress, Plain, InLoop
      <3>5. \A c \in ToSet(Children[popup]) : Right(ClickStep(c))
        BY <2>4 DEF ClickStep
      <3>6. popup = "rominfo" => Right(Step("saveType"))
        BY <2>4 DEF Step
      <3>7. /\ OkButton[popup] \in ToSet(Children[popup])
            /\ popup \in SettingWnds \cup {"msgbox"} => CancelButton[popup] \in ToSet(Children[popup])
        BY <2>4, MenuAssumption DEF SettingWnds
      <3> HIDE DEF Right
      <3> QED
        BY <3>4, <3>5, <3>6, <3>7
    <2> QED
      BY <1>2, <2>2, <2>3, <2>4, AtWaiting
  <1>7. PICK b : s = <<b>> /\ Right(b)
    BY <1>6
  <1> HIDE DEF s
  <1>8. todo' = s \o todo
    BY <1>1 DEF Handle, s
  <1>9. captured' \subseteq alive /\ {focused', below'} \subseteq Window \cup {NULL}
    BY <1>2 DEF WindowsInv, AliveInv
  <1>10. WindowsInv' /\ IsSeq(todo') /\ todo' = Push(b, todo)
    BY <1>2, <1>7, <1>8, <1>9, Handling
  <1>11. ASSUME FocusInv PROVE FocusInv'
    <2>1. ~Has(todo, {"focus"}) /\ IsSeq(todo)
      BY <1>2, <1>11, AtWaiting DEF WindowsInv, StackInv
    <2>2. ~Has(todo', {"focus"})
      BY <1>7, <1>10, <2>1, HasPushed
    <2>3. focused' \in alive' \cup {NULL}
      BY <1>2, <1>11 DEF FocusInv
    <2> QED
      BY <1>10, <1>11, <2>2, <2>3, FocusKept
  <1> QED
    BY <1>10, <1>11 DEF Kept

(* What is below the pen is visible. *)
LEMMA BelowPenIs ==
    ASSUME WindowsInv, NEW p
    PROVE  BelowPen(p) = NULL \/ (BelowPen(p) \in visible /\ p \in Rect[BelowPen(p)])
  <1>1. ASSUME NEW w \in TopLevel
        PROVE  WindowBelow(w, p) = NULL \/ (WindowBelow(w, p) \in visible /\ p \in Rect[WindowBelow(w, p)])
    <2>1. IsSeq(Children[w])
      BY Shapes
    <2>2. ChildAt(w, p) = NULL \/ (ChildAt(w, p) \in visible /\ p \in Rect[ChildAt(w, p)])
      BY <2>1, ForemostIs DEF ChildAt
    <2> QED
      BY <2>2 DEF WindowBelow
  <1>2. popup = NULL \/ popup \in TopLevel
    <2>1. Running(todo) \subseteq Forms
      BY UnderIs DEF WindowsInv, StackInv
    <2> QED
      BY <2>1, UnderIs, Shapes DEF WindowsInv, StackInv, PopupInv, MenuStays
  <1> DEFINE S == {w \in TopLevel : WindowBelow(w, p) # NULL}
             hit == Foremost(windows, S)
  <1>3. hit = NULL \/ hit \in TopLevel
    <2>1. IsSeq(windows)
      BY StepsOf DEF WindowsInv, ListInv
    <2> QED
      BY <2>1, ForemostIs
  <1> QED
    BY <1>1, <1>2, <1>3 DEF BelowPen

LEMMA VisibleIs == WindowsInv => visible \subseteq alive /\ alive \subseteq Window
  <1> SUFFICES ASSUME WindowsInv PROVE visible \subseteq alive /\ alive \subseteq Window
    OBVIOUS
  <1>1. Pending(todo) \subseteq Forms
    BY UnderIs DEF WindowsInv, StackInv
  <1>2. Opened(todo) \subseteq Window
    BY <1>1, Shapes DEF Opened
  <1> QED
    BY <1>2, Shapes DEF WindowsInv, AliveInv

LEMMA MoveWindows ==
    ASSUME WindowsInv, NEW p \in Points, TouchMove(p)
    PROVE  Kept
  <1>1. /\ Waiting /\ UNCHANGED <<windows, visible, popup, focused, captured, alive, todo>> /\ below' = BelowPen(p)
    BY DEF TouchMove, flow
  <1>2. below' \in alive \cup {NULL} /\ below' \in Window \cup {NULL}
    BY <1>1, BelowPenIs, VisibleIs
  <1>3. IsSeq(todo') /\ Stack(todo') /\ Alike(todo', todo)
    BY <1>1 DEF WindowsInv, StackInv, Alike
  <1>4. MenuStays => todo' = <<>> \/ Head(todo').do \in {"focus", "clickItem", "leave"}
    BY <1>1 DEF MenuStays
  <1>5. captured' \subseteq alive /\ focused' \in Window \cup {NULL}
    BY <1>1 DEF WindowsInv, AliveInv
  <1>6. WindowsInv'
    BY <1>1, <1>2, <1>3, <1>4, <1>5, Staying
  <1>7. ASSUME FocusInv PROVE FocusInv'
    <2>1. ~Has(todo', {"focus"})
      BY <1>1, <1>7, AtWaiting
    <2>2. focused' \in alive' \cup {NULL}
      BY <1>1, <1>7 DEF FocusInv
    <2> QED
      BY <1>3, <1>6, <1>7, <2>1, <2>2, FocusKept
  <1> QED
    BY <1>6, <1>7 DEF Kept

(* Up and down in a setting window. *)
LEMMA FocusMoves ==
    ASSUME WindowsInv, MoveFocus
    PROVE  Kept
  <1> DEFINE items == Items[popup]
             n == Len(items)
             from == IF Contains(items, focused) THEN CHOOSE i \in 1 .. n : items[i] = focused ELSE 1
  <1>1. /\ Waiting /\ popup \in SettingWnds
        /\ UNCHANGED <<windows, visible, popup, below, captured, alive, todo>>
        /\ \E d \in {1, n - 1} : focused' = items[((from - 1 + d) % n) + 1]
    BY DEF MoveFocus, flow
  <1>2. items # <<>> /\ items \in Seq(ToSet(Children[popup]))
    BY <1>1, WindowsAssumption
  <1>3. n \in Nat \ {0} /\ DOMAIN items = 1 .. n
    BY <1>2, EmptySeq, LenProperties
  <1>4. from \in 1 .. n
    BY <1>3 DEF Contains
  <1>5. ASSUME NEW d \in {1, n - 1} PROVE ((from - 1 + d) % n) + 1 \in 1 .. n
    <2> HIDE DEF n, from
    <2> DEFINE m == from - 1 + d
    <2>1. m \in Nat
      BY <1>3, <1>4, <1>5
    <2> HIDE DEF m
    <2>2. m % n \in 0 .. n - 1
      BY <1>3, <2>1
    <2>3. (m % n) + 1 \in 1 .. n
      BY <1>3, <2>2
    <2> QED
      BY <2>3 DEF m
  <1>6. \A i \in 1 .. n : items[i] \in ToSet(Children[popup])
    BY <1>2, <1>3, ElementOfSeq
  <1>7. focused' \in Family(popup)
    BY <1>1, <1>5, <1>6 DEF Family
  <1> HIDE DEF items, n, from
  <1>8. popup \in Forms /\ popup \in TopLevel
    BY <1>1, Shapes DEF Forms
  <1>9. Family(popup) \subseteq alive
    <2>1. NULL \notin Forms /\ "startMenu" \notin Forms
      BY Shapes
    <2> QED
      BY <1>1, <1>8, <2>1, AtWaiting, VisibleIs
  <1>10. IsSeq(todo') /\ Stack(todo') /\ Alike(todo', todo)
    BY <1>1 DEF WindowsInv, StackInv, Alike
  <1>11. MenuStays => todo' = <<>> \/ Head(todo').do \in {"focus", "clickItem", "leave"}
    BY <1>1 DEF MenuStays
  <1>12. captured' \subseteq alive /\ {focused', below'} \subseteq Window \cup {NULL}
    BY <1>1, <1>7, <1>9, VisibleIs DEF WindowsInv, AliveInv
  <1>13. WindowsInv'
    BY <1>1, <1>10, <1>11, <1>12, Staying
  <1>14. ASSUME FocusInv PROVE FocusInv'
    <2>1. ~Has(todo', {"focus"})
      BY <1>1, <1>14, AtWaiting
    <2>2. focused' \in alive' \cup {NULL}
      BY <1>1, <1>7, <1>9
    <2> QED
      BY <1>10, <1>13, <1>14, <2>1, <2>2, FocusKept
  <1> QED
    BY <1>13, <1>14 DEF Kept

(* The buttons and boxes are children of one window each. *)
LEMMA MainChildren ==
    /\ {"list", "up"} \subseteq ToSet(Children["main"]) /\ {"list", "up"} \cap TopLevel = {}
    /\ \A f \in TopLevel \ {"main"} : {"list", "up"} \cap ToSet(Children[f]) = {}
    /\ NULL \notin {"list", "up"}
  BY WindowsAssumption, Shapes DEF Family

(* The steps with which a touch begins. *)
LEMMA TouchWindows ==
    ASSUME WindowsInv, NEW p \in Points, TouchDown(p)
    PROVE  WindowsInv' /\ (FocusInv => FocusInv' \/ UpInv')
  <1> DEFINE target == TouchTarget(below')
             h == IF target = NULL THEN NULL ELSE Hit(target, p)
             c == [do |-> "focus", at |-> p]
             b == Step("back")
  <1>1. /\ Waiting /\ below' = BelowPen(p) /\ UNCHANGED <<windows, visible, popup, alive>>
        /\ captured' = IF h \in Buttons THEN captured \cup {h} ELSE captured
        /\ focused' = IF h \in SpinBoxes THEN h ELSE focused
        /\ todo' = (IF h = "up" THEN <<b>> \o <<c>> ELSE <<c>>) \o todo
    BY DEF TouchDown, Handle
  <1>2. below' = NULL \/ (below' \in visible /\ p \in Rect[below'])
    BY <1>1, BelowPenIs
  <1>3. popup = NULL \/ (popup \in TopLevel \ {"main"} /\ popup \in visible)
    BY <1>1, AtWaiting, Shapes
  <1>4. h = NULL \/ (h \in visible /\ p \in Rect[h])
    <2>1. target \in {popup, below'}
      BY DEF TouchTarget
    <2>2. ASSUME target \in TopLevel, target # NULL
          PROVE  h = NULL \/ (h \in visible /\ p \in Rect[h])
      <3>1. IsSeq(Children[target])
        BY <2>2, Shapes
      <3>2. ChildAt(target, p) = NULL \/ (ChildAt(target, p) \in visible /\ p \in Rect[ChildAt(target, p)])
        BY <3>1, ForemostIs DEF ChildAt
      <3> QED
        BY <2>2, <3>2 DEF Hit
    <2>3. ASSUME target \notin TopLevel, target # NULL
          PROVE  h = target /\ target = below'
      BY <1>3, <2>1, <2>3 DEF Hit
    <2> QED
      BY <1>2, <2>2, <2>3
  <1>5. h = "up" => popup = NULL
    <2>1. ASSUME popup # NULL, target = popup PROVE h = NULL \/ h \in ToSet(Children[popup])
      <3>1. IsSeq(Children[popup]) /\ popup \in TopLevel
        BY <1>3, <2>1, Shapes
      <3>2. ChildAt(popup, p) = NULL \/ ChildAt(popup, p) \in ToSet(Children[popup])
        BY <3>1, ForemostIs DEF ChildAt
      <3> QED
        BY <2>1, <3>1, <3>2 DEF Hit
    <2>2. popup # NULL => target = popup
      BY DEF TouchTarget
    <2>3. "up" # NULL
      BY MainChildren
    <2> QED
      BY <1>3, <2>1, <2>2, <2>3, MainChildren
  <1>6. visible \subseteq alive /\ alive \subseteq Window /\ NULL \notin Window
    BY VisibleIs, Shapes
  <1>7. captured' \subseteq alive /\ focused' \in {focused} \cup alive /\ below' \in alive \cup {NULL}
    <2>1. NULL \notin Buttons
      BY <1>6 DEF Buttons
    <2>2. NULL \notin SpinBoxes
      <3>1. ASSUME NEW f \in SettingWnds PROVE NULL \notin ToSet(Items[f])
        <4>1. Items[f] \in Seq(ToSet(Children[f])) /\ f \in TopLevel
          BY <3>1, WindowsAssumption, Shapes DEF Forms
        <4>2. ToSet(Items[f]) \subseteq ToSet(Children[f])
          BY <4>1, ElementOfSeq, LenProperties DEF ToSet
        <4> QED
          BY <1>6, <4>1, <4>2, Shapes DEF Family
      <3> QED
        BY <3>1 DEF SpinBoxes
    <2> QED
      BY <1>1, <1>2, <1>4, <1>6, <2>1, <2>2 DEF WindowsInv, AliveInv
  <1>8. captured' \subseteq alive /\ {focused', below'} \subseteq Window \cup {NULL}
    BY <1>6, <1>7 DEF WindowsInv
  <1> HIDE DEF h, target
  <1>9. Plain(c) /\ Plain(b) /\ c.do = "focus" /\ b.do = "back"
    BY DEF Plain, Step, ShowingProgress
  <1>10. IsSeq(todo) /\ (todo = <<>> \/ InLoop(todo, Forms))
    <2>1. todo # <<>> => InLoop(todo, {popup}) /\ popup \in Forms
      BY <1>1, AtWaiting
    <2> QED
      BY <2>1 DEF InLoop, WindowsInv, StackInv
  <1>11. Fits(c, todo)
    BY <1>10 DEF Fits, InLoop, ListSteps, LastSteps, BeforeRefresh, RenameSteps, CopySteps, ShowingProgress
  <1>12. h = "up" => todo' = <<b, c>> \o todo
    BY <1>1
  <1>13. CASE h = "up"
    <2>1. popup = NULL
      BY <1>5, <1>13
    <2>2. todo = <<>> /\ ~MenuStays /\ Under(todo) = NULL
      BY <1>1, <1>6, <2>1, AtWaiting, Shapes, NoSteps DEF MenuStays
    <2>3. Under(Push(c, todo)) = NULL /\ Push(c, todo) # <<>> /\ Head(Push(c, todo)) = c
      BY <1>9, <1>10, <2>2, UnderPushed, Pushed DEF Takes, ShowingProgress
    <2> HIDE DEF b, c
    <2>4. Fits(b, Push(c, todo))
      BY <1>9, <2>3 DEF Fits, ListSteps, LastSteps, BeforeRefresh, RenameSteps, CopySteps, ShowingProgress
    <2> DEFINE s == <<b, c>>
    <2>5. todo' = s \o todo
      BY <1>13, <1>12
    <2>6. \E d, e : s = <<d, e>> /\ Plain(d) /\ Plain(e) /\ Fits(d, Push(e, todo)) /\ Fits(e, todo) /\ ~MenuStays
      BY <1>9, <1>11, <2>2, <2>4
    <2> HIDE DEF s
    <2>7. WindowsInv'
      BY <1>1, <1>8, <2>5, <2>6, Handling
    <2>8. LeadingUp'
      <3>1. todo' = Push(b, Push(c, todo)) /\ Push(c, todo) = <<c>>
        <4>1. <<b, c>> \o todo = Push(b, Push(c, todo))
          BY <1>10, Unfold
        <4>2. Push(c, <<>>) = <<c>>
          BY DEF Push
        <4> QED
          BY <1>12, <1>13, <2>2, <4>1, <4>2
      <3>2. todo' # <<>> /\ Head(todo') = b /\ Tail(todo') = <<c>>
        <4>1. IsSeq(Push(c, todo))
          BY <1>10, Pushed
        <4> QED
          BY <3>1, <4>1, Pushed
      <3>3. <<c>> \in FocusSteps
        BY DEF FocusSteps, c
      <3> HIDE DEF FocusSteps
      <3>4. Head(todo').do = "back"
        BY <1>9, <3>2
      <3> QED
        BY <3>2, <3>3, <3>4 DEF LeadingUp, At
    <2>9. FocusInv => {popup', focused', below'} \subseteq alive' \cup {NULL}
      BY <1>1, <1>7, <2>1 DEF FocusInv
    <2> QED
      BY <2>7, <2>8, <2>9 DEF UpInv
  <1>14. CASE h # "up"
    <2> HIDE DEF c
    <2> DEFINE s == <<c>>
    <2>1. todo' = s \o todo
      BY <1>1, <1>14
    <2>2. \E d : s = <<d>> /\ Plain(d) /\ Fits(d, todo) /\ (MenuStays => d.do \in {"focus", "clickItem", "leave"})
      BY <1>9, <1>11
    <2>3. s = <<c>>
      OBVIOUS
    <2> HIDE DEF s
    <2>4. WindowsInv' /\ IsSeq(todo') /\ todo' = Push(c, todo)
      BY <1>1, <1>8, <2>1, <2>2, <2>3, Handling
    <2>5. ASSUME FocusInv PROVE FocusInv'
      <3>1. Tail(todo') = todo
        BY <1>10, <2>4, Pushed
      <3>2. ~Has(todo, {"focus"})
        BY <1>1, <2>5, AtWaiting
      <3>3. popup' \in alive' \cup {NULL}
        BY <2>4, PopupAliveNext
      <3>4. focused' \in alive' \cup {NULL} /\ below' \in alive' \cup {NULL}
        BY <1>1, <1>7, <2>5 DEF FocusInv
      <3> QED
        BY <3>1, <3>2, <3>3, <3>4 DEF FocusInv
    <2> QED
      BY <2>4, <2>5
  <1> QED
    BY <1>13, <1>14

(* The buttons that are pressed while no form is open are lasting. *)
LEMMA ReleasedIs ==
    ASSUME WindowsInv, NEW w \in Window \ {"main"}, Down(w) # {}
    PROVE  /\ Released(w) \in captured
           /\ w \in TopLevel => Released(w) \in ToSet(Children[w])
           /\ w \notin TopLevel => Released(w) = w
  <1>1. w # NULL
    BY Shapes
  <1>2. CASE w \in TopLevel
    <2>1. IsSeq(Children[w]) /\ ToSet(Children[w]) \cap captured # {}
      BY <1>1, <1>2, Shapes DEF Down
    <2> QED
      BY <1>2, <2>1, ForemostIs DEF Released
  <1>3. CASE w \notin TopLevel
    BY <1>1, <1>3 DEF Down, Released
  <1> QED
    BY <1>2, <1>3

LEMMA UpWindows ==
    ASSUME WindowsInv, TouchUp
    PROVE  Kept
  <1> DEFINE b == BelowPen(pen)
             w == UpTarget(b)
             c == Released(w)
  <1>1. /\ Waiting /\ UNCHANGED <<windows, visible, popup, focused, alive>>
        /\ below' \in {b, NULL} /\ captured' \subseteq captured
        /\ \/ w = "startMenu" /\ \E n \in {"clickItem", "leave"} : Handle(<<Step(n)>>)
           \/ w # "startMenu" /\ Down(w) # {} /\ Handle(<<ClickStep(c)>>)
           \/ w = "list" /\ (Handle(<<Step("launch")>>) \/ Handle(<<>>))
           \/ UNCHANGED todo
    BY DEF TouchUp, flow
  <1>2. b = NULL \/ b \in alive
    BY BelowPenIs, VisibleIs
  <1>3. captured' \subseteq alive /\ {focused', below'} \subseteq Window \cup {NULL}
    BY <1>1, <1>2, VisibleIs DEF WindowsInv, AliveInv
  <1>4. popup # NULL => w = popup
    BY DEF UpTarget, TouchTarget
  <1>5. w \in Window \cup {NULL}
    <2>1. popup \in Window \cup {NULL}
      BY PopupAlive, VisibleIs
    <2> QED
      BY <1>2, <2>1, VisibleIs DEF UpTarget, TouchTarget, WindowsInv
  <1> HIDE DEF w, c, b
  <1>6. IsSeq(todo) /\ Stack(todo)
    BY DEF WindowsInv, StackInv
  <1>7. /\ NULL \notin Forms \cup {"startMenu"} /\ "startMenu" \notin Forms /\ "list" \notin TopLevel
        /\ Forms \subseteq TopLevel /\ "startMenu" \in TopLevel
    BY Shapes, MainChildren
  <1> DEFINE Right(x) == /\ Plain(x) /\ Fits(x, todo) /\ x.do # "focus"
                         /\ MenuStays => x.do \in {"focus", "clickItem", "leave"}
  <1>8. \/ \E x : Right(x) /\ todo' = <<x>> \o todo
        \/ todo' = <<>> \o todo
    <2>1. CASE UNCHANGED todo
      BY <1>6, <2>1, Unfold
    <2>2. ASSUME w = "startMenu", NEW n \in {"clickItem", "leave"}, Handle(<<Step(n)>>)
          PROVE  \E x : Right(x) /\ todo' = <<x>> \o todo
      <3>1. todo = <<>>
        BY <1>1, <1>4, <1>7, <2>2, AtWaiting
      <3>2. Right(Step(n))
        BY <3>1 DEF Step, Fits, ListSteps, LastSteps, BeforeRefresh, RenameSteps, CopySteps, ShowingProgress, Plain
      <3> QED
        BY <2>2, <3>2 DEF Handle
    <2>3. ASSUME w # "startMenu", Down(w) # {}, Handle(<<ClickStep(c)>>)
          PROVE  \E x : Right(x) /\ todo' = <<x>> \o todo
      <3>1. w # NULL /\ w # "main"
        BY <2>3 DEF Down
      <3>2. c \in captured /\ (w \in TopLevel => c \in ToSet(Children[w])) /\ (w \notin TopLevel => c = w)
        BY <1>5, <2>3, <3>1, ReleasedIs DEF c
      <3>3. CASE todo = <<>>
        <4>1. ~MenuStays
          BY <1>4, <1>7, <2>3 DEF MenuStays
        <4>2. Pending(todo) = {}
          BY <3>3, NoSteps DEF Pending
        <4>3. captured \subseteq Lasting
          BY <4>2 DEF WindowsInv, AliveInv, Opened
        <4>4. c \in ToSet(Children["main"])
          <5>1. c \notin TopLevel
            BY <3>2, Shapes
          <5> QED
            BY <3>2, <4>3, <5>1, Shapes DEF Lasting, Family
        <4>5. Right(ClickStep(c))
          BY <3>3, <4>1, <4>4
          DEF ClickStep, Fits, ListSteps, LastSteps, BeforeRefresh, RenameSteps, CopySteps, ShowingProgress, Plain
        <4> QED
          BY <2>3, <4>5 DEF Handle
      <3>4. CASE todo # <<>>
        <4>1. popup \in Forms /\ ~MenuStays /\ InLoop(todo, {popup}) /\ Head(todo).do = "modal"
          BY <1>1, <3>4, AtWaiting
        <4>2. w = popup /\ c \in ToSet(Children[popup])
          BY <1>4, <1>7, <3>2, <4>1
        <4>3. Right(ClickStep(c))
          BY <3>4, <4>1, <4>2
          DEF ClickStep, Fits, ListSteps, LastSteps, BeforeRefresh, RenameSteps, CopySteps, ShowingProgress, Plain
        <4> QED
          BY <2>3, <4>3 DEF Handle
      <3> QED
        BY <3>3, <3>4
    <2>4. ASSUME w = "list", Handle(<<Step("launch")>>)
          PROVE  \E x : Right(x) /\ todo' = <<x>> \o todo
      <3>1. popup = NULL
        BY <1>1, <1>4, <1>7, <2>4, AtWaiting
      <3>2. todo = <<>> /\ ~MenuStays /\ Under(todo) = NULL
        BY <1>1, <1>7, <3>1, AtWaiting, NoSteps DEF MenuStays
      <3>3. Right(Step("launch"))
        BY <3>2 DEF Step, Fits, ListSteps, LastSteps, BeforeRefresh, RenameSteps, CopySteps, ShowingProgress, Plain
      <3> QED
        BY <2>4, <3>3 DEF Handle
    <2> QED
      BY <1>1, <2>1, <2>2, <2>3, <2>4 DEF Handle
  <1>9. WindowsInv' /\ IsSeq(todo') /\ (FocusInv => ~Has(todo', {"focus"}))
    <2>1. FocusInv => ~Has(todo, {"focus"})
      BY <1>1, AtWaiting
    <2>2. ASSUME NEW x, Right(x), todo' = <<x>> \o todo
          PROVE  WindowsInv' /\ IsSeq(todo') /\ (FocusInv => ~Has(todo', {"focus"}))
      <3> DEFINE s == <<x>>
      <3>1. s = <<x>> /\ todo' = s \o todo
        BY <2>2
      <3> HIDE DEF s
      <3>2. WindowsInv' /\ IsSeq(todo') /\ todo' = Push(x, todo)
        BY <1>1, <1>3, <2>2, <3>1, Handling
      <3>3. ~Has(todo, {"focus"}) => ~Has(todo', {"focus"})
        BY <1>6, <2>2, <3>2, HasPushed
      <3> QED
        BY <2>1, <3>2, <3>3
    <2>3. ASSUME todo' = <<>> \o todo
          PROVE  WindowsInv' /\ IsSeq(todo') /\ (FocusInv => ~Has(todo', {"focus"}))
      <3>1. WindowsInv' /\ IsSeq(todo') /\ todo' = todo
        BY <1>1, <1>3, <2>3, Handling
      <3> QED
        BY <2>1, <3>1
    <2> HIDE DEF Right
    <2> QED
      BY <1>8, <2>2, <2>3
  <1>10. ASSUME FocusInv PROVE FocusInv'
    <2>1. focused' \in alive' \cup {NULL}
      BY <1>1, <1>10 DEF FocusInv
    <2> QED
      BY <1>9, <1>10, <2>1, FocusKept
  <1> QED
    BY <1>9, <1>10 DEF Kept

(* Every step keeps the windows as they should be, and what has the focus  *)
(* as well, until the button that leads up is touched.                     *)
LEMMA EveryStep ==
    ASSUME WindowsInv, [Next]_vars
    PROVE  WindowsInv' /\ (FocusInv => FocusInv' \/ UpInv')
  <1>1. CASE Input
    <2>1. CASE Arrow
      BY <2>1, SameWindows DEF Arrow, Kept
    <2>2. CASE \E p \in Points : TouchDown(p)
      BY <2>2, TouchWindows
    <2>3. CASE \E p \in Points : TouchMove(p)
      BY <2>3, MoveWindows DEF Kept
    <2> QED
      BY <1>1, <2>1, <2>2, <2>3, KeyWindows, FocusMoves, UpWindows DEF Input, Kept
  <1>2. CASE MainStep
    BY <1>2, ListWindows, ItemWindows, FormWindows, StartWindows DEF MainStep, Kept
  <1>3. CASE WindowStep
    BY <1>3, Deleting, FocusGiven DEF WindowStep, Kept
  <1>4. CASE FileStep
    BY <1>4, FileWindows, CopyingWindows, AskingToStop, ListWindows DEF FileStep, CopyStep, Kept
  <1>5. CASE Interrupt \/ UNCHANGED vars
    BY <1>5, SameWindows DEF Interrupt, VBlank, Pull, vars, Kept
  <1> QED
    BY <1>1, <1>2, <1>3, <1>4, <1>5 DEF Next, Handlers

(* While the handler of the button that leads up runs, the other steps     *)
(* wait.                                                                   *)
LEMMA UpAlone ==
    ASSUME LeadingUp, Next
    PROVE  \/ BackParentDir \/ EnterTop \/ EnterFails \/ EnterDir \/ SelectEntered
           \/ Interrupt
  <1>1. Head(todo).do \in {"back", "enterDir", "entered"} /\ ~Waiting /\ (At("enterDir") => Head(todo).dir # "slot2")
    BY DEF LeadingUp, Waiting, Idle, InModal, At
  <1>2. \A name : At(name) => name \in {"back", "enterDir", "entered"}
    BY <1>1 DEF At
  <1>9. /\ ~At("paste") /\ ~At("copyFile") /\ ~At("overwrite") /\ ~At("stop") /\ ~At("full")
        /\ ~At("open") /\ ~At("chunk") /\ ~At("write")
    BY <1>1 DEF At
  <1>10. /\ ~At("slot2") /\ ~At("launch") /\ ~At("loadRom") /\ ~At("info") /\ ~At("saveType")
        /\ ~At("item") /\ ~At("refresh") /\ ~At("uiStyle") /\ ~At("language") /\ ~At("restart")
        /\ ~At("listType") /\ ~(At("enterDir") /\ Head(todo).dir = "slot2")
    BY <1>1 DEF At
  <1>3. ~Input
    BY <1>1 DEF Input, Key, MoveFocus, Arrow, TouchUp, TouchDown, TouchMove
  <1>4. ~WindowStep /\ ~CopyStep /\ ~\E trim \in BOOLEAN : CopyOrMove(dir, trim)
    <2>1. ~WindowStep
      BY <1>2 DEF WindowStep, Delete, FocusBelow
    <2>2. ASSUME NEW trim \in BOOLEAN PROVE ~CopyOrMove(dir, trim)
      BY <1>9, <1>10, Zenon DEF CopyOrMove
    <2>3. ~CopyFile
      BY <1>9, <1>10, Zenon DEF CopyFile
    <2>4. ~Overwrite /\ ~StopCopy /\ ~Full
      BY <1>9, <1>10, Zenon DEF Overwrite, StopCopy, Full
    <2>5. ~StartCopy
      BY <1>9, <1>10, Zenon DEF StartCopy
    <2>6. ~AskStop /\ ~GoOnCopying
      BY <1>9, <1>10, Zenon DEF AskStop, GoOnCopying
    <2>7. ~Chunk
      BY <1>9, <1>10, Zenon DEF Chunk
    <2>8. ~WriteFails
      BY <1>9, <1>10, Zenon DEF WriteFails
    <2>9. ~(CopyDone \/ RenameFile \/ Replace \/ Rename \/ Moved \/ Pasted \/ DeleteFile \/ Confirmed \/ GiveUp)
      BY <1>2 DEF CopyDone, RenameFile, Replace, Rename, Moved, Pasted, DeleteFile, Confirmed, GiveUp
    <2> QED
      BY <2>1, <2>2, <2>3, <2>4, <2>5, <2>6, <2>7, <2>8, <2>9, Zenon DEF CopyStep
  <1>5. ~(EnterSlot2 \/ SelectSlot2 \/ Launch \/ LoadRom \/ ShowFileInfo \/ ShowSaveType \/ Paste \/ DeleteItem \/ Refresh)
    <2>1. ~EnterSlot2 /\ ~SelectSlot2
      BY <1>9, <1>10, Zenon DEF EnterSlot2, SelectSlot2
    <2>2. ~Launch
      BY <1>9, <1>10, Zenon DEF Launch
    <2>3. ~LoadRom
      BY <1>9, <1>10, Zenon DEF LoadRom
    <2>4. ~ShowFileInfo
      BY <1>9, <1>10, Zenon DEF ShowFileInfo
    <2>5. ~ShowSaveType
      BY <1>9, <1>10, Zenon DEF ShowSaveType
    <2>6. ~Paste
      BY <1>9, <1>10, Zenon DEF Paste, AtItem
    <2>7. ~DeleteItem
      BY <1>9, <1>10, Zenon DEF DeleteItem, AtItem
    <2>8. ~Refresh
      BY <1>9, <1>10, Zenon DEF Refresh
    <2> QED
      BY <2>1, <2>2, <2>3, <2>4, <2>5, <2>6, <2>7, <2>8
  <1>6. ~(CopyOrCut("copy") \/ CopyOrCut("cut") \/ ShowHelp \/ SetPatches \/ InfoItem \/ SetSystemParam)
    BY <1>2 DEF CopyOrCut, ShowHelp, SetPatches, InfoItem, SetSystemParam, OpenForm, AtItem
  <1>7. ~(SettingsDone \/ UiStyle \/ Language \/ Restart \/ ListType)
    <2>1. ~SettingsDone /\ ~UiStyle /\ ~Language
      BY <1>9, <1>10, Zenon DEF SettingsDone, UiStyle, Language, Changed
    <2>2. ~Restart /\ ~ListType
      BY <1>9, <1>10, Zenon DEF Restart, ListType
    <2> QED
      BY <2>1, <2>2
  <1>8. ~(OnOK \/ OnCancel \/ OnSettingOK \/ Confirm \/ OnSaveType \/ StartButton \/ ClickItem \/ LeaveMenu)
    BY <1>2 DEF OnOK, OnCancel, EndForm, OnSettingOK, Confirm, OnSaveType, StartButton, ClickItem, LeaveMenu, Clicked
  <1> QED
    BY <1>3, <1>4, <1>5, <1>6, <1>7, <1>8 DEF Next, Handlers, MainStep, FileStep

(* It ends with the end of the touch, and opens nothing unless the card    *)
(* with the folder above is out.                                           *)
LEMMA UpStep ==
    ASSUME WindowsInv, RowsInv, UpInv, [Next]_vars, [~BoxWhileTouched]_vars
    PROVE  FocusInv' \/ UpInv'
  <1>1. IsSeq(todo) /\ todo # <<>> /\ IsSeq(Tail(todo))
    <2>1. IsSeq(todo) /\ todo # <<>>
      BY DEF UpInv, LeadingUp, WindowsInv, StackInv
    <2> QED
      BY <2>1, Popped
  <1>2. PICK last \in FocusSteps :
            \/ Tail(todo) = last
            \/ At("enterDir") /\ \E e : e.do = "entered" /\ Tail(todo) = Push(e, last)
    BY DEF UpInv, LeadingUp
  <1>3. IsSeq(last) /\ last # <<>> /\ Head(last).do = "focus" /\ ~Has(Tail(last), {"focus"}) /\ Has(last, {"focus"})
    <2>1. PICK p \in Points : last = <<[do |-> "focus", at |-> p]>>
      BY DEF FocusSteps
    <2> DEFINE c == [do |-> "focus", at |-> p]
    <2>2. c.do = "focus"
      OBVIOUS
    <2> HIDE DEF c
    <2>3. last = Push(c, <<>>)
      <3>1. <<c>> \o <<>> = <<c>>
        OBVIOUS
      <3> QED
        BY <2>1, <3>1 DEF Push, c
    <2>4. IsSeq(<<>>)
      BY Tuples
    <2>5. last # <<>> /\ Head(last) = c /\ Tail(last) = <<>>
      BY <2>3, <2>4, Pushed
    <2>6. IsSeq(last)
      BY <2>3, <2>4, Pushed
    <2>7. ~Has(Tail(last), {"focus"})
      BY <2>5, NoSteps
    <2>8. Has(last, {"focus"})
      BY <2>2, <2>3, <2>4, HasPushed
    <2> QED
      BY <2>2, <2>5, <2>6, <2>7, <2>8
  <1>4. Has(Tail(todo), {"focus"})
    BY <1>2, <1>3, HasPushed
  <1>5. ASSUME UNCHANGED windowVars, todo' = Tail(todo)
        PROVE  FocusInv' \/ UpInv'
    <2>1. {popup, focused, below}' \subseteq alive' \cup {NULL}
      BY <1>5 DEF UpInv, windowVars
    <2>2. CASE Tail(todo) = last
      BY <1>3, <1>5, <2>1, <2>2 DEF FocusInv, At
    <2>3. CASE \E e : e.do = "entered" /\ Tail(todo) = Push(e, last)
      <3>1. PICK e : e.do = "entered" /\ todo' = Push(e, last)
        BY <1>5, <2>3
      <3>2. todo' # <<>> /\ Head(todo').do = "entered" /\ Tail(todo') = last
        BY <1>3, <3>1, Pushed
      <3>3. LeadingUp'
        BY <1>2, <3>2 DEF LeadingUp, At
      <3> QED
        BY <2>1, <3>3 DEF UpInv
    <2> QED
      BY <1>2, <2>2, <2>3
  <1>6. ASSUME UNCHANGED <<windowVars, todo>> PROVE UpInv'
    BY <1>6 DEF UpInv, LeadingUp, At, windowVars
  <1>7. CASE BackParentDir
    <2>1. Tail(todo) = last /\ UNCHANGED windowVars
      BY <1>2, <1>7 DEF BackParentDir, At
    <2>2. dir \in Folders \cup {"top"} /\ (dir \in Folders \ Roots => Parent[dir] \in Folders)
      BY CopyAssumption DEF RowsInv
    <2>3. \E d : /\ d # "slot2"
                 /\ \/ todo' = <<EnterStep(d)>> \o last
                    \/ todo' = <<EnterStep(d), [do |-> "entered", from |-> dir]>> \o last
      <3>1. CASE dir = "top"
        BY <1>7, <2>1, <3>1 DEF BackParentDir, Go, Call
      <3>2. CASE dir \in Roots
        BY <1>7, <2>1, <3>2, CopyAssumption DEF BackParentDir, Go, Call
      <3>3. CASE dir \in Folders \ Roots
        <4>1. dir # "top" /\ Parent[dir] # "slot2"
          BY <2>2, <3>3, CopyAssumption
        <4>2. todo' = <<EnterStep(Parent[dir]), [do |-> "entered", from |-> dir]>> \o last
          BY <1>7, <2>1, <3>3, <4>1 DEF BackParentDir, Go, Call
        <4> QED
          BY <4>1, <4>2
      <3> QED
        BY <2>2, <3>1, <3>2, <3>3
    <2>4. PICK d : /\ d # "slot2"
                   /\ \/ todo' = <<EnterStep(d)>> \o last
                      \/ todo' = <<EnterStep(d), [do |-> "entered", from |-> dir]>> \o last
      BY <2>3
    <2> DEFINE b == EnterStep(d)
               e == [do |-> "entered", from |-> dir]
    <2>5. b.do = "enterDir" /\ b.dir = d /\ e.do = "entered"
      BY DEF EnterStep
    <2>6. todo' = <<b>> \o last \/ todo' = <<b, e>> \o last
      BY <2>4
    <2> HIDE DEF b, e
    <2>7. todo' = Push(b, last) \/ todo' = Push(b, Push(e, last))
      <3>1. <<b>> \o last = Push(b, last) /\ <<b, e>> \o last = Push(b, Push(e, last))
        <4>1. IsSeq(last)
          BY <1>3
        <4>2. \A x : <<x>> \o last = Push(x, last)
          BY <4>1, Unfold
        <4>3. \A x, y : <<x, y>> \o last = Push(x, Push(y, last))
          BY <4>1, Unfold
        <4> QED
          BY <4>2, <4>3, Zenon
      <3> QED
        BY <2>6, <3>1, Zenon
    <2>8. /\ todo' # <<>> /\ Head(todo') = b
          /\ Tail(todo') = last \/ Tail(todo') = Push(e, last)
      BY <1>3, <2>7, Pushed
    <2>9. At("enterDir")' /\ Head(todo').dir # "slot2" /\ Head(todo').do = "enterDir"
      BY <2>4, <2>5, <2>8 DEF At
    <2>10. LeadingUp'
      BY <1>2, <2>5, <2>8, <2>9 DEF LeadingUp
    <2> QED
      BY <2>1, <2>10 DEF UpInv, windowVars
  <1>8. CASE EnterTop \/ EnterDir
    <2>1. UNCHANGED windowVars /\ todo' = <<>> \o Tail(todo)
      BY <1>8 DEF EnterTop, EnterDir, Return, Call
    <2> QED
      BY <1>1, <1>5, <2>1, Unfold
  <1>9. CASE EnterFails
    <2>1. CASE BoxWhileTouched
      BY <1>6, <2>1 DEF vars, uiVars, flow
    <2>2. CASE ~BoxWhileTouched
      <3>1. UNCHANGED windowVars /\ todo' = <<>> \o Tail(todo)
        BY <1>4, <1>9, <2>2 DEF BoxWhileTouched, EnterFails, Return, Call
      <3> QED
        BY <1>1, <1>5, <3>1, Unfold
    <2> QED
      BY <2>1, <2>2
  <1>10. CASE SelectEntered
    <2>1. UNCHANGED windowVars /\ todo' = <<>> \o Tail(todo)
      BY <1>10 DEF SelectEntered, Go, Call
    <2> QED
      BY <1>1, <1>5, <2>1, Unfold
  <1>11. CASE Interrupt \/ UNCHANGED vars
    BY <1>6, <1>11 DEF Interrupt, VBlank, Pull, vars, uiVars, flow
  <1> QED
    BY <1>7, <1>8, <1>9, <1>10, <1>11, UpAlone DEF UpInv

LEMMA WindowsFirst == Init => WindowsInv /\ FocusInv
  BY Started DEF Init, WindowsInit, AtStart, Lasting

(* Whatever is touched, whatever is opened and however it ends: the windows *)
(* are those of the handlers that have not returned (windowmanager.cpp:65, *)
(* form.cpp:218).                                                          *)
THEOREM WindowsInvariant == Spec => []WindowsInv
  <1>1. Init => WindowsInv
    BY WindowsFirst
  <1>2. WindowsInv /\ [Next]_vars => WindowsInv'
    BY EveryStep
  <1> QED
    BY <1>1, <1>2, PTL DEF Spec

(* The list of a folder: a function that is defined by recursion exists.   *)
Sums(f, g, n) == f[0] = <<>> /\ \A i \in 1 .. n : f[i] = f[i - 1] \o g[i]

LEMMA ListingExists ==
    ASSUME NEW S, NEW n \in Nat, NEW g \in [1 .. n -> Seq(S)]
    PROVE  \E f \in [0 .. n -> Seq(S)] : Sums(f, g, n)
  <1> DEFINE Made(f, k) == f[0] = <<>> /\ \A i \in 1 .. k : f[i] = f[i - 1] \o g[i]
             Good(k) == \E f \in [0 .. k -> Seq(S)] : Made(f, k)
             Bad == {k \in 0 .. n : ~Good(k)}
  <1>1. Good(0)
    <2> DEFINE f == [i \in 0 .. 0 |-> <<>>]
    <2>1. f \in [0 .. 0 -> Seq(S)] /\ f[0] = <<>>
      OBVIOUS
    <2>2. 1 .. 0 = {}
      OBVIOUS
    <2> HIDE DEF f
    <2>3. Made(f, 0)
      BY <2>1, <2>2
    <2> HIDE DEF Made
    <2> QED
      BY <2>1, <2>3
  <1>2. ASSUME NEW k \in 0 .. n, k # 0, Good(k - 1) PROVE Good(k)
    <2>1. PICK f \in [0 .. k - 1 -> Seq(S)] : Made(f, k - 1)
      BY <1>2
    <2> DEFINE x == f[k - 1] \o g[k]
               h == [i \in 0 .. k |-> IF i = k THEN x ELSE f[i]]
    <2>2. k - 1 \in 0 .. k - 1 /\ k \in 1 .. n /\ f[k - 1] \in Seq(S) /\ g[k] \in Seq(S)
      BY <1>2
    <2>3. x = f[k - 1] \o g[k] /\ x \in Seq(S)
      BY <2>2, ConcatProperties
    <2> HIDE DEF x
    <2>4. \A i \in 0 .. k : i # k => f[i] \in Seq(S)
      BY <1>2
    <2>5. h \in [0 .. k -> Seq(S)]
      BY <2>3, <2>4
    <2>6. h[0] = f[0] /\ h[k] = x /\ \A i \in 0 .. k - 1 : h[i] = f[i]
      BY <1>2
    <2> HIDE DEF h
    <2>7. h[0] = <<>>
      BY <2>1, <2>6
    <2>8. ASSUME NEW i \in 1 .. k PROVE h[i] = h[i - 1] \o g[i]
      <3>1. h[i - 1] = f[i - 1]
        BY <2>6
      <3>2. CASE i = k
        BY <2>3, <2>6, <3>1, <3>2
      <3>3. CASE i # k
        <4>1. i \in 1 .. k - 1 /\ h[i] = f[i]
          BY <2>6, <3>3
        <4> QED
          BY <2>1, <3>1, <4>1
      <3> QED
        BY <3>2, <3>3
    <2>9. Made(h, k)
      BY <2>7, <2>8
    <2> HIDE DEF Made
    <2> QED
      BY <2>5, <2>9
  <1>3. Bad = {}
    <2>1. SUFFICES ASSUME Bad # {} PROVE FALSE
      OBVIOUS
    <2> HIDE DEF Good
    <2>2. Bad \subseteq Nat
      OBVIOUS
    <2>3. Min(Bad) \in Bad /\ \A k \in Bad : Min(Bad) <= k
      BY <2>1, <2>2, Least
    <2> DEFINE m == Min(Bad)
    <2>4. m \in Bad /\ \A k \in Bad : m <= k
      BY <2>3
    <2> HIDE DEF m
    <2>5. m \in 0 .. n /\ ~Good(m) /\ m # 0
      BY <1>1, <2>4
    <2>6. m - 1 \in 0 .. n /\ ~(m <= m - 1)
      BY <2>5
    <2>7. Good(m - 1)
      BY <2>4, <2>6
    <2> QED
      BY <1>2, <2>5, <2>7
  <1>4. Good(n)
    <2> HIDE DEF Good
    <2> QED
      BY <1>3
  <1> QED
    BY <1>4 DEF Sums

LEMMA ListingIs ==
    ASSUME NEW d
    PROVE  Listing(d) \in Seq(Names \cup Folders)
  <1> DEFINE S == Names \cup Folders
             n == Len(Sorted)
             New(i) == IF disk[<<d, Sorted[i]>>] # Absent THEN <<Sorted[i]>> ELSE <<>>
             g == [i \in 1 .. n |-> New(i)]
             IsUpTo(f) == f = [i \in 0 .. n |-> IF i = 0 THEN <<>> ELSE f[i - 1] \o New(i)]
             upTo == CHOOSE f : IsUpTo(f)
  <1>1. n \in Nat /\ \A i \in 1 .. n : Sorted[i] \in S
    <2>1. Sorted \in Seq(Names \cup (Folders \ Roots))
      BY MenuAssumption
    <2>2. \A i \in 1 .. n : Sorted[i] \in Names \cup (Folders \ Roots)
      BY <2>1, ElementOfSeq
    <2> QED
      BY <2>1, <2>2, LenProperties
  <1>2. Listing(d) = upTo[n]
    BY DEF Listing
  <1> HIDE DEF n, S
  <1>3. \A i \in 1 .. n : New(i) \in Seq(S)
    BY <1>1
  <1> HIDE DEF New
  <1>4. g \in [1 .. n -> Seq(S)] /\ \A i \in 1 .. n : g[i] = New(i)
    BY <1>3
  <1> HIDE DEF g
  <1>5. \E f : IsUpTo(f)
    <2>1. PICK f \in [0 .. n -> Seq(S)] : Sums(f, g, n)
      BY <1>1, <1>4, ListingExists
    <2>2. ASSUME NEW i \in 0 .. n PROVE f[i] = IF i = 0 THEN <<>> ELSE f[i - 1] \o New(i)
      <3>1. CASE i = 0
        BY <2>1, <3>1 DEF Sums
      <3>2. CASE i # 0
        <4>1. i \in 1 .. n
          BY <1>1, <3>2
        <4> QED
          BY <1>4, <2>1, <3>2, <4>1 DEF Sums
      <3> QED
        BY <3>1, <3>2
    <2>3. f = [i \in 0 .. n |-> f[i]]
      OBVIOUS
    <2>4. IsUpTo(f)
      BY <2>2, <2>3
    <2> QED
      BY <2>4
  <1>6. IsUpTo(upTo)
    <2> HIDE DEF IsUpTo
    <2> QED
      BY <1>5
  <1> HIDE DEF upTo
  <1>7. upTo[0] = <<>> /\ \A i \in 1 .. n : upTo[i] = upTo[i - 1] \o New(i)
    <2>1. 0 \in 0 .. n /\ \A i \in 1 .. n : i \in 0 .. n /\ i # 0
      BY <1>1
    <2>2. \A i \in 0 .. n : upTo[i] = IF i = 0 THEN <<>> ELSE upTo[i - 1] \o New(i)
      BY <1>6
    <2> QED
      BY <2>1, <2>2
  <1> DEFINE Bad == {k \in 0 .. n : upTo[k] \notin Seq(S)}
  <1>8. \A i \in 1 .. n : upTo[i - 1] \in Seq(S) => upTo[i] \in Seq(S)
    <2> SUFFICES ASSUME NEW i \in 1 .. n, upTo[i - 1] \in Seq(S) PROVE upTo[i] \in Seq(S)
      OBVIOUS
    <2>1. upTo[i - 1] \o New(i) \in Seq(S)
      BY <1>3, ConcatProperties
    <2> QED
      BY <1>7, <2>1
  <1>9. Bad = {}
    <2>1. SUFFICES ASSUME Bad # {} PROVE FALSE
      OBVIOUS
    <2> DEFINE m == Min(Bad)
    <2>2. Bad \subseteq Nat
      BY <1>1
    <2>3. m \in Bad /\ \A k \in Bad : m <= k
      BY <2>1, <2>2, Least
    <2> HIDE DEF m
    <2>4. m # 0
      <3>1. upTo[0] \in Seq(S)
        BY <1>7
      <3> QED
        BY <2>3, <3>1
    <2>5. m \in 1 .. n /\ m - 1 \in 0 .. n /\ ~(m <= m - 1)
      BY <1>1, <2>3, <2>4
    <2>6. upTo[m - 1] \in Seq(S)
      BY <2>3, <2>5
    <2> QED
      BY <1>8, <2>3, <2>5, <2>6
  <1>10. upTo[n] \in Seq(S)
    BY <1>1, <1>9
  <1> QED
    BY <1>2, <1>10 DEF S

(* Steps that leave the files alone, and the job of those that are still   *)
(* to come.                                                                *)
Less(s) ==
    /\ IsSeq(s)
    /\ Kinds(s) \cap JobSteps \subseteq Kinds(todo)
    /\ "moved" \in Kinds(todo) => "moved" \in Kinds(s)

(* The destination of a copy is closed. *)
Closes ==
    /\ job.src # job.dest /\ disk' \in [Paths -> Entries]
    /\ \A p \in Paths : p # job.dest => disk'[p] = disk[p]
    /\ missed' \in BOOLEAN /\ (missed => missed')

Quiet ==
    /\ ~At("pasted") /\ Less(todo')
    /\ UNCHANGED <<card, stopCopying, asked, kept>>
    /\ UNCHANGED <<disk, missed>> \/ Closes
    /\ clip' = clip \/ (clip'.path \in Paths \cup {NoPath} /\ clip'.mode \in {"none", "copy", "cut"})
    /\ job' = job \/ (job' \in Jobs /\ job'.copied <= job'.done /\ job'.done <= job'.length /\ Kinds(todo) \cap JobSteps = {})
    /\ copyingFile' = FALSE \/ (copyingFile' = copyingFile /\ ~Copying)
    /\ KeptInv /\ kept # Absent /\ At("moved")' /\ answer' = Success => missed' \/ SourceOut \/ disk'[job.dest] = kept

LEMMA MovedIs == ~At("pasted") => (todo # ToPasted)
  <1>1. IsSeq(ToRefresh)
    BY Rests
  <1>2. ToPasted # <<>> /\ Head(ToPasted) = Step("pasted")
    BY <1>1, RestsMade, Pushed
  <1> QED
    BY <1>2 DEF At, Step

LEMMA LessHas ==
    ASSUME Less(todo'), NEW S \in SUBSET JobSteps, Has(todo', S)
    PROVE  Has(todo, S)
  BY DEF Less, Has

LEMMA JobSets ==
    /\ {"moved"} \subseteq JobSteps /\ {"copyFile", "overwrite", "open"} \subseteq JobSteps
    /\ CopySteps \ {"copyFile", "full"} \subseteq JobSteps /\ RenameSteps \ {"moved"} \subseteq JobSteps
    /\ ShowingProgress \subseteq JobSteps
  BY DEF JobSteps, CopySteps, RenameSteps, ShowingProgress

LEMMA QuietFiles ==
    ASSUME FilesInv, FlagsInv, Quiet
    PROVE  FilesInv' /\ FlagsInv'
  <1>1. Less(todo')
    BY DEF Quiet
  <1>2. FlagsInv'
    BY DEF Quiet, FlagsInv, StopIsAsked
  <1>3. /\ disk' \in [Paths -> Entries] /\ card' \in BOOLEAN /\ stopCopying' \in BOOLEAN /\ asked' \in BOOLEAN
        /\ copyingFile' \in BOOLEAN
        /\ clip'.path \in Paths \cup {NoPath} /\ clip'.mode \in {"none", "copy", "cut"}
        /\ missed' \in BOOLEAN /\ job' \in Jobs /\ job'.copied <= job'.done /\ job'.done <= job'.length
    <2>1. /\ disk' \in [Paths -> Entries] /\ card' \in BOOLEAN /\ stopCopying' \in BOOLEAN /\ asked' \in BOOLEAN
          /\ missed' \in BOOLEAN
      <3> HIDE DEF Paths, Entries
      <3> QED
        BY DEF Quiet, Closes, FilesInv
    <2>2. copyingFile' \in BOOLEAN
      BY DEF Quiet, FilesInv
    <2>3. clip'.path \in Paths \cup {NoPath} /\ clip'.mode \in {"none", "copy", "cut"}
      BY DEF Quiet, FilesInv
    <2>4. job' \in Jobs /\ job'.copied <= job'.done /\ job'.done <= job'.length
      <3> HIDE DEF Jobs
      <3> QED
        BY DEF Quiet, FilesInv
    <2> QED
      BY <2>1, <2>2, <2>3, <2>4
  <1>4. CASE job' = job
    <2>1. /\ Has(todo', JobSteps) => Has(todo, JobSteps)
          /\ Has(todo', CopySteps \ {"copyFile", "full"}) => Has(todo, CopySteps \ {"copyFile", "full"})
          /\ Has(todo', RenameSteps \ {"moved"}) => Has(todo, RenameSteps \ {"moved"})
      BY <1>1, LessHas, JobSets
    <2>2. /\ Has(todo, JobSteps) => job'.dest[2] = job'.src[2] /\ job'.src # job'.dest
          /\ Has(todo, CopySteps \ {"copyFile", "full"}) => job'.src \in Paths /\ job'.dest \in Paths
          /\ Has(todo, RenameSteps \ {"moved"}) => job'.done = 0
      BY <1>4 DEF FilesInv
    <2> QED
      BY <1>2, <1>3, <2>1, <2>2 DEF FilesInv
  <1>5. CASE Kinds(todo) \cap JobSteps = {}
    <2>1. Kinds(todo') \cap JobSteps = {}
      BY <1>1, <1>5 DEF Less
    <2>2. ~Has(todo', JobSteps) /\ ~Has(todo', CopySteps \ {"copyFile", "full"}) /\ ~Has(todo', RenameSteps \ {"moved"})
      BY <2>1, JobSets DEF Has
    <2> QED
      BY <1>2, <1>3, <2>2 DEF FilesInv
  <1> QED
    BY <1>2, <1>4, <1>5 DEF Quiet

LEMMA QuietKept ==
    ASSUME KeptInv, Quiet
    PROVE  KeptInv'
  <1> SUFFICES ASSUME kept # Absent PROVE KeptInv'
    BY DEF KeptInv, Quiet
  <1>1. Less(todo') /\ UNCHANGED <<card, kept>>
    BY DEF Quiet
  <1>2. Has(todo, {"moved"})
    BY MovedIs DEF KeptInv, Quiet
  <1>3. "moved" \in Kinds(todo) /\ Has(todo', {"moved"})
    BY <1>1, <1>2 DEF Less, Has
  <1>4. job' = job
    BY <1>3, JobSets DEF Quiet
  <1>5. /\ Has(todo', {"copyFile", "overwrite", "open"}) => Has(todo, {"copyFile", "overwrite", "open"})
        /\ Has(todo', ShowingProgress) => Has(todo, ShowingProgress)
    BY <1>1, LessHas, JobSets
  <1>6. At("moved")' /\ answer' = Success => missed' \/ SourceOut \/ disk'[job.dest] = kept
    BY DEF Quiet
  <1>7. SourceOut' = SourceOut
    BY <1>1, <1>4 DEF SourceOut, Reachable
  <1>8. job.src \in Paths /\ job.dest \in Paths /\ disk[job.src] = kept
    BY <1>2 DEF KeptInv
  <1>9. disk'[job.src] = kept /\ (missed => missed')
    BY <1>8 DEF Quiet, Closes
  <1> HIDE DEF Paths
  <1> QED
    BY <1>1, <1>2, <1>3, <1>4, <1>5, <1>6, <1>7, <1>8, <1>9 DEF KeptInv

(* What may come in the place of a step that has no part in it. *)
LEMMA LessPushed ==
    ASSUME NEW s, Less(s), NEW b, b.do \notin JobSteps
    PROVE  Less(Push(b, s))
  BY KindsPushed, Pushed DEF Less

Aside(s) == Less(s) /\ (s # <<>> => Head(s).do \notin {"slot2", "moved"})
Calm(b) == b.do \notin JobSteps \cup {"slot2"}

LEMMA CalmPushed ==
    ASSUME NEW s, Less(s), NEW b, Calm(b)
    PROVE  Aside(Push(b, s)) /\ Less(Push(b, s))
  <1>1. Less(Push(b, s))
    BY LessPushed DEF Calm
  <1>2. Head(Push(b, s)) = b
    BY Pushed DEF Less
  <1> QED
    BY <1>1, <1>2, JobSets DEF Aside, Calm

LEMMA LessTail ==
    ASSUME WindowsInv, todo # <<>>, Head(todo).do \notin JobSteps
    PROVE  /\ Less(Tail(todo)) /\ IsSeq(Tail(todo))
           /\ Head(todo).do \notin {"full", "false"} /\ Head(todo) # EnterStep("top") => Aside(Tail(todo))
  <1> DEFINE a == Head(todo)
             t == Tail(todo)
  <1>1. IsSeq(t) /\ todo = Push(a, t) /\ Fits(a, t)
    BY Top DEF WindowsInv
  <1>2. a.do \notin JobSteps
    OBVIOUS
  <1> HIDE DEF a, t
  <1>3. Kinds(todo) = {a.do} \cup Kinds(t)
    BY <1>1, KindsPushed
  <1>4. Less(t)
    BY <1>1, <1>2, <1>3, JobSets DEF Less
  <1>5. ASSUME a.do \notin {"full", "false"}, a # EnterStep("top"), t # <<>> PROVE Head(t).do \notin {"slot2", "moved"}
    BY <1>1, <1>2, <1>5 DEF Fits, JobSteps
  <1> QED
    BY <1>1, <1>4, <1>5 DEF Aside, a, t

LEMMA Asides ==
    ASSUME NEW t, Less(t)
    PROVE  /\ <<>> \o t = t
           /\ \A b : Calm(b) => Aside(<<b>> \o t) /\ Less(<<b>> \o t)
           /\ \A b, c : Calm(b) /\ c.do \notin JobSteps => Aside(<<b, c>> \o t) /\ Less(<<b, c>> \o t)
           /\ \A f : Aside(Deleted(f) \o t) /\ Less(Deleted(f) \o t)
           /\ \A f, p : Aside(<<Modal(f, p)>> \o t)
           /\ \A p : MessageBox(p, t) => Aside(todo')
  <1>1. IsSeq(t)
    BY DEF Less
  <1>2. \A b : <<b>> \o t = Push(b, t)
    BY <1>1, Unfold
  <1>3. \A b : Calm(b) => Aside(<<b>> \o t) /\ Less(<<b>> \o t)
    BY <1>2, CalmPushed
  <1>4. ASSUME NEW b, NEW c, Calm(b), c.do \notin JobSteps PROVE Aside(<<b, c>> \o t) /\ Less(<<b, c>> \o t)
    <2>1. Less(Push(c, t))
      BY <1>4, LessPushed
    <2>2. <<b, c>> \o t = Push(b, Push(c, t))
      BY <1>1, Unfold
    <2> QED
      BY <1>4, <2>1, <2>2, CalmPushed
  <1>5. \A f, p : Calm(Modal(f, p)) /\ Calm([do |-> "delete", form |-> f])
    BY DEF Calm, Modal, JobSteps, CopySteps, RenameSteps, ShowingProgress
  <1>6. \A f : Aside(Deleted(f) \o t) /\ Less(Deleted(f) \o t)
    BY <1>3, <1>5 DEF Deleted
  <1>7. ASSUME NEW p, MessageBox(p, t) PROVE Aside(todo')
    <2> DEFINE r == Deleted("msgbox") \o t
    <2>1. Less(r) /\ IsSeq(r)
      BY <1>6 DEF Less
    <2>2. todo' = <<Modal("msgbox", p)>> \o r
      BY <1>7 DEF MessageBox, Open
    <2> HIDE DEF r
    <2>3. todo' = Push(Modal("msgbox", p), r)
      BY <2>1, <2>2, Unfold
    <2> QED
      BY <1>5, <2>1, <2>3, CalmPushed
  <1> QED
    BY <1>1, <1>3, <1>4, <1>5, <1>6, <1>7, Unfold

Passes == todo # <<>> /\ Head(todo).do \notin JobSteps \cup {"pasted"} /\ UNCHANGED copyVars /\ Aside(todo')

LEMMA PassesQuiet ==
    ASSUME Passes
    PROVE  Quiet /\ ~At("slot2")'
  <1>1. ~At("pasted") /\ ~Copying
    BY DEF Passes, At, Copying, JobSteps, CopySteps, ShowingProgress
  <1>2. ~At("slot2")' /\ ~At("moved")' /\ Less(todo')
    BY DEF Passes, Aside, At
  <1> QED
    BY <1>1, <1>2 DEF Passes, Quiet, copyVars

LEMMA OtherKinds ==
    /\ \A n \in ListSteps \cup LastSteps \cup BeforeRefresh \cup {"full", "modal", "delete", "confirm", "saveType", "click", "focus"} :
         n \notin JobSteps
    /\ \A n : Step(n).do = n
    /\ \A d : EnterStep(d).do = "enterDir" /\ EnterStep(d).dir = d
    /\ \A i : ItemStep(i).do = "item"
    /\ \A c : ClickStep(c).do = "click"
  BY DEF ListSteps, LastSteps, BeforeRefresh, JobSteps, CopySteps, RenameSteps, ShowingProgress,
         Step, EnterStep, ItemStep, ClickStep

LEMMA CalmSteps ==
    /\ \A n \in (ListSteps \ {"slot2"}) \cup LastSteps \cup BeforeRefresh \cup {"full", "confirm", "saveType", "focus"} :
         Calm(Step(n))
    /\ \A d : Calm(EnterStep(d))
    /\ \A i : Calm(ItemStep(i))
    /\ \A c : Calm(ClickStep(c))
    /\ \A d : Calm([do |-> "entered", from |-> d])
  <1>1. "slot2" \notin LastSteps \cup BeforeRefresh \cup {"full", "confirm", "saveType", "focus"}
    BY DEF LastSteps, BeforeRefresh
  <1>2. {"enterDir", "entered"} \subseteq ListSteps \ {"slot2"} /\ "item" \in LastSteps
    BY DEF ListSteps, LastSteps
  <1>3. \A n \in (ListSteps \ {"slot2"}) \cup LastSteps \cup BeforeRefresh \cup {"full", "confirm", "saveType", "focus", "click"} :
          n \notin JobSteps \cup {"slot2"}
    BY <1>1, OtherKinds
  <1> QED
    BY <1>2, <1>3, OtherKinds DEF Calm

LEMMA AsideBy ==
    ASSUME WindowsInv, NEW n, At(n), n \notin JobSteps,
           \/ Call(<<>>) /\ n \notin {"full", "false"} /\ Head(todo) # EnterStep("top")
           \/ \E b : Calm(b) /\ Call(<<b>>)
           \/ \E b, c : Calm(b) /\ c.do \notin JobSteps /\ Call(<<b, c>>)
           \/ \E p : MessageBox(p, Tail(todo))
           \/ \E b, p : Calm(b) /\ MessageBox(p, <<b>> \o Tail(todo))
           \/ \E b, c, p : Calm(b) /\ c.do \notin JobSteps /\ MessageBox(p, <<b, c>> \o Tail(todo))
           \/ \E f, p : Open(f, p, Deleted(f) \o Tail(todo))
    PROVE  Aside(todo')
  <1> DEFINE t == Tail(todo)
  <1>1. todo # <<>> /\ Head(todo).do = n
    BY DEF At
  <1>2. Less(t) /\ (n \notin {"full", "false"} /\ Head(todo) # EnterStep("top") => Aside(t))
    BY <1>1, LessTail
  <1>3. CASE Call(<<>>) /\ n \notin {"full", "false"} /\ Head(todo) # EnterStep("top")
    <2>1. todo' = <<>> \o t
      BY <1>3 DEF Call
    <2> HIDE DEF t
    <2>2. todo' = t
      BY <1>2, <2>1, Asides
    <2> QED
      BY <1>2, <1>3, <2>2
  <1>4. ASSUME NEW b, Calm(b), Call(<<b>>) PROVE Aside(todo')
    <2>1. todo' = <<b>> \o t
      BY <1>4 DEF Call
    <2> HIDE DEF t
    <2> QED
      BY <1>2, <1>4, <2>1, Asides
  <1>5. ASSUME NEW b, NEW c, Calm(b), c.do \notin JobSteps, Call(<<b, c>>) PROVE Aside(todo')
    <2>1. todo' = <<b, c>> \o t
      BY <1>5 DEF Call
    <2> HIDE DEF t
    <2>2. Aside(<<b, c>> \o t)
      BY <1>2, <1>5, Asides
    <2> QED
      BY <2>1, <2>2
  <1>6. ASSUME NEW p, MessageBox(p, t) PROVE Aside(todo')
    <2> HIDE DEF t
    <2> QED
      BY <1>2, <1>6, Asides
  <1>7. ASSUME NEW b, NEW p, Calm(b), MessageBox(p, <<b>> \o t) PROVE Aside(todo')
    <2> HIDE DEF t
    <2>1. Less(<<b>> \o t)
      BY <1>2, <1>7, Asides
    <2> QED
      BY <1>7, <2>1, Asides
  <1>8. ASSUME NEW b, NEW c, NEW p, Calm(b), c.do \notin JobSteps, MessageBox(p, <<b, c>> \o t) PROVE Aside(todo')
    <2> HIDE DEF t
    <2>1. Less(<<b, c>> \o t)
      BY <1>2, <1>8, Asides
    <2> QED
      BY <1>8, <2>1, Asides
  <1>9. ASSUME NEW f, NEW p, Open(f, p, Deleted(f) \o t) PROVE Aside(todo')
    <2>1. todo' = <<Modal(f, p)>> \o (Deleted(f) \o t)
      BY <1>9 DEF Open
    <2> HIDE DEF t
    <2>2. Less(Deleted(f) \o t)
      BY <1>2, Asides
    <2>3. Aside(<<Modal(f, p)>> \o (Deleted(f) \o t))
      BY <2>2, Asides
    <2> QED
      BY <2>1, <2>3
  <1> QED
    BY <1>3, <1>4, <1>5, <1>6, <1>7, <1>8, <1>9

LEMMA PassesBy ==
    ASSUME WindowsInv, NEW n, At(n), n \notin JobSteps \cup {"pasted"}, UNCHANGED copyVars,
           \/ Call(<<>>) /\ n \notin {"full", "false"} /\ Head(todo) # EnterStep("top")
           \/ \E b : Calm(b) /\ Call(<<b>>)
           \/ \E b, c : Calm(b) /\ c.do \notin JobSteps /\ Call(<<b, c>>)
           \/ \E p : MessageBox(p, Tail(todo))
           \/ \E b, p : Calm(b) /\ MessageBox(p, <<b>> \o Tail(todo))
           \/ \E b, c, p : Calm(b) /\ c.do \notin JobSteps /\ MessageBox(p, <<b, c>> \o Tail(todo))
           \/ \E f, p : Open(f, p, Deleted(f) \o Tail(todo))
    PROVE  Passes
  BY AsideBy DEF Passes, At

LEMMA ListPasses ==
    ASSUME WindowsInv,
           \/ EnterSlot2 \/ SelectSlot2 \/ EnterFails \/ EnterDir \/ BackParentDir \/ SelectEntered
           \/ Launch \/ ShowFileInfo \/ Restart \/ ListType \/ UiStyle \/ Language
    PROVE  Passes
  <1>1. \A n \in ListSteps : n \notin JobSteps \cup {"pasted"}
    BY OtherKinds DEF ListSteps
  <1>2. /\ {"enterDir", "slot2", "back", "entered", "launch", "info", "restart", "listType", "uiStyle", "language"} \subseteq ListSteps
        /\ {"loadRom", "false", "restart", "enterDir"} \subseteq ListSteps \ {"slot2"}
    BY DEF ListSteps
  <1>3. /\ Calm(Step("loadRom")) /\ Calm(Step("false")) /\ Calm(Step("restart"))
        /\ \A d : Calm(EnterStep(d)) /\ Calm([do |-> "entered", from |-> d])
        /\ Step("slot2").do \notin JobSteps /\ \A d : [do |-> "entered", from |-> d].do \notin JobSteps
    <2>1. "entered" \in ListSteps
      BY DEF ListSteps
    <2> QED
      BY <1>2, <2>1, OtherKinds, CalmSteps
  <1>4. \A n : At(n) /\ n \notin {"enterDir"} => Head(todo) # EnterStep("top")
    BY OtherKinds DEF At
  <1>5. EnterStep("top").dir = "top"
    BY OtherKinds
  <1>6. CASE EnterSlot2
    <2>1. At("enterDir") /\ UNCHANGED copyVars
      BY <1>6 DEF EnterSlot2
    <2>2. Call(<<Step("loadRom")>>) \/ MessageBox(NULL, <<EnterStep("top"), Step("slot2")>> \o Tail(todo))
      BY <1>6 DEF EnterSlot2, Go
    <2> QED
      BY <1>1, <1>2, <1>3, <2>1, <2>2, PassesBy
  <1>7. CASE SelectSlot2
    BY <1>1, <1>2, <1>4, <1>7, PassesBy DEF SelectSlot2, Go
  <1>8. CASE EnterFails
    <2>1. At("enterDir") /\ UNCHANGED copyVars /\ Head(todo) # EnterStep("top")
      BY <1>5, <1>8 DEF EnterFails
    <2>2. Call(<<>>) \/ MessageBox(NULL, <<Step("false")>> \o Tail(todo))
      BY <1>8 DEF EnterFails, Return
    <2> QED
      BY <1>1, <1>2, <1>3, <2>1, <2>2, PassesBy
  <1>9. CASE EnterDir
    <2>1. At("enterDir") /\ UNCHANGED copyVars /\ Call(<<>>) /\ Head(todo) # EnterStep("top")
      BY <1>5, <1>9, CopyAssumption DEF EnterDir, Reachable, Return
    <2> QED
      BY <1>1, <1>2, <2>1, PassesBy
  <1>10. CASE BackParentDir
    <2>1. At("back") /\ UNCHANGED copyVars
      BY <1>10 DEF BackParentDir
    <2>2. \/ \E d : Call(<<EnterStep(d)>>)
          \/ Call(<<EnterStep(Parent[dir]), [do |-> "entered", from |-> dir]>>)
      BY <1>10 DEF BackParentDir, Go
    <2> QED
      BY <1>1, <1>2, <1>3, <2>1, <2>2, PassesBy
  <1>11. CASE SelectEntered
    BY <1>1, <1>2, <1>4, <1>11, PassesBy DEF SelectEntered, Go
  <1>12. CASE Launch
    <2>1. At("launch") /\ UNCHANGED copyVars /\ Head(todo) # EnterStep("top")
      BY <1>4, <1>12 DEF Launch
    <2>2. \/ Call(<<>>) \/ (\E d : Call(<<EnterStep(d)>>)) \/ Call(<<Step("loadRom")>>)
          \/ MessageBox(NULL, <<Step("false")>> \o Tail(todo))
      BY <1>12 DEF Launch, Go, Return
    <2> QED
      BY <1>1, <1>2, <1>3, <2>1, <2>2, PassesBy
  <1>13. CASE ShowFileInfo
    <2>1. At("info") /\ UNCHANGED copyVars /\ Head(todo) # EnterStep("top")
      BY <1>4, <1>13 DEF ShowFileInfo
    <2>2. Call(<<>>) \/ Open("rominfo", "main", Deleted("rominfo") \o Tail(todo))
      BY <1>13 DEF ShowFileInfo, Return
    <2> QED
      BY <1>1, <1>2, <2>1, <2>2, PassesBy
  <1>14. CASE Restart
    <2>1. At("restart") /\ UNCHANGED copyVars /\ Head(todo) # EnterStep("top")
      BY <1>4, <1>14 DEF Restart
    <2>2. Call(<<>>) \/ Call(<<Step("loadRom")>>)
      BY <1>14 DEF Restart, Go
    <2> QED
      BY <1>1, <1>2, <1>3, <2>1, <2>2, PassesBy
  <1>15. CASE ListType
    <2>1. At("listType") /\ UNCHANGED copyVars /\ Head(todo) # EnterStep("top")
      BY <1>4, <1>15 DEF ListType
    <2>2. Call(<<>>) \/ \E d : Call(<<EnterStep(d)>>)
      BY <1>15 DEF ListType, Go
    <2> QED
      BY <1>1, <1>2, <1>3, <2>1, <2>2, PassesBy
  <1>16. ASSUME NEW what \in {"uiStyle", "language"}, Changed(what) PROVE Passes
    <2>1. At(what) /\ UNCHANGED copyVars /\ Head(todo) # EnterStep("top") /\ what \in ListSteps \ {"full", "false"}
      BY <1>2, <1>4, <1>16 DEF Changed
    <2>2. Call(<<>>) \/ MessageBox("main", <<Step("restart")>> \o Tail(todo))
      BY <1>16 DEF Changed, Go
    <2> QED
      BY <1>1, <1>3, <2>1, <2>2, PassesBy
  <1> QED
    BY <1>6, <1>7, <1>8, <1>9, <1>10, <1>11, <1>12, <1>13, <1>14, <1>15, <1>16 DEF UiStyle, Language

(* Nothing is moved while an item of the start menu is handled. *)
LEMMA ItemAlone ==
    ASSUME WindowsInv, todo # <<>>, Head(todo).do \in {"item", "refresh"}
    PROVE  Kinds(todo) \cap JobSteps = {} /\ ~Copying /\ ~At("pasted")
  <1>1. todo = Push(Head(todo), <<>>)
    BY AtItems
  <1>2. Kinds(todo) = {Head(todo).do} \cup Kinds(<<>>)
    BY <1>1, KindsPushed, Tuples
  <1> QED
    BY <1>2, NoSteps DEF JobSteps, CopySteps, RenameSteps, ShowingProgress, Copying, At

LEMMA ItemQuiet ==
    ASSUME WindowsInv, RowsInv, todo # <<>>, Head(todo).do \in {"item", "refresh"}, Aside(todo'),
           UNCHANGED <<disk, card, stopCopying, asked, kept, missed, copyingFile>>,
           clip' = clip \/ (clip'.path \in Paths \cup {NoPath} /\ clip'.mode \in {"none", "copy", "cut"}),
           job' = job \/ (job' \in Jobs /\ job'.copied <= job'.done /\ job'.done <= job'.length)
    PROVE  Quiet /\ ~At("slot2")'
  <1>1. ~At("slot2")' /\ ~At("moved")' /\ Less(todo')
    BY DEF Aside, At
  <1> HIDE DEF Jobs, NoPath
  <1> QED
    BY <1>1, ItemAlone DEF Quiet

LEMMA NoJobIs == NoJob \in Jobs /\ NoJob.copied <= NoJob.done /\ NoJob.done <= NoJob.length
  BY DEF NoJob, Jobs, Places, NoPath

LEMMA SelectedIs ==
    ASSUME RowsInv, ~Nothing
    PROVE  /\ Selected \in Places
           /\ dir # "top" => Selected \in Paths
  <1>1. sel \in DOMAIN rows
    BY LenProperties DEF RowsInv, Nothing
  <1>2. rows[sel] \in Names \cup Folders \cup {"slot2"} /\ (dir # "top" => rows[sel] \in Names \cup Folders)
    BY <1>1, ElementOfSeq, LenProperties DEF RowsInv
  <1> QED
    BY <1>2 DEF RowsInv, Selected, Places, Paths

LEMMA ItemStepsQuiet ==
    ASSUME WindowsInv, RowsInv,
           CopyOrCut("copy") \/ CopyOrCut("cut") \/ DeleteItem \/ Refresh
    PROVE  Quiet /\ ~At("slot2")'
  <1>1. {"item", "refresh"} \cap (JobSteps \cup {"full", "false"}) = {} /\ Step("refresh").do \notin JobSteps
    BY OtherKinds DEF JobSteps, CopySteps, RenameSteps, ShowingProgress
  <1>2. /\ Calm(Step("refresh")) /\ Calm(Step("deleteFile")) /\ \A d : Calm(EnterStep(d))
    BY CalmSteps DEF LastSteps, BeforeRefresh
  <1>3. todo # <<>> /\ Head(todo).do \in {"item", "refresh"} /\ At(Head(todo).do) /\ Head(todo) # EnterStep("top")
    <2>1. At("item") \/ At("refresh")
      BY DEF CopyOrCut, DeleteItem, Refresh, AtItem
    <2> QED
      BY <2>1, OtherKinds DEF At
  <1>4. ASSUME NEW mode \in {"copy", "cut"}, CopyOrCut(mode) PROVE Quiet /\ ~At("slot2")'
    <2>1. UNCHANGED <<disk, card, copyingFile, stopCopying, job, asked, kept, missed>>
      BY <1>4 DEF CopyOrCut
    <2>2. Call(<<>>) \/ MessageBox("main", Tail(todo))
      BY <1>4 DEF CopyOrCut, Return
    <2>3. Aside(todo')
      BY <1>1, <1>3, <2>2, AsideBy
    <2>4. clip' = clip \/ (clip'.path \in Paths \cup {NoPath} /\ clip'.mode \in {"none", "copy", "cut"})
      <3>1. CASE Nothing
        BY <1>4, <3>1 DEF CopyOrCut
      <3>2. CASE ~Nothing
        <4>1. dir # "top" => Selected \in Paths
          BY <3>2, SelectedIs
        <4>2. clip' = clip \/ clip' = [path |-> IF dir = "top" THEN NoPath ELSE Selected, mode |-> mode]
          BY <1>4, <3>2 DEF CopyOrCut
        <4> QED
          BY <4>1, <4>2
      <3> QED
        BY <3>1, <3>2
    <2> QED
      BY <1>3, <2>1, <2>3, <2>4, ItemQuiet
  <1>5. CASE DeleteItem
    <2>1. UNCHANGED <<disk, card, copyingFile, stopCopying, clip, asked, kept, missed>>
      BY <1>5 DEF DeleteItem
    <2>2. Call(<<>>) \/ Call(<<Step("deleteFile"), Step("refresh")>>)
      BY <1>5 DEF DeleteItem, Return, Go
    <2>3. Aside(todo')
      BY <1>1, <1>2, <1>3, <2>2, AsideBy
    <2>4. job' = job \/ (job' \in Jobs /\ job'.copied <= job'.done /\ job'.done <= job'.length)
      <3>1. CASE Nothing
        BY <1>5, <3>1 DEF DeleteItem
      <3>2. CASE ~Nothing
        <4>1. Selected \in Places /\ NoPath \in Places
          BY <3>2, SelectedIs DEF Places, NoPath
        <4>2. job' = [NoJob EXCEPT !.src = Selected]
          BY <1>5, <3>2 DEF DeleteItem
        <4>3. job' = [src |-> Selected, dest |-> NoPath, silent |-> FALSE, length |-> 0, done |-> 0, copied |-> 0]
          BY <4>2 DEF NoJob
        <4>4. job' \in Jobs /\ job'.done = 0 /\ job'.copied = 0 /\ job'.length = 0
          BY <4>1, <4>3 DEF Jobs
        <4> QED
          BY <4>4
      <3> QED
        BY <3>1, <3>2
    <2> QED
      BY <1>3, <2>1, <2>3, <2>4, ItemQuiet
  <1>6. CASE Refresh
    <2>1. UNCHANGED <<disk, card, copyingFile, stopCopying, clip, asked, kept, missed>> /\ job' = NoJob
      BY <1>6 DEF Refresh
    <2>2. Call(<<>>) \/ \E d : Call(<<EnterStep(d)>>)
      BY <1>6 DEF Refresh, Go
    <2>3. Aside(todo')
      BY <1>1, <1>2, <1>3, <2>2, AsideBy
    <2> QED
      BY <1>3, <2>1, <2>3, NoJobIs, ItemQuiet
  <1> QED
    BY <1>4, <1>5, <1>6

LEMMA ItemPasses ==
    ASSUME WindowsInv,
           Paste \/ ShowHelp \/ SetPatches \/ InfoItem \/ SetSystemParam
    PROVE  Passes
  <1>1. "item" \notin JobSteps \cup {"full", "false", "pasted"}
    BY DEF JobSteps, CopySteps, RenameSteps, ShowingProgress
  <1>2. /\ Calm(Step("paste")) /\ Step("refresh").do \notin JobSteps /\ Calm(Step("info"))
        /\ Calm(Step("uiStyle")) /\ Calm(Step("language")) /\ Calm(Step("listType"))
    BY CalmSteps, OtherKinds DEF BeforeRefresh, ListSteps, LastSteps
  <1>3. At("item") /\ UNCHANGED copyVars
    BY DEF Paste, ShowHelp, SetPatches, InfoItem, SetSystemParam, OpenForm, AtItem
  <1>4. CASE Paste
    <2>1. Call(<<Step("paste"), Step("refresh")>>)
      BY <1>4 DEF Paste, Go
    <2> QED
      BY <1>1, <1>2, <1>3, <2>1, PassesBy
  <1>5. CASE InfoItem
    <2>1. Call(<<Step("info")>>)
      BY <1>5 DEF InfoItem, Go
    <2> QED
      BY <1>1, <1>2, <1>3, <2>1, PassesBy
  <1>6. ASSUME NEW f, Open(f, "main", <<>> \o Deleted(f) \o Tail(todo)) PROVE Passes
    <2>1. <<>> \o Deleted(f) = Deleted(f)
      BY Tuples, Unfold DEF Deleted
    <2>2. Open(f, "main", Deleted(f) \o Tail(todo))
      BY <1>6, <2>1
    <2> QED
      BY <1>1, <1>3, <2>2, PassesBy
  <1>7. CASE SetSystemParam
    <2> DEFINE t == Tail(todo)
               d == [do |-> "delete", form |-> "setting"]
               x == Deleted("setting")
               s == <<Step("uiStyle"), Step("language"), Step("listType")>> \o x
               r == s \o t
    <2>1. todo' = <<Modal("setting", "main")>> \o r
      BY <1>7 DEF SetSystemParam, OpenForm, Open
    <2>2. Less(t) /\ IsSeq(t)
      BY <1>1, <1>3, LessTail DEF At
    <2>3. IsSeq(x) /\ x \o t = Push(d, t)
      BY <2>2, Tuples, Unfold DEF Deleted
    <2>4. Calm(d)
      BY DEF Calm, JobSteps, CopySteps, RenameSteps, ShowingProgress
    <2> HIDE DEF t, d, x
    <2>5. s = Push(Step("uiStyle"), Push(Step("language"), Push(Step("listType"), x)))
      BY <2>3, Unfold
    <2> HIDE DEF s
    <2>6. r = Push(Step("uiStyle"), Push(Step("language"), Push(Step("listType"), Push(d, t))))
      <3>1. \A a, u : IsSeq(u) => Push(a, u) \o t = Push(a, u \o t)
        BY <2>2, Unfold
      <3>2. IsSeq(Push(Step("listType"), x)) /\ IsSeq(Push(Step("language"), Push(Step("listType"), x)))
        BY <2>3, Pushed
      <3>3. Push(Step("listType"), x) \o t = Push(Step("listType"), Push(d, t))
        BY <2>3, <3>1, Zenon
      <3>4. Push(Step("language"), Push(Step("listType"), x)) \o t = Push(Step("language"), Push(Step("listType"), Push(d, t)))
        BY <3>1, <3>2, <3>3, Zenon
      <3>5. Push(Step("uiStyle"), Push(Step("language"), Push(Step("listType"), x))) \o t
              = Push(Step("uiStyle"), Push(Step("language"), Push(Step("listType"), Push(d, t))))
        BY <3>1, <3>2, <3>4, Zenon
      <3> QED
        BY <2>5, <3>5
    <2> HIDE DEF r
    <2>7. Less(Push(d, t))
      BY <2>2, <2>4, CalmPushed
    <2>8. Less(Push(Step("listType"), Push(d, t)))
      BY <1>2, <2>7, CalmPushed
    <2>9. Less(Push(Step("language"), Push(Step("listType"), Push(d, t))))
      BY <1>2, <2>8, CalmPushed
    <2>10. Less(r)
      BY <1>2, <2>6, <2>9, CalmPushed
    <2>11. Aside(todo')
      BY <2>1, <2>10, Asides
    <2> QED
      BY <1>1, <1>3, <2>11 DEF Passes, At
  <1> QED
    BY <1>4, <1>5, <1>6, <1>7 DEF ShowHelp, SetPatches, OpenForm

LEMMA LessPopped ==
    ASSUME NEW b, NEW s, IsSeq(s), Less(Push(b, s)), b.do # "moved"
    PROVE  Less(s)
  BY KindsPushed DEF Less

(* The loop of a form ends. *)
LEMMA FormEndsPasses ==
    ASSUME WindowsInv, todo # <<>>, InLoop(Tail(todo), Forms), Head(todo).do \in {"click", "confirm"},
           NEW x, CloseModal(Tail(todo), x), UNCHANGED copyVars
    PROVE  Passes
  <1> DEFINE a == Head(todo)
             t == Tail(todo)
             m == Head(t)
             r == Tail(t)
  <1>1. Plain(a) /\ t = Push(m, r) /\ IsSeq(r) /\ todo = Push(a, t) /\ m.do = "modal"
    BY AtForm
  <1>2. CloseModal(t, x)
    OBVIOUS
  <1>3. a.do \notin JobSteps \cup {"pasted"}
    BY OtherKinds
  <1>4. Less(t)
    BY <1>3, LessTail
  <1> HIDE DEF a, t, m, r
  <1>5. CloseModal(Push(m, r), x) /\ todo = Push(a, Push(m, r))
    BY <1>1, <1>2
  <1> DEFINE d == Head(r)
             u == Tail(r)
  <1>6. /\ Stack(r) /\ r # <<>> /\ r = Push(d, u) /\ IsSeq(u)
        /\ \/ d = [do |-> "delete", form |-> m.form] /\ todo' = u
           \/ d.do = "uiStyle" /\ todo' = r
    BY <1>1, <1>5, Closed
  <1>7. Less(r) /\ Head(r) = d
    BY <1>1, <1>4, LessPopped
  <1> HIDE DEF d, u
  <1>8. ASSUME d.do = "uiStyle", todo' = r PROVE Aside(todo')
    <2>1. Aside(r)
      BY <1>7, <1>8 DEF Aside
    <2> QED
      BY <1>8, <2>1
  <1>9. ASSUME d.do = "delete", todo' = u PROVE Aside(todo')
    <2>1. Fits(d, u)
      BY <1>6, StackPushed
    <2>2. u # <<>> => Head(u).do \notin {"slot2", "moved"}
      BY <1>9, <2>1 DEF Fits, EnterStep, CopySteps, ShowingProgress
    <2>3. Less(u)
      BY <1>6, <1>7, <1>9, LessPopped
    <2>4. Aside(u)
      BY <2>2, <2>3 DEF Aside
    <2> QED
      BY <1>9, <2>4
  <1>10. Aside(todo')
    <2>1. d = [do |-> "delete", form |-> m.form] => d.do = "delete"
      OBVIOUS
    <2> QED
      BY <1>6, <1>8, <1>9, <2>1
  <1> QED
    BY <1>3, <1>10 DEF Passes, a

LEMMA SettingsPass ==
    ASSUME WindowsInv, SettingsDone
    PROVE  Passes
  <1> DEFINE b == Step("language")
             c == Step("listType")
  <1>1. UNCHANGED copyVars /\ At("uiStyle")
    BY DEF SettingsDone
  <1>2. PICK a, u : a.do = "uiStyle" /\ IsSeq(u) /\ todo' = u /\ todo = Push(a, Push(b, Push(c, u)))
    BY SettingsLeft
  <1>3. Head(todo).do \notin JobSteps \cup {"pasted"} /\ todo # <<>> /\ b.do = "language" /\ c.do = "listType"
    BY <1>1, OtherKinds DEF At, ListSteps
  <1> HIDE DEF b, c
  <1>4. IsSeq(Push(c, u)) /\ IsSeq(Push(b, Push(c, u)))
    BY <1>2, Pushed
  <1>5. Tail(todo) = Push(b, Push(c, u)) /\ Stack(Tail(todo))
    <2>1. Tail(Push(a, Push(b, Push(c, u)))) = Push(b, Push(c, u))
      BY <1>4, Pushed
    <2> QED
      BY <1>2, <1>3, <2>1, Top DEF WindowsInv
  <1>6. Less(Push(b, Push(c, u)))
    BY <1>3, <1>5, LessTail
  <1>7. Less(u)
    BY <1>2, <1>3, <1>4, <1>6, LessPopped
  <1>8. Fits(c, u)
    BY <1>2, <1>4, <1>5, StackPushed
  <1>9. u # <<>> => Head(u).do \notin {"slot2", "moved"}
    BY <1>3, <1>8 DEF Fits, EnterStep, CopySteps, ShowingProgress
  <1> QED
    BY <1>1, <1>2, <1>3, <1>7, <1>9 DEF Passes, Aside

LEMMA FormPasses ==
    ASSUME WindowsInv,
           \/ ShowSaveType \/ OnOK \/ OnCancel \/ OnSettingOK \/ Confirm \/ OnSaveType
           \/ StartButton \/ ClickItem \/ LeaveMenu \/ (Delete /\ UNCHANGED copyVars) \/ (FocusBelow /\ UNCHANGED copyVars)
    PROVE  Passes
  <1>1. \A n \in {"saveType", "click", "confirm", "clickItem", "leave", "delete", "focus"} :
          n \notin JobSteps \cup {"pasted", "full", "false"}
    BY OtherKinds DEF LastSteps
  <1>2. \A n : At(n) /\ n # "enterDir" => Head(todo) # EnterStep("top")
    BY OtherKinds DEF At
  <1>3. Calm(Step("confirm")) /\ Calm(Step("saveType")) /\ \A i : Calm(ItemStep(i))
    BY CalmSteps
  <1>4. Forms \subseteq TopLevel /\ SettingWnds \subseteq Forms /\ "rominfo" \in Forms
    BY Shapes DEF Forms
  <1>5. CASE ShowSaveType
    <2>1. At("saveType") /\ UNCHANGED copyVars
      BY <1>5 DEF ShowSaveType
    <2>2. Call(<<>>) \/ Open("savetype", "rominfo", Deleted("savetype") \o Tail(todo))
      BY <1>5 DEF ShowSaveType, Go
    <2> QED
      BY <1>1, <1>2, <2>1, <2>2, PassesBy
  <1>6. ASSUME NEW f \in Forms, NEW b \in ToSet(Children[f]), NEW x, EndForm(f, b, x) PROVE Passes
    <2>1. Clicked(b) /\ CloseModal(Tail(todo), x) /\ UNCHANGED copyVars
      BY <1>6 DEF EndForm
    <2>2. todo # <<>> /\ Head(todo).do = "click" /\ InLoop(Tail(todo), Forms)
      BY <1>4, <1>6, <2>1, ButtonOf DEF InLoop
    <2> QED
      BY <2>1, <2>2, FormEndsPasses
  <1>7. CASE OnOK
    <2>1. PICK f \in Forms \ SettingWnds : EndForm(f, OkButton[f], OK)
      BY <1>7 DEF OnOK
    <2>2. OkButton[f] \in ToSet(Children[f])
      BY MenuAssumption
    <2> QED
      BY <1>6, <2>1, <2>2
  <1>8. CASE OnCancel
    <2>1. PICK f \in Forms \ {"help", "rominfo"} : EndForm(f, CancelButton[f], CANCEL)
      BY <1>8 DEF OnCancel
    <2>2. CancelButton[f] \in ToSet(Children[f])
      BY MenuAssumption
    <2> QED
      BY <1>6, <2>1, <2>2
  <1>9. CASE OnSettingOK
    <2>1. PICK f \in SettingWnds : At("click") /\ MessageBox(f, <<Step("confirm")>> \o Tail(todo))
      BY <1>9 DEF OnSettingOK, Clicked
    <2>2. UNCHANGED copyVars
      BY <1>9 DEF OnSettingOK
    <2> QED
      BY <1>1, <1>3, <2>1, <2>2, PassesBy
  <1>10. CASE Confirm
    <2>1. todo # <<>> /\ Head(todo).do = "confirm" /\ At("confirm") /\ UNCHANGED copyVars
      BY <1>10 DEF Confirm, At
    <2>2. InLoop(Tail(todo), Forms)
      BY <1>4, <2>1, Top DEF Fits, InLoop, WindowsInv
    <2>3. CASE CloseModal(Tail(todo), OK)
      BY <2>1, <2>2, <2>3, FormEndsPasses
    <2>4. CASE Call(<<>>)
      BY <1>1, <1>2, <2>1, <2>4, PassesBy
    <2> QED
      BY <1>10, <2>3, <2>4 DEF Confirm, Go
  <1>11. CASE OnSaveType
    BY <1>1, <1>3, <1>11, PassesBy DEF OnSaveType, Clicked, Go
  <1>12. CASE StartButton
    BY <1>1, <1>2, <1>12, PassesBy DEF StartButton, Clicked, Go
  <1>13. CASE ClickItem
    BY <1>1, <1>3, <1>13, PassesBy DEF ClickItem, Go
  <1>14. CASE LeaveMenu
    BY <1>1, <1>2, <1>14, PassesBy DEF LeaveMenu, Go
  <1>15. CASE Delete /\ UNCHANGED copyVars
    BY <1>1, <1>2, <1>15, PassesBy DEF Delete, Go
  <1>16. CASE FocusBelow /\ UNCHANGED copyVars
    BY <1>1, <1>2, <1>16, PassesBy DEF FocusBelow, Go
  <1> QED
    BY <1>5, <1>7, <1>8, <1>9, <1>10, <1>11, <1>12, <1>13, <1>14, <1>15, <1>16

-----------------------------------------------------------------------------
(* Input. *)
LEMMA WaitingQuiet ==
    ASSUME WindowsInv, Waiting, UNCHANGED copyVars, todo' = todo \/ Aside(todo')
    PROVE  Quiet /\ ~At("slot2")'
  <1>1. ~Copying /\ ~At("pasted")
    BY DEF Waiting, Idle, InModal, Copying, At
  <1>2. Less(todo)
    BY DEF Less, WindowsInv, StackInv
  <1>3. Less(todo') /\ ~At("slot2")' /\ ~At("moved")'
    <2>1. CASE todo' = todo
      <3>1. ~(todo' # <<>> /\ Head(todo').do \in {"slot2", "moved"})
        BY <2>1 DEF Waiting, Idle, InModal, At
      <3> QED
        BY <1>2, <2>1, <3>1 DEF At
    <2>2. CASE Aside(todo')
      BY <2>2 DEF Aside, At
    <2> QED
      BY <2>1, <2>2
  <1> QED
    BY <1>1, <1>3 DEF Quiet, copyVars

LEMMA InputQuiet ==
    ASSUME WindowsInv, Input
    PROVE  Quiet /\ ~At("slot2")'
  <1>1. IsSeq(todo) /\ Less(todo)
    BY DEF Less, WindowsInv, StackInv
  <1>2. /\ <<>> \o todo = todo
        /\ \A b : Calm(b) => Aside(<<b>> \o todo)
        /\ \A b, c : Calm(b) /\ Calm(c) => Aside((<<b>> \o <<c>>) \o todo)
    <2>1. ASSUME NEW b, NEW c, Calm(b), Calm(c) PROVE Aside((<<b>> \o <<c>>) \o todo)
      <3>1. Less(Push(c, todo))
        BY <1>1, <2>1, CalmPushed
      <3>2. Aside(Push(b, Push(c, todo)))
        BY <2>1, <3>1, CalmPushed
      <3>3. Push(b, <<c>>) \o todo = Push(b, <<c>> \o todo) /\ <<c>> \o todo = Push(c, todo)
        <4>1. \A s : IsSeq(s) => Push(b, s) \o todo = Push(b, s \o todo)
          BY <1>1, Unfold
        <4>2. IsSeq(<<c>>)
          BY Tuples
        <4>3. Push(b, <<c>>) \o todo = Push(b, <<c>> \o todo)
          BY <4>1, <4>2, Zenon
        <4> QED
          BY <1>1, <4>3, Unfold, Zenon
      <3> QED
        BY <3>2, <3>3 DEF Push
    <2> QED
      BY <1>1, <2>1, Asides
  <1>3. /\ \A n \in {"launch", "back", "info", "clickItem", "leave", "saveType"} : Calm(Step(n))
        /\ \A d : Calm(EnterStep(d))
        /\ \A c : Calm(ClickStep(c))
        /\ \A p : Calm([do |-> "focus", at |-> p])
    BY CalmSteps DEF Calm, ListSteps, LastSteps, Step
  <1>4. CASE Key
    <2>1. PICK s : s # <<>> /\ (\E w, k : s = KeyOf(w, k)) /\ Handle(s)
      BY <1>4 DEF Key
    <2>2. \E b : s = <<b>> /\ Calm(b)
      <3>1. \/ \E n \in {"launch", "back", "info", "clickItem", "leave", "saveType"} : s = <<Step(n)>>
            \/ \E d : s = <<EnterStep(d)>>
            \/ \E c : s = <<ClickStep(c)>>
        BY <2>1 DEF KeyOf, KeyOfForm, KeyOfMenu, KeyOfMain
      <3> QED
        BY <1>3, <3>1
    <2>3. Waiting /\ UNCHANGED copyVars
      BY <1>4 DEF Key
    <2>4. Aside(todo')
      BY <1>2, <2>1, <2>2 DEF Handle
    <2> QED
      BY <2>3, <2>4, WaitingQuiet
  <1>5. CASE MoveFocus
    BY <1>5, WaitingQuiet DEF MoveFocus, flow
  <1>6. CASE Arrow
    BY <1>6, WaitingQuiet DEF Arrow, uiVars, flow
  <1>7. CASE TouchUp
    <2>1. Waiting /\ UNCHANGED copyVars
      BY <1>7 DEF TouchUp
    <2>2. \/ \E n \in {"launch", "clickItem", "leave"} : Handle(<<Step(n)>>)
          \/ \E c : Handle(<<ClickStep(c)>>)
          \/ Handle(<<>>) \/ UNCHANGED todo
      BY <1>7 DEF TouchUp, flow
    <2>3. todo' = todo \/ Aside(todo')
      BY <1>2, <1>3, <2>2 DEF Handle
    <2> QED
      BY <2>1, <2>3, WaitingQuiet
  <1>8. ASSUME NEW p \in Points, TouchDown(p) PROVE Quiet /\ ~At("slot2")'
    <2>1. Waiting /\ UNCHANGED copyVars
      BY <1>8 DEF TouchDown
    <2> DEFINE c == [do |-> "focus", at |-> p]
               b == Step("back")
    <2>2. todo' = (<<b>> \o <<c>>) \o todo \/ todo' = <<c>> \o todo
      BY <1>8 DEF TouchDown, Handle
    <2>3. Calm(b) /\ Calm(c)
      BY <1>3
    <2> HIDE DEF b, c
    <2>4. Aside(todo')
      BY <1>2, <2>2, <2>3
    <2> QED
      BY <2>1, <2>4, WaitingQuiet
  <1>9. ASSUME NEW p \in Points, TouchMove(p) PROVE Quiet /\ ~At("slot2")'
    BY <1>9, WaitingQuiet DEF TouchMove, flow
  <1> QED
    BY <1>4, <1>5, <1>6, <1>7, <1>8, <1>9 DEF Input

(* What every step does to the files and to what is known about a move. *)
KeepsFiles == FilesInv' /\ FlagsInv' /\ (KeptInv => KeptInv')
KeepsSlot2 == At("slot2")' => (At("slot2") /\ UNCHANGED rows) \/ Len(rows') = 3

LEMMA QuietKeeps ==
    ASSUME FilesInv, FlagsInv, Quiet
    PROVE  KeepsFiles
  BY QuietFiles, QuietKept DEF KeepsFiles

LEMMA EnterTopKeeps ==
    ASSUME WindowsInv, EnterTop
    PROVE  Quiet /\ KeepsSlot2
  <1>1. At("enterDir") /\ UNCHANGED copyVars /\ Len(rows') = 3 /\ todo' = <<>> \o Tail(todo)
    BY DEF EnterTop, Show, Return, Call, TopRows
  <1>2. todo # <<>> /\ Head(todo).do = "enterDir" /\ "enterDir" \notin JobSteps \cup {"pasted", "chunk", "write", "false"}
    BY <1>1, OtherKinds DEF At, ListSteps
  <1>3. Less(Tail(todo))
    BY <1>2, LessTail
  <1>4. todo' = Tail(todo)
    BY <1>1, <1>3, Asides, Zenon
  <1>5. Fits(Head(todo), Tail(todo))
    BY <1>2, Top DEF WindowsInv
  <1>6. ~(todo' # <<>> /\ Head(todo').do = "moved")
    BY <1>2, <1>4, <1>5, JobSets DEF Fits, JobSteps
  <1>7. ~At("pasted") /\ ~Copying /\ ~At("moved")' /\ Less(todo')
    <2>1. ~At("moved")'
      BY <1>6 DEF At
    <2>2. Less(todo')
      BY <1>3, <1>4
    <2> QED
      BY <1>2, <2>1, <2>2 DEF At, Copying
  <1> QED
    BY <1>1, <1>7 DEF Quiet, copyVars, KeepsSlot2

LEMMA GiveUpKeeps ==
    ASSUME WindowsInv, GiveUp
    PROVE  Quiet /\ KeepsSlot2
  <1>1. /\ At("false") /\ UNCHANGED copyVars /\ todo' = <<>> \o Tail(todo)
        /\ answer' # Success
    BY DEF GiveUp, Fail, Return, Call, Answer, Success, Failure, None
  <1>2. todo # <<>> /\ Head(todo).do = "false" /\ "false" \notin JobSteps \cup {"pasted", "chunk", "write"}
    BY <1>1, OtherKinds DEF At, ListSteps
  <1>3. Less(Tail(todo))
    BY <1>2, LessTail
  <1>4. todo' = Tail(todo)
    BY <1>1, <1>3, Asides, Zenon
  <1>5. Fits(Head(todo), Tail(todo))
    BY <1>2, Top DEF WindowsInv
  <1>6. ~(todo' # <<>> /\ Head(todo').do = "slot2")
    BY <1>2, <1>4, <1>5, OtherKinds DEF Fits
  <1>7. ~At("pasted") /\ ~Copying /\ ~At("slot2")' /\ Less(todo')
    <2>1. ~At("slot2")'
      BY <1>6 DEF At
    <2>2. Less(todo')
      BY <1>3, <1>4
    <2> QED
      BY <1>2, <2>1, <2>2 DEF At, Copying
  <1> QED
    BY <1>1, <1>7 DEF Quiet, copyVars, KeepsSlot2

LEMMA LoadRomKeeps ==
    ASSUME FilesInv, FlagsInv, LoadRom
    PROVE  KeepsFiles /\ KeepsSlot2
  <1>1. /\ At("loadRom") /\ todo' = <<>> /\ clip' = NoClip /\ job' = NoJob /\ asked' = FALSE /\ kept' = Absent
        /\ missed' = FALSE /\ card' \in BOOLEAN \cup {card} /\ UNCHANGED <<disk, copyingFile, stopCopying>>
    BY DEF LoadRom
  <1>2. ~Copying /\ copyingFile = FALSE
    BY <1>1 DEF At, Copying, FlagsInv, FilesInv
  <1>3. FlagsInv' /\ KeptInv' /\ KeepsSlot2
    BY <1>1, <1>2 DEF FlagsInv, StopIsAsked, KeptInv, KeepsSlot2, At
  <1>4. \A S : ~Has(todo', S)
    BY <1>1, NoSteps DEF Has
  <1>5. clip'.path \in Paths \cup {NoPath} /\ clip'.mode \in {"none", "copy", "cut"}
    BY <1>1 DEF NoClip
  <1>6. job' \in Jobs /\ job'.copied <= job'.done /\ job'.done <= job'.length
    BY <1>1, NoJobIs
  <1>7. FilesInv'
    BY <1>1, <1>4, <1>5, <1>6 DEF FilesInv
  <1> QED
    BY <1>3, <1>7 DEF KeepsFiles

LEMMA InterruptKeeps ==
    ASSUME FilesInv, FlagsInv, UNCHANGED uiVars,
           VBlank \/ Pull \/ UNCHANGED copyVars
    PROVE  KeepsFiles
  <1>1. UNCHANGED <<todo, answer>>
    BY DEF uiVars, flow
  <1>2. CASE VBlank
    <2>1. FilesInv' /\ FlagsInv'
      BY <1>1, <1>2 DEF VBlank, FilesInv, FlagsInv, StopIsAsked, Copying, At
    <2>2. KeptInv => KeptInv'
      BY <1>1, <1>2 DEF VBlank, KeptInv, SourceOut, Reachable, At
    <2> QED
      BY <2>1, <2>2 DEF KeepsFiles
  <1>3. CASE Pull
    <2>1. FilesInv' /\ FlagsInv'
      BY <1>1, <1>3 DEF Pull, FilesInv, FlagsInv, StopIsAsked, Copying, At
    <2>2. UNCHANGED <<todo, answer, disk, job, kept, missed>> /\ (SourceOut => SourceOut')
      BY <1>1, <1>3 DEF Pull, SourceOut, Reachable
    <2>3. ASSUME KeptInv PROVE KeptInv'
      <3> HIDE DEF SourceOut, Paths
      <3> QED
        BY <2>2, <2>3 DEF KeptInv, At
    <2> QED
      BY <2>1, <2>3 DEF KeepsFiles
  <1>4. CASE UNCHANGED copyVars
    <2>1. FilesInv' /\ FlagsInv'
      BY <1>1, <1>4 DEF copyVars, FilesInv, FlagsInv, StopIsAsked, Copying, At
    <2>2. KeptInv => KeptInv'
      BY <1>1, <1>4 DEF copyVars, KeptInv, SourceOut, Reachable, At
    <2> QED
      BY <2>1, <2>2 DEF KeepsFiles
  <1> QED
    BY <1>2, <1>3, <1>4

(* What the step of a file operation leaves to do. *)
LEMMA RestKinds ==
    /\ Kinds(ToRefresh) = {"refresh"} /\ Kinds(ToPasted) = {"pasted", "refresh"}
    /\ Kinds(ToMoved) = {"moved", "pasted", "refresh"}
    /\ Head(ToRefresh).do = "refresh" /\ Head(ToPasted).do = "pasted" /\ Head(ToMoved).do = "moved"
    /\ IsSeq(ToRefresh) /\ IsSeq(ToPasted) /\ IsSeq(ToMoved)
  <1>1. IsSeq(ToRefresh) /\ IsSeq(ToPasted) /\ IsSeq(ToMoved) /\ IsSeq(<<>>)
    BY Rests, Tuples
  <1>2. Kinds(<<>>) = {}
    BY NoSteps
  <1>3. \A n : Step(n).do = n
    BY OtherKinds
  <1>4. Kinds(ToRefresh) = {"refresh"}
    BY <1>1, <1>2, <1>3, RestsMade, KindsPushed
  <1>5. Kinds(ToPasted) = {"pasted", "refresh"}
    BY <1>1, <1>3, <1>4, RestsMade, KindsPushed
  <1>6. Kinds(ToMoved) = {"moved", "pasted", "refresh"}
    BY <1>1, <1>3, <1>5, RestsMade, KindsPushed
  <1>7. Head(ToRefresh).do = "refresh" /\ Head(ToPasted).do = "pasted" /\ Head(ToMoved).do = "moved"
    BY <1>1, <1>3, RestsMade, Pushed
  <1> QED
    BY <1>1, <1>4, <1>5, <1>6, <1>7

LEMMA AskedIs ==
    ASSUME NEW b, NEW t, IsSeq(t), NEW p, MessageBox(p, <<b>> \o t)
    PROVE  /\ IsSeq(todo') /\ Kinds(todo') = {"modal", "delete", b.do} \cup Kinds(t)
           /\ todo' # <<>> /\ Head(todo').do = "modal"
  <1> DEFINE m == Modal("msgbox", p)
             d == [do |-> "delete", form |-> "msgbox"]
             r == <<b>> \o t
  <1>1. m.do = "modal" /\ d.do = "delete"
    BY DEF Modal
  <1>2. todo' = <<m>> \o (<<d>> \o r)
    BY DEF MessageBox, Open, Deleted
  <1> HIDE DEF m, d
  <1>3. r = Push(b, t)
    BY Unfold
  <1> HIDE DEF r
  <1>4. IsSeq(r) /\ Kinds(r) = {b.do} \cup Kinds(t)
    BY <1>3, Pushed, KindsPushed
  <1>5. <<d>> \o r = Push(d, r) /\ IsSeq(Push(d, r))
    BY <1>4, Unfold, Pushed
  <1>6. <<m>> \o Push(d, r) = Push(m, Push(d, r))
    BY <1>5, Unfold
  <1>7. todo' = Push(m, Push(d, r))
    BY <1>2, <1>5, <1>6, Zenon
  <1>8. Kinds(Push(d, r)) = {"delete", b.do} \cup Kinds(t)
    BY <1>1, <1>4, KindsPushed
  <1>9. Kinds(Push(m, Push(d, r))) = {"modal", "delete", b.do} \cup Kinds(t)
    BY <1>1, <1>5, <1>8, KindsPushed
  <1>10. IsSeq(Push(m, Push(d, r))) /\ Push(m, Push(d, r)) # <<>> /\ Head(Push(m, Push(d, r))) = m
    BY <1>5, Pushed
  <1>11. IsSeq(todo') /\ Kinds(todo') = {"modal", "delete", b.do} \cup Kinds(t) /\ todo' # <<>> /\ Head(todo') = m
    BY <1>7, <1>9, <1>10, Zenon
  <1> QED
    BY <1>1, <1>11

LEMMA FilesLeave ==
    ASSUME WindowsInv, NEW n \in CopySteps \cup RenameSteps \cup BeforeRefresh, At(n)
    PROVE  /\ Kinds(todo) = {n} \cup Kinds(Tail(todo)) /\ IsSeq(Tail(todo))
           /\ n \in CopySteps => Tail(todo) \in {ToPasted, ToMoved}
           /\ n \in RenameSteps => Tail(todo) = ToPasted
           /\ n \in BeforeRefresh => Tail(todo) = ToRefresh
           /\ Kinds(Tail(todo)) \subseteq {"moved", "pasted", "refresh"}
           /\ Tail(todo) # <<>> /\ Head(Tail(todo)).do \in {"moved", "pasted", "refresh"}
           /\ Call(<<>>) => todo' = Tail(todo)
           /\ \A k : Call(<<Step(k)>>) =>
                IsSeq(todo') /\ Kinds(todo') = {k} \cup Kinds(Tail(todo)) /\ todo' # <<>> /\ Head(todo').do = k
           /\ \A k, p : MessageBox(p, <<Step(k)>> \o Tail(todo)) =>
                /\ IsSeq(todo') /\ Kinds(todo') = {"modal", "delete", k} \cup Kinds(Tail(todo))
                /\ todo' # <<>> /\ Head(todo').do = "modal"
  <1> DEFINE a == Head(todo)
             t == Tail(todo)
  <1>1. todo # <<>> /\ a.do = n
    BY DEF At
  <1>2. IsSeq(t) /\ todo = Push(a, t) /\ Fits(a, t)
    BY <1>1, Top DEF WindowsInv
  <1>3. \A s : Call(s) <=> todo' = s \o t
    BY DEF Call
  <1> HIDE DEF a, t
  <1>4. /\ n \in CopySteps => t \in {ToPasted, ToMoved}
        /\ n \in RenameSteps => t = ToPasted
        /\ n \in BeforeRefresh => t = ToRefresh
    BY <1>1, <1>2 DEF Fits
  <1>5. Kinds(todo) = {n} \cup Kinds(t)
    BY <1>1, <1>2, KindsPushed
  <1>6. t \in {ToRefresh, ToPasted, ToMoved}
    BY <1>4
  <1>7. Kinds(t) \subseteq {"moved", "pasted", "refresh"} /\ Head(t).do \in {"moved", "pasted", "refresh"}
    BY <1>6, RestKinds
  <1>8. t # <<>>
    <2>1. Kinds(<<>>) = {} /\ Kinds(t) # {}
      BY <1>6, NoSteps, RestKinds
    <2> QED
      BY <2>1
  <1>9. Call(<<>>) => todo' = t
    BY <1>2, <1>3, Unfold, Zenon
  <1>10. ASSUME NEW k, Call(<<Step(k)>>)
         PROVE  IsSeq(todo') /\ Kinds(todo') = {k} \cup Kinds(t) /\ todo' # <<>> /\ Head(todo').do = k
    <2> DEFINE b == Step(k)
    <2>1. b.do = k /\ todo' = <<b>> \o t
      BY <1>3, <1>10, OtherKinds
    <2> HIDE DEF b
    <2>2. todo' = Push(b, t)
      BY <1>2, <2>1, Unfold, Zenon
    <2>3. IsSeq(Push(b, t)) /\ Kinds(Push(b, t)) = {k} \cup Kinds(t) /\ Push(b, t) # <<>> /\ Head(Push(b, t)) = b
      BY <1>2, <2>1, Pushed, KindsPushed
    <2>4. IsSeq(todo') /\ Kinds(todo') = {k} \cup Kinds(t) /\ todo' # <<>> /\ Head(todo') = b
      BY <2>2, <2>3, Zenon
    <2> QED
      BY <2>1, <2>4
  <1>11. ASSUME NEW k, NEW p, MessageBox(p, <<Step(k)>> \o t)
         PROVE  /\ IsSeq(todo') /\ Kinds(todo') = {"modal", "delete", k} \cup Kinds(t)
                /\ todo' # <<>> /\ Head(todo').do = "modal"
    <2> DEFINE b == Step(k)
    <2>1. b.do = k /\ MessageBox(p, <<b>> \o t)
      BY <1>11, OtherKinds
    <2> HIDE DEF b
    <2> QED
      BY <1>2, <2>1, AskedIs
  <1> QED
    BY <1>2, <1>4, <1>5, <1>7, <1>8, <1>9, <1>10, <1>11 DEF t

LEMMA FileKinds ==
    /\ {"modal", "delete", "false", "full", "unlink", "paste", "pasted", "deleteFile", "refresh"} \cap JobSteps = {}
    /\ CopySteps \cup RenameSteps = JobSteps \cup {"full"} /\ "moved" \in RenameSteps
    /\ CopySteps = {"copyFile", "overwrite", "open", "full", "chunk", "write", "stop"}
    /\ RenameSteps = {"renameFile", "replace", "rename", "moved"}
    /\ BeforeRefresh = {"paste", "pasted", "deleteFile", "unlink"}
    /\ ShowingProgress = {"chunk", "write", "stop"}
  BY DEF JobSteps, CopySteps, RenameSteps, BeforeRefresh, ShowingProgress

(* A failure leaves the files as they are. *)
LEMMA FailsQuiet ==
    ASSUME WindowsInv, NEW n \in (CopySteps \cup RenameSteps \cup BeforeRefresh) \ {"moved", "pasted"}, At(n),
           UNCHANGED <<card, stopCopying, clip, job, asked, kept>>, UNCHANGED <<disk, missed>> \/ Closes,
           copyingFile' = FALSE \/ (copyingFile' = copyingFile /\ ~Copying),
           \/ Return(Failure)
           \/ \E k \in {"false", "full", "unlink"} : Call(<<Step(k)>>)
           \/ \E p : \E k \in {"false", "full", "unlink"} : MessageBox(p, <<Step(k)>> \o Tail(todo))
    PROVE  Quiet /\ KeepsSlot2
  <1> DEFINE t == Tail(todo)
  <1>1. /\ Kinds(todo) = {n} \cup Kinds(t) /\ IsSeq(t) /\ Kinds(t) \subseteq {"moved", "pasted", "refresh"}
        /\ Head(t).do \in {"moved", "pasted", "refresh"}
    BY FilesLeave
  <1>2. Kinds(t) \cap JobSteps \subseteq Kinds(todo) /\ ("moved" \in Kinds(todo) => "moved" \in Kinds(t))
    BY <1>1
  <1>3. /\ Less(todo') /\ ~At("slot2")'
        /\ ~At("moved")' \/ answer' # Success
    <2>1. CASE Return(Failure)
      <3>1. todo' = t /\ answer' # Success
        BY <2>1, FilesLeave DEF Return, Answer, Success, Failure, None
      <3>2. ~(todo' # <<>> /\ Head(todo').do = "slot2")
        BY <1>1, <3>1
      <3>3. Less(todo')
        BY <1>1, <1>2, <3>1 DEF Less
      <3> QED
        BY <3>1, <3>2, <3>3 DEF At
    <2>2. ASSUME NEW k \in {"false", "full", "unlink"}, Call(<<Step(k)>>)
          PROVE  Less(todo') /\ ~At("slot2")' /\ ~At("moved")'
      <3>1. IsSeq(todo') /\ Kinds(todo') = {k} \cup Kinds(t) /\ Head(todo').do = k
        BY <2>2, FilesLeave
      <3>2. k \notin JobSteps
        BY FileKinds
      <3> QED
        BY <1>2, <3>1, <3>2 DEF Less, At
    <2>3. ASSUME NEW k \in {"false", "full", "unlink"}, NEW p, MessageBox(p, <<Step(k)>> \o t)
          PROVE  Less(todo') /\ ~At("slot2")' /\ ~At("moved")'
      <3>1. IsSeq(todo') /\ Kinds(todo') = {"modal", "delete", k} \cup Kinds(t) /\ Head(todo').do = "modal"
        BY <2>3, FilesLeave
      <3>2. {"modal", "delete", k} \cap JobSteps = {}
        BY FileKinds
      <3> QED
        BY <1>2, <3>1, <3>2 DEF Less, At
    <2> QED
      BY <2>1, <2>2, <2>3
  <1>4. ~At("pasted")
    BY DEF At
  <1> QED
    BY <1>3, <1>4 DEF Quiet, KeepsSlot2

(* Nothing is kept while no move is going on. *)
LEMMA NothingMoved ==
    ASSUME WindowsInv, KeptInv, NEW n \in CopySteps \cup RenameSteps \cup BeforeRefresh, At(n), n \notin {"moved", "pasted"}
    PROVE  kept # Absent => Has(todo, {"moved"}) /\ n \in CopySteps
  <1>1. todo # ToPasted
    BY MovedIs DEF At
  <1>2. kept # Absent => Has(todo, {"moved"})
    BY <1>1 DEF KeptInv
  <1>3. n \notin CopySteps => "moved" \notin Kinds(todo)
    BY FilesLeave, RestKinds
  <1> QED
    BY <1>2, <1>3 DEF Has

(* One step of a copy or a renaming leads to the next. *)
Along(n, k) ==
    \/ n \in {"copyFile", "overwrite"} /\ k \in {"overwrite", "open"}
    \/ n \in {"renameFile", "replace"} /\ k \in {"replace", "rename"}
    \/ n \in ShowingProgress /\ k \in ShowingProgress

LEMMA StepsOn ==
    ASSUME WindowsInv, FilesInv, NEW n, NEW k, Along(n, k), At(n),
           n = "copyFile" => job.src \in Paths /\ job.dest \in Paths,
           UNCHANGED files, FlagsInv', {copyingFile, stopCopying, asked}' \subseteq BOOLEAN,
           Call(<<Step(k)>>) \/ \E p : MessageBox(p, <<Step(k)>> \o Tail(todo))
    PROVE  KeepsFiles /\ KeepsSlot2
  <1> DEFINE t == Tail(todo)
  <1>1. n \in CopySteps \cup RenameSteps \cup BeforeRefresh /\ n \notin {"moved", "pasted", "full"} /\ n \in JobSteps
    BY FileKinds DEF Along
  <1>2. /\ Kinds(todo) = {n} \cup Kinds(t) /\ Kinds(t) \subseteq {"moved", "pasted", "refresh"}
        /\ n \in RenameSteps => Kinds(t) = {"pasted", "refresh"}
    BY <1>1, FilesLeave, RestKinds
  <1>3. /\ Kinds(todo') \subseteq {"modal", "delete", k} \cup Kinds(t) /\ Kinds(t) \subseteq Kinds(todo')
        /\ Head(todo').do \in {"modal", k}
    BY <1>1, FilesLeave
  <1> HIDE DEF t
  <1>4. UNCHANGED <<disk, card, clip, job, kept, missed>>
    BY DEF files
  <1>5. /\ Has(todo, JobSteps)
        /\ Has(todo', CopySteps \ {"copyFile", "full"}) => job.src \in Paths /\ job.dest \in Paths
        /\ Has(todo', RenameSteps \ {"moved"}) => job.done = 0
    <2>1. Has(todo, JobSteps)
      BY <1>1, <1>2 DEF Has
    <2>2. CASE k \in RenameSteps
      <3>1. n \in RenameSteps \ {"moved"} /\ k \in RenameSteps
        BY <2>2, FileKinds DEF Along
      <3>2. job.done = 0
        BY <1>2, <3>1 DEF FilesInv, Has
      <3>3. ~Has(todo', CopySteps \ {"copyFile", "full"})
        BY <1>2, <1>3, <3>1, FileKinds DEF Has
      <3> QED
        BY <2>1, <3>2, <3>3
    <2>3. CASE k \notin RenameSteps
      <3>1. ~Has(todo', RenameSteps \ {"moved"})
        BY <1>2, <1>3, <2>3, FileKinds DEF Has
      <3>2. n # "copyFile" => n \in CopySteps \ {"copyFile", "full"}
        BY <2>3, FileKinds DEF Along
      <3>3. n # "copyFile" => Has(todo, CopySteps \ {"copyFile", "full"})
        BY <1>2, <3>2 DEF Has
      <3>4. job.src \in Paths /\ job.dest \in Paths
        BY <3>3 DEF FilesInv
      <3> QED
        BY <2>1, <3>1, <3>4
    <2> QED
      BY <2>2, <2>3
  <1>6. FilesInv'
    <2> HIDE DEF Jobs, Paths, Entries, NoPath
    <2> QED
      BY <1>4, <1>5 DEF FilesInv
  <1>7. ASSUME KeptInv PROVE KeptInv'
    <2> SUFFICES ASSUME kept # Absent PROVE KeptInv'
      BY <1>4 DEF KeptInv
    <2>1. Has(todo, {"moved"}) /\ n \in CopySteps
      BY <1>1, <1>7, NothingMoved
    <2>2. Has(todo', {"moved"})
      BY <1>1, <1>2, <1>3, <2>1 DEF Has
    <2>3. /\ Has(todo', {"copyFile", "overwrite", "open"}) => Has(todo, {"copyFile", "overwrite", "open"})
          /\ Has(todo', ShowingProgress) => Has(todo, ShowingProgress)
      BY <1>2, <1>3, <2>1, FileKinds DEF Has, Along
    <2>4. ~At("moved")'
      BY <1>3, FileKinds DEF At, Along
    <2> QED
      BY <1>4, <1>7, <2>1, <2>2, <2>3, <2>4 DEF KeptInv, SourceOut, Reachable
  <1>8. ~At("slot2")'
    BY <1>3, FileKinds DEF At, Along
  <1> QED
    BY <1>6, <1>7, <1>8 DEF KeepsFiles, KeepsSlot2

FilesKept == KeepsFiles /\ KeepsSlot2

LEMMA DestIs ==
    ASSUME FilesInv, Has(todo, JobSteps), There(job.src), job.dest[1] \in Folders
    PROVE  job.src \in Paths /\ job.dest \in Paths
  <1>1. job.src \in Paths /\ job.dest[2] = job.src[2] /\ job.dest \in Places
    BY DEF There, FilesInv, Jobs
  <1> QED
    BY <1>1 DEF Paths, Places

LEMMA AtHas ==
    ASSUME WindowsInv, NEW n \in CopySteps \cup RenameSteps \cup BeforeRefresh, At(n), NEW S, n \in S
    PROVE  Has(todo, S)
  BY FilesLeave DEF Has

LEMMA FailKept ==
    ASSUME WindowsInv, FilesInv, FlagsInv,
           NEW n \in (CopySteps \cup RenameSteps \cup BeforeRefresh) \ {"moved", "pasted", "chunk", "write"}, At(n),
           Fail \/ (\E b : FailWith(b))
    PROVE  FilesKept
  <1>1. ~Copying /\ UNCHANGED copyVars
    BY DEF At, Copying, Fail, FailWith
  <1>2. Return(Failure) \/ MessageBox(NULL, <<Step("false")>> \o Tail(todo))
    BY DEF Fail, FailWith
  <1>3. Quiet /\ KeepsSlot2
    BY <1>1, <1>2, FailsQuiet DEF copyVars
  <1> QED
    BY <1>3, QuietKeeps DEF FilesKept

(* A step that leaves the interrupt handler's variables alone. *)
LEMMA GoesOn ==
    ASSUME WindowsInv, FilesInv, FlagsInv, NEW n, NEW k, Along(n, k), At(n), n \notin ShowingProgress,
           n = "copyFile" => job.src \in Paths /\ job.dest \in Paths,
           UNCHANGED copyVars,
           Call(<<Step(k)>>) \/ \E p : MessageBox(p, <<Step(k)>> \o Tail(todo))
    PROVE  FilesKept
  <1>1. copyingFile = FALSE
    BY FileKinds DEF At, Copying, FlagsInv, FilesInv
  <1>2. FlagsInv' /\ {copyingFile, stopCopying, asked}' \subseteq BOOLEAN /\ UNCHANGED files
    BY <1>1 DEF FlagsInv, StopIsAsked, FilesInv, copyVars, files
  <1> QED
    BY <1>2, StepsOn DEF FilesKept

LEMMA AskingKept ==
    ASSUME WindowsInv, FilesInv, FlagsInv,
           \/ CopyFile \/ Overwrite \/ Full \/ RenameFile \/ Replace \/ DeleteFile \/ (Rename /\ Fail)
    PROVE  FilesKept
  <1>1. /\ {"copyFile", "overwrite", "full"} \subseteq CopySteps \ {"chunk", "write"}
        /\ {"renameFile", "replace", "rename"} \subseteq RenameSteps
        /\ {"copyFile", "overwrite", "full", "renameFile", "replace", "rename", "deleteFile", "unlink"}
             \cap {"moved", "pasted", "chunk", "write"} = {}
        /\ {"deleteFile", "unlink"} \subseteq BeforeRefresh /\ {"copyFile", "overwrite"} \subseteq JobSteps
        /\ {"copyFile", "overwrite", "renameFile", "replace"} \cap ShowingProgress = {}
    BY DEF CopySteps, RenameSteps, BeforeRefresh, JobSteps, ShowingProgress
  <1>2. CASE CopyFile
    <2>1. At("copyFile")
      BY <1>2 DEF CopyFile
    <2>2. CASE Fail \/ \E b : FailWith(b)
      BY <1>1, <2>1, <2>2, FailKept
    <2>3. ASSUME There(job.src), job.dest[1] \in Folders, UNCHANGED copyVars,
                 \/ Call(<<Step("open")>>)
                 \/ MessageBox(NULL, <<Step("overwrite")>> \o Tail(todo))
          PROVE  FilesKept
      <3>1. Has(todo, JobSteps)
        BY <1>1, <2>1, AtHas
      <3>2. job.src \in Paths /\ job.dest \in Paths
        BY <2>3, <3>1, DestIs
      <3>3. Along("copyFile", "open") /\ Along("copyFile", "overwrite")
        BY DEF Along
      <3> QED
        BY <1>1, <2>1, <2>3, <3>2, <3>3, GoesOn
    <2>4. \/ Fail \/ \E b : FailWith(b)
          \/ /\ There(job.src) /\ job.dest[1] \in Folders /\ UNCHANGED copyVars
             /\ Call(<<Step("open")>>) \/ MessageBox(NULL, <<Step("overwrite")>> \o Tail(todo))
      BY <1>2 DEF CopyFile, Go
    <2> QED
      BY <2>2, <2>3, <2>4
  <1>3. CASE Overwrite
    <2>1. At("overwrite")
      BY <1>3 DEF Overwrite
    <2>2. CASE Fail
      BY <1>1, <2>1, <2>2, FailKept
    <2>3. CASE Call(<<Step("open")>>) /\ UNCHANGED copyVars
      <3>1. Along("overwrite", "open")
        BY DEF Along
      <3> QED
        BY <1>1, <2>1, <2>3, <3>1, GoesOn
    <2> QED
      BY <1>3, <2>2, <2>3 DEF Overwrite, Go
  <1>4. CASE Full
    BY <1>1, <1>4, FailKept DEF Full
  <1>5. CASE RenameFile
    <2>1. At("renameFile") /\ Along("renameFile", "rename") /\ Along("renameFile", "replace")
      BY <1>5 DEF RenameFile, Along
    <2>2. \/ \E b : FailWith(b)
          \/ UNCHANGED copyVars /\ Call(<<Step("rename")>>)
          \/ UNCHANGED copyVars /\ MessageBox(NULL, <<Step("replace")>> \o Tail(todo))
      BY <1>5 DEF RenameFile, Go
    <2> QED
      BY <1>1, <2>1, <2>2, FailKept, GoesOn
  <1>6. CASE Replace
    <2>1. At("replace") /\ Along("replace", "rename")
      BY <1>6 DEF Replace, Along
    <2>2. Fail \/ (UNCHANGED copyVars /\ Call(<<Step("rename")>>))
      BY <1>6 DEF Replace, Go
    <2> QED
      BY <1>1, <2>1, <2>2, FailKept, GoesOn
  <1>7. CASE DeleteFile
    <2>1. At("deleteFile") /\ ~Copying
      BY <1>7 DEF DeleteFile, At, Copying
    <2>2. CASE Fail
      BY <1>1, <2>1, <2>2, FailKept
    <2>3. CASE MessageBox(NULL, <<Step("unlink")>> \o Tail(todo)) /\ UNCHANGED copyVars
      <3>1. Quiet /\ KeepsSlot2
        BY <1>1, <2>1, <2>3, FailsQuiet DEF copyVars
      <3> QED
        BY <3>1, QuietKeeps DEF FilesKept
    <2> QED
      BY <1>7, <2>2, <2>3 DEF DeleteFile
  <1>8. CASE Rename /\ Fail
    BY <1>1, <1>8, FailKept DEF Rename
  <1> QED
    BY <1>2, <1>3, <1>4, <1>5, <1>6, <1>7, <1>8

LEMMA EntryIs ==
    /\ \A e \in Entries : e.of \in Names \cup {"none", "dir"} /\ e.len \in Nat /\ e = [of |-> e.of, len |-> e.len]
    /\ \A n \in Names \cup {"none", "dir"}, l \in Nat :
         [of |-> n, len |-> l] \in Entries /\ [of |-> n, len |-> l].of = n /\ [of |-> n, len |-> l].len = l
    /\ Absent \in Entries
  BY DEF Entries, Absent

LEMMA JobIs ==
    ASSUME FilesInv
    PROVE  /\ job \in Jobs /\ job.length \in Nat /\ job.done \in Nat /\ job.copied \in Nat
           /\ job.copied <= job.done /\ job.done <= job.length
  BY DEF FilesInv, Jobs

LEMMA JobDone ==
    ASSUME NEW j \in Jobs, NEW d \in Nat, NEW c \in Nat
    PROVE  [j EXCEPT !.done = d, !.copied = c] = [j EXCEPT !.length = j.length, !.done = d, !.copied = c]
  BY DEF Jobs

(* fopen and fclose write at most the entry of the destination. *)
LEMMA ClosedIs ==
    ASSUME NEW n \in Nat, Close(n), disk \in [Paths -> Entries], job.src \in Paths
    PROVE  /\ disk' \in [Paths -> Entries]
           /\ \A p \in Paths : p # job.dest => disk'[p] = disk[p]
           /\ Reachable(job.dest[1]) /\ job.dest \in Paths => disk'[job.dest] = [of |-> disk[job.src].of, len |-> n]
  <1> DEFINE e == [of |-> disk[job.src].of, len |-> n]
  <1>1. e \in Entries
    BY EntryIs
  <1>2. disk' = IF Reachable(job.dest[1]) THEN [disk EXCEPT ![job.dest] = e] ELSE disk
    BY DEF Close, Put
  <1> HIDE DEF e, Entries, Paths
  <1>3. /\ disk' \in [Paths -> Entries]
        /\ \A p \in Paths : p # job.dest => disk'[p] = disk[p]
        /\ Reachable(job.dest[1]) /\ job.dest \in Paths => disk'[job.dest] = e
    BY <1>1, <1>2
  <1> QED
    BY <1>3 DEF e

(* A copy begins, or a chunk of it is done. *)
LEMMA Written ==
    ASSUME WindowsInv, FilesInv, NEW n \in {"open", "chunk", "write"}, At(n), Call(<<Step("chunk")>>),
           disk' \in [Paths -> Entries], \A p \in Paths : p # job.dest => disk'[p] = disk[p],
           missed' \in BOOLEAN, missed => missed',
           NEW l \in Nat, NEW d \in Nat, NEW c \in Nat, c <= d, d <= l,
           job' = [job EXCEPT !.length = l, !.done = d, !.copied = c],
           UNCHANGED <<card, clip, kept>>, FlagsInv', {copyingFile, stopCopying, asked}' \subseteq BOOLEAN
    PROVE  /\ FilesInv' /\ KeepsSlot2
           /\ KeptInv => /\ kept # Absent => /\ job.src \in Paths /\ disk[job.src] = kept
                                             /\ n = "open" => job.length = 0
                                             /\ n # "open" => job.length = kept.len
                                                              /\ (missed \/ SourceOut \/ job.copied = job.done)
                         /\ (kept # Absent => l = kept.len /\ (missed' \/ SourceOut \/ c = d)) => KeptInv'
  <1> DEFINE t == Tail(todo)
  <1>1. n \in CopySteps /\ n \in JobSteps /\ n \notin {"moved", "pasted", "copyFile", "full"}
    BY DEF CopySteps, JobSteps, ShowingProgress
  <1>2. /\ Kinds(todo) = {n} \cup Kinds(t) /\ Kinds(t) \subseteq {"moved", "pasted", "refresh"}
        /\ Kinds(todo') = {"chunk"} \cup Kinds(t) /\ Head(todo').do = "chunk"
    BY <1>1, FilesLeave
  <1> HIDE DEF t
  <1>3. /\ job.src \in Paths /\ job.dest \in Paths /\ job.src # job.dest /\ job.dest[2] = job.src[2]
    BY <1>1, <1>2 DEF FilesInv, Has
  <1>4. disk'[job.src] = disk[job.src]
    BY <1>3
  <1>5. /\ job' \in Jobs /\ job'.length = l /\ job'.done = d /\ job'.copied = c
        /\ job'.src = job.src /\ job'.dest = job.dest
    <2> DEFINE j == [job EXCEPT !.length = l, !.done = d, !.copied = c]
    <2>1. j \in Jobs /\ j.length = l /\ j.done = d /\ j.copied = c /\ j.src = job.src /\ j.dest = job.dest
      <3>1. job \in Jobs
        BY JobIs
      <3> QED
        BY <3>1 DEF Jobs
    <2>2. job' = j
      OBVIOUS
    <2> HIDE DEF j
    <2> QED
      BY <2>1, <2>2
  <1>6. ~Has(todo', RenameSteps \ {"moved"})
    BY <1>2, FileKinds DEF Has
  <1>7. FilesInv'
    <2>1. /\ card' \in BOOLEAN /\ copyingFile' \in BOOLEAN /\ stopCopying' \in BOOLEAN /\ asked' \in BOOLEAN
          /\ clip'.path \in Paths \cup {NoPath} /\ clip'.mode \in {"none", "copy", "cut"}
      BY DEF FilesInv
    <2>2. job' \in Jobs /\ job'.copied <= job'.done /\ job'.done <= job'.length
      BY <1>5
    <2>3. job'.dest[2] = job'.src[2] /\ job'.src # job'.dest /\ job'.src \in Paths /\ job'.dest \in Paths
      BY <1>3, <1>5
    <2> HIDE DEF Jobs, Entries, Paths
    <2> QED
      BY <1>6, <2>1, <2>2, <2>3 DEF FilesInv
  <1>8. KeepsSlot2
    BY <1>2 DEF KeepsSlot2, At
  <1>9. ASSUME KeptInv, kept # Absent
        PROVE  /\ disk[job.src] = kept /\ Has(todo, {"moved"})
               /\ n = "open" => job.length = 0
               /\ n # "open" => job.length = kept.len /\ (missed \/ SourceOut \/ job.copied = job.done)
    <2>1. Has(todo, {"moved"})
      BY <1>1, <1>9, NothingMoved
    <2>2. n = "open" => Has(todo, {"copyFile", "overwrite", "open"})
      BY <1>2 DEF Has
    <2>3. n # "open" => Has(todo, ShowingProgress)
      BY <1>2, FileKinds DEF Has
    <2> QED
      BY <1>9, <2>1, <2>2, <2>3 DEF KeptInv
  <1>10. ASSUME KeptInv, kept # Absent => l = kept.len /\ (missed' \/ SourceOut \/ c = d)
         PROVE  KeptInv'
    <2> SUFFICES ASSUME kept # Absent PROVE KeptInv'
      BY DEF KeptInv
    <2>1. disk'[job.src] = kept
      BY <1>4, <1>9, <1>10
    <2>2. Has(todo', {"moved"}) /\ ~Has(todo', {"copyFile", "overwrite", "open"}) /\ ~At("moved")'
      BY <1>1, <1>2, <1>9, <1>10 DEF Has, At
    <2>3. SourceOut' = SourceOut
      BY <1>5 DEF SourceOut, Reachable
    <2> HIDE DEF Paths
    <2> QED
      BY <1>3, <1>5, <1>10, <2>1, <2>2, <2>3 DEF KeptInv
  <1> QED
    BY <1>3, <1>7, <1>8, <1>9, <1>10

LEMMA StartCopyKeeps ==
    ASSUME WindowsInv, FilesInv, StartCopy
    PROVE  FilesKept
  <1> DEFINE l == CopyLength
  <1>1. At("open") /\ Close(0) /\ Call(<<Step("chunk")>>) /\ UNCHANGED <<card, clip, kept, missed>>
    BY DEF StartCopy, Go
  <1>2. job' = [job EXCEPT !.length = l, !.done = 0, !.copied = 0]
    BY DEF StartCopy
  <1>3. stopCopying' = FALSE /\ copyingFile' = TRUE /\ asked' = FALSE
    BY DEF StartCopy
  <1>4. "open" \in CopySteps \ {"copyFile", "full"}
    BY FileKinds
  <1>5. job.src \in Paths /\ disk \in [Paths -> Entries] /\ disk[job.src] \in Entries /\ missed' \in BOOLEAN
    BY <1>1, <1>4, AtHas DEF FilesInv
  <1>6. l \in Nat /\ 0 \in Nat /\ 0 <= l /\ 0 <= 0
    <2>1. disk[job.src].len \in Nat
      BY <1>5, EntryIs
    <2> QED
      BY <2>1, JobIs DEF CopyLength
  <1>7. At("chunk")'
    <2>1. todo' # <<>> /\ Head(todo').do = "chunk"
      BY <1>1, <1>4, FilesLeave
    <2> QED
      BY <2>1 DEF At
  <1>8. FlagsInv' /\ {copyingFile, stopCopying, asked}' \subseteq BOOLEAN
    BY <1>3, <1>7 DEF FlagsInv, Copying, StopIsAsked
  <1>9. kept # Absent /\ disk[job.src] = kept /\ job.length = 0 => l = kept.len
    BY DEF CopyLength
  <1>10. disk' \in [Paths -> Entries] /\ \A p \in Paths : p # job.dest => disk'[p] = disk[p]
    BY <1>1, <1>5, ClosedIs
  <1> HIDE DEF l, Entries, Paths
  <1>11. FilesInv' /\ KeepsSlot2 /\ (KeptInv => KeptInv')
    <2> DEFINE zero == 0
    <2>1. zero \in Nat /\ zero <= zero /\ zero <= l /\ job' = [job EXCEPT !.length = l, !.done = zero, !.copied = zero]
      BY <1>2, <1>6
    <2> HIDE DEF zero
    <2>2. /\ FilesInv' /\ KeepsSlot2
          /\ KeptInv => /\ kept # Absent => disk[job.src] = kept /\ job.length = 0
                        /\ (kept # Absent => l = kept.len /\ (missed' \/ SourceOut \/ zero = zero)) => KeptInv'
      BY <1>1, <1>5, <1>6, <1>8, <1>10, <2>1, Written
    <2> QED
      BY <1>9, <2>2
  <1> QED
    BY <1>8, <1>11 DEF FilesKept, KeepsFiles

LEMMA ChunkKeeps ==
    ASSUME WindowsInv, FilesInv, FlagsInv, Chunk
    PROVE  FilesKept
  <1>1. PICK n \in {"chunk", "write"} : At(n)
    BY DEF Chunk
  <1>2. PICK got \in {0, 1} :
          /\ got = 0 => SourceOut \/ missed'
          /\ job' = [job EXCEPT !.done = @ + 1, !.copied = @ + got]
          /\ missed' \in BOOLEAN /\ (missed => missed')
    BY DEF Chunk, SourceOut
  <1> DEFINE l == job.length
             d == job.done + 1
             c == job.copied + got
  <1>3. /\ Call(<<Step("chunk")>>) /\ UNCHANGED <<disk, card, clip, kept, copyingFile, stopCopying, asked>>
        /\ job.done < job.length
    BY DEF Chunk, Go
  <1>4. l \in Nat /\ d \in Nat /\ c \in Nat /\ c <= d /\ d <= l
    BY <1>3, JobIs
  <1>5. job' = [job EXCEPT !.length = l, !.done = d, !.copied = c]
    <2>1. [job EXCEPT !.done = @ + 1, !.copied = @ + got] = [job EXCEPT !.done = d, !.copied = c]
      BY JobIs DEF Jobs
    <2> HIDE DEF d, c
    <2> QED
      BY <1>2, <1>4, <2>1, JobIs, JobDone
  <1>6. At("chunk")'
    <2>1. n \in CopySteps \ {"copyFile", "full"}
      BY FileKinds
    <2>2. todo' # <<>> /\ Head(todo').do = "chunk"
      BY <1>1, <1>3, <2>1, FilesLeave
    <2> QED
      BY <2>2 DEF At
  <1>7. FlagsInv' /\ {copyingFile, stopCopying, asked}' \subseteq BOOLEAN
    BY <1>3, <1>6 DEF FlagsInv, Copying, StopIsAsked, FilesInv
  <1>8. disk' \in [Paths -> Entries] /\ \A p \in Paths : p # job.dest => disk'[p] = disk[p]
    BY <1>3 DEF FilesInv
  <1>9. missed \/ SourceOut \/ job.copied = job.done => missed' \/ SourceOut \/ c = d
    BY <1>2, JobIs
  <1> HIDE DEF l, d, c, Entries, Paths
  <1>10. FilesInv' /\ KeepsSlot2 /\ (KeptInv => KeptInv')
    <2>1. /\ FilesInv' /\ KeepsSlot2
          /\ KeptInv => /\ kept # Absent => job.length = kept.len /\ (missed \/ SourceOut \/ job.copied = job.done)
                        /\ (kept # Absent => l = kept.len /\ (missed' \/ SourceOut \/ c = d)) => KeptInv'
      BY <1>1, <1>2, <1>3, <1>4, <1>5, <1>7, <1>8, Written
    <2> QED
      BY <1>9, <2>1 DEF l
  <1> QED
    BY <1>7, <1>10 DEF FilesKept, KeepsFiles

(* The end of a copy: what EndCopy does to the files. *)
LEMMA EndsClose ==
    ASSUME WindowsInv, FilesInv, NEW n \in ShowingProgress, At(n), EndCopy
    PROVE  /\ Closes /\ job.src \in Paths /\ job.dest \in Paths /\ copyingFile' = FALSE
           /\ UNCHANGED <<card, stopCopying, clip, job, asked, kept>>
           /\ missed' \/ disk'[job.dest] = [of |-> disk[job.src].of, len |-> job.copied]
  <1>1. n \in CopySteps \ {"copyFile", "full"} /\ n \in JobSteps
    BY FileKinds
  <1>2. job.src \in Paths /\ job.dest \in Paths /\ job.src # job.dest /\ disk \in [Paths -> Entries]
    BY <1>1, AtHas DEF FilesInv
  <1>3. Close(job.copied) /\ missed' = (missed \/ ~Reachable(job.dest[1])) /\ copyingFile' = FALSE
        /\ UNCHANGED <<card, stopCopying, clip, job, asked, kept>>
    BY DEF EndCopy
  <1>4. job.copied \in Nat
    BY JobIs
  <1>5. /\ disk' \in [Paths -> Entries]
        /\ \A p \in Paths : p # job.dest => disk'[p] = disk[p]
        /\ Reachable(job.dest[1]) => disk'[job.dest] = [of |-> disk[job.src].of, len |-> job.copied]
    BY <1>2, <1>3, <1>4, ClosedIs
  <1>6. missed \in BOOLEAN
    BY DEF FilesInv
  <1>7. missed' \in BOOLEAN /\ (missed => missed') /\ (missed' \/ Reachable(job.dest[1]))
    BY <1>3, <1>6
  <1> HIDE DEF Paths, Entries
  <1> QED
    BY <1>2, <1>3, <1>5, <1>7 DEF Closes

LEMMA EndsKeep ==
    ASSUME WindowsInv, FilesInv, FlagsInv, AskStop \/ StopCopy \/ GoOnCopying \/ WriteFails \/ CopyDone
    PROVE  FilesKept
  <1>1. /\ {"chunk", "write", "stop"} \subseteq CopySteps \ {"copyFile", "full"} /\ {"chunk", "write", "stop"} \subseteq ShowingProgress
        /\ {"chunk", "write", "stop"} \cap {"moved", "pasted"} = {}
    BY FileKinds
  <1>2. CASE AskStop
    <2>1. /\ At("chunk") /\ copyingFile' = FALSE /\ UNCHANGED <<disk, stopCopying, card, clip, job, asked, kept, missed>>
          /\ MessageBox("progress", <<Step("stop")>> \o Tail(todo))
      BY <1>2 DEF AskStop, keepJob
    <2>2. FlagsInv' /\ {copyingFile, stopCopying, asked}' \subseteq BOOLEAN
      BY <2>1 DEF FlagsInv, StopIsAsked, FilesInv
    <2>3. Along("chunk", "stop")
      BY <1>1 DEF Along
    <2> QED
      BY <2>1, <2>2, <2>3, StepsOn DEF files, FilesKept
  <1>3. CASE StopCopy
    <2>1. /\ At("stop") /\ copyingFile' = FALSE /\ UNCHANGED <<card, clip, stopCopying, job, asked, kept>> /\ Closes
          /\ Return(Failure)
      BY <1>1, <1>3, EndsClose DEF StopCopy
    <2>2. Quiet /\ KeepsSlot2
      BY <1>1, <2>1, FailsQuiet
    <2> QED
      BY <2>2, QuietKeeps DEF FilesKept
  <1>4. CASE GoOnCopying
    <2>1. /\ At("stop") /\ copyingFile' = TRUE /\ stopCopying' = FALSE /\ asked' = FALSE
          /\ UNCHANGED <<disk, card, clip, job, kept, missed>> /\ Call(<<Step("write")>>)
      BY <1>4 DEF GoOnCopying, Go
    <2>2. At("write")'
      <3>1. todo' # <<>> /\ Head(todo').do = "write"
        BY <1>1, <2>1, FilesLeave
      <3> QED
        BY <3>1 DEF At
    <2>3. FlagsInv' /\ {copyingFile, stopCopying, asked}' \subseteq BOOLEAN
      BY <2>1, <2>2 DEF FlagsInv, StopIsAsked, Copying
    <2>4. Along("stop", "write")
      BY <1>1 DEF Along
    <2> QED
      BY <2>1, <2>3, <2>4, StepsOn DEF files, FilesKept
  <1>5. CASE WriteFails
    <2>1. PICK n \in {"chunk", "write"} : At(n)
      BY <1>5 DEF WriteFails
    <2>2. copyingFile' = FALSE /\ UNCHANGED <<card, clip, stopCopying, job, asked, kept>> /\ Closes /\ Call(<<Step("full")>>)
      BY <1>1, <1>5, <2>1, EndsClose DEF WriteFails, Go
    <2>3. Quiet /\ KeepsSlot2
      BY <1>1, <2>1, <2>2, FailsQuiet
    <2> QED
      BY <2>3, QuietKeeps DEF FilesKept
  <1>6. CASE CopyDone
    <2>1. /\ At("chunk") /\ job.done = job.length /\ copyingFile' = FALSE /\ Call(<<>>)
          /\ UNCHANGED <<card, clip, stopCopying, job, asked, kept>> /\ Closes
          /\ missed' \/ disk'[job.dest] = [of |-> disk[job.src].of, len |-> job.copied]
      BY <1>1, <1>6, EndsClose DEF CopyDone, Return
    <2> DEFINE t == Tail(todo)
    <2>2. /\ Kinds(todo) = {"chunk"} \cup Kinds(t) /\ IsSeq(t) /\ Kinds(t) \subseteq {"moved", "pasted", "refresh"}
          /\ Head(t).do \in {"moved", "pasted", "refresh"} /\ todo' = t
      BY <1>1, <2>1, FilesLeave
    <2> HIDE DEF t
    <2>3. Less(t)
      BY <2>2 DEF Less
    <2>4. ASSUME KeptInv, kept # Absent PROVE missed' \/ SourceOut \/ disk'[job.dest] = kept
      <3>1. Has(todo, {"moved"})
        BY <1>1, <2>1, <2>4, NothingMoved
      <3>2. Has(todo, ShowingProgress) /\ Has(todo, CopySteps \ {"copyFile", "full"})
        BY <1>1, <2>1, AtHas
      <3>3. /\ disk[job.src] = kept /\ job.src \in Paths
            /\ job.length = kept.len /\ (missed \/ SourceOut \/ job.copied = job.done)
        BY <2>4, <3>1, <3>2 DEF KeptInv
      <3>4. kept \in Entries
        BY <3>3 DEF FilesInv
      <3>5. kept = [of |-> kept.of, len |-> kept.len]
        BY <3>4, EntryIs
      <3>6. missed => missed'
        BY <2>1 DEF Closes
      <3> QED
        BY <2>1, <3>3, <3>5, <3>6
    <2>5. ~(todo' # <<>> /\ Head(todo').do = "slot2")
      BY <2>2
    <2>6. ~At("pasted") /\ ~At("slot2")' /\ Less(todo')
      BY <2>1, <2>2, <2>3, <2>5 DEF At
    <2>7. Quiet /\ KeepsSlot2
      BY <2>1, <2>4, <2>6 DEF Quiet, KeepsSlot2
    <2> QED
      BY <2>7, QuietKeeps DEF FilesKept
  <1> QED
    BY <1>2, <1>3, <1>4, <1>5, <1>6

(* What comes after the last step of a renaming, a deletion or a copy. *)
LEMMA ReturnsTo ==
    ASSUME WindowsInv, NEW n \in {"rename", "moved", "unlink", "pasted"}, At(n), Call(<<>>)
    PROVE  /\ todo' = IF n \in {"rename", "moved"} THEN ToPasted ELSE ToRefresh
           /\ Kinds(todo') \subseteq {"pasted", "refresh"} /\ KeepsSlot2
           /\ \A S \in SUBSET (JobSteps \cup {"full"}) : ~Has(todo', S)
  <1>1. n \in RenameSteps \cup BeforeRefresh /\ (n \in RenameSteps <=> n \in {"rename", "moved"})
    BY FileKinds
  <1>2. todo' = Tail(todo) /\ (n \in RenameSteps => Tail(todo) = ToPasted) /\ (n \in BeforeRefresh => Tail(todo) = ToRefresh)
    BY FilesLeave, <1>1
  <1>3. todo' = IF n \in {"rename", "moved"} THEN ToPasted ELSE ToRefresh
    BY <1>1, <1>2
  <1>4. Kinds(todo') \subseteq {"pasted", "refresh"}
    BY <1>3, RestKinds
  <1>5. ~(todo' # <<>> /\ Head(todo').do = "slot2")
    BY <1>3, RestKinds
  <1>6. {"pasted", "refresh"} \cap (JobSteps \cup {"full"}) = {}
    BY FileKinds
  <1>7. KeepsSlot2
    BY <1>5 DEF KeepsSlot2, At
  <1> QED
    BY <1>3, <1>4, <1>6, <1>7 DEF Has

LEMMA FlagsStay ==
    ASSUME FilesInv, FlagsInv, NEW n, At(n), n \notin {"chunk", "write"}, UNCHANGED <<copyingFile, stopCopying>>
    PROVE  copyingFile = FALSE /\ FlagsInv' /\ copyingFile' \in BOOLEAN /\ stopCopying' \in BOOLEAN
  BY DEF At, Copying, FlagsInv, StopIsAsked, FilesInv

LEMMA DeletedKeeps ==
    ASSUME WindowsInv, FilesInv, FlagsInv, Confirmed
    PROVE  FilesKept
  <1>1. At("unlink") /\ "unlink" \in (CopySteps \cup RenameSteps \cup BeforeRefresh) \ {"moved", "pasted", "chunk", "write"}
    BY FileKinds DEF Confirmed
  <1>2. CASE Fail \/ \E b : FailWith(b)
    BY <1>1, <1>2, FailKept
  <1>3. CASE /\ There(job.src) /\ Put(job.src, Absent) /\ Call(<<>>)
             /\ UNCHANGED <<card, clip, copyingFile, stopCopying, job, asked, kept, missed>>
    <2>1. disk' \in [Paths -> Entries]
      BY <1>3, EntryIs DEF FilesInv, There, Put
    <2>2. FlagsInv' /\ copyingFile' \in BOOLEAN /\ stopCopying' \in BOOLEAN
      BY <1>1, <1>3, FlagsStay
    <2>3. /\ ~Has(todo', JobSteps) /\ ~Has(todo', CopySteps \ {"copyFile", "full"}) /\ ~Has(todo', RenameSteps \ {"moved"})
          /\ KeepsSlot2
      BY <1>1, <1>3, ReturnsTo, FileKinds
    <2>4. FilesInv'
      <3> HIDE DEF Jobs, Entries, Paths, NoPath
      <3> QED
        BY <1>3, <2>1, <2>2, <2>3 DEF FilesInv
    <2>5. KeptInv => kept = Absent
      BY <1>1, NothingMoved, FileKinds
    <2> QED
      BY <1>3, <2>2, <2>3, <2>4, <2>5 DEF KeptInv, FilesKept, KeepsFiles
  <1> QED
    BY <1>2, <1>3 DEF Confirmed, Return

LEMMA PastedKeeps ==
    ASSUME WindowsInv, FilesInv, FlagsInv, Pasted
    PROVE  FilesKept
  <1>1. /\ At("pasted") /\ Call(<<>>) /\ job' = NoJob /\ kept' = Absent /\ missed' = FALSE /\ asked' = FALSE
        /\ clip' \in {NoClip, clip} /\ UNCHANGED <<disk, card, copyingFile, stopCopying>>
    BY DEF Pasted, Return
  <1>2. FlagsInv' /\ copyingFile' \in BOOLEAN /\ stopCopying' \in BOOLEAN
    BY <1>1, FlagsStay
  <1>3. /\ ~Has(todo', JobSteps) /\ ~Has(todo', CopySteps \ {"copyFile", "full"}) /\ ~Has(todo', RenameSteps \ {"moved"})
        /\ KeepsSlot2
    BY <1>1, ReturnsTo, FileKinds
  <1>4. clip'.path \in Paths \cup {NoPath} /\ clip'.mode \in {"none", "copy", "cut"}
    BY <1>1 DEF NoClip, FilesInv
  <1>5. FilesInv'
    <2> HIDE DEF Jobs, Entries, Paths, NoPath, NoJob
    <2> QED
      BY <1>1, <1>2, <1>3, <1>4, NoJobIs DEF FilesInv
  <1> QED
    BY <1>1, <1>2, <1>3, <1>5 DEF KeptInv, FilesKept, KeepsFiles

LEMMA MovedKeeps ==
    ASSUME WindowsInv, FilesInv, FlagsInv, Moved
    PROVE  FilesKept
  <1> DEFINE p == IF answer = Success THEN job.src ELSE job.dest
             q == IF answer = Success THEN job.dest ELSE job.src
  <1>1. /\ At("moved") /\ Unlink(p) /\ Call(<<>>)
        /\ UNCHANGED <<card, clip, copyingFile, stopCopying, job, asked, kept, missed>>
    BY DEF Moved, Return
  <1>2. disk' \in [Paths -> Entries] /\ \A x \in Paths : x # p => disk'[x] = disk[x]
    BY <1>1, EntryIs DEF FilesInv, Unlink, Put
  <1>3. FlagsInv' /\ copyingFile' \in BOOLEAN /\ stopCopying' \in BOOLEAN
    BY <1>1, FlagsStay
  <1>4. /\ todo' = ToPasted /\ KeepsSlot2
        /\ ~Has(todo', JobSteps) /\ ~Has(todo', CopySteps \ {"copyFile", "full"}) /\ ~Has(todo', RenameSteps \ {"moved"})
        /\ ~Has(todo', {"moved"})
    BY <1>1, ReturnsTo, FileKinds
  <1>5. FilesInv'
    <2> HIDE DEF Jobs, Entries, Paths, NoPath, p
    <2> QED
      BY <1>1, <1>2, <1>3, <1>4 DEF FilesInv
  <1>6. ASSUME KeptInv PROVE KeptInv'
    <2> SUFFICES ASSUME kept # Absent PROVE missed' \/ \E x \in Paths : disk'[x] = kept
      BY <1>1, <1>4 DEF KeptInv
    <2>1. Has(todo, JobSteps) /\ Has(todo, {"moved"})
      BY <1>1, AtHas, FileKinds
    <2>2. job.src # job.dest
      BY <2>1 DEF FilesInv
    <2>3. /\ job.src \in Paths /\ job.dest \in Paths /\ disk[job.src] = kept
          /\ answer = Success => missed \/ SourceOut \/ disk[job.dest] = kept
      BY <1>1, <1>6, <2>1 DEF KeptInv
    <2>4. CASE missed
      BY <1>1, <2>4
    <2>5. CASE answer = Success /\ SourceOut
      <3>1. UNCHANGED disk
        BY <1>1, <2>5 DEF Unlink, SourceOut
      <3> QED
        BY <2>3, <3>1
    <2>6. CASE answer = Success => disk[job.dest] = kept
      <3>1. q \in Paths /\ q # p /\ disk[q] = kept
        BY <2>2, <2>3, <2>6
      <3> HIDE DEF p, q
      <3> QED
        BY <1>2, <3>1
    <2> QED
      BY <2>3, <2>4, <2>5, <2>6
  <1> QED
    BY <1>3, <1>4, <1>5, <1>6 DEF FilesKept, KeepsFiles

LEMMA TwoSteps ==
    ASSUME WindowsInv, NEW n \in CopySteps \cup RenameSteps \cup BeforeRefresh, At(n),
           NEW j, NEW k, Call(<<Step(j), Step(k)>>)
    PROVE  Kinds(todo') = {j, k} \cup Kinds(Tail(todo)) /\ todo' # <<>> /\ Head(todo').do = j
  <1> DEFINE t == Tail(todo)
             a == Step(j)
             b == Step(k)
  <1>1. IsSeq(t) /\ a.do = j /\ b.do = k /\ todo' = <<a, b>> \o t
    BY FilesLeave, OtherKinds DEF Call
  <1> HIDE DEF a, b, t
  <1>2. todo' = Push(a, Push(b, t))
    <2>1. \A x, y : <<x, y>> \o t = Push(x, Push(y, t))
      BY <1>1, Unfold
    <2> QED
      BY <1>1, <2>1, Zenon
  <1>3. IsSeq(Push(b, t)) /\ Kinds(Push(b, t)) = {k} \cup Kinds(t)
    BY <1>1, Pushed, KindsPushed
  <1> DEFINE r == Push(b, t)
  <1>4. IsSeq(r) /\ Kinds(r) = {k} \cup Kinds(t) /\ todo' = Push(a, r)
    BY <1>2, <1>3
  <1> HIDE DEF r
  <1>5. /\ Kinds(Push(a, r)) = {a.do} \cup Kinds(r)
        /\ Push(a, r) # <<>> /\ Head(Push(a, r)) = a
    BY <1>4, Pushed, KindsPushed
  <1>6. Kinds(todo') = {a.do} \cup Kinds(r) /\ todo' # <<>> /\ Head(todo') = a
    BY <1>4, <1>5, Zenon
  <1> QED
    BY <1>1, <1>4, <1>6 DEF t

LEMMA RenameKeeps ==
    ASSUME WindowsInv, FilesInv, FlagsInv, Rename, ~Fail
    PROVE  FilesKept
  <1>1. /\ At("rename") /\ There(job.src) /\ Reachable(job.dest[1]) /\ kept' = disk[job.src] /\ missed' = FALSE
        /\ UNCHANGED <<card, clip, copyingFile, stopCopying, asked>>
        /\ \/ /\ job' = [job EXCEPT !.silent = TRUE, !.length = 0] /\ UNCHANGED disk
              /\ Call(<<Step("copyFile"), Step("moved")>>)
           \/ /\ disk' = [disk EXCEPT ![job.dest] = disk[job.src], ![job.src] = Absent]
              /\ Call(<<>>) /\ UNCHANGED job
    BY DEF Rename, Go, Return
  <1>2. "rename" \in RenameSteps \ {"moved"} /\ "rename" \in JobSteps
    BY FileKinds
  <1>3. Has(todo, JobSteps) /\ Has(todo, RenameSteps \ {"moved"})
    BY <1>1, <1>2, AtHas
  <1>4. job.src \in Paths /\ job.dest \in Paths /\ job.src # job.dest /\ job.dest[2] = job.src[2] /\ job.done = 0 /\ job.copied = 0
    <2>1. job.done = 0
      BY <1>3 DEF FilesInv
    <2>2. job.copied = 0
      BY <2>1, JobIs
    <2> QED
      BY <1>1, <1>3, <2>1, <2>2, DestIs DEF FilesInv, Reachable
  <1>5. FlagsInv' /\ copyingFile' \in BOOLEAN /\ stopCopying' \in BOOLEAN
    BY <1>1, FlagsStay
  <1>6. Reachable(job.src[1]) /\ Reachable(job.dest[1]) /\ disk[job.src] \in Entries /\ disk \in [Paths -> Entries]
    BY <1>1, <1>4 DEF There, FilesInv
  <1>7. CASE /\ job' = [job EXCEPT !.silent = TRUE, !.length = 0] /\ UNCHANGED disk
             /\ Call(<<Step("copyFile"), Step("moved")>>)
    <2>1. Kinds(todo') = {"copyFile", "moved", "pasted", "refresh"} /\ Head(todo').do = "copyFile"
      BY <1>1, <1>2, <1>7, TwoSteps, FilesLeave, RestKinds
    <2>2. job' \in Jobs /\ job'.length = 0 /\ job'.done = 0 /\ job'.copied = 0 /\ job'.src = job.src /\ job'.dest = job.dest
      <3>1. job \in Jobs
        BY DEF FilesInv
      <3> QED
        BY <1>4, <1>7, <3>1 DEF Jobs
    <2>3. ~Has(todo', CopySteps \ {"copyFile", "full"}) /\ ~Has(todo', RenameSteps \ {"moved"}) /\ ~Has(todo', ShowingProgress)
      BY <2>1, FileKinds DEF Has
    <2>4. FilesInv'
      <3>2. missed' \in BOOLEAN
        BY <1>1, Zenon
      <3>1. job'.copied <= job'.done /\ job'.done <= job'.length /\ asked' \in BOOLEAN /\ card' \in BOOLEAN
            /\ clip'.path \in Paths \cup {NoPath} /\ clip'.mode \in {"none", "copy", "cut"}
        BY <1>1, <2>2 DEF FilesInv
      <3> HIDE DEF Jobs, Entries, Paths, NoPath
      <3> QED
        BY <1>4, <1>5, <1>6, <1>7, <2>2, <2>3, <3>1, <3>2 DEF FilesInv
    <2>5. ~At("moved")' /\ ~At("slot2")' /\ Has(todo', {"moved"})
      BY <2>1 DEF At, Has
    <2>6. KeptInv'
      <3> HIDE DEF Paths
      <3> QED
        BY <1>1, <1>4, <1>7, <2>2, <2>3, <2>5 DEF KeptInv
    <2> QED
      BY <1>5, <2>4, <2>5, <2>6 DEF FilesKept, KeepsFiles, KeepsSlot2
  <1>8. CASE /\ disk' = [disk EXCEPT ![job.dest] = disk[job.src], ![job.src] = Absent]
             /\ Call(<<>>) /\ UNCHANGED job
    <2>1. disk' \in [Paths -> Entries] /\ disk'[job.dest] = kept'
      BY <1>1, <1>4, <1>6, <1>8, EntryIs
    <2>2. /\ todo' = ToPasted /\ KeepsSlot2
          /\ ~Has(todo', JobSteps) /\ ~Has(todo', CopySteps \ {"copyFile", "full"}) /\ ~Has(todo', RenameSteps \ {"moved"})
          /\ ~Has(todo', {"moved"})
      BY <1>1, <1>8, ReturnsTo, FileKinds
    <2>3. FilesInv'
      <3> HIDE DEF Jobs, Entries, Paths, NoPath
      <3> QED
        BY <1>1, <1>5, <1>8, <2>1, <2>2 DEF FilesInv
    <2>4. KeptInv'
      BY <1>4, <2>1, <2>2 DEF KeptInv
    <2> QED
      BY <1>5, <2>2, <2>3, <2>4 DEF FilesKept, KeepsFiles
  <1> QED
    BY <1>1, <1>7, <1>8

LEMMA PasteKeeps ==
    ASSUME WindowsInv, RowsInv, FilesInv, FlagsInv, NEW trim \in BOOLEAN, CopyOrMove(dir, trim)
    PROVE  FilesKept
  <1>1. At("paste") /\ "paste" \in (CopySteps \cup RenameSteps \cup BeforeRefresh) \ {"moved", "pasted", "chunk", "write"}
    BY FileKinds DEF CopyOrMove
  <1>2. CASE Fail
    BY <1>1, <1>2, FailKept
  <1>3. CASE ~Fail
    <2> DEFINE dest == <<dir, clip.path[2]>>
               l == IF trim /\ clip.path[2] \in Names THEN Trimmed[clip.path[2]] ELSE 0
               n == IF clip.mode = "copy" THEN "copyFile" ELSE "renameFile"
    <2>1. /\ dest # clip.path /\ kept' = Absent /\ missed' = FALSE /\ job' = [NoJob EXCEPT !.src = clip.path, !.dest = dest, !.length = l]
          /\ Call(<<Step(n), Step("pasted")>>) /\ UNCHANGED <<disk, card, clip, copyingFile, stopCopying, asked>>
      BY <1>3 DEF CopyOrMove, Go
    <2>2. FlagsInv' /\ copyingFile' \in BOOLEAN /\ stopCopying' \in BOOLEAN
      BY <1>1, <2>1, FlagsStay
    <2>3. l \in Nat
      BY CopyAssumption
    <2>4. clip.path \in Places /\ dest \in Places
      <3>1. clip.path \in Paths \cup {NoPath} /\ dir \in Folders \cup {"top"}
        BY DEF FilesInv, RowsInv
      <3> QED
        BY <3>1 DEF Places, Paths, NoPath
    <2> HIDE DEF l
    <2>5. /\ job' \in Jobs /\ job'.src = clip.path /\ job'.dest = dest /\ job'.done = 0 /\ job'.copied = 0 /\ job'.length = l
      <3> DEFINE x == clip.path
      <3> HIDE DEF dest, x
      <3>1. job' = [src |-> x, dest |-> dest, silent |-> FALSE, length |-> l, done |-> 0, copied |-> 0]
        BY <2>1 DEF NoJob, x
      <3>2. x \in Places /\ dest \in Places
        BY <2>4 DEF x
      <3>3. [src |-> x, dest |-> dest, silent |-> FALSE, length |-> l, done |-> 0, copied |-> 0] \in Jobs
        BY <2>3, <3>2 DEF Jobs
      <3> QED
        BY <3>1, <3>3 DEF x
    <2>6. job'.dest[2] = job'.src[2] /\ job'.src # job'.dest
      BY <2>1, <2>5
    <2> HIDE DEF n
    <2>7. Kinds(todo') = {n, "pasted", "refresh"} /\ Head(todo').do = n
      <3>1. Tail(todo) = ToRefresh
        BY <1>1, FilesLeave, FileKinds
      <3>2. Kinds(todo') = {n, "pasted"} \cup Kinds(Tail(todo)) /\ Head(todo').do = n
        BY <1>1, <2>1, TwoSteps
      <3> QED
        BY <3>1, <3>2, RestKinds
    <2>8. ~Has(todo', CopySteps \ {"copyFile", "full"}) /\ ~At("slot2")'
      BY <2>7, FileKinds DEF Has, At, n
    <2>9. FilesInv'
      <3>2. missed' \in BOOLEAN
        BY <2>1, Zenon
      <3>1. job'.copied <= job'.done /\ job'.done <= job'.length /\ asked' \in BOOLEAN /\ card' \in BOOLEAN /\ disk' \in [Paths -> Entries]
            /\ clip'.path \in Paths \cup {NoPath} /\ clip'.mode \in {"none", "copy", "cut"}
        BY <2>1, <2>3, <2>5 DEF FilesInv
      <3> HIDE DEF Jobs, Entries, Paths, NoPath
      <3> QED
        BY <2>2, <2>5, <2>6, <2>8, <3>1, <3>2 DEF FilesInv
    <2> QED
      BY <2>1, <2>2, <2>8, <2>9 DEF FilesKept, KeepsFiles, KeepsSlot2, KeptInv
  <1> QED
    BY <1>2, <1>3

LEMMA FileStepKeeps ==
    ASSUME WindowsInv, RowsInv, FilesInv, FlagsInv, FileStep
    PROVE  FilesKept
  <1>1. CASE GiveUp
    BY <1>1, GiveUpKeeps, QuietKeeps DEF FilesKept
  <1>2. CASE Rename
    <2>1. CASE Fail
      BY <1>2, <2>1, AskingKept
    <2>2. CASE ~Fail
      BY <1>2, <2>2, RenameKeeps
    <2> QED
      BY <2>1, <2>2
  <1>3. CASE \E trim \in BOOLEAN : CopyOrMove(dir, trim)
    BY <1>3, PasteKeeps
  <1>4. CASE CopyFile \/ Overwrite \/ Full \/ RenameFile \/ Replace \/ DeleteFile
    BY <1>4, AskingKept
  <1>5. CASE AskStop \/ StopCopy \/ GoOnCopying \/ WriteFails \/ CopyDone
    BY <1>5, EndsKeep
  <1>6. CASE StartCopy
    BY <1>6, StartCopyKeeps
  <1>7. CASE Chunk
    BY <1>7, ChunkKeeps
  <1>8. CASE Moved \/ Pasted \/ Confirmed
    BY <1>8, MovedKeeps, PastedKeeps, DeletedKeeps
  <1> QED
    BY <1>1, <1>2, <1>3, <1>4, <1>5, <1>6, <1>7, <1>8 DEF FileStep, CopyStep

(* The list and its selected row. *)
LEMMA RowsStay ==
    ASSUME RowsInv, KeepsSlot2, UNCHANGED <<listVars, pen>>
    PROVE  RowsInv'
  BY DEF RowsInv, KeepsSlot2, listVars

LEMMA SelIs ==
    ASSUME RowsInv
    PROVE  \A r \in DOMAIN rows : r \in 1 .. Len(rows) + 1
  BY LenProperties DEF RowsInv

LEMMA RowsSelected ==
    ASSUME RowsInv, KeepsSlot2, UNCHANGED <<dir, rows>>, pen' \in Points \cup {NULL},
           (\E r \in DOMAIN rows : SelectRow(r)) \/ UNCHANGED sel
    PROVE  RowsInv'
  BY SelIs DEF RowsInv, KeepsSlot2, SelectRow

LEMMA TopRowsIs == TopRows \in Seq(Names \cup Folders \cup {"slot2"}) /\ Len(TopRows) = 3
  BY CopyAssumption DEF TopRows, Roots

LEMMA RowsShown ==
    ASSUME RowsInv, KeepsSlot2, pen' \in Points \cup {NULL},
           \/ Show("top", TopRows)
           \/ \E d \in Folders : Show(d, Listing(d))
    PROVE  RowsInv'
  <1>1. CASE Show("top", TopRows)
    BY <1>1, TopRowsIs DEF RowsInv, Show
  <1>2. ASSUME NEW d \in Folders, Show(d, Listing(d)) PROVE RowsInv'
    <2> DEFINE s == Listing(d)
    <2>1. s \in Seq(Names \cup Folders)
      BY ListingIs
    <2>2. dir' = d /\ rows' = s /\ sel' = 1
      BY <1>2 DEF Show
    <2>3. d # "top"
      BY CopyAssumption
    <2> HIDE DEF s
    <2>4. s \in Seq(Names \cup Folders \cup {"slot2"}) /\ Len(s) \in Nat
      BY <2>1, SeqMonotonic, LenProperties
    <2>5. 1 \in 1 .. Len(s) + 1
      BY <2>4
    <2>6. At("slot2")' => Len(rows') = 3
      BY <2>2 DEF KeepsSlot2, RowsInv
    <2> QED
      BY <2>1, <2>2, <2>4, <2>5, <2>6 DEF RowsInv
  <1> QED
    BY <1>1, <1>2

LEMMA EntryRows ==
    ASSUME RowsInv, ~At("slot2")', EnterSlot2 \/ SelectSlot2 \/ SelectEntered
    PROVE  RowsInv'
  <1>1. CASE EnterSlot2
    BY <1>1 DEF RowsInv, EnterSlot2
  <1>2. CASE SelectSlot2
    BY <1>2 DEF RowsInv, SelectSlot2
  <1>3. CASE SelectEntered
    <2> DEFINE x == Head(todo).from
    <2>1. Contains(rows, x) => (CHOOSE i \in DOMAIN rows : rows[i] = x) \in DOMAIN rows
      BY DEF Contains
    <2>2. UNCHANGED <<dir, rows, pen>> /\ (sel' = sel \/ (Contains(rows, x) /\ sel' = (CHOOSE i \in DOMAIN rows : rows[i] = x)))
      BY <1>3 DEF SelectEntered
    <2> HIDE DEF x
    <2>3. sel' = sel \/ sel' \in DOMAIN rows
      BY <2>1, <2>2
    <2> QED
      BY <2>2, <2>3, SelIs DEF RowsInv
  <1> QED
    BY <1>1, <1>2, <1>3

MenuInv == WindowsInv /\ RowsInv /\ FilesInv /\ FlagsInv

LEMMA InputKeeps ==
    ASSUME MenuInv, Input
    PROVE  RowsInv' /\ KeepsFiles
  <1>1. Quiet /\ ~At("slot2")' /\ KeepsSlot2
    BY InputQuiet DEF MenuInv, KeepsSlot2
  <1>2. KeepsFiles
    BY <1>1, QuietKeeps DEF MenuInv
  <1>3. RowsInv'
    <2>1. CASE Key \/ MoveFocus
      BY <1>1, <2>1, RowsStay DEF MenuInv, Key, MoveFocus
    <2>2. CASE Arrow
      <3>1. UNCHANGED <<dir, rows, pen>> /\ \E r \in DOMAIN rows : SelectRow(r)
        BY <2>2 DEF Arrow
      <3> QED
        BY <1>1, <3>1, RowsSelected DEF MenuInv, RowsInv
    <2>3. CASE TouchUp
      BY <1>1, <2>3, RowsSelected DEF MenuInv, TouchUp, listVars
    <2>4. ASSUME NEW p \in Points, TouchDown(p) \/ TouchMove(p) PROVE RowsInv'
      <3>1. UNCHANGED <<dir, rows>> /\ pen' = p /\ ((\E r \in DOMAIN rows : SelectRow(r)) \/ UNCHANGED sel)
        BY <2>4 DEF TouchDown, TouchMove
      <3> QED
        BY <1>1, <3>1, RowsSelected DEF MenuInv
    <2> QED
      BY <2>1, <2>2, <2>3, <2>4 DEF Input
  <1> QED
    BY <1>2, <1>3

LEMMA MainKeeps ==
    ASSUME MenuInv, MainStep
    PROVE  RowsInv' /\ KeepsFiles
  <1>1. ASSUME Quiet, KeepsSlot2, UNCHANGED <<listVars, pen>> PROVE RowsInv' /\ KeepsFiles
    BY <1>1, QuietKeeps, RowsStay DEF MenuInv
  <1>2. ASSUME Passes PROVE Quiet /\ KeepsSlot2 /\ ~At("slot2")' /\ KeepsFiles
    BY <1>2, PassesQuiet, QuietKeeps DEF KeepsSlot2, MenuInv
  <1>3. CASE EnterSlot2 \/ SelectSlot2 \/ SelectEntered
    <2>1. Passes
      BY <1>3, ListPasses DEF MenuInv
    <2> QED
      BY <1>2, <1>3, <2>1, EntryRows DEF MenuInv
  <1>4. CASE EnterTop
    <2>1. Quiet /\ KeepsSlot2
      BY <1>4, EnterTopKeeps DEF MenuInv
    <2>2. Show("top", TopRows) /\ pen' \in Points \cup {NULL}
      BY <1>4 DEF EnterTop, MenuInv, RowsInv
    <2> QED
      BY <2>1, <2>2, QuietKeeps, RowsShown DEF MenuInv
  <1>5. CASE EnterDir
    <2>1. Passes
      BY <1>5, ListPasses DEF MenuInv
    <2>2. pen' \in Points \cup {NULL} /\ \E d \in Folders : Show(d, Listing(d))
      BY <1>5 DEF EnterDir, Reachable, MenuInv, RowsInv
    <2> QED
      BY <1>2, <2>1, <2>2, RowsShown DEF MenuInv
  <1>6. CASE LoadRom
    <2>1. Show("top", TopRows) /\ pen' \in Points \cup {NULL}
      BY <1>6 DEF LoadRom
    <2> QED
      BY <1>6, <2>1, LoadRomKeeps, RowsShown DEF MenuInv
  <1>7. CASE EnterFails \/ BackParentDir \/ Launch \/ ShowFileInfo \/ Restart \/ ListType \/ UiStyle \/ Language
    <2>1. Passes
      BY <1>7, ListPasses DEF MenuInv
    <2>2. UNCHANGED <<listVars, pen>>
      BY <1>7 DEF EnterFails, BackParentDir, Launch, ShowFileInfo, Restart, ListType, UiStyle, Language, Changed
    <2> QED
      BY <1>1, <1>2, <2>1, <2>2
  <1>8. CASE CopyOrCut("copy") \/ CopyOrCut("cut") \/ DeleteItem \/ Refresh
    <2>1. Quiet /\ KeepsSlot2
      BY <1>8, ItemStepsQuiet DEF MenuInv, KeepsSlot2
    <2>2. UNCHANGED <<listVars, pen>>
      BY <1>8 DEF CopyOrCut, DeleteItem, Refresh
    <2> QED
      BY <1>1, <2>1, <2>2
  <1>9. CASE Paste \/ ShowHelp \/ SetPatches \/ InfoItem \/ SetSystemParam
    <2>1. Passes
      BY <1>9, ItemPasses DEF MenuInv
    <2>2. UNCHANGED <<listVars, pen>>
      BY <1>9 DEF Paste, ShowHelp, SetPatches, InfoItem, SetSystemParam, OpenForm
    <2> QED
      BY <1>1, <1>2, <2>1, <2>2
  <1>10. CASE SettingsDone
    <2>1. Passes
      BY <1>10, SettingsPass DEF MenuInv
    <2>2. UNCHANGED <<listVars, pen>>
      BY <1>10 DEF SettingsDone
    <2> QED
      BY <1>1, <1>2, <2>1, <2>2
  <1>11. CASE ShowSaveType \/ OnOK \/ OnCancel \/ OnSettingOK \/ Confirm \/ OnSaveType \/ StartButton \/ ClickItem \/ LeaveMenu
    <2>1. Passes
      BY <1>11, FormPasses DEF MenuInv
    <2>2. UNCHANGED <<listVars, pen>>
      BY <1>11 DEF ShowSaveType, OnOK, OnCancel, EndForm, OnSettingOK, Confirm, OnSaveType, StartButton, ClickItem, LeaveMenu
    <2> QED
      BY <1>1, <1>2, <2>1, <2>2
  <1> QED
    BY <1>3, <1>4, <1>5, <1>6, <1>7, <1>8, <1>9, <1>10, <1>11 DEF MainStep

LEMMA MenuNext ==
    ASSUME MenuInv, [Next]_vars
    PROVE  MenuInv' /\ (KeptInv => KeptInv')
  <1>1. WindowsInv'
    BY EveryStep DEF MenuInv
  <1>2. RowsInv' /\ KeepsFiles
    <2>1. CASE Input
      BY <2>1, InputKeeps
    <2>2. CASE MainStep
      BY <2>2, MainKeeps
    <2>3. CASE WindowStep /\ UNCHANGED <<copyVars, listVars, pen>>
      <3>1. Passes
        BY <2>3, FormPasses DEF WindowStep, MenuInv
      <3>2. Quiet /\ KeepsSlot2
        BY <3>1, PassesQuiet DEF KeepsSlot2
      <3> QED
        BY <2>3, <3>2, QuietKeeps, RowsStay DEF MenuInv
    <2>4. CASE FileStep /\ UNCHANGED <<listVars, pen>>
      BY <2>4, FileStepKeeps, RowsStay DEF FilesKept, MenuInv
    <2>5. ASSUME UNCHANGED <<uiVars, listVars, pen>>, VBlank \/ Pull \/ UNCHANGED copyVars
          PROVE  RowsInv' /\ KeepsFiles
      <3>1. KeepsSlot2
        BY <2>5 DEF KeepsSlot2, At, uiVars, flow, listVars
      <3> QED
        BY <2>5, <3>1, InterruptKeeps, RowsStay DEF MenuInv
    <2>6. CASE Interrupt
      <3>1. UNCHANGED uiVars /\ (VBlank \/ Pull) /\ UNCHANGED <<listVars, pen>>
        BY <2>6 DEF Interrupt, VBlank, Pull
      <3> QED
        BY <2>5, <3>1
    <2>7. CASE UNCHANGED vars
      BY <2>5, <2>7 DEF vars
    <2> QED
      BY <2>1, <2>2, <2>3, <2>4, <2>6, <2>7 DEF Next, Handlers
  <1> QED
    BY <1>1, <1>2 DEF MenuInv, KeepsFiles

LEMMA MenuFirst == Init => MenuInv /\ KeptInv
  <1> SUFFICES ASSUME Init PROVE MenuInv /\ KeptInv
    OBVIOUS
  <1>1. WindowsInv
    BY WindowsFirst
  <1>2. todo = <<>>
    BY DEF Init, WindowsInit
  <1>3. RowsInv
    <2>1. dir = "top" /\ rows = TopRows /\ sel = 1 /\ pen = NULL
      BY DEF Init
    <2>2. ~At("slot2")
      BY <1>2 DEF At
    <2> QED
      BY <2>1, <2>2, TopRowsIs DEF RowsInv
  <1>4. FilesInv
    <2>1. disk \in [Paths -> Entries]
      <3>1. \A n \in Names : Whole(n) \in Entries
        BY CopyAssumption DEF Whole, Entries
      <3>2. IsDir \in Entries /\ Absent \in Entries
        BY EntryIs DEF IsDir
      <3>3. disk \in [Paths -> {Absent, IsDir} \cup {Whole(n) : n \in Names}]
        BY MenuAssumption DEF Init
      <3> HIDE DEF Entries
      <3> QED
        BY <3>1, <3>2, <3>3
    <2>2. \A S : ~Has(todo, S)
      BY <1>2, NoSteps DEF Has
    <2>3. /\ card \in BOOLEAN /\ copyingFile = FALSE /\ stopCopying = FALSE /\ asked = FALSE
          /\ clip = NoClip /\ job = NoJob /\ missed = FALSE
      BY MenuAssumption DEF Init, CopyInit
    <2> QED
      BY <2>1, <2>2, <2>3, NoJobIs DEF FilesInv, NoClip
  <1>5. FlagsInv /\ KeptInv
    BY DEF FlagsInv, StopIsAsked, KeptInv, Init, CopyInit
  <1> QED
    BY <1>1, <1>3, <1>4, <1>5 DEF MenuInv

-----------------------------------------------------------------------------
(* What the invariants say of the menu.                                    *)
LEMMA TypesHold == MenuInv => TypeOK
  <1> SUFFICES ASSUME MenuInv PROVE TypeOK
    OBVIOUS
  <1>1. WindowsTypeOK
    <2>1. visible \subseteq alive /\ alive \subseteq Window /\ popup \in alive \cup {NULL}
      BY VisibleIs, PopupAlive DEF MenuInv
    <2> QED
      BY <2>1 DEF MenuInv, WindowsInv, AliveInv, ListInv, WindowsTypeOK
  <1>2. CopyTypeOK
    BY DEF MenuInv, FilesInv, Entries, CopyTypeOK
  <1> QED
    BY <1>1, <1>2 DEF MenuInv, RowsInv, TypeOK

LEMMA FormsHold == WindowsInv => FormsAreRunning
  <1> SUFFICES ASSUME WindowsInv PROVE FormsAreRunning
    OBVIOUS
  <1> QED
    BY DEF WindowsInv, ListInv, Running, FormsIn, Ordered, InFront, FormsAreRunning

LEMMA NoneStale == WindowsInv /\ (FocusInv \/ UpInv) => NoStaleWindow
  BY DEF WindowsInv, AliveInv, FocusInv, UpInv, NoStaleWindow

LEMMA FlagsHold == FlagsInv => CopyInterrupt
  BY DEF FlagsInv, Copying, CopyInterrupt, OneReader, Waiting, Idle, InModal, At

(* The windows, the list, the files and the flags of the interrupt handler *)
(* are always as the steps that are left to do need them (mainwnd.cpp,     *)
(* files.cpp, irqs.cpp:98).                                                *)
THEOREM MenuInvariant == Spec => []MenuInv
  <1>1. Init => MenuInv
    BY MenuFirst
  <1>2. MenuInv /\ [Next]_vars => MenuInv'
    BY MenuNext
  <1> QED
    BY <1>1, <1>2, PTL DEF Spec

(* The loop that is running gets the input, and the listed forms are those *)
(* whose loops are running, the inner in front of the outer (form.cpp:218, *)
(* windowmanager.cpp:65 and :89): no hypothesis.                           *)
THEOREM InputIsTaken == Spec => [](TypeOK /\ InputReachesTop /\ FormsAreRunning)
  <1>1. MenuInv => TypeOK /\ InputReachesTop /\ FormsAreRunning
    BY TypesHold, InputFromInv, FormsHold DEF MenuInv
  <1> QED
    BY <1>1, MenuInvariant, PTL

(* Nothing that is deleted is listed, pops up, has the focus or will get   *)
(* it, whatever is touched and pressed, until the button that leads up is  *)
(* touched where the folder above is on a card that is out: its handler    *)
(* runs before the end of the touch, and opens a message box then          *)
(* (window.cpp:55, windowmanager.cpp:325, mainlist.cpp:178).               *)
THEOREM WindowsAreSound == Spec /\ [][~BoxWhileTouched]_vars => []WindowsSound
  <1> DEFINE Sound == MenuInv /\ (FocusInv \/ UpInv)
  <1>1. Init => Sound
    BY MenuFirst, WindowsFirst
  <1>2. Sound /\ [Next]_vars /\ [~BoxWhileTouched]_vars => Sound'
    <2> SUFFICES ASSUME MenuInv, FocusInv \/ UpInv, [Next]_vars, [~BoxWhileTouched]_vars PROVE Sound'
      OBVIOUS
    <2>1. MenuInv' /\ WindowsInv
      BY MenuNext DEF MenuInv
    <2>2. CASE FocusInv
      BY <2>1, <2>2, EveryStep
    <2>3. CASE UpInv
      BY <2>1, <2>3, UpStep DEF MenuInv
    <2> QED
      BY <2>2, <2>3
  <1>3. Sound => WindowsSound
    BY TypesHold, InputFromInv, FormsHold, NoneStale DEF MenuInv, WindowsSound
  <1> QED
    BY <1>1, <1>2, <1>3, PTL DEF Spec

(* A file that is moved is whole in its old place or in its new one at     *)
(* every step, also when the copy is stopped, the volume is full or the    *)
(* card with either place is pulled out at any step, unless a read came    *)
(* short from a disk that was there, or the destination was closed on a    *)
(* card that was out: errors copyFile does not look at (files.cpp:214-235, *)
(* 264).                                                                   *)
THEOREM MovesAreSafe == Spec => []MoveKeepsFile
  <1>1. Init => MenuInv /\ KeptInv
    BY MenuFirst
  <1>2. MenuInv /\ KeptInv /\ [Next]_vars => (MenuInv /\ KeptInv)'
    BY MenuNext
  <1>3. KeptInv => MoveKeepsFile
    BY DEF KeptInv, MoveKeepsFile
  <1> QED
    BY <1>1, <1>2, <1>3, PTL DEF Spec

(* Whatever is copied, and however the dialogs interrupt it: a request to  *)
(* stop belongs to the copy that it stops, and no loop of the menu reads   *)
(* the keys while the interrupt handler does (files.cpp:190-214,           *)
(* irqs.cpp:98).                                                           *)
THEOREM CopyIsNotDisturbed == Spec => []CopyInterrupt
  <1>1. MenuInv => CopyInterrupt
    BY FlagsHold DEF MenuInv
  <1> QED
    BY <1>1, MenuInvariant, PTL
=============================================================================
