------------------------------ MODULE Session ------------------------------
(***************************************************************************)
(* The menu from its start to the start of a program: the list in which it *)
(* is chosen (ListView), and the two processors that change over to it     *)
(* (Processors, Loader).  While the ARM9 is elsewhere the list stands      *)
(* still; it is forgotten when the menu is left.                           *)
(***************************************************************************)
EXTENDS ListView, Loader, Settings

CONSTANTS
  Disk,          \* folder |-> the disk it is on
  IniFiles,      \* what globalsettings.ini may contain
  Picks,         \* setting |-> the values that are chosen for it
  FlagItem       \* patch |-> the setting that asks for it

ASSUME SessionAssumption ==
    /\ \A d \in DOMAIN Content : Disk[d] \in {"fat0", "fat1"}
    /\ Roms \subseteq DOMAIN Game /\ Picks.brightness \subseteq Nat

VARIABLES
  iniFile,       \* globalsettings.ini
  settings,      \* gs(), but for those other modules have
  listed         \* fileListType when the settings were shown, until they are saved

gsVars == <<iniFile, settings, listed>>
all == <<listVars, vars, gsVars>>

gs == [i \in DOMAIN Defaults |->
         CASE i = "brightness" -> brightness [] i = "fileListType" -> fileListType [] OTHER -> settings[i]]
AllBut(g) == [i \in DOMAIN Defaults \ {"brightness", "fileListType"} |-> g[i]]

ListStands == UNCHANGED <<listVars, gsVars>>

(* Once the menu is left nothing reads the list any more. *)
ListForgotten ==
    /\ fileListType' = 0 /\ saveList' = [g \in Titles |-> NULL]
    /\ rows' = Listing["top"][0] /\ infos' = Describe("top", 0) /\ dir' = "top"
    /\ place' = Top /\ view' = "icon"
    /\ icon' = NULL /\ moved' = FALSE /\ sumOfMoveY' = 0 /\ pen' = NULL /\ held' = NULL /\ idle' = FALSE
    /\ iniFile' = <<>> /\ settings' = AllBut(Defaults) /\ UNCHANGED listed

(* Bounds.  The list is used with one brightness and the lid not touched,  *)
(* the brightness and the lid with the list as it is at first.  The kinds  *)
(* of files to be listed are chosen at the head of a list, patches when a  *)
(* game is selected there, all other settings at first.                    *)
Plain == settings \in {AllBut([Defaults EXCEPT !.langDirectory = d]) : d \in Range(LangDirectory)}
Calm  == ipc9 = "none" /\ pc7 = "poll" /\ lights /\ lid = "open" /\ lite /\ brightness = 1
Fresh == rows = Listing["top"][0] /\ place = Top /\ view = "icon" /\ pen = NULL /\ held = NULL /\ ~idle
Ahead == view = "icon" /\ icon = NULL /\ ~idle /\ ~moved /\ sumOfMoveY = 0 /\ place.first = 0 /\ dir # "top"

SessionInit ==
    /\ ListInit /\ ProcessorsInit /\ LoaderInit
    /\ iniFile \in IniFiles /\ listed = NULL
    /\ LET g == LoadSettings(iniFile, Defaults)
       IN  brightness = g.brightness /\ fileListType = g.fileListType /\ settings = AllBut(g)

Browse == pc9 = "main" /\ listed = NULL /\ Calm /\ Plain /\ ListNext /\ UNCHANGED <<vars, gsVars>>

-----------------------------------------------------------------------------
(* The windows of the settings, when they are left with OK.  saveSettings  *)
(* sets the brightness first and waits for it, then it writes the file.    *)
Choose(b, t, g) ==
    /\ pc9 = "main" /\ listed = NULL /\ ShowSettings(t)
    /\ brightness' = b /\ p1' = b /\ pc9' = "sendLevel"
    /\ settings' = AllBut(g) /\ listed' = fileListType
    /\ UNCHANGED <<pc7, prog9, prog7, ipc9, ipc7, wordVars, lite, level, lights, lid, loadVars, iniFile>>

(* setSystemParam.  A level of brightness that the window does not have is *)
(* shown as the first one; the style is kept unless it is confirmed.       *)
SystemParam ==
    \/ /\ Fresh /\ lid = "open"
       /\ \E b \in Picks.brightness, l \in Picks.language, r \in Picks.romTrim, u \in Picks.uiName \cup {gs.uiName} :
            Choose(b, fileListType,
                   [gs EXCEPT !.language = l, !.langDirectory = LangDirectory[l + 1], !.romTrim = r, !.uiName = u])
    \/ /\ Calm /\ Ahead /\ place = Top /\ Plain
       /\ \E t \in 0 .. 2 :
            Choose(brightness, t, [gs EXCEPT !.langDirectory = LangDirectory[gs.language + 1]])

(* setPatches *)
SetPatches ==
    /\ Calm /\ Ahead /\ Plain /\ rows # <<>> /\ infos[place.sel + 1].isDSRom
    /\ \E f \in SUBSET Flags :
         Choose(brightness, fileListType,
                [i \in DOMAIN Defaults |->
                   IF i \in Range(FlagItem) THEN IF \E x \in f : FlagItem[x] = i THEN 1 ELSE 0 ELSE gs[i]])

WriteSettings ==
    /\ pc9 = "main" /\ listed # NULL
    /\ iniFile' = SaveSettings(iniFile, gs) /\ listed' = NULL
    /\ ListAnew(listed) /\ UNCHANGED <<settings, vars>>

Console ==
    /\ pc9 = "main" /\ listed = NULL /\ Fresh /\ fileListType = 0
    /\ (BrightnessButton \/ MoveLid) /\ Shared /\ ListStands

(* launchSelected, with A or the pen on the icon of the selected row: a    *)
(* game, or the cartridge in slot 2.  The card may be too slow; then, or   *)
(* when the answers to its questions are no, the menu goes on.             *)
LaunchSelected ==
    /\ rows # <<>> /\ pen = NULL /\ held = NULL /\ listed = NULL
    /\ flags' = {f \in Flags : settings[FlagItem[f]] # 0}
    /\ \/ infos[place.sel + 1].isDSRom /\ \E s \in CardSpeeds : Launch([disk |-> Disk[dir], name |-> Selected], s)
       \/ Selected = "slot2" /\ Launch([disk |-> "slot2", name |-> "slot2"], 0)
    /\ ListForgotten

(* The program runs, or the loader shows that it cannot go on. *)
Over == (pc9 = "failed" \/ (pc9 = "game" /\ pc7 = "game")) /\ UNCHANGED all

Machine == LoaderNext /\ ListStands

Next == Browse \/ SystemParam \/ SetPatches \/ WriteSettings \/ Console \/ LaunchSelected \/ Over \/ Machine

(* Each processor goes on when it can.  Nothing is said of the user. *)
Arm7Goes == ((Arm7 /\ Shared) \/ Fetch \/ FetchDone) /\ ListStands
Arm9Goes == (((Menu9 \/ Restart9) /\ Shared) \/ Loader9 \/ CartridgeRuns) /\ ListStands
SavingEnds == pc9 = "main" /\ listed # NULL /\ listed' = NULL

Spec == SessionInit /\ [][Next]_all /\ WF_all(Arm7Goes) /\ WF_all(Arm9Goes) /\ WF_listed(SavingEnds)

-----------------------------------------------------------------------------
SessionTypeOK ==
    /\ dir \in DOMAIN Content /\ rows \in Seq(DOMAIN Kind) /\ place \in AtRows
    /\ infos \in Seq([banner : Banner, isDSRom : BOOLEAN, saveType : SaveTypes \cup {NULL}])
    /\ view \in {"icon", "list"} /\ fileListType \in 0 .. 2 /\ pen \in Points \cup {NULL}
    /\ held \in Moves \cup {NULL} /\ {idle, moved} \subseteq BOOLEAN /\ sumOfMoveY \in -4 .. 4
    /\ {prog9, prog7} \subseteq Programs /\ ipc9 \in Messages /\ ipc7 \in Answers
    /\ fe08 \in {Jump} \cup {Header(p) : p \in Programs}
    /\ fe24 \in {Itself} \cup {Entry(p) : p \in Programs}
    /\ level \in 0 .. 3 /\ brightness \in Nat /\ {lights, video, sdhc} \subseteq BOOLEAN
    /\ listed \in 0 .. 2 \cup {NULL}
    /\ flags \subseteq Flags /\ control \in Nat /\ Len(nandMap) \in 0 .. Len(Block)

(* The selected row exists and is one of those drawn, whatever was pressed,*)
(* dragged, opened or switched (listview.cpp:149,177,189-235).             *)
SelectedVisible ==
    rows # <<>> => /\ place.sel < Len(rows)
                   /\ place.sel \in place.first .. place.first + VisibleRows(view) - 1

(* The list is scrolled so far down that at most one row's room is empty   *)
(* below the last row (listview.cpp:227, mainlist.cpp:425).                *)
ListFull == place.first = 0 \/ Len(rows) - place.first >= VisibleRows(view) - 1

(* The save manager does not tell the copies of a game apart. *)
SameGame(e, f) == IF {e, f} \subseteq Roms THEN GameOf[e] = GameOf[f] ELSE e = f

(* Each row has its own banner, and the type of save memory the save       *)
(* manager has for the game is in the row of one of its copies, the only   *)
(* row if there is no other (mainlist.cpp:246-282,368; dsrom.cpp:86-91;    *)
(* savemngr.cpp:196-210).                                                  *)
InfosOfRows ==
    /\ Len(infos) = Len(rows)
    /\ \A i \in DOMAIN rows :
         /\ infos[i].banner = Info(rows[i]).banner /\ infos[i].isDSRom = Info(rows[i]).isDSRom
         /\ \E j \in DOMAIN rows : SameGame(rows[i], rows[j]) /\ infos[j] = Info(rows[j])

(* Not guaranteed: every row has the type the save manager has.            *)
InfosAgree == \A i \in DOMAIN rows : infos[i] = Info(rows[i])

(* The next start finds the settings that were saved, and the others and   *)
(* the other sections of the file as they were (inifile.cpp:387-548,       *)
(* globalsettings.cpp:66-149).                                             *)
SettingsKept ==
    [][WriteSettings =>
         LET g == LoadSettings(iniFile', Defaults)
             h == LoadSettings(iniFile, Defaults)
         IN  /\ \A i \in DOMAIN Defaults : g[i] = IF i \in ToSet(SavedItems) THEN gs[i] ELSE h[i]
             /\ \A l \in ToSet(iniFile) : l.kind = "section" /\ l.name # "system" =>
                  \A i \in {m.name : m \in ToSet(iniFile)} :
                    GetFileString(LoadIniFile(iniFile'), l.name, i) = GetFileString(LoadIniFile(iniFile), l.name, i)]_all

(* The animated icon is that of the selected row and lies over it, unless  *)
(* a key is held (mainlist.cpp:429-455).                                   *)
IconOfSelected == icon # NULL /\ held = NULL => icon = IconFor(place, view, infos)

(* The rows, their descriptions, the selection, the part that is shown and *)
(* the animated icon are kept by separate calls that none of the handlers  *)
(* makes all of (listview.cpp:88-251, mainlist.cpp:182-455).               *)
ListSound == SessionTypeOK /\ SelectedVisible /\ ListFull /\ InfosOfRows /\ IconOfSelected

(* With a key held that is not so: the icon stays where it appeared.       *)
IconFollows == icon # NULL => icon = IconFor(place, view, infos)

(* Going back to the parent selects the folder that was left, even if a    *)
(* page has to be scrolled for it (mainlist.cpp:327-333).                  *)
BackSelects ==
    [][pc9 = "main" /\ dir' # dir /\ dir' # "top" /\ Press("B") => Path[Selected'] = dir]_all

(* While the ARM9 runs round the instruction at 027FFE08 it is there       *)
(* (romloader.cpp:59-68, arm7/source/main.cpp:192-202).                    *)
JumpInPlace == pc9 = "loop" => fe08 = Jump

(* A program finds its own header when it starts: the words used to start  *)
(* it are put back (arm7/source/main.cpp:194-201, loader's 95-105).        *)
HeaderBack ==
    pc9 = "game" /\ pc7 = "game" /\ file.disk # "slot2" => fe08 = Header("game") /\ fe24 = Entry("game")

(* The program's code is in the memory of both processors when it starts   *)
(* (loader.cpp:72-112, arm7/source/main.cpp:47-55).                        *)
BothLoaded == pc9 = "game" /\ pc7 = "game" /\ file.disk # "slot2" => code9 = "game" /\ code7 = "game"

(* A game reads its file no faster than its disk was measured, nor than    *)
(* its own header says (mainwnd.cpp:468-485, loader.cpp:67-70,123-129).    *)
SlowEnough ==
    pc9 = "game" /\ file.disk # "slot2" /\ ~Loaded.homebrew => control >= measured /\ control >= Loaded.speed

(* The hardware finds each cluster of the file where it is: the table and  *)
(* the way it is to be read fit together (rpgmaps.cpp:44-69,159-173,241).  *)
FoundAt(i) == IF device.sdhc THEN fatMap[i] ELSE fatMap[i] \div Bytes
MapFindsFile ==
    pc9 = "game" /\ file.disk # "slot2" /\ ~Loaded.homebrew =>
      /\ device.disk = file.disk /\ nandMap = Block
      /\ \A i \in DOMAIN Chain[file] : FoundAt(i) = Sector[file.disk][Chain[file][i]]

(* What a program finds when it starts on both processors: the jumps, its  *)
(* header, its code and the map and speed of its file, left by two menus   *)
(* and two loaders (romloader.cpp:50-69, arm7/source/main.cpp:153-204,     *)
(* akloader main.cpp:60-212, rpgmaps.cpp:44-250).                          *)
StartedRight == JumpInPlace /\ HeaderBack /\ BothLoaded /\ SlowEnough /\ MapFindsFile

(* Once a program was chosen it runs on both processors, or the loader     *)
(* says that it cannot (the waits of romloader.cpp:59, loader.cpp:51,      *)
(* akloader main.cpp:64,88 end).                                           *)
Starts == pc9 = "waitReady" /\ prog9 = "menu" ~> pc9 = "failed" \/ (pc9 = "game" /\ pc7 = "game")

(* The wait for the brightness ends (brightnesssetting.h:44,52).           *)
LevelAnswered == pc9 \in {"levelSet", "levelAsked"} ~> pc9 = "main"

(* Neither processor waits for ever for the other one's answer.            *)
Answered == Starts /\ LevelAnswered

(* Not guaranteed: the screens are on again after the lid was opened.      *)
WakesUp == lid = "open" ~> lights \/ lid = "closed"
=============================================================================
