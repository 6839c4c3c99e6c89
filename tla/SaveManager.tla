----------------------------- MODULE SaveManager -----------------------------
(***************************************************************************)
(* The saves of games (src/akmenu4/arm9/source/savemngr.cpp).  A game      *)
(* writes its save to save blocks: blocks of the NAND with a tag of their  *)
(* own.  When the menu starts, backupSaveData copies the blocks to the     *)
(* .sav file of the program that was started last, and erases them.  When  *)
(* a game is started, restoreSaveData tags new blocks, fills them from the *)
(* .sav file and records the name of the game.                             *)
(*                                                                         *)
(* The power can fail between any two steps: a step is one erasing or      *)
(* programming of a block, or one change of a file that is there after     *)
(* the power has failed.  Files can always be created and never find the   *)
(* disc full (the code does not look at the results of its writes).        *)
(***************************************************************************)
EXTENDS Naturals, FiniteSets

CONSTANTS
  Roms,             \* the games
  Homebrew,         \* a program without a save
  CardPrograms,     \* the programs that are on the SD card, fat1
  ListedRoms,       \* the games whose type of save the official list has
  None,             \* no name is recorded
  LastBlock,        \* the save blocks are 0 .. LastBlock
  MaxSaves,         \* bound: saves made by each game
  MaxPowerCycles,   \* bound: times the power goes off
  CardMayBeAbsent,  \* whether the SD card may be out while the menu starts
  PowerFailsInSave  \* whether the power may fail while a game is saving

Programs == Roms \cup {Homebrew}

ASSUME NamesAssumption ==
  /\ Homebrew \notin Roms /\ None \notin Programs
  /\ CardPrograms \subseteq Programs /\ ListedRoms \subseteq Roms
ASSUME BoundsAssumption ==
  LastBlock \in Nat /\ MaxSaves \in Nat /\ MaxPowerCycles \in Nat
ASSUME SwitchesAssumption ==
  CardMayBeAbsent \in BOOLEAN /\ PowerFailsInSave \in BOOLEAN

VARIABLES
  pc,        \* where the menu, or the program it started, is
  card,      \* whether the SD card is in
  block,     \* the save blocks, by the index in their tag (_saveBlockTable)
  lastInfo,  \* lastLoaded of the file SFN_LAST_SAVEINFO
  typeFile,  \* the programs in the file of the custom list of save types
  typeList,  \* the same in memory (_customSaveList)
  sav,       \* the .sav file of each program
  others,    \* the .sav files under other names
  rom,       \* the program being started or running
  next,      \* the next block to tag, to fill or to save
  latest,    \* the number of complete saves each game has made
  cycles     \* times the power went off

vars == <<pc, card, block, lastInfo, typeFile, typeList, sav, others, rom, next,
          latest, cycles>>

Index == 0 .. LastBlock

(***************************************************************************)
(* A block holds its share of the save n of a game, or nothing when it has *)
(* been tagged only.  The card sets a mark in the tag of a block when it   *)
(* writes to it for the game.                                              *)
(***************************************************************************)
Blank == [of |-> None, n |-> 0]
Share == [of : Roms \cup {None}, n : 0 .. MaxSaves]
Erased == [tagged |-> FALSE, mark |-> FALSE, share |-> Blank]
Assigned == [Erased EXCEPT !.tagged = TRUE]
Written(share) == [tagged |-> TRUE, mark |-> TRUE, share |-> share]
Block == [tagged : BOOLEAN, mark : BOOLEAN, share : Share]

\* The whole save n of a game, and what the blocks hold, in the order of a file.
SaveOf(r, n) == [i \in Index |-> [of |-> r, n |-> n]]
Shares == [i \in Index |-> block[i].share]

\* A file is absent, cut off by fopen and not closed yet, or whole.
Whole(shares) == [kind |-> "whole", shares |-> shares]
Absent == [Whole(SaveOf(None, 0)) EXCEPT !.kind = "absent"]
CutOff == [Whole(SaveOf(None, 0)) EXCEPT !.kind = "cut"]

Steps == {"off", "table", "export", "open", "copy", "forget", "clear", "menu",
          "unlock", "assign", "load", "chip", "infoFile", "info", "game", "erase", "program"}

Init ==
  /\ pc = "off"
  /\ card = TRUE
  /\ block = [i \in Index |-> Erased]
  /\ lastInfo = None
  /\ typeFile = {} /\ typeList = {}
  /\ sav = [p \in Programs |-> Absent]
  /\ others = {}
  /\ rom = None
  /\ next = 0
  /\ latest = [r \in Roms |-> 0]
  /\ cycles = 0

(***************************************************************************)
(* Power                                                                   *)
(***************************************************************************)
PowerOff ==
  /\ pc # "off" /\ cycles < MaxPowerCycles
  /\ pc \in {"erase", "program"} => PowerFailsInSave
  /\ pc' = "off" /\ typeList' = {} /\ rom' = None /\ next' = 0
  /\ cycles' = cycles + 1
  /\ UNCHANGED <<card, block, lastInfo, typeFile, sav, others, latest>>

\* main.cpp reads the lists of save types before it calls backupSaveData.
PowerOn ==
  /\ pc = "off"
  /\ pc' = "table"
  /\ card' \in IF CardMayBeAbsent THEN BOOLEAN ELSE {TRUE}
  /\ typeList' = typeFile
  /\ UNCHANGED <<block, lastInfo, typeFile, sav, others, rom, next, latest, cycles>>

(***************************************************************************)
(* backupSaveData                                                          *)
(***************************************************************************)
Tagged == {i \in Index : block[i].tagged}

\* Mutant: the count of blocks is compared with the wrong number.
TableOkIfEmpty == Tagged = {}

\* buildSaveBlockTable returns true: there are all of the blocks, or none.
TableOk == Tagged \in {{}, Index}
\* It found the type of the save, autoCT # CT_NONE.
Marked == \E i \in Tagged : block[i].mark

InReach(p) == p \in CardPrograms => card
TypeKnown(p) == p \in ListedRoms \cup typeList

\* loadDSRomInfo finds the program, and its saveType is ST_UNKNOWN.
TypeIsNew == lastInfo # None /\ InReach(lastInfo) /\ ~TypeKnown(lastInfo)

Backup ==
  /\ pc = "table"
  /\ pc' = IF ~(TableOk /\ Marked) THEN "forget" ELSE IF TypeIsNew THEN "export" ELSE "open"
  /\ typeFile' = IF pc' = "export" THEN {} ELSE typeFile   \* by fopen( ..., "wb" )
  /\ typeList' = IF pc' = "export" THEN typeList \cup {lastInfo} ELSE typeList
  /\ UNCHANGED <<card, block, lastInfo, sav, others, rom, next, latest, cycles>>

\* The end of exportCustomSaveList.
Export ==
  /\ pc = "export"
  /\ pc' = "open"
  /\ typeFile' = typeList
  /\ UNCHANGED <<card, block, lastInfo, typeList, sav, others, rom, next, latest, cycles>>

\* The .sav file is the one of the program, and not one named after the time.
NamedFile == lastInfo # None /\ InReach(lastInfo)

\* Mutant: the name is forgotten before the blocks are copied.
ForgetsBeforeCopy ==
  /\ pc = "open"
  /\ pc' = "copy"
  /\ lastInfo' = None
  /\ sav' = IF NamedFile THEN [sav EXCEPT ![lastInfo] = CutOff] ELSE sav
  /\ UNCHANGED <<card, block, typeFile, typeList, others, rom, next, latest, cycles>>

OpenSav ==
  /\ pc = "open"
  /\ pc' = "copy"
  /\ sav' = IF NamedFile THEN [sav EXCEPT ![lastInfo] = CutOff] ELSE sav
  /\ UNCHANGED <<card, block, lastInfo, typeFile, typeList, others, rom, next, latest, cycles>>

CopyBlocks ==
  /\ pc = "copy"
  /\ pc' = "forget"
  /\ IF NamedFile
     THEN sav' = [sav EXCEPT ![lastInfo] = Whole(Shares)] /\ UNCHANGED others
     ELSE others' = others \cup {[of |-> lastInfo, shares |-> Shares]} /\ UNCHANGED sav
  /\ UNCHANGED <<card, block, lastInfo, typeFile, typeList, rom, next, latest, cycles>>

\* Mutant: the name is not forgotten after the backup.
KeepsLastInfo ==
  /\ pc = "forget"
  /\ pc' = "clear"
  /\ UNCHANGED <<card, block, lastInfo, typeFile, typeList, sav, others, rom, next, latest,
                 cycles>>

ClearLastInfo ==
  /\ pc = "forget"
  /\ pc' = "clear"
  /\ lastInfo' = None
  /\ UNCHANGED <<card, block, typeFile, typeList, sav, others, rom, next, latest, cycles>>

(***************************************************************************)
(* clearSaveBlocks, called by backupSaveData and by unlockChip             *)
(***************************************************************************)
ClearBlock ==
  /\ pc \in {"clear", "unlock"}
  /\ \E i \in Tagged : block' = [block EXCEPT ![i] = Erased]
  /\ UNCHANGED <<pc, card, lastInfo, typeFile, typeList, sav, others, rom, next, latest, cycles>>

ClearEnd ==
  /\ pc \in {"clear", "unlock"} /\ Tagged = {}
  /\ pc' = IF pc = "clear" THEN "menu" ELSE "assign"
  /\ UNCHANGED <<card, block, lastInfo, typeFile, typeList, sav, others, rom, next, latest,
                 cycles>>

(***************************************************************************)
(* launchSelected and restoreSaveData                                      *)
(***************************************************************************)
LaunchGame(r) ==
  /\ pc = "menu" /\ InReach(r)
  /\ pc' = "unlock"
  /\ rom' = r
  /\ UNCHANGED <<card, block, lastInfo, typeFile, typeList, sav, others, next, latest, cycles>>

LaunchHomebrew ==
  /\ pc = "menu" /\ InReach(Homebrew)
  /\ pc' = "infoFile"
  /\ rom' = Homebrew
  /\ UNCHANGED <<card, block, lastInfo, typeFile, typeList, sav, others, next, latest, cycles>>

\* A game whose save the card cannot hold: CT_NONE, the chips stay locked.
LaunchLocked ==
  /\ pc = "menu"
  /\ pc' = "game"
  /\ UNCHANGED <<card, block, lastInfo, typeFile, typeList, sav, others, rom, next, latest,
                 cycles>>

\* assignSaveBlocks: one block after the other gets its tag.
AssignBlock ==
  /\ pc = "assign"
  /\ block' = [block EXCEPT ![next] = Assigned]
  /\ IF next = LastBlock THEN pc' = "load" /\ next' = 0
     ELSE pc' = pc /\ next' = next + 1
  /\ UNCHANGED <<card, lastInfo, typeFile, typeList, sav, others, rom, latest, cycles>>

\* Mutant: only the official list is searched.
RestorableIfListed(r) == r \in ListedRoms /\ sav[r].kind = "whole"

\* The .sav file is read only for a type that is known, and if there is something in it.
Restorable(r) == TypeKnown(r) /\ sav[r].kind = "whole"

LoadSav ==
  /\ pc = "load"
  /\ pc' = IF Restorable(rom) THEN "chip" ELSE "infoFile"
  /\ UNCHANGED <<card, block, lastInfo, typeFile, typeList, sav, others, rom, next, latest,
                 cycles>>

WriteChip ==
  /\ pc = "chip"
  /\ block' = [block EXCEPT ![next] = Written(sav[rom].shares[next])]
  /\ IF next = LastBlock THEN pc' = "infoFile" /\ next' = 0
     ELSE pc' = pc /\ next' = next + 1
  /\ UNCHANGED <<card, lastInfo, typeFile, typeList, sav, others, rom, latest, cycles>>

\* saveLastInfo: SaveIniFile truncates the file and writes it.
TruncateInfo ==
  /\ pc = "infoFile"
  /\ pc' = "info"
  /\ lastInfo' = None
  /\ UNCHANGED <<card, block, typeFile, typeList, sav, others, rom, next, latest, cycles>>

SaveLastInfo ==
  /\ pc = "info"
  /\ pc' = "game"
  /\ lastInfo' = rom
  /\ UNCHANGED <<card, block, typeFile, typeList, sav, others, rom, next, latest, cycles>>

(***************************************************************************)
(* The game, which saves through the card: each block is erased and        *)
(* programmed anew.                                                        *)
(***************************************************************************)
GameSaves ==
  /\ pc = "game" /\ rom \in Roms /\ latest[rom] < MaxSaves
  /\ pc' = "erase"
  /\ UNCHANGED <<card, block, lastInfo, typeFile, typeList, sav, others, rom, next, latest,
                 cycles>>

GameErases ==
  /\ pc = "erase"
  /\ pc' = "program"
  /\ block' = [block EXCEPT ![next] = Erased]
  /\ UNCHANGED <<card, lastInfo, typeFile, typeList, sav, others, rom, next, latest, cycles>>

GamePrograms ==
  /\ pc = "program"
  /\ block' = [block EXCEPT ![next] = Written([of |-> rom, n |-> latest[rom] + 1])]
  /\ IF next = LastBlock
     THEN pc' = "game" /\ next' = 0 /\ latest' = [latest EXCEPT ![rom] = @ + 1]
     ELSE pc' = "erase" /\ next' = next + 1 /\ UNCHANGED latest
  /\ UNCHANGED <<card, lastInfo, typeFile, typeList, sav, others, rom, cycles>>

Game == GameSaves \/ GameErases \/ GamePrograms

BackupStep ==
  Backup \/ Export \/ OpenSav \/ CopyBlocks \/ ClearLastInfo \/ ClearBlock \/ ClearEnd
Launch == (\E r \in Roms : LaunchGame(r)) \/ LaunchHomebrew \/ LaunchLocked
RestoreStep == AssignBlock \/ LoadSav \/ WriteChip \/ TruncateInfo \/ SaveLastInfo

Next == PowerOff \/ PowerOn \/ BackupStep \/ Launch \/ RestoreStep \/ Game

Spec == Init /\ [][Next]_vars

\* The menu runs to completion in its thread, and the user switches the power on again.
FairSpec == Spec /\ WF_vars(PowerOn) /\ WF_vars(BackupStep)

(***************************************************************************)
(* Properties                                                              *)
(***************************************************************************)
TypeOK ==
  /\ pc \in Steps
  /\ card \in BOOLEAN
  /\ block \in [Index -> Block]
  /\ lastInfo \in Programs \cup {None} /\ rom \in Programs \cup {None}
  /\ typeFile \subseteq Programs /\ typeList \subseteq Programs
  /\ sav \in [Programs -> [kind : {"absent", "cut", "whole"}, shares : [Index -> Share]]]
  /\ others \subseteq [of : Programs \cup {None}, shares : [Index -> Share]]
  /\ next \in Index
  /\ latest \in [Roms -> 0 .. MaxSaves]
  /\ cycles \in 0 .. MaxPowerCycles

LatestSave(r) == SaveOf(r, latest[r])

InSav(r) == sav[r].kind = "whole" /\ sav[r].shares = LatestSave(r)
InOther(r) == r \in CardPrograms /\ \E f \in others : f.shares = LatestSave(r)
InBlocks(r) == lastInfo = r /\ TableOk /\ Marked /\ Shares = LatestSave(r)
Saving(r) == pc \in {"erase", "program"} /\ rom = r

(***************************************************************************)
(* The last save that a game completed is never lost, wherever the power   *)
(* failed on its way: it is in the .sav file of the game, in a file named  *)
(* after the time because the card was out, or in save blocks that the     *)
(* next start of the menu will copy for this game.                         *)
(***************************************************************************)
SaveIsKept ==
  \A r \in Roms : latest[r] = 0 \/ InSav(r) \/ InOther(r) \/ InBlocks(r) \/ Saving(r)

(***************************************************************************)
(* A .sav file holds a save of the game it is named after and of no other, *)
(* although restoreSaveData fills the blocks before it records the name.   *)
(***************************************************************************)
SavIsOfItsGame ==
  \A p \in Programs, i \in Index :
    sav[p].kind = "whole" => sav[p].shares[i].of \in {p, None}

(***************************************************************************)
(* A game whose type is known starts with its latest save (unless the user *)
(* has not put back the file that was written while the card was out), or  *)
(* with nothing if it has never saved.                                     *)
(***************************************************************************)
StartsFrom(r) ==
  IF latest[r] = 0 \/ ~TypeKnown(r) THEN TRUE ELSE InOther(r) \/ Shares = LatestSave(r)
StartsFromLatest ==
  [][pc = "info" /\ SaveLastInfo /\ rom \in Roms => StartsFrom(rom)]_vars

(***************************************************************************)
(* Save blocks are not left behind, where they would take space from the   *)
(* files and hide from ndSearchFreeBlock: whatever was interrupted before, *)
(* none has its tag when the menu is ready.                                *)
(***************************************************************************)
MenuStartsClean == pc = "menu" => Tagged = {}

(***************************************************************************)
(* When the power has gone off, the latest save of every game gets to a    *)
(* file, also if the power keeps failing for a while during the copy.      *)
(***************************************************************************)
SavesReachFiles ==
  \A r \in Roms : pc = "off" /\ latest[r] > 0 ~> InSav(r) \/ InOther(r)

(***************************************************************************)
(* What savemngr.cpp:526-528 asks of buildSaveBlockTable: blocks that were *)
(* being written when the power failed are not copied to the .sav file.    *)
(***************************************************************************)
SavIsOneSave ==
  \A p \in Programs : sav[p].kind = "whole" =>
    \E r \in Roms, n \in 0 .. MaxSaves : sav[p].shares \in {SaveOf(r, n), SaveOf(None, 0)}

=============================================================================
