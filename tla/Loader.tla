------------------------------- MODULE Loader -------------------------------
(***************************************************************************)
(* The loader, which the menu starts and which starts the program: it      *)
(* takes the name of the file from the SRAM of the cartridge, loads the    *)
(* code of both processors, patches it, gives the hardware that will read  *)
(* the file its tables, and restarts (akloader/arm9/source/main.cpp,       *)
(* loader.cpp, rpgmaps.cpp, patches.cpp, dlditool.cpp, memcleaner.cpp and  *)
(* akloader/arm7/source/main.cpp).                                         *)
(*                                                                         *)
(* The contents of the code and of its patches are not modelled, only      *)
(* which patches are made.  A sector takes Bytes addresses.                *)
(***************************************************************************)
EXTENDS Processors, Sequences

CONSTANTS
  Game,          \* name |-> what its header says and its code contains
  Chain,         \* file |-> its clusters
  Sector,        \* disk |-> cluster |-> its first sector
  Block,         \* logical |-> physical block of the NAND
  Bytes,         \* the size of a sector
  SDHC,          \* the cases: the card is an SDHC card, it is not
  NandSpeed,     \* the reading speed of the NAND
  CardSpeeds,    \* the reading speeds the card may be measured at
  Flags          \* the settings that ask for patches: "play", "cheats", "reset"

(* A file is a name on a disk, which is "fat0", "fat1" or "slot2". *)
ASSUME LoaderAssumption ==
    /\ Bytes \in Nat \ {0, 1} /\ NandSpeed \in Nat /\ CardSpeeds \subseteq Nat
    /\ SDHC \subseteq BOOLEAN /\ Block \in Seq(Nat)
    /\ \A f \in DOMAIN Chain : Chain[f] \in Seq(Nat) /\ \A i \in DOMAIN Chain[f] : Sector[f.disk][Chain[f][i]] \in Nat
    /\ DOMAIN Chain = [disk : {"fat0", "fat1"}, name : DOMAIN Game]
    /\ \A g \in DOMAIN Game : Game[g].speed \in Nat /\ Game[g].homebrew \in BOOLEAN /\ Game[g].rsa \in BOOLEAN

VARIABLES
  file,          \* the name in the SRAM
  flags,         \* its last byte, the patches asked for
  control,       \* NDSHeader.cardControl13
  sdhc,          \* isSDHC()
  measured,      \* the speed of the card, once it was measured
  code9, code7,  \* the programs in the memories of the two processors
  patched,       \* the patches made
  nandMap, fatMap, \* the tables in the SRAM
  device,        \* what ioRpgSetDeviceStatus set
  video          \* the screens, DMA, timers and interrupts are in use

loadVars == <<file, flags, control, sdhc, measured, code9, code7, patched, nandMap, fatMap, device, video>>
vars == <<procVars, loadVars>>

NoFile == [disk |-> "none", name |-> "none"]
NoDevice == [disk |-> "none", sdhc |-> FALSE]
LeftOver == 0

Largest(a, b) == IF a > b THEN a ELSE b
Loaded == Game[file.name]
Steps9(from, to) == pc9 = from /\ prog9 = "loader" /\ pc9' = to
Alone == UNCHANGED <<pc7, prog7, prog9>>
Quiet == Alone /\ UNCHANGED <<ipc9, p1, ipc7, wordVars, screenVars>>

LoaderInit ==
    /\ file = NoFile /\ flags = {} /\ control = 0 /\ sdhc \in SDHC /\ measured = 0
    /\ code9 = "menu" /\ code7 = "menu" /\ patched = {}
    /\ nandMap = <<>> /\ fatMap = <<>> /\ device = NoDevice /\ video = TRUE

-----------------------------------------------------------------------------
(* The menu's part, launchSelected and loadRom: a game that is not         *)
(* homebrew gets the reading speed of its disk.                            *)
Launch(f, s) ==
    /\ Reboot
    /\ file' = f
    /\ IF f.disk = "slot2" \/ Game[f.name].homebrew THEN UNCHANGED <<control, measured>>
       ELSE control' = (IF f.disk = "fat0" THEN NandSpeed ELSE s) /\ measured' = control'
    /\ code9' = "loader" /\ code7' = "loader"
    /\ UNCHANGED <<sdhc, patched, nandMap, fatMap, device, video>>

(* main: the screens, the disks and the memory; the disks may fail. *)
Prepare ==
    /\ pc9 = "start" /\ prog9 = "loader" /\ Listening
    /\ pc9' \in {IF file.disk = "slot2" THEN "clear2" ELSE "open", "failed"}
    /\ Quiet /\ UNCHANGED loadVars

(* loadFile.  The header is read over the one in memory, with its two      *)
(* words; of the two speeds the slower one is kept.                        *)
OpenFile ==
    /\ Steps9("open", "code7") /\ Alone
    /\ fe08' = Header("game") /\ fe24' = Entry("game")
    /\ control' = Largest(control, Loaded.speed)
    /\ code9' = "game" /\ code7' = IF Loaded.homebrew THEN code7 ELSE "game"
    /\ UNCHANGED <<ipc9, p1, ipc7, saved, screenVars, file, flags, sdhc, measured, patched, nandMap, fatMap, device, video>>

FileMissing == Steps9("open", "failed") /\ Quiet /\ UNCHANGED loadVars

(* loadHomebrewArm7Code: the ARM7 must fetch code that lies in memory of   *)
(* its own.  The order is: clear its word, name the place, then the message*)
ClearAnswer ==
    /\ Steps9("code7", IF Loaded.homebrew THEN "name7" ELSE "patch") /\ Alone
    /\ ipc7' = IF Loaded.homebrew THEN "none" ELSE ipc7
    /\ UNCHANGED <<ipc9, p1, wordVars, screenVars, loadVars>>

AskCode ==
    /\ Steps9("name7", "fetched") /\ Alone /\ Ask("homebrew")
    /\ UNCHANGED <<p1, ipc7, wordVars, screenVars, loadVars>>

CodeFetched == Steps9("fetched", "patch") /\ ipc7 = "loadDone" /\ Quiet /\ UNCHANGED loadVars

(* The ARM7: loadHomebrewArm7Code, and the message it clears afterwards. *)
Fetch ==
    /\ pc7 = "homebrew" /\ code7' = "game" /\ pc7' = "fetchDone"
    /\ UNCHANGED <<pc9, prog9, prog7, ipc9, p1, ipc7, wordVars, screenVars>>
    /\ UNCHANGED <<file, flags, control, sdhc, measured, code9, patched, nandMap, fatMap, device, video>>

FetchDone ==
    /\ pc7 = "fetchDone" /\ ipc7' = "loadDone" /\ pc7' = "answer"
    /\ UNCHANGED <<pc9, prog9, prog7, ipc9, p1, wordVars, screenVars, loadVars>>

-----------------------------------------------------------------------------
(* Homebrew gets the driver of the disk it lies on (dldiPatch), if it has  *)
(* room for one.  Other games get the patches asked for (patchRom with     *)
(* loadARCodeTable): the one for download play only if the header is       *)
(* signed and its speed was changed.                                       *)
Driver == IF file.name = "akmenu4" \/ ~Loaded.hasDldi THEN {} ELSE {file.disk}
Asked  == IF "play" \in flags /\ ~(Loaded.rsa /\ control # Loaded.speed) THEN flags \ {"play"} ELSE flags

Patch ==
    /\ Steps9("patch", IF Loaded.homebrew THEN "clear" ELSE "nandMap")
    /\ patched' = IF Loaded.homebrew THEN Driver
                  ELSE Asked \cup (IF Asked = {} THEN {} ELSE {"irq7"}) \cup (IF "reset" \in Asked THEN {"irq9"} ELSE {})
    /\ Quiet /\ UNCHANGED <<file, flags, control, sdhc, measured, code9, code7, nandMap, fatMap, device, video>>

(* rpgBuildNANDMap: where each logical block lies. *)
BuildNandMap ==
    /\ Steps9("nandMap", "fatMap") /\ nandMap' = Block
    /\ Quiet /\ UNCHANGED <<file, flags, control, sdhc, measured, code9, code7, patched, fatMap, device, video>>

(* rpgBuildFATMap with iterateFileCluster: a word for each cluster of the  *)
(* file, its sector or the address of its first byte, and one word more,   *)
(* which is left over from what the memory held.                           *)
Wide(f) == f.disk = "fat1" /\ sdhc

MapOf(f) ==
    [i \in 1 .. Len(Chain[f]) + 1 |->
       IF i > Len(Chain[f]) THEN LeftOver
       ELSE Sector[f.disk][Chain[f][i]] * (IF Wide(f) THEN 1 ELSE Bytes)]

BuildFatMap ==
    /\ Steps9("fatMap", "device")
    /\ fatMap' = IF Chain[file] = <<>> THEN fatMap ELSE MapOf(file)
    /\ Quiet /\ UNCHANGED <<file, flags, control, sdhc, measured, code9, code7, patched, nandMap, device, video>>

(* rpgBuildMaps tells the hardware which disk to read, through which map.  *)
SetDevice ==
    /\ Steps9("device", "clear")
    /\ device' = IF file.disk = "fat0" THEN [disk |-> "fat0", sdhc |-> FALSE] ELSE [disk |-> "fat1", sdhc |-> sdhc]
    /\ Quiet /\ UNCHANGED <<file, flags, control, sdhc, measured, code9, code7, patched, nandMap, fatMap, video>>

-----------------------------------------------------------------------------
(* resetARM9Memory waits for a vertical blank, which the ARM7 serves as    *)
(* well, and clears what the ARM9 used.                                    *)
ClearMemory ==
    /\ prog9 = "loader" /\ \/ pc9 = "clear"  /\ pc9' = "boot"
                           \/ pc9 = "clear2" /\ pc9' = "boot2"
    /\ (Prompt => pc7 = "poll")
    /\ video' = FALSE
    /\ Quiet /\ UNCHANGED <<file, flags, control, sdhc, measured, code9, code7, patched, nandMap, fatMap, device>>

BootSlot1 ==
    /\ Steps9("boot", "waitReady") /\ Alone /\ Ask("slot1")
    /\ UNCHANGED <<p1, ipc7, wordVars, screenVars, loadVars>>

(* resetToSlot2 has the instruction written before it asks. *)
BootSlot2 ==
    \/ /\ Steps9("boot2", "boot2b") /\ Alone /\ fe08' = Jump
       /\ UNCHANGED <<ipc9, p1, ipc7, fe24, saved, screenVars, loadVars>>
    \/ /\ Steps9("boot2b", "boot2c") /\ Alone /\ fe24' = Itself
       /\ UNCHANGED <<ipc9, p1, ipc7, fe08, saved, screenVars, loadVars>>
    \/ /\ Steps9("boot2c", "waitReady2") /\ Alone /\ Ask("slot2")
       /\ UNCHANGED <<p1, ipc7, wordVars, screenVars, loadVars>>
    \/ /\ Steps9("waitReady2", "reset") /\ ipc7 = "ready" /\ Quiet /\ UNCHANGED loadVars

(* The cartridge in slot 2 fetches the ARM9 once the ARM7 runs its code. *)
CartridgeRuns ==
    /\ pc7 = "game" /\ pc9 = "loop" /\ file.disk = "slot2"
    /\ pc9' = "game" /\ prog9' = "game"
    /\ UNCHANGED <<pc7, prog7, ipc9, p1, ipc7, wordVars, screenVars, loadVars>>

Loader9 ==
    \/ Prepare \/ OpenFile \/ ClearAnswer \/ AskCode \/ CodeFetched \/ Patch
    \/ BuildNandMap \/ BuildFatMap \/ SetDevice \/ ClearMemory \/ BootSlot1 \/ BootSlot2

Shared == UNCHANGED loadVars

LoaderNext ==
    \/ Loader9 \/ FileMissing \/ Fetch \/ FetchDone \/ CartridgeRuns
    \/ (Arm7 \/ Menu9 \/ Restart9) /\ Shared
=============================================================================
