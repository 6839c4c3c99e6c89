-------------------------- MODULE SaveManagerProofs --------------------------
(***************************************************************************)
(* Proofs about SaveManager, for any number of games, of save blocks, of   *)
(* saves and of power failures.                                            *)
(*                                                                         *)
(* SaveIsKept is not inductive.  It survives the truncation of the .sav    *)
(* file because the blocks then hold the same save, which is so because of *)
(* what was in the file when the game was started (Agree); it survives the *)
(* erasing of the blocks because each save is in a file by then (Filed).   *)
(* Both rest on where the call is (Roles), on how far the loops over the   *)
(* blocks have come (Progress), and on whose the shares are (Owners).      *)
(***************************************************************************)
EXTENDS SaveManager, TLAPS

Booting == {"off", "table", "export", "open", "copy", "forget", "clear", "menu"}
Starting == {"unlock", "assign", "load", "chip", "infoFile", "info"}
Running == {"game", "erase", "program"}
Looping == {"assign", "chip", "erase", "program"}

(* Which program the call is about, and what is recorded, at each step.     *)
Roles ==
  /\ pc \in Booting => rom = None
  /\ pc \in {"unlock", "assign", "load", "chip"} => rom \in Roms
  /\ pc \in {"infoFile", "info"} => rom \in Programs
  /\ pc \in Starting \cup {"clear", "menu"} => lastInfo = None
  /\ pc \in Running => lastInfo = rom
  /\ pc \in {"erase", "program"} => rom \in Roms /\ latest[rom] < MaxSaves
  /\ pc \notin Looping => next = 0
  /\ pc = "export" => lastInfo # None
  /\ pc \in {"export", "open", "copy"} => TableOk /\ Marked

\* A block without a tag is erased.
Blanks == \A i \in Index : ~block[i].tagged => block[i] = Erased

(* The shares in the blocks are of the recorded program, and of the one     *)
(* that is being started or runs.                                           *)
Owners ==
  /\ lastInfo # None => \A i \in Index : block[i].share.of \in {lastInfo, None}
  /\ pc \in Starting \cup Running => \A i \in Index : block[i].share.of \in {rom, None}

\* The first n blocks are filled from the file, the others are tagged only.
FilledFrom(file, n) ==
  \A i \in Index : block[i] = IF i < n THEN Written(file.shares[i]) ELSE Assigned

\* How far the loops over the blocks have come.
Progress ==
  /\ pc \in {"menu", "unlock"} => Tagged = {}
  /\ pc = "assign" => \A i \in Index : block[i] = IF i < next THEN Assigned ELSE Erased
  /\ pc = "load" => \A i \in Index : block[i] = Assigned
  /\ pc = "chip" => Restorable(rom) /\ FilledFrom(sav[rom], next)
  /\ pc \in {"infoFile", "info"} /\ rom = Homebrew => Tagged = {}
  /\ pc \in {"infoFile", "info"} /\ rom \in Roms =>
       FilledFrom(sav[rom], IF Restorable(rom) THEN LastBlock + 1 ELSE 0)

Inv == TypeOK /\ Roles /\ Blanks /\ Owners /\ SavIsOfItsGame /\ Progress

\* The latest save of the game is in a file, and no block is needed for it.
Filed(r) == latest[r] = 0 \/ InSav(r) \/ InOther(r)

\* So it is from the end of the copy until the next program runs.
AllFiled == pc \in Starting \cup {"forget", "clear", "menu"} => \A r \in Roms : Filed(r)

(* Blocks that the next start will copy over a .sav file hold nothing older *)
(* than that file.                                                          *)
Agree ==
  pc \notin {"erase", "program"} /\ lastInfo \in Roms /\ TableOk /\ Marked =>
    latest[lastInfo] = 0 \/ InOther(lastInfo) \/ Shares = LatestSave(lastInfo)

\* The blocks a saving game has come past hold its new save.
Saved ==
  pc \in {"erase", "program"} =>
    \A i \in Index : i < next => block[i] = Written([of |-> rom, n |-> latest[rom] + 1])

KInv == SaveIsKept /\ AllFiled /\ Agree /\ Saved

-----------------------------------------------------------------------------
(* What the blocks of the model are.                                       *)
LEMMA BlockFacts ==
    /\ Blank \in Share /\ Erased \in Block /\ Assigned \in Block
    /\ ~Erased.tagged /\ ~Erased.mark /\ Erased.share = Blank
    /\ Assigned.tagged /\ ~Assigned.mark /\ Assigned.share = Blank
    /\ \A s \in Share : /\ Written(s) \in Block
                         /\ Written(s).tagged /\ Written(s).mark /\ Written(s).share = s
    /\ Blank.of = None
  <1>1. Blank \in Share /\ Blank.of = None
    BY BoundsAssumption DEF Blank, Share
  <1>2. /\ Erased \in Block /\ ~Erased.tagged /\ ~Erased.mark /\ Erased.share = Blank
        /\ Assigned \in Block
        /\ Assigned.tagged /\ ~Assigned.mark /\ Assigned.share = Blank
    BY <1>1 DEF Erased, Assigned, Block
  <1>3. ASSUME NEW s \in Share
        PROVE  /\ Written(s) \in Block
               /\ Written(s).tagged /\ Written(s).mark /\ Written(s).share = s
    BY DEF Written, Block
  <1> QED
    BY <1>1, <1>2, <1>3

(* What the files of the model are.                                        *)
LEMMA FileFacts ==
    /\ \A r \in Roms \cup {None}, n \in 0 .. MaxSaves : SaveOf(r, n) \in [Index -> Share]
    /\ \A f \in [Index -> Share] :
         /\ Whole(f) \in [kind : {"absent", "cut", "whole"}, shares : [Index -> Share]]
         /\ Whole(f).kind = "whole" /\ Whole(f).shares = f
    /\ Absent \in [kind : {"absent", "cut", "whole"}, shares : [Index -> Share]]
    /\ CutOff \in [kind : {"absent", "cut", "whole"}, shares : [Index -> Share]]
    /\ Absent.kind # "whole" /\ CutOff.kind # "whole"
  BY BoundsAssumption DEF SaveOf, Share, Whole, Absent, CutOff

LEMMA InitInv == Init => Inv
  BY BlockFacts, FileFacts, BoundsAssumption, NamesAssumption
     DEF Init, Inv, TypeOK, Roles, Blanks, Owners, SavIsOfItsGame, Progress, Booting, Starting,
         Running, Looping, Steps, Index, Erased

(* One lemma per action: each preserves the invariant.                     *)

LEMMA PowerOffInv == ASSUME Inv, PowerOff PROVE Inv'
  <1>1. TypeOK'
    BY BoundsAssumption DEF PowerOff, Inv, TypeOK, Steps, Index
  <1>2. Roles'
    BY DEF PowerOff, Inv, Roles, Booting, Starting, Running, Looping
  <1>3. Blanks'
    BY DEF PowerOff, Inv, Blanks
  <1>4. Owners'
    BY DEF PowerOff, Inv, Owners, Starting, Running
  <1>5. SavIsOfItsGame'
    BY DEF PowerOff, Inv, SavIsOfItsGame
  <1>6. Progress'
    BY DEF PowerOff, Inv, Progress
  <1> QED
    BY <1>1, <1>2, <1>3, <1>4, <1>5, <1>6 DEF Inv

LEMMA PowerOnInv == ASSUME Inv, PowerOn PROVE Inv'
  <1>1. TypeOK'
    BY DEF PowerOn, Inv, TypeOK, Steps
  <1>2. Roles'
    BY DEF PowerOn, Inv, Roles, Booting, Starting, Running, Looping
  <1>3. Blanks'
    BY DEF PowerOn, Inv, Blanks
  <1>4. Owners'
    BY DEF PowerOn, Inv, Owners, Starting, Running
  <1>5. SavIsOfItsGame'
    BY DEF PowerOn, Inv, SavIsOfItsGame
  <1>6. Progress'
    BY DEF PowerOn, Inv, Progress
  <1> QED
    BY <1>1, <1>2, <1>3, <1>4, <1>5, <1>6 DEF Inv

LEMMA BackupInv == ASSUME Inv, Backup PROVE Inv'
  <1>1. TypeOK'
    <2>1. pc' = "export" => lastInfo \in Programs
      BY DEF Backup, TypeIsNew, Inv, TypeOK
    <2>2. pc' \in Steps
      BY DEF Backup, Steps
    <2> QED
      BY <2>1, <2>2 DEF Backup, Inv, TypeOK
  <1>2. Roles'
    <2>1. /\ Tagged' = Tagged /\ TableOk' = TableOk /\ Marked' = Marked
      BY DEF Backup, Tagged, TableOk, Marked
    <2>2. /\ pc' \in {"forget", "export", "open"}
          /\ pc' \in {"export", "open"} => TableOk /\ Marked
          /\ pc' = "export" => lastInfo # None
      BY DEF Backup, TypeIsNew
    <2>3. rom = None /\ next = 0
      BY DEF Backup, Inv, Roles, Booting, Looping
    <2> QED
      BY <2>1, <2>2, <2>3 DEF Backup, Roles, Booting, Starting, Running, Looping
  <1>3. Blanks'
    BY DEF Backup, Inv, Blanks
  <1>4. Owners'
    BY DEF Backup, Inv, Owners, Starting, Running
  <1>5. SavIsOfItsGame'
    BY DEF Backup, Inv, SavIsOfItsGame
  <1>6. Progress'
    BY DEF Backup, Inv, Progress
  <1> QED
    BY <1>1, <1>2, <1>3, <1>4, <1>5, <1>6 DEF Inv

LEMMA ExportInv == ASSUME Inv, Export PROVE Inv'
  <1>1. TypeOK'
    BY DEF Export, Inv, TypeOK, Steps
  <1>2. Roles'
    BY DEF Export, Inv, TypeOK, Roles, Tagged, TableOk, Marked, Booting,
           Starting, Running, Looping
  <1>3. Blanks'
    BY DEF Export, Inv, Blanks
  <1>4. Owners'
    BY DEF Export, Inv, Owners, Starting, Running
  <1>5. SavIsOfItsGame'
    BY DEF Export, Inv, SavIsOfItsGame
  <1>6. Progress'
    BY DEF Export, Inv, Progress
  <1> QED
    BY <1>1, <1>2, <1>3, <1>4, <1>5, <1>6 DEF Inv

LEMMA OpenSavInv == ASSUME Inv, OpenSav PROVE Inv'
  <1>1. TypeOK'
    BY FileFacts, BlockFacts, BoundsAssumption
       DEF OpenSav, Inv, TypeOK, Steps, Index
  <1>2. Roles'
    BY DEF OpenSav, Inv, TypeOK, Roles, Tagged, TableOk, Marked, Booting,
           Starting, Running, Looping
  <1>3. Blanks'
    BY DEF OpenSav, Inv, Blanks
  <1>4. Owners'
    BY DEF OpenSav, Inv, Owners, Starting, Running
  <1>5. SavIsOfItsGame'
    BY FileFacts DEF OpenSav, Inv, SavIsOfItsGame, TypeOK
  <1>6. Progress'
    BY DEF OpenSav, Inv, Progress
  <1> QED
    BY <1>1, <1>2, <1>3, <1>4, <1>5, <1>6 DEF Inv

LEMMA CopyBlocksInv == ASSUME Inv, CopyBlocks PROVE Inv'
  <1>1. TypeOK'
    <2>1. Shares \in [Index -> Share]
      BY DEF Inv, TypeOK, Shares, Block
    <2>2. Whole(Shares) \in [kind : {"absent", "cut", "whole"}, shares : [Index -> Share]]
      BY <2>1, FileFacts
    <2>3. sav' \in [Programs -> [kind : {"absent", "cut", "whole"}, shares : [Index -> Share]]]
      BY <2>2 DEF CopyBlocks, Inv, TypeOK
    <2>4. others' \subseteq [of : Programs \cup {None}, shares : [Index -> Share]]
      BY <2>1 DEF CopyBlocks, Inv, TypeOK
    <2> QED
      BY <2>3, <2>4 DEF CopyBlocks, Inv, TypeOK, Steps
  <1>2. Roles'
    BY DEF CopyBlocks, Inv, Roles, Booting, Starting, Running, Looping
  <1>3. Blanks'
    BY DEF CopyBlocks, Inv, Blanks
  <1>4. Owners'
    BY DEF CopyBlocks, Inv, Owners, Starting, Running
  <1>5. SavIsOfItsGame'
    <2>1. Shares \in [Index -> Share]
      BY DEF Inv, TypeOK, Shares, Block
    <2>2. Whole(Shares).shares = Shares
      BY <2>1, FileFacts
    <2>3. NamedFile => \A i \in Index : Shares[i].of \in {lastInfo, None}
      BY DEF NamedFile, Shares, Inv, Owners
    <2> QED
      BY <2>2, <2>3 DEF CopyBlocks, Inv, TypeOK, SavIsOfItsGame, NamedFile
  <1>6. Progress'
    BY DEF CopyBlocks, Inv, Progress
  <1> QED
    BY <1>1, <1>2, <1>3, <1>4, <1>5, <1>6 DEF Inv

LEMMA ClearLastInfoInv == ASSUME Inv, ClearLastInfo PROVE Inv'
  <1>1. TypeOK'
    BY DEF ClearLastInfo, Inv, TypeOK, Steps
  <1>2. Roles'
    BY DEF ClearLastInfo, Inv, Roles, Booting, Starting, Running, Looping
  <1>3. Blanks'
    BY DEF ClearLastInfo, Inv, Blanks
  <1>4. Owners'
    BY DEF ClearLastInfo, Inv, Owners, Starting, Running
  <1>5. SavIsOfItsGame'
    BY DEF ClearLastInfo, Inv, SavIsOfItsGame
  <1>6. Progress'
    BY DEF ClearLastInfo, Inv, Progress
  <1> QED
    BY <1>1, <1>2, <1>3, <1>4, <1>5, <1>6 DEF Inv

LEMMA ClearBlockInv == ASSUME Inv, ClearBlock PROVE Inv'
  <1>1. TypeOK'
    BY BlockFacts DEF ClearBlock, Inv, TypeOK, Steps, Index
  <1>2. Roles'
    BY DEF ClearBlock, Inv, Roles, Booting, Starting, Running, Looping
  <1>3. Blanks'
    BY DEF ClearBlock, Inv, Blanks
  <1>4. Owners'
    BY BlockFacts, NamesAssumption
       DEF ClearBlock, Inv, TypeOK, Owners, Roles, Blanks, Progress, Tagged,
           Booting, Starting, Running
  <1>5. SavIsOfItsGame'
    BY DEF ClearBlock, Inv, SavIsOfItsGame
  <1>6. Progress'
    BY DEF ClearBlock, Inv, Progress
  <1> QED
    BY <1>1, <1>2, <1>3, <1>4, <1>5, <1>6 DEF Inv

LEMMA ClearEndInv == ASSUME Inv, ClearEnd PROVE Inv'
  <1>1. TypeOK'
    BY DEF ClearEnd, Inv, TypeOK, Steps
  <1>2. Roles'
    BY DEF ClearEnd, Inv, Roles, Booting, Starting, Running, Looping
  <1>3. Blanks'
    BY DEF ClearEnd, Inv, Blanks
  <1>4. Owners'
    BY DEF ClearEnd, Inv, Owners, Starting, Running
  <1>5. SavIsOfItsGame'
    BY DEF ClearEnd, Inv, SavIsOfItsGame
  <1>6. Progress'
    <2>1. Tagged' = {} /\ \A i \in Index : block'[i] = Erased
      BY DEF ClearEnd, Inv, Blanks, Tagged
    <2>2. pc' \in {"menu", "assign"} /\ next' = 0
      BY DEF ClearEnd, Inv, Roles, Looping
    <2> QED
      BY <2>1, <2>2, BoundsAssumption DEF Progress, Index
  <1> QED
    BY <1>1, <1>2, <1>3, <1>4, <1>5, <1>6 DEF Inv

LEMMA LaunchGameInv == ASSUME Inv, NEW r \in Roms, LaunchGame(r) PROVE Inv'
  <1>1. TypeOK'
    BY DEF LaunchGame, Inv, TypeOK, Steps, Programs
  <1>2. Roles'
    BY DEF LaunchGame, Inv, Roles, Booting, Starting, Running, Looping
  <1>3. Blanks'
    BY DEF LaunchGame, Inv, Blanks
  <1>4. Owners'
    BY BlockFacts, NamesAssumption
       DEF LaunchGame, Inv, TypeOK, Owners, Roles, Blanks, Progress, Tagged,
           Booting, Starting, Running
  <1>5. SavIsOfItsGame'
    BY DEF LaunchGame, Inv, SavIsOfItsGame
  <1>6. Progress'
    BY DEF LaunchGame, Inv, Progress, Tagged
  <1> QED
    BY <1>1, <1>2, <1>3, <1>4, <1>5, <1>6 DEF Inv

LEMMA LaunchHomebrewInv == ASSUME Inv, LaunchHomebrew PROVE Inv'
  <1>1. TypeOK'
    BY DEF LaunchHomebrew, Inv, TypeOK, Steps, Programs
  <1>2. Roles'
    BY DEF LaunchHomebrew, Inv, Roles, Booting, Starting, Running, Looping, Programs
  <1>3. Blanks'
    BY DEF LaunchHomebrew, Inv, Blanks
  <1>4. Owners'
    BY BlockFacts, NamesAssumption
       DEF LaunchHomebrew, Inv, TypeOK, Owners, Roles, Blanks, Progress, Tagged,
           Booting, Starting, Running
  <1>5. SavIsOfItsGame'
    BY DEF LaunchHomebrew, Inv, SavIsOfItsGame
  <1>6. Progress'
    BY NamesAssumption
       DEF LaunchHomebrew, Inv, TypeOK, Roles, Progress, Tagged, FilledFrom,
           Restorable, TypeKnown, Index, Booting, Starting, Running, Looping
  <1> QED
    BY <1>1, <1>2, <1>3, <1>4, <1>5, <1>6 DEF Inv

LEMMA LaunchLockedInv == ASSUME Inv, LaunchLocked PROVE Inv'
  <1>1. TypeOK'
    BY DEF LaunchLocked, Inv, TypeOK, Steps
  <1>2. Roles'
    BY DEF LaunchLocked, Inv, Roles, Booting, Starting, Running, Looping
  <1>3. Blanks'
    BY DEF LaunchLocked, Inv, Blanks
  <1>4. Owners'
    BY BlockFacts, NamesAssumption
       DEF LaunchLocked, Inv, TypeOK, Owners, Roles, Blanks, Progress, Tagged,
           Booting, Starting, Running
  <1>5. SavIsOfItsGame'
    BY DEF LaunchLocked, Inv, SavIsOfItsGame
  <1>6. Progress'
    BY DEF LaunchLocked, Inv, Progress
  <1> QED
    BY <1>1, <1>2, <1>3, <1>4, <1>5, <1>6 DEF Inv

LEMMA AssignBlockInv == ASSUME Inv, AssignBlock PROVE Inv'
  <1>1. TypeOK'
    BY FileFacts, BlockFacts, BoundsAssumption
       DEF AssignBlock, Inv, TypeOK, Steps, Index
  <1>2. Roles'
    BY DEF AssignBlock, Inv, Roles, Booting, Starting, Running, Looping
  <1>3. Blanks'
    BY BlockFacts DEF AssignBlock, Inv, Blanks, TypeOK
  <1>4. Owners'
    BY BlockFacts, NamesAssumption
       DEF AssignBlock, Inv, TypeOK, Owners, Roles, Blanks, Progress, Tagged,
           Booting, Starting, Running
  <1>5. SavIsOfItsGame'
    BY DEF AssignBlock, Inv, SavIsOfItsGame
  <1>6. Progress'
    BY NamesAssumption
       DEF AssignBlock, Inv, TypeOK, Roles, Progress, Tagged, FilledFrom,
           Restorable, TypeKnown, Index, Booting, Starting, Running, Looping
  <1> QED
    BY <1>1, <1>2, <1>3, <1>4, <1>5, <1>6 DEF Inv

LEMMA LoadSavInv == ASSUME Inv, LoadSav PROVE Inv'
  <1>1. TypeOK'
    BY DEF LoadSav, Inv, TypeOK, Steps
  <1>2. Roles'
    BY DEF LoadSav, Inv, Roles, Booting, Starting, Running, Looping, Programs
  <1>3. Blanks'
    BY DEF LoadSav, Inv, Blanks
  <1>4. Owners'
    BY DEF LoadSav, Inv, Owners, Starting, Running
  <1>5. SavIsOfItsGame'
    BY DEF LoadSav, Inv, SavIsOfItsGame
  <1>6. Progress'
    BY NamesAssumption
       DEF LoadSav, Inv, TypeOK, Roles, Progress, Tagged, FilledFrom,
           Restorable, TypeKnown, Index, Booting, Starting, Running, Looping
  <1> QED
    BY <1>1, <1>2, <1>3, <1>4, <1>5, <1>6 DEF Inv

LEMMA WriteChipInv == ASSUME Inv, WriteChip PROVE Inv'
  <1>1. TypeOK'
    <2>1. /\ rom \in Programs /\ rom \in Roms
      BY DEF WriteChip, Inv, Roles, Programs
    <2>2. sav[rom].shares[next] \in Share
      BY <2>1 DEF Inv, TypeOK
    <2>3. Written(sav[rom].shares[next]) \in Block
      BY <2>2, BlockFacts
    <2>4. block' \in [Index -> Block]
      BY <2>3 DEF WriteChip, Inv, TypeOK
    <2>5. pc' \in Steps /\ next' \in Index
      BY BoundsAssumption DEF WriteChip, Inv, TypeOK, Steps, Index
    <2> QED
      BY <2>4, <2>5 DEF WriteChip, Inv, TypeOK
  <1>2. Roles'
    <2>1. rom \in Roms /\ rom \in Programs /\ lastInfo = None
      BY DEF WriteChip, Inv, Roles, Programs, Starting
    <2> QED
      BY <2>1 DEF WriteChip, Roles, Booting, Starting, Running, Looping
  <1>3. Blanks'
    <2>1. /\ rom \in Programs /\ rom \in Roms
      BY DEF WriteChip, Inv, Roles, Programs
    <2>2. sav[rom].shares[next] \in Share
      BY <2>1 DEF Inv, TypeOK
    <2>3. block'[next].tagged
      BY <2>2, BlockFacts DEF WriteChip, Inv, TypeOK
    <2> QED
      BY <2>3 DEF WriteChip, Inv, TypeOK, Blanks
  <1>4. Owners'
    <2>1. /\ rom \in Programs /\ rom \in Roms
      BY DEF WriteChip, Inv, Roles, Programs
    <2>2. sav[rom].shares[next] \in Share
      BY <2>1 DEF Inv, TypeOK
    <2>3. sav[rom].shares[next].of \in {rom, None}
      BY <2>1 DEF WriteChip, Inv, Progress, Restorable, SavIsOfItsGame, TypeOK
    <2>4. block'[next].share = sav[rom].shares[next]
      BY <2>2, BlockFacts DEF WriteChip, Inv, TypeOK
    <2>5. \A i \in Index : block'[i].share.of \in {rom, None}
      BY <2>3, <2>4 DEF WriteChip, Inv, TypeOK, Owners, Starting
    <2>6. lastInfo' = None /\ rom' = rom
      BY DEF WriteChip, Inv, Roles, Starting
    <2> QED
      BY <2>5, <2>6 DEF Owners
  <1>5. SavIsOfItsGame'
    BY DEF WriteChip, Inv, SavIsOfItsGame
  <1>6. Progress'
    BY NamesAssumption
       DEF WriteChip, Inv, TypeOK, Roles, Progress, Tagged, FilledFrom,
           Restorable, TypeKnown, Index, Booting, Starting, Running, Looping
  <1> QED
    BY <1>1, <1>2, <1>3, <1>4, <1>5, <1>6 DEF Inv

LEMMA TruncateInfoInv == ASSUME Inv, TruncateInfo PROVE Inv'
  <1>1. TypeOK'
    BY DEF TruncateInfo, Inv, TypeOK, Steps
  <1>2. Roles'
    BY DEF TruncateInfo, Inv, Roles, Booting, Starting, Running, Looping
  <1>3. Blanks'
    BY DEF TruncateInfo, Inv, Blanks
  <1>4. Owners'
    BY DEF TruncateInfo, Inv, Owners, Starting, Running
  <1>5. SavIsOfItsGame'
    BY DEF TruncateInfo, Inv, SavIsOfItsGame
  <1>6. Progress'
    BY DEF TruncateInfo, Inv, Progress, Tagged, FilledFrom, Restorable,
           TypeKnown
  <1> QED
    BY <1>1, <1>2, <1>3, <1>4, <1>5, <1>6 DEF Inv

LEMMA SaveLastInfoInv == ASSUME Inv, SaveLastInfo PROVE Inv'
  <1>1. TypeOK'
    BY DEF SaveLastInfo, Inv, TypeOK, Steps
  <1>2. Roles'
    BY DEF SaveLastInfo, Inv, Roles, Booting, Starting, Running, Looping
  <1>3. Blanks'
    BY DEF SaveLastInfo, Inv, Blanks
  <1>4. Owners'
    BY DEF SaveLastInfo, Inv, Owners, Starting, Running
  <1>5. SavIsOfItsGame'
    BY DEF SaveLastInfo, Inv, SavIsOfItsGame
  <1>6. Progress'
    BY DEF SaveLastInfo, Inv, Progress
  <1> QED
    BY <1>1, <1>2, <1>3, <1>4, <1>5, <1>6 DEF Inv

LEMMA GameSavesInv == ASSUME Inv, GameSaves PROVE Inv'
  <1>1. TypeOK'
    BY DEF GameSaves, Inv, TypeOK, Steps
  <1>2. Roles'
    BY DEF GameSaves, Inv, Roles, Booting, Starting, Running, Looping
  <1>3. Blanks'
    BY DEF GameSaves, Inv, Blanks
  <1>4. Owners'
    BY DEF GameSaves, Inv, Owners, Starting, Running
  <1>5. SavIsOfItsGame'
    BY DEF GameSaves, Inv, SavIsOfItsGame
  <1>6. Progress'
    BY DEF GameSaves, Inv, Progress
  <1> QED
    BY <1>1, <1>2, <1>3, <1>4, <1>5, <1>6 DEF Inv

LEMMA GameErasesInv == ASSUME Inv, GameErases PROVE Inv'
  <1>1. TypeOK'
    BY BlockFacts DEF GameErases, Inv, TypeOK, Steps, Index
  <1>2. Roles'
    BY DEF GameErases, Inv, Roles, Booting, Starting, Running, Looping
  <1>3. Blanks'
    BY DEF GameErases, Inv, Blanks
  <1>4. Owners'
    BY BlockFacts, NamesAssumption
       DEF GameErases, Inv, TypeOK, Owners, Roles, Blanks, Progress, Tagged,
           Booting, Starting, Running
  <1>5. SavIsOfItsGame'
    BY DEF GameErases, Inv, SavIsOfItsGame
  <1>6. Progress'
    BY DEF GameErases, Inv, Progress
  <1> QED
    BY <1>1, <1>2, <1>3, <1>4, <1>5, <1>6 DEF Inv

LEMMA GameProgramsInv == ASSUME Inv, GamePrograms PROVE Inv'
  <1>1. TypeOK'
    <2>1. [of |-> rom, n |-> latest[rom] + 1] \in Share
      BY BoundsAssumption DEF GamePrograms, Inv, TypeOK, Roles, Share
    <2>2. block' \in [Index -> Block]
      BY <2>1, BlockFacts DEF GamePrograms, Inv, TypeOK
    <2>3. latest' \in [Roms -> 0 .. MaxSaves]
      BY BoundsAssumption DEF GamePrograms, Inv, TypeOK, Roles
    <2>4. pc' \in Steps /\ next' \in Index
      BY BoundsAssumption DEF GamePrograms, Inv, TypeOK, Steps, Index
    <2> QED
      BY <2>2, <2>3, <2>4 DEF GamePrograms, Inv, TypeOK
  <1>2. Roles'
    BY DEF GamePrograms, Inv, Roles, Booting, Starting, Running, Looping
  <1>3. Blanks'
    <2>1. [of |-> rom, n |-> latest[rom] + 1] \in Share
      BY BoundsAssumption DEF GamePrograms, Inv, TypeOK, Roles, Share
    <2>2. block'[next].tagged
      BY <2>1, BlockFacts DEF GamePrograms, Inv, TypeOK
    <2> QED
      BY <2>2 DEF GamePrograms, Inv, TypeOK, Blanks
  <1>4. Owners'
    <2>1. [of |-> rom, n |-> latest[rom] + 1] \in Share
      BY BoundsAssumption DEF GamePrograms, Inv, TypeOK, Roles, Share
    <2>2. block'[next].share.of = rom
      BY <2>1, BlockFacts DEF GamePrograms, Inv, TypeOK
    <2>3. \A i \in Index : block'[i].share.of \in {rom, None}
      BY <2>2 DEF GamePrograms, Inv, TypeOK, Owners, Running
    <2>4. lastInfo' = rom /\ rom' = rom
      BY DEF GamePrograms, Inv, Roles, Running
    <2> QED
      BY <2>3, <2>4 DEF Owners
  <1>5. SavIsOfItsGame'
    BY DEF GamePrograms, Inv, SavIsOfItsGame
  <1>6. Progress'
    BY DEF GamePrograms, Inv, Progress
  <1> QED
    BY <1>1, <1>2, <1>3, <1>4, <1>5, <1>6 DEF Inv

LEMMA StutterInv == ASSUME Inv, UNCHANGED vars PROVE Inv'
  BY DEF vars, Inv, TypeOK, Roles, Blanks, Owners, SavIsOfItsGame, Progress, Tagged, TableOk,
         Marked, FilledFrom, Restorable, TypeKnown

LEMMA NextInv == Inv /\ [Next]_vars => Inv'
  <1> SUFFICES ASSUME Inv, [Next]_vars PROVE Inv'
    OBVIOUS
  <1>1. CASE PowerOff \/ PowerOn
    BY <1>1, PowerOffInv, PowerOnInv
  <1>2. CASE BackupStep
    BY <1>2, BackupInv, ExportInv, OpenSavInv, CopyBlocksInv, ClearLastInfoInv, ClearBlockInv,
       ClearEndInv DEF BackupStep
  <1>3. CASE Launch
    BY <1>3, LaunchGameInv, LaunchHomebrewInv, LaunchLockedInv DEF Launch
  <1>4. CASE RestoreStep
    BY <1>4, AssignBlockInv, LoadSavInv, WriteChipInv, TruncateInfoInv, SaveLastInfoInv
       DEF RestoreStep
  <1>5. CASE Game
    BY <1>5, GameSavesInv, GameErasesInv, GameProgramsInv DEF Game
  <1>6. CASE UNCHANGED vars
    BY <1>6, StutterInv
  <1> QED
    BY <1>1, <1>2, <1>3, <1>4, <1>5, <1>6 DEF Next

(* The inductive invariant holds, power failures during a save included.   *)
LEMMA Invariance == Spec => []Inv
  <1> QED
    BY InitInv, NextInv, PTL DEF Spec

-----------------------------------------------------------------------------
(* The variables keep their types.                                         *)
THEOREM TypeCorrect == Spec => []TypeOK
  <1>1. Inv => TypeOK
    BY DEF Inv
  <1> QED
    BY <1>1, Invariance, PTL

(* No .sav file gets shares of a save of another game: backupSaveData      *)
(* names the file after the program recorded last, and the blocks are      *)
(* that program's whenever a program is recorded.                          *)
THEOREM SavFilesAreOwn == Spec => []SavIsOfItsGame
  <1>1. Inv => SavIsOfItsGame
    BY DEF Inv
  <1> QED
    BY <1>1, Invariance, PTL

(* The menu is ready only when no block has the tag of a save block.       *)
THEOREM MenuIsClean == Spec => []MenuStartsClean
  <1>1. Inv => MenuStartsClean
    BY DEF Inv, Progress, MenuStartsClean
  <1> QED
    BY <1>1, Invariance, PTL

-----------------------------------------------------------------------------
(* SaveIsKept, as long as the power does not fail while a game saves.      *)

LEMMA InitKInv == Init => KInv
  BY NamesAssumption DEF Init, KInv, SaveIsKept, AllFiled, Agree, Saved, Starting

(* A step that changes neither the blocks nor a file on the disc.          *)
LEMMA NothingMoves ==
    ASSUME SaveIsKept, Agree, pc \notin {"erase", "program"},
           UNCHANGED <<block, lastInfo, sav, others, latest>>
    PROVE  SaveIsKept' /\ Agree' /\ \A r \in Roms : Filed(r) => Filed(r)'
  BY DEF SaveIsKept, Agree, Filed, InSav, InOther, InBlocks, Saving, LatestSave, Shares, TableOk,
         Tagged, Marked

(* A step after the saves are filed, which does not change the files.      *)
LEMMA StayFiled ==
    ASSUME AllFiled, pc \in Starting \cup {"forget", "clear", "menu"},
           UNCHANGED <<sav, others, latest>>
    PROVE  SaveIsKept' /\ AllFiled'
  BY DEF AllFiled, Filed, SaveIsKept, InSav, InOther, LatestSave

(* Nothing is asked of the blocks when no game is recorded.                *)
LEMMA NoGameRecorded ==
    ASSUME lastInfo' = None, pc' \notin {"erase", "program"}
    PROVE  Agree' /\ Saved'
  BY NamesAssumption DEF Agree, Saved, Programs

LEMMA OpenSavKInv == ASSUME Inv, KInv, OpenSav PROVE KInv'
  <1> USE NamesAssumption
  <1>1. TableOk /\ Marked /\ TableOk' /\ Marked' /\ Shares' = Shares
    BY DEF OpenSav, Inv, Roles, TableOk, Tagged, Marked, Shares
  <1>2. lastInfo' = lastInfo /\ latest' = latest /\ others' = others /\ pc = "open"
    BY DEF OpenSav
  <1>3. \A r \in Roms : LatestSave(r)' = LatestSave(r)
    BY <1>2 DEF LatestSave
  <1>4. ASSUME NEW r \in Roms
        PROVE (latest[r] = 0 \/ InSav(r) \/ InOther(r) \/ InBlocks(r) \/ Saving(r))'
    <2>1. InOther(r) => InOther(r)'
      BY <1>2, <1>3 DEF InOther
    <2>2. CASE r = lastInfo
      <3>1. latest[r] = 0 \/ InOther(r) \/ Shares = LatestSave(r)
        BY <1>1, <1>2, <2>2 DEF KInv, Agree
      <3> QED
        BY <3>1, <1>1, <1>2, <1>3, <2>1, <2>2 DEF InBlocks
    <2>3. CASE r # lastInfo
      <3>1. sav'[r] = sav[r]
        BY <2>3 DEF OpenSav, Inv, TypeOK
      <3>2. latest[r] = 0 \/ InSav(r) \/ InOther(r)
        BY <1>2, <2>3 DEF KInv, SaveIsKept, InBlocks, Saving
      <3> QED
        BY <3>1, <3>2, <1>2, <1>3, <2>1 DEF InSav
    <2> QED
      BY <2>2, <2>3
  <1>5. SaveIsKept'
    BY <1>4 DEF SaveIsKept
  <1>6. AllFiled' /\ Saved'
    BY DEF OpenSav, AllFiled, Saved, Starting
  <1>7. Agree'
    BY <1>1, <1>2, <1>3 DEF KInv, Agree, InOther
  <1> QED
    BY <1>5, <1>6, <1>7 DEF KInv

LEMMA CopyBlocksKInv == ASSUME Inv, KInv, CopyBlocks PROVE KInv'
  <1> USE NamesAssumption
  <1>1. TableOk /\ Marked /\ TableOk' /\ Marked' /\ Shares' = Shares
    BY DEF CopyBlocks, Inv, Roles, TableOk, Tagged, Marked, Shares
  <1>2. /\ lastInfo' = lastInfo /\ latest' = latest /\ others \subseteq others'
        /\ pc = "copy" /\ pc' = "forget"
    BY DEF CopyBlocks
  <1>3. \A r \in Roms : LatestSave(r)' = LatestSave(r) /\ (InOther(r) => InOther(r)')
    BY <1>2 DEF LatestSave, InOther
  <1>4. Shares \in [Index -> Share]
    BY DEF Inv, TypeOK, Shares, Block
  <1>5. ASSUME NEW r \in Roms PROVE Filed(r)'
    <2>1. CASE r # lastInfo
      <3>1. sav'[r] = sav[r]
        BY <2>1 DEF CopyBlocks, Inv, TypeOK, Programs
      <3>2. latest[r] = 0 \/ InSav(r) \/ InOther(r)
        BY <1>2, <2>1 DEF KInv, SaveIsKept, InBlocks, Saving
      <3> QED
        BY <3>1, <3>2, <1>2, <1>3 DEF InSav, Filed
    <2>2. CASE r = lastInfo
      <3>1. latest[r] = 0 \/ InOther(r) \/ Shares = LatestSave(r)
        BY <1>1, <1>2, <2>2 DEF KInv, Agree
      <3>2. CASE NamedFile /\ Shares = LatestSave(r)
        <4>1. sav'[r] = Whole(Shares)
          BY <2>2, <3>2 DEF CopyBlocks, Inv, TypeOK, Programs
        <4> QED
          BY <4>1, <3>2, <1>3, <1>4, FileFacts DEF InSav, Filed
      <3>3. CASE ~NamedFile /\ Shares = LatestSave(r)
        <4>1. r \in CardPrograms
          BY <2>2, <3>3 DEF NamedFile, InReach, Programs
        <4>2. [of |-> lastInfo, shares |-> Shares] \in others'
          BY <3>3 DEF CopyBlocks
        <4> QED
          BY <4>1, <4>2, <3>3, <1>3 DEF InOther, Filed
      <3> QED
        BY <3>1, <3>2, <3>3, <1>2, <1>3 DEF Filed
    <2> QED
      BY <2>1, <2>2
  <1>6. SaveIsKept' /\ AllFiled'
    BY <1>5 DEF SaveIsKept, AllFiled, Filed
  <1>7. Agree'
    BY <1>1, <1>2, <1>3 DEF KInv, Agree
  <1>8. Saved'
    BY <1>2 DEF Saved
  <1> QED
    BY <1>6, <1>7, <1>8 DEF KInv

(* What the blocks hold when the name of a game is about to be recorded.   *)
LEMMA StartedFromFile ==
    ASSUME Inv, KInv, pc = "info", rom \in Roms
    PROVE  /\ TypeKnown(rom) => StartsFrom(rom)
           /\ Marked => latest[rom] = 0 \/ InOther(rom) \/ Shares = LatestSave(rom)
  <1> USE BoundsAssumption
  <1>1. latest[rom] = 0 \/ InSav(rom) \/ InOther(rom)
    BY DEF KInv, AllFiled, Filed, Starting
  <1>2. rom \in Programs
    BY DEF Programs
  <1>3. CASE Restorable(rom) /\ InSav(rom)
    <2>1. \A i \in Index : block[i] = Written(sav[rom].shares[i])
      BY <1>3 DEF Inv, Progress, FilledFrom, Index
    <2>2. sav[rom].shares \in [Index -> Share]
      BY <1>2 DEF Inv, TypeOK
    <2>3. \A i \in Index : block[i].share = sav[rom].shares[i]
      BY <2>1, <2>2, BlockFacts
    <2>4. Shares = sav[rom].shares
      BY <2>2, <2>3 DEF Shares
    <2> QED
      BY <2>4, <1>3 DEF InSav, StartsFrom
  <1>4. CASE ~Restorable(rom)
    <2>1. \A i \in Index : block[i] = Assigned
      BY <1>4 DEF Inv, Progress, FilledFrom, Index
    <2>2. ~Marked
      BY <2>1, BlockFacts DEF Marked, Tagged
    <2>3. TypeKnown(rom) => ~InSav(rom)
      BY <1>4 DEF Restorable, InSav
    <2> QED
      BY <2>2, <2>3, <1>1 DEF StartsFrom
  <1> QED
    BY <1>1, <1>3, <1>4 DEF StartsFrom

LEMMA SaveLastInfoKInv == ASSUME Inv, KInv, SaveLastInfo PROVE KInv'
  <1>1. SaveIsKept'
    BY StayFiled DEF SaveLastInfo, KInv, Starting
  <1>2. AllFiled' /\ Saved'
    BY DEF SaveLastInfo, AllFiled, Saved, Starting
  <1>3. Agree'
    <2>1. lastInfo' = rom /\ Marked' = Marked /\ Shares' = Shares
      BY DEF SaveLastInfo, Marked, Tagged, Shares
    <2>2. \A r \in Roms : /\ LatestSave(r)' = LatestSave(r) /\ latest'[r] = latest[r]
                          /\ InOther(r)' = InOther(r)
      BY DEF SaveLastInfo, LatestSave, InOther
    <2>3. rom \in Roms /\ Marked => latest[rom] = 0 \/ InOther(rom) \/ Shares = LatestSave(rom)
      BY StartedFromFile DEF SaveLastInfo
    <2> QED
      BY <2>1, <2>2, <2>3 DEF Agree
  <1> QED
    BY <1>1, <1>2, <1>3 DEF KInv

LEMMA GameErasesKInv == ASSUME Inv, KInv, GameErases PROVE KInv'
  <1>1. /\ rom \in Roms /\ lastInfo = rom /\ rom' = rom /\ lastInfo' = lastInfo
        /\ UNCHANGED <<sav, others, latest, next>> /\ pc = "erase" /\ pc' = "program"
    BY DEF GameErases, Inv, Roles, Running
  <1>2. SaveIsKept'
    <2> SUFFICES ASSUME NEW r \in Roms, r # rom
                 PROVE (latest[r] = 0 \/ InSav(r) \/ InOther(r))'
      BY <1>1 DEF SaveIsKept, Saving
    <2>1. latest[r] = 0 \/ InSav(r) \/ InOther(r)
      BY <1>1 DEF KInv, SaveIsKept, InBlocks, Saving
    <2> QED
      BY <2>1, <1>1 DEF InSav, InOther, LatestSave
  <1>3. AllFiled' /\ Agree'
    BY <1>1 DEF AllFiled, Agree, Starting
  <1>4. \A i \in Index : i < next => block'[i] = block[i]
    BY BoundsAssumption DEF GameErases, Inv, TypeOK, Index
  <1>5. Saved'
    BY <1>1, <1>4 DEF KInv, Saved
  <1> QED
    BY <1>2, <1>3, <1>5 DEF KInv

LEMMA GameProgramsKInv == ASSUME Inv, KInv, GamePrograms PROVE KInv'
  <1> USE BoundsAssumption
  <1> DEFINE share == [of |-> rom, n |-> latest[rom] + 1]
  <1>1. /\ rom \in Roms /\ lastInfo = rom /\ rom' = rom /\ lastInfo' = lastInfo
        /\ UNCHANGED <<sav, others>> /\ pc = "program" /\ next \in Index /\ latest[rom] < MaxSaves
    BY DEF GamePrograms, Inv, TypeOK, Roles, Running
  <1>2. share \in Share
    BY <1>1 DEF Inv, TypeOK, Share
  <1>3. \A i \in Index : i < next + 1 => block'[i] = Written(share)
    BY <1>1 DEF GamePrograms, KInv, Saved, Inv, TypeOK, Index
  <1>4. ASSUME NEW r \in Roms, r # rom
        PROVE (latest[r] = 0 \/ InSav(r) \/ InOther(r))'
    <2>1. latest[r] = 0 \/ InSav(r) \/ InOther(r)
      BY <1>1, <1>4 DEF KInv, SaveIsKept, InBlocks, Saving
    <2>2. latest'[r] = latest[r]
      BY <1>4 DEF GamePrograms, Inv, TypeOK
    <2> QED
      BY <2>1, <2>2, <1>1 DEF InSav, InOther, LatestSave
  <1>5. CASE next = LastBlock
    <2>1. pc' = "game" /\ latest'[rom] = latest[rom] + 1
      BY <1>1, <1>5 DEF GamePrograms, Inv, TypeOK
    <2>2. \A i \in Index : block'[i] = Written(share)
      BY <1>3, <1>5 DEF Index
    <2>3. \A i \in Index : block'[i].tagged /\ block'[i].mark /\ block'[i].share = share
      BY <1>2, <2>2, BlockFacts
    <2>4. TableOk' /\ Marked'
      BY <2>3 DEF TableOk, Marked, Tagged, Index
    <2>5. Shares' = LatestSave(rom)'
      BY <2>1, <2>3, <1>1 DEF Shares, LatestSave, SaveOf
    <2>6. InBlocks(rom)'
      BY <2>4, <2>5, <1>1 DEF InBlocks
    <2>7. SaveIsKept'
      BY <2>6, <1>1, <1>4 DEF SaveIsKept
    <2>8. AllFiled' /\ Saved'
      BY <2>1 DEF AllFiled, Saved, Starting
    <2>9. Agree'
      BY <2>5, <1>1 DEF Agree
    <2> QED
      BY <2>7, <2>8, <2>9 DEF KInv
  <1>6. CASE next # LastBlock
    <2>1. pc' = "erase" /\ next' = next + 1 /\ latest' = latest
      BY <1>6 DEF GamePrograms
    <2>2. SaveIsKept'
      BY <2>1, <1>1, <1>4 DEF SaveIsKept, Saving
    <2>3. AllFiled' /\ Agree'
      BY <2>1 DEF AllFiled, Agree, Starting
    <2>4. Saved'
      BY <2>1, <1>1, <1>3 DEF Saved
    <2> QED
      BY <2>2, <2>3, <2>4 DEF KInv
  <1> QED
    BY <1>5, <1>6

LEMMA NextKInv == ASSUME PowerFailsInSave = FALSE PROVE Inv /\ KInv /\ [Next]_vars => KInv'
  <1> SUFFICES ASSUME Inv, KInv, [Next]_vars PROVE KInv'
    OBVIOUS
  <1> DEFINE Clearing == ClearLastInfo \/ ClearBlock \/ ClearEnd
             Setting == AssignBlock \/ LoadSav \/ WriteChip \/ TruncateInfo
  <1>1. CASE PowerOff \/ PowerOn \/ Export
    <2>1. /\ pc \notin {"erase", "program"} /\ pc' \in {"off", "table", "open"}
          /\ UNCHANGED <<block, lastInfo, sav, others, latest>>
      BY <1>1 DEF PowerOff, PowerOn, Export
    <2> QED
      BY <2>1, NothingMoves DEF KInv, AllFiled, Saved, Starting
  <1>2. CASE Backup
    <2>1. /\ pc = "table" /\ pc' \in {"forget", "export", "open"}
          /\ pc' = "forget" => ~(TableOk /\ Marked)
          /\ UNCHANGED <<block, lastInfo, sav, others, latest>>
      BY <1>2 DEF Backup
    <2>2. pc' = "forget" => \A r \in Roms : Filed(r)
      BY <2>1 DEF KInv, SaveIsKept, Filed, InBlocks, Saving
    <2> QED
      BY <2>1, <2>2, NothingMoves DEF KInv, AllFiled, Saved, Starting
  <1>3. CASE OpenSav
    BY <1>3, OpenSavKInv
  <1>4. CASE CopyBlocks
    BY <1>4, CopyBlocksKInv
  <1>5. CASE Clearing \/ Launch \/ Setting
    <2>1. /\ pc \in Starting \cup {"forget", "clear", "menu"}
          /\ UNCHANGED <<sav, others, latest>>
          /\ pc' \notin {"erase", "program"}
      BY <1>5 DEF ClearLastInfo, ClearBlock, ClearEnd, Launch, LaunchGame, LaunchHomebrew,
             LaunchLocked, AssignBlock, LoadSav, WriteChip, TruncateInfo, Starting
    <2>2. lastInfo' = None
      BY <1>5 DEF ClearLastInfo, ClearBlock, ClearEnd, Launch, LaunchGame, LaunchHomebrew,
             LaunchLocked, AssignBlock, LoadSav, WriteChip, TruncateInfo, Starting, Inv, Roles
    <2> QED
      BY <2>1, <2>2, StayFiled, NoGameRecorded DEF KInv
  <1>6. CASE SaveLastInfo
    BY <1>6, SaveLastInfoKInv
  <1>7. CASE GameSaves
    <2>1. /\ pc = "game" /\ pc' = "erase" /\ next' = 0
          /\ UNCHANGED <<block, lastInfo, sav, others, latest>>
      BY <1>7 DEF GameSaves, Inv, Roles, Looping
    <2>2. Saved'
      BY <2>1 DEF Saved, Index
    <2> QED
      BY <2>1, <2>2, NothingMoves DEF KInv, AllFiled, Starting
  <1>8. CASE GameErases
    BY <1>8, GameErasesKInv
  <1>9. CASE GamePrograms
    BY <1>9, GameProgramsKInv
  <1>10. CASE UNCHANGED vars
    BY <1>10 DEF vars, KInv, SaveIsKept, AllFiled, Agree, Saved, Filed, InSav, InOther, InBlocks,
           Saving, LatestSave, Shares, TableOk, Tagged, Marked
  <1> QED
    BY <1>1, <1>2, <1>3, <1>4, <1>5, <1>6, <1>7, <1>8, <1>9, <1>10
       DEF Next, BackupStep, RestoreStep, Game

(* The latest complete save of each game is in its .sav file, in a file    *)
(* named after the time, or in blocks the next start will copy, wherever   *)
(* the menu was when the power failed.                                     *)
THEOREM SavesAreKept == ASSUME PowerFailsInSave = FALSE PROVE Spec => []SaveIsKept
  <1>1. Inv /\ KInv /\ [Next]_vars => KInv'
    BY NextKInv
  <1>2. KInv => SaveIsKept
    BY DEF KInv
  <1> QED
    BY <1>1, <1>2, InitKInv, Invariance, PTL DEF Spec

(* A game of a known type starts with its latest save.                     *)
THEOREM GamesStartFromLatest == ASSUME PowerFailsInSave = FALSE PROVE Spec => StartsFromLatest
  <1>1. Inv /\ KInv /\ [Next]_vars => KInv'
    BY NextKInv
  <1>2. Inv /\ KInv => (pc = "info" /\ SaveLastInfo /\ rom \in Roms => StartsFrom(rom))
    BY StartedFromFile DEF StartsFrom
  <1> QED
    BY <1>1, <1>2, InitKInv, Invariance, PTL DEF Spec, StartsFromLatest
=============================================================================
