# akrpg: specifications of the menu, its loader and the storage below them

akrpg is the firmware of a game card: a menu program that runs on both
processors of the console (`src/akmenu4`), the loader it starts programs with
(`src/akloader`), a FAT file system (`src/libfat`) with adapters for many cards,
and the driver of this card's own NAND flash and SD slot (`src/libiorpg`).  This
directory holds TLA+ specifications of these, the TLC configurations that check
them on small instances, and TLAPS proofs of the most important results for
every size.

## 1. Inventory

| Component | State it keeps | Operations | What is hard |
|---|---|---|---|
| **NAND flash translation layer** `libiorpg/source/nanddriver.cpp`, `rpgprotocol.cpp`, called through `libfat/source/disc_io/io_rpg_nand.c` | the mapping table `rpgNANDLUTable` (address and flags in one word), the open write (`ndwr::*`), the flash with its tags | `ndReadPages`, `ndWritePages`, `ndWritePagesSafe`, `ndFinishPartialCopy`, `ndCheckError`, `ndReplaceBlock`, `ndBuildLUT`, `ndSearchFreeBlock` | a write leaves work for the next call; the table moves before the data do; power failures; bit errors during all of it |
| **SD card driver** `libiorpg/source/sddriver.cpp`, `libfat/source/disc_io/io_rpg_sd.c` | card address and kind, the card's own state | initialisation command by command, reads, writes, identification | waits without a limit; a card exchanged for one of another kind |
| **Disc layer and card adapters** `libfat/source/disc_io/*` | which lines are connected, the card's address; the state of the card | the six calls of `IO_INTERFACE`; this build registers `_io_rpg_sd` (`disc.c:93-104`), the others are in the tree and commented out there: SuperCard SD, M3 SD, NinjaDS, four CompactFlash adapters, Neo MMC, two Acekards, EFA-Linker II, FCSR | a card pulled out or late in the middle of a call; what a failed call leaves behind |
| **Sector cache** `libfat/source/cache.c` | pages with sector number, dirty flag and use count | partial read, write, erase-write, flush, invalidate | replacement, disc errors in the middle, transfers that go past it |
| **File allocation table** `file_allocation_table.c` | the table, `fat.firstFree`, `fat.lastCluster` | `nextCluster`, `linkFreeCluster`, `clearLinks`, `lastCluster` | a stale pointer, a full volume, the last cluster |
| **Files** `fatfile.c` | size, position, and cluster, sector and byte for reading, writing and appending | open, close, read, write, seek, extend | every boundary of byte, sector, cluster and file; a full volume |
| **Directories** `directory.c`, `fatdir.c` | the slots of a directory, the remembered place of an open file's entry, the listings under way | add, remove and find entries, open, close, unlink, rename, listings | entries of several slots in gaps, the end marker, changes during listings and under open files |
| **Partitions** `partition.c`, `libfat.c` | the mounted partitions, the default one, the count of open files | mount, unmount, unsafe unmount, select | one volume in several slots; unmounting what is in use |
| **Save manager** `akmenu4/arm9/source/savemngr.cpp` | the save blocks on the flash, the last program loaded, the lists of save types | `backupSaveData` at start, `restoreSaveData` before a launch, assigning and clearing of save blocks | power failures anywhere between the game, the flash, the files and the record of whose save it is |
| **File copy** `files.cpp`, `irqs.cpp` | `copyingFile`, `stopCopying`, the files, the clipboard | copy, move, delete, stop by the interrupt | the interrupt and the main loop share the keys; failures half-way |
| **Windows and forms** `akmenu4/arm9/source/ui/*`, `startmenu.cpp`, the setting windows | the windows in order, focus, pop-up, the window below the pen | add, remove, activate, dispatch, modal loops | pointers to windows that are gone, nested modal loops |
| **Main window and file list** `mainwnd.cpp`, `mainlist.cpp`, `ui/listview.cpp`, `zoomingicon.cpp` | rows and their descriptions, selection, scroll position, icon | browse, select, scroll, drag, switch views | five pieces of state that separate calls keep in step |
| **Settings** `globalsettings.cpp`, `inifile.cpp` | the settings and their file | load, save, get and set items | a setting written into a file with other contents |
| **Second processor** `akmenu4/arm7` | the mailbox `IPC_ARM9`, `IPC_ARM7`, the screens | brightness, suspend, reboot | messages overwritten; a hand-over with timing |
| **Loader** `akloader` | memory, the maps given to the card | load, patch, map, reboot | the same hand-over; a map in other units than the card's |
| **Timer**, **save chip**, **drawing**, **times and character sets** | a counter; registers; pixels; nothing | | section 7 |

How they interact.  The menu calls the C library, which calls `fatfile.c`,
`fatdir.c` and `directory.c`; these ask the table (`file_allocation_table.c`)
for clusters and the cache for sectors; whole sectors they transfer themselves,
past the cache.  The cache and these transfers call a disc through a table of
function pointers: the NAND driver, the SD driver, or one of the adapters.  The
save manager also writes to the NAND directly, past all of this.  Everything
runs in one thread on the first processor, to completion, except the vertical
blank interrupt (timer, animations, the key that stops a copy) and the second
processor, which answers messages.  Cards can be pulled out and power can fail
at any time.

What makes each part correct is the property list of its module (section 3);
the places where it could go wrong are the `hazards` of `PROJECT.json`, each
with the properties aimed at it, or a note why there is none.

## 2. Modules

```
 ByteFile <== FatFile          NameTable <== Directory      ClusterPool <== FatTable
                 \                    |                          /
                  '------------- WriteBackDisc <== SectorCache -'
                                      |
          SectorDisc <== NandDriver --+-- Storage (partitions; EXTENDS SdCard)
                          |           |
            NandPowerLoss, NandEcc    '-- Cards (EXTENDS SdAdapters, CartAdapters,
                                                 both EXTENDS CardCalls)

 SaveManager              Menu EXTENDS FileCopy EXTENDS Windows
                          Session EXTENDS ListView, Settings, Loader EXTENDS Processors
```

`A <== B` reads: `B` is the detailed specification and is checked to implement
`A` through a refinement mapping (`INSTANCE A WITH ...`, the property
`Implements...` of `B`).  `EXTENDS` composes: the module to the left has the
specification, and runs the actions of those to the right with its own.  The
plain lines are calls of the code that the models do not join; each module
assumes of the one below it what that one's abstract specification promises.
Each `MC...` module gives the constants of its module small values that a
configuration cannot; each of the eight `...Proofs` modules holds TLAPS proofs.

| Module | Models | Variables and the code |
|---|---|---|
| `SectorDisc` | what the NAND driver promises | the sectors, the write under way, the last result |
| `NandDriver` | `nanddriver.cpp` without bit errors | `map`, `use`, `cfg` are the bits of `rpgNANDLUTable`; `oldBlock`, `block`, `remain`, `tag`, `lastAddr` are `ndwr::oldBlockAddr`, `blockAddr`, `remainPageCount`, `logicBlkForPageWrite`, `lastAddr`; `flash` is each 512-byte sub page with its logical tag; `pc`, `req`, `copied` are where the call is. One step is one command to the flash |
| `NandPowerLoss` | the same with the power failing between any two commands | history of the failures |
| `NandEcc` | reads with retries, block replacement, bad blocks | `flips`: wrong bits in the worse half of a sector |
| `WriteBackDisc`, `SectorCache` | `cache.c`, and the direct transfers of `fatfile.c` | `held`, `dirty`, `count` and `data` are the fields of each `CACHE_ENTRY` and its buffer; `disc`, and `latest`: what was last written |
| `ClusterPool`, `FatTable` | `file_allocation_table.c` | `fat`, `firstFree`; `held` is what each file's user was given |
| `ByteFile`, `FatFile` | `fatfile.c` | the fields of `FILE_STRUCT`; `data` is the contents of the chain |
| `NameTable`, `Directory` | `directory.c`, the entry side of `fatdir.c` and `fatfile.c` | `slots`; `dirEntry` and `openAs` of open files; `iter` of a listing |
| `SdCard` | `sddriver.cpp`, `sdidentify.cpp`, and the card | `isSDHC`, `retry`; `at` is the command that comes next, `state` and `cursor` the card's; one step is one command or one block |
| `Storage` | `partition.c`, `disc.c`, the open and close of files | `partitions` is `_FAT_partitions`, `heap` the `PARTITION` objects with what the constructor computed from the boot sector, `files` the partition of each open file |
| `CardCalls` | `IO_INTERFACE`: the six calls, the card | `op` is the call with its block and its place, `card` and `memory` the card, `owed` what each block may hold; `clean`: nothing has failed since the card was last set up |
| `SdAdapters`, `CartAdapters` | each adapter in `disc_io`, one step for each place it waits in | `port`: media mode and card address; `sram`: the overlay of FCSR |
| `Cards` | all adapters, one in each behaviour | |
| `Windows` | `windowmanager.cpp`, `window.cpp`, `form.cpp`, `msgbox.cpp`, `progresswnd.cpp`, `popmenu.cpp` | `windows`, `popup`, `focused`, `below` are the members of `cWindowManager`; `todo` is the stack of handlers that have not returned |
| `FileCopy` | `files.cpp`, the interrupt of `irqs.cpp` | `disk`, `clip`, `copyingFile`, `stopCopying`; `job` is the arguments and locals of `copyFile` |
| `Menu` | `mainwnd.cpp`, `startmenu.cpp`, the setting windows, `input.cpp` | `dir`, `rows`, `sel`, `pen` |
| `ListView` | `ui/listview.cpp`, `mainlist.cpp`, `zoomingicon.cpp`, `dsrom.cpp` | `rows`, `infos` (`_romInfoList`), `place` (`_firstVisibleRowId`, `_selectedRowId`), `view`, `icon` |
| `Settings` | `inifile.cpp`, `globalsettings.cpp` | operators on the lines of a file |
| `Processors` | the mailbox of `share/ipctool.h`, `romloader.cpp`, `akmenu4/arm7/source/main.cpp` | `pc9`, `pc7`, `ipc9`, `p1`, `ipc7`, and the words `fe08`, `fe24` at 027FFE08 and 027FFE24; each access to a shared word is a step |
| `Loader` | `akloader` on both processors | `file`, `flags`, `control` (`cardControl13`), `nandMap`, `fatMap`, `device` |
| `Session` | from the list to the running program | `iniFile`, `settings`, `listed` |
| `SaveManager` | `savemngr.cpp`, and what `mainwnd.cpp` and the games do to it | `block` is the content and tag of each block of `_saveBlockTable`; `lastInfo` is the file of `saveLastInfo`; `typeFile`, `typeList` are the custom list on disc and `_customSaveList`; `sav`, `others` the files; `pc`, `rom`, `next` where the call or the game is. One step is one change of the flash or of a file |

`Directory` and `FatTable` share no name, so that `VolumeProofs` can extend both:
hence `OpenFile`, `UnlinkFile`, `DirFiles`, `DirectorySpec`.  For the same reason
`Cards` has `AdaptersSpec`, `AdaptersTypeOK` and `BlockContents`:
`SectorCacheProofs` extends it next to `SectorCache`.

Some constants are switches that say what the users of the code or its
surroundings do: the last five of `FatFile`, `PowerFailsInSave` of
`SaveManager`, `StealsDefault` and `Exchanges` of `Storage`, `CutsInCopy` of
`CartAdapters`, `Prompt` of `Processors`.  The runs have them at the value under
which the code keeps what it promises; section 4 shows what happens at the other
one.  The switches for failures the code does survive, `DiscFails`,
`CardMayBeAbsent`, `ReadsFail`, `WritesFail` and `CardPulled`, are on.

Where ordinary use gets the code into a state it does not get out of, there is
no switch: a history variable says that it has happened, and the properties say
what holds until then.  It is `spoiled` in `SectorCache` (the sectors whose page
is stale or was lost in a failed load), `endUsed` in `FatTable` (a file has gone
on from the last cluster), `astray` in `Directory` (a long name was put behind
deleted entries at the end marker, or an open file was removed or renamed),
`missed` in `FileCopy` (an error `copyFile` does not look at) and `clean` in
`CardCalls` (no call has failed since the card was set up).  All runs go there,
and all but `directory` beyond.

## 3. What the runs check

**`nand_driver`** (4 blocks of 2 sub pages for 2 logical blocks, calls of up to
3 sectors, two values).  All calls in all orders, with the tail of the last
write copied by whatever call comes next.  That the driver is a disc is
`ImplementsDisc`: `SectorDisc` has an array of sectors and a write under way,
and every step of the driver is a step of it or a stutter.  Around it: flags
and addresses of the table agree and the search for a free block finds only
erased ones (`FreeBlocksKnown`), a restart finds the table that was in RAM
(`RebuildAgrees`), at every step a complete copy of every written block is on
the flash (`CompleteCopyKept`), bad and config blocks are not touched
(`SpecialUntouched`), and each call returns (`CallsReturn`).  Two logical blocks
over four are the smallest instance in which writes alternate and the search
wraps around; two sub pages give a write a head or a tail to copy, three sectors
cross a block boundary at either side.

**`nand_power_loss`** adds failures between any two flash commands, at most two
in a behaviour, one boot block.  `TableSound`: the table the next start builds
is sound: no block is shared, and the search for a free one still ends.
`LossContained`: the first failure harms the logical block being written only.
The second failure is the interesting one: it meets the leftovers of the first.

**`nand_ecc`** loses up to three bits anywhere between calls and attempts, on
two logical blocks that share four.  The last attempt of a read has delivered the
data of every sector up to the first one with an error, whatever the read reports,
and a read fails only if a sector of the block was lost (`ReadsToTheError`: one
wrong bit ends the attempt, and the read succeeds all the same), replacing a
block keeps the other sectors (`DataKept`), and table and tags agree afterwards
(`TableMatchesFlash`).  Three flips are one error that can be corrected, one
that cannot, and one during the replacement.

**`cache`**: three sectors on two pages, so there is always one to evict; one of
them and a fourth sector are also transferred past the cache; the disc may
refuse any access.  `NothingLost`: what was written last to a sector is in its
page or on the disc, unless that sector itself was written past its page or its
own load failed.  `ImplementsWriteBack`: until there is such a sector, reads see
the last write, the disc gets only what was written, and a flush that reaches
its end (`synced`) has left nothing behind.  Uses are counted to 2, which is
enough to tell which of two pages was used last and to reset the counts.

**`fat`**: three files of up to four clusters extend, are truncated and removed
on the clusters 2 to 6, of which 5 is `lastCluster`, from an empty volume, a
fragmented one, and one where a file holds the cluster above `lastCluster`.
Until a file goes on from the last cluster, or gets the one above it, two things
hold.  `TableMatches`: the table is the chains the users were given and nothing
else.  `ImplementsPool`: `ClusterPool` gives out any free cluster, takes back
those of a file, and refuses only when none is free.  Three files fragment each
other's chains; the clusters fill up, and are freed below and above the pointer.

**`file`**: two writes of 1, 3 or 6 bytes, with seeks, reads, appends, closing
and reopening between, in files of 0, 3 or 8 bytes, with sectors of 2 bytes,
clusters of 2 sectors and a volume of 3 clusters.  Each length ends a transfer
inside a sector, inside a cluster, or at a boundary.  `ImplementsFile`: the file
is a string of bytes (`ByteFile`).  `ChainFits`: the chain has the clusters that
the size needs.

**`directory`**: names of one, two and three slots in clusters of three, two
clusters, two files; three layouts to start from (new, with leftovers behind the
end marker, and without end marker but with gaps), each with no name twice.
`ImplementsNames`: a directory is a function from names to files (`NameTable`).
`DirectorySound`: no name has two entries, and a listing returns every name that
was there all the time.  Both hold until the directory goes `astray`, and the
constraint `NotAstray` has TLC look no further behind such a state: nothing is
said of what follows.

**`storage`**: an old card without partition table and one of high capacity with
two partitions, next to the NAND; two partition objects on three slots, one open
file, one transfer of up to two blocks.  Cards are pulled out and put in between
any two commands.  `MountsConsistent`: no slot points to a partition that was
freed, an open file's partition lives, a volume has one cache.  `BlocksRight`:
each cluster number lies inside the volume, and what is read are the blocks asked
for.  `OnlyRequested`: a card changes only by a write to a file on that card, and
only in the next block of it.  `DriverReturns`: the start of a card ends
whatever is in the slot, a transfer ends while the card stays.  The two cards
differ in all the driver looks at: answer to CMD8, addresses in bytes or blocks,
partition table.  One transfer suffices because the driver keeps nothing from one
to the next but the card's state, which the start, the speed check and the
identification change as well.

**`cards`**: each of thirteen adapters with a card of three blocks; reads and
writes of up to three blocks, two blocks written in all, two answers that come
too late, loops that give up after two tries; FCSR has blocks 1 and 2 in RAM.
Everything may happen between two places where the adapter waits.
`ReadsTheBlocks`: a read that reports success has filled the buffer with the
right blocks; on an SD card as long as no call has failed since it was set up,
on CompactFlash if the card took the command, on the others also after errors.
`BlocksKept`: a block holds what was last written, and only the blocks of a
failed write may be in doubt.  `CardsSound`: as long as nothing has failed since
it was set up the card is selected, over four lines, ready.  `CallsEnd`: each
call ends, with the card or without.  Three blocks give a transfer a first, a
middle and a last one, two written ones a block that follows another or
overwrites it; a second late answer matters where a wait that has reached its
limit is no error, on CompactFlash: a command that comes while the card is busy is
lost, and the data go where the old one wanted them.

**`menu`**: one game on the flash, a folder on the card, a copy of one chunk.
Keys and touches (four points of the screen: a row, the start button, the menu,
an OK button) come in any order in each of the nested loops; the interrupt comes
between any two steps of a copy, reads come short, writes find the volume full,
the card is pulled out at any step; a card is put in only at the start of the
menu.  `WindowsSound`: what gets the next input exists, is in the list, and its
loop is running.  `CopyInterrupt`: a copy stops only when that copy was asked
to, and the keys are never read from both sides.  `MoveKeepsFile`: a file that is
moved is whole in one of the two places at every step, unless `copyFile` has
passed over an error.  `Responds`: every handler returns to a loop that waits
for input.  The constants have two bounds besides: forms that have nothing to do
with files are used before anything is copied (`Fresh`), and the pen at first
only (`Touched`); a form does not know what the disk holds.

**`session`**: a disk of eleven entries, more than fit on the screen in either
view, with two folders, one of them empty; a card with three files.
`ListSound`: the selection is one of the visible rows, the page is full, each
row has its own banner, the icon is that of the selected row; two of the entries
are copies of one game, and the type of a save is known by the game: the row it
is chosen in has it.  `BackSelects`: going back selects the folder that was
left.  `SettingsKept`: the next start reads what was saved, and nothing else in
the file has changed.  `StartedRight`: a program starts on both processors with
its own header, code, map and no more than its speed.  `Answered`: neither
processor waits for the other for ever.  Bounds: list types are chosen at the
head of a list, patches with a game selected there, the other settings at first,
browsing with plain settings and one brightness; two files of settings to begin
with, none and one with a remark, an item without text, a number that is none,
and sections before and behind.  These parts meet only in the settings file and
in the record of the game that is started, both of which take every value the
parts give them.

**`save_manager`**: two games, one on the card and one in the official list, and
a program without saves; three save blocks, so that there is a first, a middle
and a last; two saves per game, so that an old one can be taken for the new one;
five power cycles.  The power fails between any two steps except while a game
saves, and the card may be out at any start.  `SaveIsKept`: the last save of each
game is in its file or in blocks the next start will copy.  `SavIsOfItsGame`: no
file gets another game's save.  `StartsFromLatest`: a game is given its last
save.  `SavesReachFiles`: each save arrives in a file.  Deadlock is not checked
because the bound on power cycles ends a behaviour.

Every property of a run has a mutant: a changed definition, written in the
module next to the one it replaces, under which TLC finds that property
violated.

## 4. What the code does not promise

Each line is a property stated in the module named, and what to change in that
module's configuration for TLC to refute it (the property goes where the listed
ones are).  What the runs of section 3 exclude follows from it.

| Module | Property | Change | Why it is violated |
|---|---|---|---|
| `NandPowerLoss` | `FreeAfterLossIsErased` | none | a block that was half programmed has no tag and is taken for a free one |
| `NandEcc` | `OneBitIsCorrected` | none | a read that met one wrong bit reports success without the rest of the data (`nanddriver.cpp:370`), although the comments promise a corrected result or a retry |
| `NandEcc` | `SecondFaultMarksBad` | none | the replacement rebuilds the table, which resets the flag of the first failure; a block that fails twice is used again |
| `NandEcc` | `SearchReturns` | `FairSpec`, 2 blocks, 1 logical, `MaxFlips = 4` | the search for a free block does not end when bad blocks have used them up |
| `SectorCache` | `FlushedIsOnDisc` | none | a flush that gave up reports success |
| `SectorCache` | `ReadIsLatest` | none | after a failed load a page has the name of its old sector and other contents; a direct transfer does not see a page, and a page not a direct transfer |
| `FatTable` | `EachLinkedToNext` | none | no link is written from the last cluster (`file_allocation_table.c:252`) |
| `FatTable` | `GotIsEndOfFile` | none | the allocation after a failed one returns the cluster behind the last |
| `FatTable` | `UnusedIsFree` | none | a cluster above `lastCluster` is not freed |
| `FatFile` | `WritesAtPosition` | `SeeksToEnd = TRUE` | a seek to the end moves the position and not the place of the next write |
| `FatFile` | `ExtendingKeeps` | `SeeksPastEnd = TRUE` | extending a file that fills its clusters zeroes the last one |
| `FatFile` | `SeeksToCluster` | `OverwritesToBoundary = TRUE` | after an overwrite up to a cluster's end a seek is one cluster short |
| `FatFile` | `WritesKeepBefore` | `GoesOnWhenFull = TRUE`, `MaxWrites = 3` | the write after one cut short overwrites the last cluster from its beginning |
| `FatFile` | `ReadsAtPosition` | `ReadsWhileAppending = TRUE` | reading to a cluster's end, appending, reading on gives other bytes |
| `Directory` | `EndIsAlias` | none | with deleted slots before the end marker, the end of the new entry, which `directory.h` calls its alias, is another slot |
| `Directory` | `RemovalReported` | none | the last slot of the directory is removed and the call fails |
| `Directory` | `OwnEntry` | none | a file removed while open, its slot taken, and close writes to the other's entry |
| `Storage` | `OneCachePerDisc` | `StealsDefault = TRUE`, `Handles <- Objects` | a volume mounted for the default slot alone is forgotten when another takes the default, and mounted again |
| `Storage` | `OnlyRequested` | `Exchanges = TRUE` | a card of the other kind, exchanged under a mounted volume and started, is written at other addresses |
| `Storage` | `TypeByClusters` | `Fat12Clusters = 4` | the number of clusters is taken from absolute sector numbers (`partition.c:193`) |
| `SaveManager` | `SavIsOneSave` | `PowerFailsInSave = TRUE` | the power fails while a game saves, and the mixture replaces the `.sav` file |
| `Menu` | `MovesLoseNothing` | none | a read that comes short, or an `fclose` on a card that is out, is not looked at, and the source is removed (`files.cpp:214-235`) |
| `Menu` | `NoStaleWindow` | `Points <- AllPoints` | a touch on the button that changes the folder ends after its message box was deleted: the window below the pen is that box (`windowmanager.cpp:325`) |
| `Session` | `InfosAgree` | none | a type chosen for one row stays old in the row of another copy of the game: types are kept by title, code and checksum (`savemngr.cpp:196-210`), rows are not told |
| `Session` | `IconFollows` | none | with a key held the icon stays where it appeared |
| `Session` | `WakesUp` | none, as a property | the message that the lid is open overwrites one not yet read |
| `Session` | `StartedRight`, `Answered` | `Prompt = FALSE` | a delay that is too short for the other processor (section 5) |
| `Cards` | `ReadsAfterErrors` | `Kinds = {"scsd", "m3sd"}` | a read of several sectors that times out leaves the card sending (`io_scsd.c:309`, `io_m3sd.c:435`); the next one does not ask whether the card obeyed (`io_scsd.c:295`) and succeeds with sectors of the first |
| `Cards` | `StartsReady` | none, as a property | the answer with the address comes too late, and the wait for the transfer state ends on a byte of the card's name (`io_sd_common.c:205`) |
| `Cards` | `BlocksKept` | `CutsInCopy = TRUE` | the overlay is marked valid before it is filled (`io_fcsr.c:295`) |

`ImplementsDisc` of `NandDriver` also holds on blocks of two pages of two sub
pages (`NumSubPages = 4`), where a write starts and ends inside a page, and
`NothingLost` of `SectorCache` with sectors written in parts (`Offsets <-
Halves`); both take longer than the configuration given.

Further weaknesses were met while modelling.  They are modelled as the code has
them, and the properties of `Cards` name the adapters they except.

* EFA2 reads several sectors over each other (`io_efa2.c:234`); FCSR does not
  see a region that begins inside a read (`io_fcsr.c:138`).
* NinjaDS: `clearStatus` resets the adapter and not the card (427), a write after
  one that timed out reports success (264), the last block is not waited for
  (512, 519), `isInserted` returns a variable nobody set when the card is gone
  (416).
* A CompactFlash card may still program the last block when the call has
  returned (`io_cf_common.c:284`).  The wait for a busy card ends without an error
  (119): a command that is lost so, after two timeouts, goes unnoticed, a read then
  succeeds with blocks of the old command, and a write puts its data where the one
  that timed out had stopped.  Neo MMC takes a card pulled out while busy for
  one that has finished (283), and leaves a rejected block without a stop token
  (279).  The Acekards report no errors at all.
* `io_sd_common.c:205`: the wait for the card ends with the first answer, ready or
  not, and without an answer on what the buffer holds from before.
* On a card that is pulled out the driver of this card polls for ever
  (`sddriver.cpp:101`); the models of the menu let such a call fail instead.
  `files.cpp:190` does not look whether `fopen` succeeded.
* `inifile.cpp:78`: a line of blanks only makes `substr` throw, without a handler.
  `globalsettings.cpp:113` and `:123`: each load and save adds 0x180 to the read
  speed.  `globalsettings.cpp:52`: the default language 0 comes with the directory
  `lang_cn`, which `setLanguage(0)` would make `lang_en`.  An item whose text is
  empty reads as missing.
* `mainwnd.cpp:218` uses a `stat` it has not filled; `mainwnd.cpp:448` takes the
  selected row of an empty list.

## 5. Fairness

The menu and the drivers run in one thread to completion, nothing preempts them
but the interrupt handlers, which return.  So the step of a call under way is
weakly fair: the driver's steps in `NandDriver`, `NandEcc` and `Storage`,
`BackupStep` in `SaveManager`, `Handlers` in `Menu`, the adapter's in `Cards`,
and what each processor does next in `Session` (`Arm9Goes`, `Arm7Goes`,
`SavingEnds`): they are two processors, and neither stops the other.
`WF(Programmed)` in `Cards` says that a card finishes programming a block;
`WF(PowerOn)` in `SaveManager` that the user switches the console on again,
without which nothing more could be promised.  Nothing is assumed of the callers,
of the games, of the user in the menu, or of the card's presence.
`SavesReachFiles` does need that the power stops failing: `MaxPowerCycles` bounds
the failures.

The hand-over between the processors has delays where it should have answers:
the ARM7 waits 100 ms for the ARM9 to be in its loop at 027FFE08, and 10 ms for
it to have left, before it takes the instruction away; and the menu and the
loader send their first message when the ARM7 ought to be listening.  `Prompt`
says that each delay is long enough, which the code takes for granted; it is a
guard on the end of the delay, not a fairness condition.

## 6. What is proved

TLAPS checks the proofs for every value of the constants that satisfies their
`ASSUME`s: every number of blocks, pages, sectors, clusters, files, games, and
every bound.

**`NandDriverProofs`**.  The invariant `SafeInv` is the type invariant together
with `ControlInv` (what the step of the call says about its counters),
`BlocksInv` (the open write's old block has left the table, its new one is in
it), `TagsInv` (which sub pages have which tag, up to the point the copying has
reached) and the erased free blocks.  The properties of the run are not
inductive alone: that no complete copy is lost when the old block is erased
needs to know that the new one has been filled to its end, and that is in the
counters.  It gives `TypeOK`, `FreeBlocksKnown`, `RebuildAgrees`,
`CompleteCopyKept` and `SpecialUntouched`.  `DiscInv` adds what a call knows of
its request: the next sector it writes is the one at the cursor of the open block
(`Placed`), between two calls as well.  With it each command to the flash changes
the sectors as `SectorDisc` says or not at all, and `DriverIsADisc` is the
refinement `ImplementsDisc`.

The same module proves `NandPowerLoss`.  `TableInv` is the part of `SafeInv` that
speaks of the table and the calls and not of what the flash holds: each step keeps
it by itself, and a start-up makes it from any flash.  `LossInv` is `TableInv`
together with "`SafeInv` until the first failure".  It gives `TableSurvivesLoss`
(`TableSound`) and `SpecialSurviveLoss` for any number of failures at any command,
and `FirstLossContained` (`LossContained`): with the whole of `SafeInv` before the
failure, the tags of every block but the open one and its old one show where each
sector is.  That the search for a free block ends is counted: `SpareAssumption`,
there are more blocks than logical ones.

**`NandEccProofs`**.  `IInv`: the table agrees with the tags and the marks
(`TableMatchesFlash`), free blocks are erased, every sector that did not lose two
bits has its value (`DataKept`), two wrong bits are lost ones (`LossIsKnown`), and
between two attempts at a read the buffer has all sectors before the one the
attempt stopped at (`CallInv`).  The replacement of a block finds the table again
because the tag of the new block is the only one left, and an attempt that fails
has a first sector it failed at.  It gives `TableIsRebuilt`, `SectorsAreKept` and
`RetriesAreSound`, with bits lost at any point; that the buffer is right as far as
the attempt got is all that can be proved, since one wrong bit ends it with
success.

**`SectorCacheProofs`**.  `IInv`: a page holds a cached sector or none, no
sector has two pages, and until a sector is spoiled its page has what it was
last written with, and so has the disc if the page is clean.  A sector is
spoiled (`spoiled`) when it is written past the page it is on, or when the load
that was to replace its page fails half way; emptying the cache ends that.
`TypeCorrect`, `NoSecondPage` and `WritesKept` hold with disc errors at any
point and whichever sectors are transferred past the cache; `Implements` says
that the cache is a write-back disc until a sector is spoiled, and that a flush
which reaches its end leaves nothing behind.  None of them has an assumption
besides the constants'.

The module also has the adapters below the cache.  `CardsInv` is one invariant
for all thirteen of them, in two halves.  `Common` speaks of the call and of the
data, and no adapter appears in it but where the code differs in what it
promises: a call is about blocks of the card and as far as its counter says
(`CallOK`); each block holds what the calls before owe it, or what this call
writes to it, and the blocks behind the counter have been written or, on
CompactFlash, are about to be (`Kept`); what a read has delivered so far are the
first blocks it was asked for (`Reads`).  The other half says for each adapter
at which steps a call of it may be and what the card then is: that a card which
answers with its address takes the rest of the commands (`SdStart`), that the
stream of a read is at the block the counter names (`SdReady`), that the
checksum M3 SD sends is that of the block it sends (`SdWrite`), that a
CompactFlash card has as many blocks left as the call (`CfOK`), that a block
that is in RAM at one place only is read from where it was written (`FcsrOK`).
`Kept` needs that half, because what a card programs depends on where it
believes the transfer to be; and that half needs `Common`, because an adapter
that is asked for a block outside the card says nothing.  Each action is one
lemma; what they share, a return, a step that stays with its block, a step to
the next one, a call, a card pulled out, the power failing, a block programmed,
are seven lemmas about `Common`.  What the halves say of an SD card holds while
`clean` does: what a card that was left in the middle of a stream sends, nothing
can say.  From it follow `CardsReadTheBlocks` and `CardsAreSound`, with the
power failing at any point, and, with `CutsInCopy` off, `CardsKeepTheBlocks`
(section 4 has the counterexample with it on).  The constants are what
`CardAssumption`, `CartAssumption` and `RegionAssumption` say: natural numbers,
of which `MaxBlocks` and `Tries` are not 0, at most four regions, and no block
in two of them.  The last is a demand on the header of the ROM, which
`io_fcsr.c` does not check: a write goes to the first region that has its block,
and would leave the other one as it was.

**`VolumeProofs`** has the table and the directory.  `Good(fat, held)`: no
cluster is in two chains or twice in one, each entry of a chain is the link to
its next, all others are free.  The proofs are by the position of a cluster in
its chain; the search for the lowest free cluster rests on the well-foundedness
of finite sets.  `TypeCorrect` is for every volume; `TableAlwaysMatches` and
`Implements` hold until a file goes on from `lastCluster` or gets the cluster
above it (`endUsed`), whoever else has clusters there.  The three lines of
`FatTable` in section 4 show what happens then.

`DirInv` is about the slots of a directory: no name is there twice, an open file
knows the place of its entry (`OpenInv`), and a listing that has not shown a
name yet has all of its entry in front of it, or is about to return it
(`ListInv`); that is inductive, while "a listing that has ended has shown all"
is not.  The work is in the slots.  An entry is found by its alias and the parts
before it, and it could come into being or vanish without being touched: a part
might be overwritten, or the slots of two entries look like a third.
`AddedOthers`, `AddedEntry` and `Removed` say that neither happens: a call
writes only slots that were free or behind the end marker, or the ones of its
own entry, whose parts all have its name.  `DirectoryIsSound` gives
`DirectorySound`, `PlacesAreKept` that `_FAT_close_r` writes to the entry of its
own file, and `DirectoryImplementsNames` the refinement `ImplementsNames`, a
call that is refused being a stutter.  They hold for all names, lengths of
entries, sizes of the directory and contents it is mounted with in which no name
is there twice (`VolumesAssumption`), until the directory goes `astray`: a name
of several slots is put behind deleted slots at the end marker, or an open file
is removed or renamed, as in the lines `EndIsAlias` and `OwnEntry` of section 4.

The same module has `FatFile`.  `FileIInv`: the chain has the clusters the size
needs, and each place the file structure carries designates the offset it is for
(`PlacesAgree`): cluster, sector and byte are those of the offset, or the end of
the cluster before it, which only the end of the file may be.  Every transfer
needs this, since it starts at the place and not at the position.  A transfer is
followed piece by piece, as the loops of the code take it, up to the boundary of a
sector or a cluster.  `ChainsFit` and `FileIsBytes` (the refinement
`ImplementsFile`) assume `Disciplined`: none of the five uses under which the
lines of `FatFile` in section 4 show that places and positions come apart.  The
volume may be full.

**`SaveManagerProofs`**.  `Inv` says where the call is and whose the blocks are
(`Roles`, `Owners`), and how far the loops have come (`Progress`).  It holds
with power failures anywhere, and gives `TypeCorrect`, `SavFilesAreOwn` and
`MenuIsClean`.  `KInv`, for `PowerFailsInSave = FALSE`, adds what makes
`SaveIsKept` inductive.  Opening the `.sav` file destroys what is in it, and
nothing is lost because the blocks hold the same save (`Agree`), which goes back
to the file the game was started from; erasing the blocks destroys these, and
nothing is lost because every save is in a file by then (`AllFiled`).  It gives
`SavesAreKept` and the action property `GamesStartFromLatest`.

**`StorageProofs`**.  `IInv`: the driver's types with what is left of the tries
and of the transfer (a count that is not 0 while blocks are transferred), each
slot names a volume that exists, each volume counts its open files.  The counts
are cardinalities; an unmounted volume had the count 0, so no file was open on
it.  It gives `TypeCorrect` and `NothingDangles`.  That no disc gets two caches
is not inductive alone: the mount looks for the disc in the slots, so every
volume must be in one (`HeapMounted`), which the default slot keeps only if it
is not changed while it is all a volume has (`StealsDefault = FALSE`).  With it
`MountsStayConsistent` gives the whole of `MountsConsistent`.

`BlocksInv` goes from the cluster of a file down to the block of the card.
`CardInv` is about a transfer: which block each command is for, and that what
has been read is what the card holds there.  `VolumeInv` is about the volumes:
each is computed from the boot sector of the medium it was mounted from, and as
long as a card is ready that medium is the card.  `TransfersRight` gives
`BlocksRight` and `WritesRight` the action property `OnlyRequested`, for every
card and every boot sector, whatever is pulled out and put in between.  They
assume two things, which the code does not enforce.  `Exchanges = FALSE`: a card
is not started again under a mounted volume; section 4 shows what happens
otherwise.  `VolumesFit`: a boot record ends its volume on the medium and begins
the data inside it.  The code does not look: a record with the data behind the
end of the volume makes the number of clusters wrap around (`partition.c:193`).

**`MenuProofs`**.  The handlers that have not returned are a stack of steps, and
almost everything follows from what may stand on what (`Stack`): a loop on the
deletion of its form, the chunk of a copy on what comes after the copy.
`WindowsInv` says that the windows are what the stack makes of them: the pop-up
window is that of the innermost loop, the forms in the list are those of the
loops, in their order, and what is shown, pressed or listed has not been deleted.
It is inductive with no hypothesis about windows, rectangles or what touches and
keys come (`WindowsInvariant`), and gives `InputIsTaken`: the input goes to the
form whose loop runs.  `RowsInv`, `FilesInv` and `FlagsInv` add the list, the copy
under way and the flags shared with the interrupt handler (`MenuInvariant`).

`WindowsAreSound` (`WindowsSound`) adds `FocusInv`: nothing deleted has the
focus, pops up, or gets the focus at the end of a touch.  The handler of the
button that leads up runs before the end of the touch (`UpInv` follows it); if
the folder above is on a card that is out it opens a message box and deletes it,
the window that end is for, as the line of `NoStaleWindow` in section 4 shows.
The theorem holds until that happens (`BoxWhileTouched`), wherever the windows
are and whatever is touched.  `MovesAreSafe` (`MoveKeepsFile`) needs to know
where the file lies after each step of a move (`KeptInv`): in its old place
until the copy has its whole length, and the copy up to `copied` as it goes on.
It has no assumption: reads and writes may fail, the copy may be stopped and the
card pulled out at any point; what it excepts is a move that has `missed` an
error.  Most steps of the menu leave the files alone and bring no step of a copy
along (`Quiet`); those of a copy, a renaming or a deletion are taken one by one.
`CopyIsNotDisturbed` gives `CopyInterrupt`, with no hypothesis.

**`SessionProofs`** has two halves.  `ListInv` is about the list: the rows shown
are a listing the list box could have made of this folder, there is a
description for each of them with the banner of its own row and, in one row of
each game, the type of its save, the selection is a visible row and the page
starts so that it is full, and the icon is that of the selection except while a
key or the pen moves the list (the flags of the touch say when).  Each operation
of the list is a composition of a few changes of `place`, and the lemmas of the
first section say what each does to it.  `MachineOK` is about the rest.
`SessionInvariant` is that both always hold; `ListIsSound` gives `ListSound`,
and `BackSelectsTheFolder` the action property `BackSelects`: going back looks
for the row with the name of the folder left, and the listing of the parent has
exactly one.  They assume `ListingAssumption` of `ListView`: a directory has no
name twice, and each listing of it is a permutation of its entries.

`ProgramsStartRight` (`StartedRight`) follows a program from the row chosen to
its first instruction.  `HandedOver` says for each stage which words of the
mailbox and of the memory both processors share have been written and which not,
and where each processor therefore can be: the menu still runs, the restart is
asked for, the jump is written, one processor is released, the loader starts,
loads, or has started a program.  `Prepared` says that what the loader has put
together so far (the header, the code of both processors, the map of clusters
given to the card, the speed) is that of the file chosen.  Neither is inductive
without the other.  It assumes what `LoaderAssumption` and `SessionAssumption`
say about the cards: each file shown has a program and a chain of clusters, each
folder lies on one of the two disks, speeds and places are numbers.  And it
assumes `Prompt`, the delays of section 5, because with a delay that is too
short the property does not hold.

Only model-checked:

* everything under fairness (`CallsReturn`, `SavesReachFiles`, `DriverReturns`,
  `CallsEnd`, `Responds`, `Answered`), which TLAPS cannot reach;
* `SettingsKept` of `Session`: what a file of settings reads as is a fold over its
  lines, and a fact about every such file needs induction over data.

## 7. What is left out

* `NandEcc`: the wrong bits of a sector are counted up to 2, the arithmetic of
  the code is not there.  Three or more bits that look like one, and bits lost
  in a tag, are not modelled.  A write is one step (`NandDriver` has its steps).
* `SaveManager`: files can always be created, the disc is never full (the code
  looks at no result), and the assignment always finds free blocks.  The number
  of save blocks is one constant: `assignSaveBlocks` always tags 32.
* `FatTable`: the layout of entries in FAT12, FAT16 and FAT32, and disc errors.
* `FatFile`: modes and error numbers, two handles on one file.  `Directory`:
  subdirectories, the making of short names, times.
* `SdCard`, `SdAdapters`, `CartAdapters`: bit patterns and checksums, except that
  a checksum tells blocks apart where an adapter computes it ahead; a card that
  was pulled out of an adapter does not come back.  A command line
  that is stuck low without a card, and read as an answer of zeros, is left out.
* `Menu` and `Windows`: what is drawn, and buttons that change no window.
  `ListView`: colours and texts.  `Loader`: the patches are byte patterns, and one
  step.  `Settings`: blanks around names, hexadecimal numbers.
* Not modelled: the timer (`timer.cpp`; a reading can come between the overflow
  and its interrupt at line 63, and is then one overflow short; only animations
  and statistics read it), the registers of the save chip, drawing, times and
  character sets, and the code that is not built (`discarded`, the tests that run
  on the hardware).  They keep no state that anything else relies on.

## 8. What could come next

1. Compositions: `FatFile` over `FatTable` and `Directory` (a close that writes
   the size the chain has; a rename cut in two by the power), `SaveManager` over
   `NandDriver` (tagging of blocks against the search for free ones).
2. `Timer`: the overflow interrupt between two halves of a reading.
