----------------------------- MODULE NandDriver -----------------------------
(***************************************************************************)
(* The flash translation layer of libiorpg (nanddriver.cpp): logical       *)
(* blocks mapped to physical NAND blocks through a table kept in RAM and   *)
(* rebuilt from the tags on the flash at start-up.  A write goes to a free *)
(* block: the part of the old block before the written sectors is copied   *)
(* first (head), the sectors are programmed (fill), and the part after     *)
(* them is copied later (tail), when the next call is not the following    *)
(* sector; then the old block is erased.                                   *)
(*                                                                         *)
(* One zone is modelled: no operation of a zone looks at another one.      *)
(* The flash is reliable here (no bit error); module NandEcc models the    *)
(* ECC path.  Each step is one command to the flash, so that the power can *)
(* fail between any two of them.                                           *)
(***************************************************************************)
EXTENDS Integers, FiniteSets

CONSTANTS NumBlocks,     \* physical blocks of a zone (1024)
          NumLogical,    \* logical blocks of a zone (960)
          NumSubPages,   \* 512-byte sub pages of a block (256)
          SubPerPage,    \* sub pages of a 2K page, programmed together (4)
          Special,       \* blocks whose status bytes are not ff (bad, config)
          BootBlocks,    \* leading blocks that are never programmed (3)
          Data,          \* values of a sector
          Blank,         \* an erased sector, all ff
          Corrupt,       \* a sector programmed twice without an erase
          None,
          MaxCount       \* longest write request

ASSUME SizesAssumption ==
    /\ NumBlocks \in Nat \ {0} /\ NumLogical \in Nat \ {0}
    /\ SubPerPage \in Nat \ {0} /\ NumSubPages \in Nat
    /\ SubPerPage <= NumSubPages /\ NumSubPages % SubPerPage = 0
    /\ NumLogical <= NumBlocks
    /\ BootBlocks \in Nat /\ MaxCount \in Nat

ASSUME SpecialAssumption ==
    /\ Special \subseteq 0 .. NumBlocks - 1
    /\ \A b \in 0 .. NumBlocks - 1 : b < BootBlocks => b \in Special

ASSUME ValuesAssumption ==
    /\ Blank \notin Data /\ Corrupt \notin Data /\ Blank # Corrupt
    /\ None \notin Int /\ None \notin Data

Phys     == 0 .. NumBlocks - 1
Logical  == 0 .. NumLogical - 1
SubPages == 0 .. NumSubPages - 1
Sectors  == 0 .. NumLogical * NumSubPages - 1

(* BuildLUT reads the redundant bytes of the last sub page of page 0. *)
TagPage == SubPerPage - 1

VARIABLES
  flash,      \* physical block -> sub page -> contents and logical tag
  map,        \* rpgNANDLUTable, address bits: logical block -> physical block
  use,        \* rpgNANDLUTable, cBLK_USE: physical block is mapped
  cfg,        \* rpgNANDLUTable, cBLK_CFG: physical block is special
  oldBlock,   \* ndwr::oldBlockAddr
  block,      \* ndwr::blockAddr
  remain,     \* ndwr::remainPageCount, one byte: 256 sub pages wrap to 0
  tag,        \* ndwr::logicBlkForPageWrite
  lastAddr,   \* ndwr::lastAddr
  copied,     \* next sub page of the copy loop
  req,        \* the call being served
  out,        \* result of the last read
  pc          \* where in the driver that call is

lutVars == <<map, use, cfg>>
wrVars  == <<oldBlock, block, remain, tag, lastAddr>>
vars    == <<flash, lutVars, wrVars, copied, req, out, pc>>

Erased == [data |-> Blank, tag |-> None]

SubPageContents == [data : Data \cup {Blank, Corrupt}, tag : Logical \cup {None}]

Request == [kind : {"none", "write", "safe", "read", "flush"}, addr : Nat,
            left : Nat, data : Data \cup {None}]

NoRequest == [kind |-> "none", addr |-> 0, left |-> 0, data |-> None]

TypeOK ==
    /\ flash \in [Phys -> [SubPages -> SubPageContents]]
    /\ map \in [Logical -> Phys \cup {None}]
    /\ use \in [Phys -> BOOLEAN]
    /\ cfg \in [Phys -> BOOLEAN]
    /\ oldBlock \in Phys /\ block \in Phys
    /\ remain \in 0 .. NumSubPages - 1
    /\ tag \in Logical \cup {None}
    /\ lastAddr \in Int \cup {None}
    /\ copied \in 0 .. NumSubPages
    /\ req \in Request
    /\ out \in [addr : Nat, val : Data \cup {Blank, Corrupt}] \cup {None}
    /\ pc \in {"idle", "open", "head", "fill", "tail", "erase", "read"}

-----------------------------------------------------------------------------
(* Mutant of Tagged: the scan stops one block early. *)
TaggedButLast(l) ==
    {b \in Phys \ Special : b < NumBlocks - 1 /\ flash[b][TagPage].tag = l}

(* ndBuildLUT: blocks are scanned in ascending order; the first one that   *)
(* carries the tag of a logical block gets it, later ones are left         *)
(* unmarked.                                                               *)
Tagged(l) == {b \in Phys \ Special : flash[b][TagPage].tag = l}

Lowest(S) == CHOOSE b \in S : \A c \in S : b <= c

BuiltMap == [l \in Logical |-> IF Tagged(l) = {} THEN None ELSE Lowest(Tagged(l))]

(* Mutant of BuiltUse: duplicates are marked as well. *)
BuiltUseOfAll == [b \in Phys |-> \E l \in Logical : b \in Tagged(l)]

BuiltUse == [b \in Phys |-> \E l \in Logical : Tagged(l) # {} /\ b = Lowest(Tagged(l))]

BuiltCfg == [b \in Phys |-> b \in Special]

(* The first start-up finds an erased flash. *)
Init ==
    /\ flash = [b \in Phys |-> [p \in SubPages |-> Erased]]
    /\ map = [l \in Logical |-> None]
    /\ use = [b \in Phys |-> FALSE]
    /\ cfg = BuiltCfg
    /\ oldBlock = 0 /\ block = 0 /\ remain = 0 /\ tag = None /\ lastAddr = None
    /\ copied = 0 /\ req = NoRequest /\ out = None
    /\ pc = "idle"

(* ndInitNAND: the table comes from the flash, the write state is as the   *)
(* static initialisers leave it.                                           *)
StartUp ==
    /\ map' = BuiltMap /\ use' = BuiltUse /\ cfg' = BuiltCfg
    /\ oldBlock' = 0 /\ block' = 0 /\ remain' = 0 /\ tag' = None /\ lastAddr' = None
    /\ copied' = 0 /\ req' = NoRequest /\ out' = None
    /\ pc' = "idle"
    /\ UNCHANGED flash

(* ioRpgWriteNand: programming clears bits.  A sub page that was not       *)
(* erased ends up with neither the old nor the new contents (tag t).       *)
(* Boot blocks are left alone.                                             *)
Programmed(b, vals, t) ==
    [p \in SubPages |->
        IF p \notin DOMAIN vals \/ b < BootBlocks THEN flash[b][p]
        ELSE IF flash[b][p] = Erased THEN vals[p]
        ELSE [data |-> Corrupt, tag |-> t]]

AndedTags(b, S) ==
    IF \A p \in S : flash[b][p] = Erased THEN {None} ELSE Logical \cup {None}

(* Mutant of ErasedBlock: the test for the boot blocks is inverted. *)
ErasedBootBlock(b) ==
    IF b >= BootBlocks THEN flash[b] ELSE [p \in SubPages |-> Erased]

(* ioRpgEraseNand *)
ErasedBlock(b) ==
    IF b < BootBlocks THEN flash[b] ELSE [p \in SubPages |-> Erased]

-----------------------------------------------------------------------------
LogicalOf(a) == (a % (NumLogical * NumSubPages)) \div NumSubPages
PageOf(a)    == a % NumSubPages

(* remainPageCount is one byte, in which the 256 sub pages of a block      *)
(* count as none.                                                          *)
AsByte(k) == k % NumSubPages

(* The sub page the next sector goes to: remain has wrapped when a block   *)
(* is written from its start.                                              *)
Cursor == AsByte(NumSubPages - remain)

(* Mutant of FreeBlocks: the flag of special blocks is not looked at. *)
FreeOrSpecial == {b \in Phys : ~use[b]}

(* ndSearchFreeBlock scans from a random block until one has neither flag: *)
(* it can return every such block.                                         *)
FreeBlocks == {b \in Phys : ~use[b] /\ ~cfg[b]}

(* Mutant of WritePages: a pending block takes any sector. *)
WritePagesAnywhere(kind, a, n, d) ==
    /\ pc = "idle"
    /\ req' = [kind |-> kind, addr |-> a, left |-> n, data |-> d]
    /\ out' = None
    /\ pc' = IF remain = 0 THEN "open" ELSE "fill"
    /\ UNCHANGED <<flash, lutVars, wrVars, copied>>

(* ndWritePages and ndWritePagesSafe: a pending tail is finished first     *)
(* unless the call continues it.                                           *)
WritePages(kind, a, n, d) ==
    /\ pc = "idle"
    /\ req' = [kind |-> kind, addr |-> a, left |-> n, data |-> d]
    /\ out' = None
    /\ \/ /\ remain = 0
          /\ pc' = "open" /\ UNCHANGED copied
       \/ /\ remain > 0 /\ a = lastAddr + 1
          /\ pc' = "fill" /\ UNCHANGED copied
       \/ /\ remain > 0 /\ a # lastAddr + 1
          /\ pc' = "tail" /\ copied' = NumSubPages - remain
    /\ UNCHANGED <<flash, lutVars, wrVars>>

(* Mutant of Remap: the old block keeps its flag. *)
RemapLeaking(l, phy, free) ==
    /\ use' = [use EXCEPT ![free] = TRUE]
    /\ map' = [map EXCEPT ![l] = free]

(* The logical block moves from phy to the free block, which may be phy    *)
(* itself.                                                                 *)
Remap(l, phy, free) ==
    /\ use' = [use EXCEPT ![phy] = FALSE, ![free] = TRUE]
    /\ map' = [map EXCEPT ![l] = free]

(* ndLog2Phy for a write, and the set-up in ndWritePages: the physical     *)
(* block loses its flag and the free block replaces it in the table before *)
(* anything is copied.                                                     *)
OpenBlock ==
    /\ pc = "open"
    /\ \E free \in FreeBlocks :
         LET l   == LogicalOf(req.addr)
             phy == IF map[l] = None THEN free ELSE map[l]
         IN  /\ Remap(l, phy, free)
             /\ oldBlock' = phy
             /\ block' = free
             /\ tag' = l
    /\ remain' = AsByte(NumSubPages - PageOf(req.addr))
    /\ copied' = 0
    /\ pc' = IF PageOf(req.addr) > 0 THEN "head" ELSE "fill"
    /\ UNCHANGED <<flash, cfg, lastAddr, req, out>>

(* Mutant of CopySubPage: the sub page keeps the tag it was read with. *)
CopySubPageAndTag ==
    /\ flash' = [flash EXCEPT ![block] =
                    Programmed(block, [p \in {copied} |-> flash[oldBlock][p]], None)]
    /\ copied' = copied + 1

(* One turn of the loop of ndCopyPages: a sub page goes from the old to    *)
(* the new block and gets the tag of the logical block being written.      *)
CopySubPage ==
    \E t \in AndedTags(block, {copied}) :
      /\ flash' = [flash EXCEPT ![block] =
                     Programmed(block,
                                [p \in {copied} |-> [data |-> flash[oldBlock][p].data,
                                                     tag  |-> tag]], t)]
      /\ copied' = copied + 1

(* ndNandMove of the sub pages before the first sector written. *)
CopyHead ==
    /\ pc = "head"
    /\ CopySubPage
    /\ pc' = IF copied' = Cursor THEN "fill" ELSE "head"
    /\ UNCHANGED <<lutVars, wrVars, req, out>>

(* The sectors of the request that fit in the current 2K page are          *)
(* buffered and programmed by one command.                                 *)
FillPage ==
    LET room  == SubPerPage - (Cursor % SubPerPage)
        n     == IF req.left < room THEN req.left ELSE room
        group == Cursor .. Cursor + n - 1
    IN  /\ pc = "fill"
        /\ \E t \in AndedTags(block, group) :
             flash' = [flash EXCEPT ![block] =
                         Programmed(block,
                                    [p \in group |-> [data |-> req.data, tag |-> tag]], t)]
        /\ remain' = AsByte(NumSubPages + remain - n)
        /\ lastAddr' = req.addr + n - 1
        /\ \/ /\ remain' = 0
              /\ pc' = "erase" /\ UNCHANGED copied
              /\ req' = [req EXCEPT !.addr = @ + n, !.left = @ - n]
           \/ /\ remain' # 0 /\ n < req.left
              /\ pc' = "fill" /\ UNCHANGED copied
              /\ req' = [req EXCEPT !.addr = @ + n, !.left = @ - n]
           \/ /\ remain' # 0 /\ n = req.left /\ req.kind = "safe"
              /\ pc' = "tail" /\ copied' = NumSubPages - remain'
              /\ req' = [req EXCEPT !.addr = @ + n, !.left = 0]
           \/ /\ remain' # 0 /\ n = req.left /\ req.kind # "safe"
              /\ pc' = "idle" /\ UNCHANGED copied
              /\ req' = NoRequest
        /\ UNCHANGED <<lutVars, oldBlock, block, tag, out>>

(* ndFinishPartialCopy up to its erase. *)
CopyTail ==
    /\ pc = "tail"
    /\ CopySubPage
    /\ pc' = IF copied' = NumSubPages THEN "erase" ELSE "tail"
    /\ UNCHANGED <<lutVars, wrVars, req, out>>

(* The old block is erased when the new one is complete; then the call     *)
(* returns, goes on to the next block, or does what the finished tail      *)
(* stood in the way of.                                                    *)
EraseOld ==
    /\ pc = "erase"
    /\ flash' = IF oldBlock = block THEN flash
                ELSE [flash EXCEPT ![oldBlock] = ErasedBlock(oldBlock)]
    /\ remain' = 0
    /\ \/ /\ req.left = 0
          /\ pc' = "idle" /\ req' = NoRequest
       \/ /\ req.left > 0 /\ req.kind = "read"
          /\ pc' = "read" /\ UNCHANGED req
       \/ /\ req.left > 0 /\ req.kind # "read"
          /\ pc' = "open" /\ UNCHANGED req
    /\ UNCHANGED <<lutVars, oldBlock, block, tag, lastAddr, copied, out>>

(* ndReadPages of one sector: a pending tail is finished first. *)
ReadPages(a) ==
    /\ pc = "idle"
    /\ req' = [kind |-> "read", addr |-> a, left |-> 1, data |-> None]
    /\ out' = None
    /\ \/ /\ remain = 0 /\ pc' = "read" /\ UNCHANGED copied
       \/ /\ remain > 0 /\ pc' = "tail" /\ copied' = NumSubPages - remain
    /\ UNCHANGED <<flash, lutVars, wrVars>>

(* ndLog2Phy for a read.  A logical block without a physical one keeps the *)
(* init bit in its address, which selects a block of the next zone.        *)
ReadSubPage ==
    LET l == LogicalOf(req.addr)
    IN  /\ pc = "read"
        /\ \E v \in Data \cup {Blank, Corrupt} :
             /\ map[l] # None => v = flash[map[l]][PageOf(req.addr)].data
             /\ out' = [addr |-> req.addr, val |-> v]
        /\ tag' = l
        /\ req' = NoRequest
        /\ pc' = "idle"
        /\ UNCHANGED <<flash, lutVars, oldBlock, block, remain, lastAddr, copied>>

(* Mutant of FinishPartialCopy: the old block goes, the tail is forgotten. *)
FinishWithoutCopy ==
    /\ pc = "idle"
    /\ remain > 0
    /\ req' = [kind |-> "flush", addr |-> 0, left |-> 0, data |-> None]
    /\ out' = None
    /\ pc' = "erase" /\ UNCHANGED copied
    /\ UNCHANGED <<flash, lutVars, wrVars>>

(* ndFinishPartialCopy as called by clearStatus and shutdown. *)
FinishPartialCopy ==
    /\ pc = "idle"
    /\ remain > 0
    /\ req' = [kind |-> "flush", addr |-> 0, left |-> 0, data |-> None]
    /\ out' = None
    /\ pc' = "tail" /\ copied' = NumSubPages - remain
    /\ UNCHANGED <<flash, lutVars, wrVars>>

(* Power off and on between calls, with nothing pending. *)
Restart == pc = "idle" /\ remain = 0 /\ StartUp

(* The power fails at any point. *)
PowerLoss == StartUp

-----------------------------------------------------------------------------
Call ==
    \/ \E kind \in {"write", "safe"}, a \in Sectors, n \in 1 .. MaxCount, d \in Data :
          a + n <= NumLogical * NumSubPages /\ WritePages(kind, a, n, d)
    \/ \E a \in Sectors : ReadPages(a)
    \/ FinishPartialCopy

DriverStep == OpenBlock \/ CopyHead \/ FillPage \/ CopyTail \/ EraseOld \/ ReadSubPage

Next == Call \/ DriverStep \/ Restart

(* The driver runs to completion in the thread that called it. *)
Spec == Init /\ [][Next]_vars
FairSpec == Spec /\ WF_vars(DriverStep)

-----------------------------------------------------------------------------
(* A block is open from the moment the table points to it until the old    *)
(* block is erased.                                                        *)
Opened == remain > 0 \/ pc \in {"head", "fill", "erase"}

(* What a sector holds: in the open block the copy on the old one counts   *)
(* until the new one has been programmed.                                  *)
SectorValue(s) ==
    LET l == s \div NumSubPages
        p == s % NumSubPages
    IN  IF Opened /\ l = tag /\ flash[block][p] = Erased
          THEN flash[oldBlock][p].data
          ELSE IF map[l] = None THEN Blank ELSE flash[map[l]][p].data

Writing == req.kind \in {"write", "safe"} /\ req.left > 0

Abstract == INSTANCE SectorDisc WITH
    NumSectors <- NumLogical * NumSubPages,
    Values <- Data \cup {Blank, Corrupt},
    disc <- [s \in Sectors |-> SectorValue(s)],
    todo <- IF Writing THEN [addr |-> req.addr, left |-> req.left, data |-> req.data]
                       ELSE [addr |-> 0, left |-> 0, data |-> None]

-----------------------------------------------------------------------------
(* ndLog2Phy marks the old block free before its contents have been        *)
(* copied: the search must not hand it out, and whatever it hands out must *)
(* be erased, or programming it would mix old and new bits.                *)
FreeIsErased ==
    \A b \in FreeBlocks :
        (Opened /\ b = oldBlock) \/ \A p \in SubPages : flash[b][p] = Erased

(* The use flags and the addresses share the slots of rpgNANDLUTable but   *)
(* are indexed by different blocks: a physical block is in use exactly     *)
(* when one logical block, and only one, is mapped to it.                  *)
UseIffMapped ==
    /\ \A b \in Phys : use[b] <=> \E l \in Logical : map[l] = b
    /\ \A l, m \in Logical : map[l] # None /\ l # m => map[l] # map[m]

(* The search for a free block never meets a block in use (nanddriver.cpp: *)
(* 188, 266): what is free is erased, and what is not is mapped, once.     *)
FreeBlocksKnown == FreeIsErased /\ UseIffMapped

(* Between calls with nothing pending, a table built from the flash would  *)
(* be the one in RAM: nothing is lost when the power goes.                 *)
RebuildAgrees ==
    pc = "idle" /\ remain = 0 => BuiltMap = map /\ BuiltUse = use

(* The flash never lacks a complete copy of a logical block that has one:  *)
(* the old copy goes only when the new one is complete, whatever call      *)
(* made the driver finish it.                                              *)
CompleteCopyKept ==
    \A l \in Logical :
        map[l] # None /\ ~(Opened /\ l = tag /\ oldBlock = block)
          => \E b \in Phys : \A p \in SubPages : flash[b][p].tag = l

(* The search of ndLog2Phy, a loop without exit, finds a block.            *)
SearchFinds == pc = "open" => FreeBlocks # {}

(* Bad and config blocks, the boot blocks among them, are never programmed *)
(* or erased.                                                              *)
SpecialUntouched == [][\A b \in Special : flash'[b] = flash[b]]_vars

(* Writes, reads and restarts, seen from libfat, are those of a disc.      *)
ImplementsDisc == Abstract!Spec

(* Every call returns. *)
CallsReturn == (pc # "idle") ~> (pc = "idle")
=============================================================================
