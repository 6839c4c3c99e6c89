------------------------------ MODULE NandEcc ------------------------------
(***************************************************************************)
(* The NAND driver on a flash whose cells lose bits: the error correction  *)
(* code of nanddriver.cpp, the replacement of a failing block, and the     *)
(* retries of _RPG_NAND_readSectors.                                       *)
(*                                                                         *)
(* A write is one step here: module NandDriver follows its steps, and      *)
(* shows that a free block is an erased one.  The tag of a block and its   *)
(* bad-block mark are one value per block.                                 *)
(***************************************************************************)
EXTENDS Integers, FiniteSets

CONSTANTS NumBlocks, NumLogical, NumSubPages,
          Retries,       \* attempts of _RPG_NAND_readSectors (4)
          Data, Blank,
          Corrupt,       \* what a sub page with a wrong bit reads as
          Stale,         \* what the caller's buffer held before the call
          None,
          MaxFlips,      \* bits lost in a behaviour
          MaxCount       \* longest read

ASSUME EccAssumption ==
    /\ NumBlocks \in Nat \ {0} /\ NumLogical \in 1 .. NumBlocks
    /\ NumSubPages \in Nat \ {0} /\ Retries \in Nat \ {0}
    /\ MaxFlips \in Nat /\ MaxCount \in Nat \ {0}
    /\ Cardinality({Blank, Corrupt, Stale, None}) = 4
    /\ {Blank, Corrupt, Stale, None} \cap Data = {}
    /\ None \notin Int

Phys     == 0 .. NumBlocks - 1
Logical  == 0 .. NumLogical - 1
SubPages == 0 .. NumSubPages - 1
Sectors  == 0 .. NumLogical * NumSubPages - 1

VARIABLES
  page,      \* physical block -> sub page -> data and wrong bits (in the worse
             \* of the two halves that have a code of their own)
  owner,     \* the logical block in the tags of a physical one, or None
  marked,    \* the status bytes of the block say "bad"
  map, use, cfg, ecc,  \* rpgNANDLUTable: address, cBLK_USE, cBLK_CFG, cBLK_ECC
  tries,     \* attempts left, the current one included
  req,       \* the sectors being read
  buf,       \* the caller's buffer
  bad,       \* eccError and lastPhyAddr: the block that failed, or None
  out,       \* result of the last read
  pc,
  flipped,   \* bits lost so far
  written,   \* history: what each sector was last written with
  lost,      \* history: sectors that had an uncorrectable error since then
  faults     \* history: how often ndReplaceBlock has replaced each block

flashVars == <<page, owner, marked>>
lutVars   == <<map, use, cfg, ecc>>
callVars  == <<tries, req, buf, bad, out, pc>>
history   == <<flipped, written, lost, faults>>
vars      == <<flashVars, lutVars, callVars, history>>

LogicalOf(s) == s \div NumSubPages
PageOf(s)    == s % NumSubPages

ErasedPage  == [data |-> Blank, flips |-> 0]
ErasedBlock == [p \in SubPages |-> ErasedPage]

Read == [addr : Sectors, count : 1 .. MaxCount]

TypeOK ==
    /\ page \in [Phys -> [SubPages -> [data : Data \cup {Blank, Corrupt}, flips : 0 .. 2]]]
    /\ owner \in [Phys -> Logical \cup {None}]
    /\ marked \in [Phys -> BOOLEAN]
    /\ map \in [Logical -> Phys \cup {None}]
    /\ use \in [Phys -> BOOLEAN] /\ cfg \in [Phys -> BOOLEAN] /\ ecc \in [Phys -> BOOLEAN]
    /\ tries \in 0 .. Retries
    /\ req \in Read \cup {None}
    /\ buf \in [0 .. MaxCount - 1 -> Data \cup {Blank, Corrupt, Stale}]
    /\ bad \in Phys \cup {None}
    /\ out \in [ok : BOOLEAN, clean : BOOLEAN, addr : Sectors, count : 1 .. MaxCount] \cup {None}
    /\ pc \in {"idle", "read", "check"}
    /\ flipped \in 0 .. MaxFlips
    /\ written \in [Sectors -> Data \cup {Blank}]
    /\ lost \subseteq Sectors
    /\ faults \in [Phys -> Nat]

Init ==
    /\ page = [b \in Phys |-> ErasedBlock]
    /\ owner = [b \in Phys |-> None]
    /\ marked = [b \in Phys |-> FALSE]
    /\ map = [l \in Logical |-> None]
    /\ use = [b \in Phys |-> FALSE] /\ cfg = [b \in Phys |-> FALSE]
    /\ ecc = [b \in Phys |-> FALSE]
    /\ tries = Retries /\ req = None /\ buf = [i \in 0 .. MaxCount - 1 |-> Stale]
    /\ bad = None /\ out = None /\ pc = "idle"
    /\ flipped = 0 /\ written = [s \in Sectors |-> Blank]
    /\ lost = {} /\ faults = [b \in Phys |-> 0]

-----------------------------------------------------------------------------
(* A cell of a mapped block loses its bit.  The code corrects one wrong    *)
(* bit of a sub page and detects two.                                      *)
Flip(l, p) ==
    /\ flipped < MaxFlips
    /\ map[l] # None
    /\ page[map[l]][p].flips < 2
    /\ page' = [page EXCEPT ![map[l]][p].flips = @ + 1]
    /\ lost' = IF page[map[l]][p].flips = 1
                 THEN lost \cup {l * NumSubPages + p} ELSE lost
    /\ flipped' = flipped + 1
    /\ UNCHANGED <<owner, marked, lutVars, callVars, written, faults>>

FreeBlocks == {b \in Phys : ~use[b] /\ ~cfg[b]}

(* npReadPage528: the data as the flash returns it, wrong bits included. *)
Seen(pg) == IF pg.flips = 0 THEN pg.data ELSE Corrupt

(* Mutant of Copied: the code is recomputed over whatever was read. *)
CopiedAsSeen(pg) == [data |-> Seen(pg), flips |-> 0]

(* One sub page of ndCopyPages: one wrong bit is corrected; two are kept,  *)
(* with a new code that agrees with them.                                  *)
Copied(pg) == [data |-> IF pg.flips = 2 THEN Corrupt ELSE pg.data, flips |-> 0]

(* Mutant of Uncorrectable: any wrong bit counts. *)
WrongBits(b) == \E p \in SubPages : page[b][p].flips >= 1

(* ecc2bitError after the whole block has been copied. *)
Uncorrectable(b) == \E p \in SubPages : page[b][p].flips = 2

Holding(own, mark, l) == {b \in Phys : own[b] = l /\ ~mark[b]}

Lowest(S) == CHOOSE b \in S : \A c \in S : b <= c

(* Mutant of BuildLUT: the old table stays. *)
KeepLUT(own, mark) == UNCHANGED <<map, use, cfg>> /\ ecc' = [b \in Phys |-> FALSE]

(* ndBuildLUT clears every entry, the repeat flag cBLK_ECC included. *)
BuildLUT(own, mark) ==
    /\ map' = [l \in Logical |-> IF Holding(own, mark, l) = {} THEN None
                                 ELSE Lowest(Holding(own, mark, l))]
    /\ use' = [b \in Phys |-> \E l \in Logical : map'[l] = b]
    /\ cfg' = mark
    /\ ecc' = [b \in Phys |-> FALSE]

(* ndWritePagesSafe of one sector.  Nothing tells the caller of an error   *)
(* met while the rest of the block was copied.  The table slot of the      *)
(* logical block loses its repeat flag.                                    *)
WriteSector(s, d) ==
    /\ pc = "idle"
    /\ \E free \in FreeBlocks :
         LET l   == LogicalOf(s)
             old == IF map[l] = None THEN free ELSE map[l]
             new == [p \in SubPages |-> IF p = PageOf(s) THEN [data |-> d, flips |-> 0]
                                        ELSE Copied(page[old][p])]
         IN  /\ page' = [page EXCEPT ![old] = ErasedBlock, ![free] = new]
             /\ owner' = [owner EXCEPT ![old] = None, ![free] = l]
             /\ map' = [map EXCEPT ![l] = free]
             /\ use' = [use EXCEPT ![old] = FALSE, ![free] = TRUE]
             /\ ecc' = [ecc EXCEPT ![l] = FALSE]
    /\ written' = [written EXCEPT ![s] = d]
    /\ lost' = lost \ {s}
    /\ out' = None
    /\ UNCHANGED <<marked, cfg, tries, req, buf, bad, pc, flipped, faults>>

(* _RPG_NAND_readSectors of sectors of one written block. *)
ReadSectors(a, n) ==
    /\ pc = "idle"
    /\ map[LogicalOf(a)] # None /\ PageOf(a) + n <= NumSubPages
    /\ req' = [addr |-> a, count |-> n]
    /\ buf' = [i \in 0 .. MaxCount - 1 |-> Stale]
    /\ tries' = Retries /\ out' = None /\ bad' = None
    /\ pc' = "read"
    /\ UNCHANGED <<flashVars, lutVars, history>>

(* npCheckEcc finds the codes of a sub page different. *)
Failing(b, p) == page[b][p].flips > 0

(* ndReadPages: it stops after the first sub page with an error, which has *)
(* been copied to the caller as it is.                                     *)
ReadPages ==
    LET b     == map[LogicalOf(req.addr)]
        first == PageOf(req.addr)
        upTo  == {i \in 0 .. req.count - 1 :
                    \A j \in 0 .. i - 1 : ~Failing(b, first + j)}
    IN  /\ pc = "read"
        /\ buf' = [i \in DOMAIN buf |->
                     IF i \in upTo THEN Seen(page[b][first + i]) ELSE buf[i]]
        /\ bad' = IF \E i \in upTo : Failing(b, first + i) THEN b ELSE None
        /\ pc' = "check"
        /\ UNCHANGED <<flashVars, lutVars, tries, req, out, history>>

(* ndReplaceBlock: the failing block is copied to a free one and erased,   *)
(* or marked bad.                                                          *)
ReplaceBlock ==
    \E free \in FreeBlocks :
        LET worn == ecc[bad] \/ Uncorrectable(bad)
            new  == [p \in SubPages |-> Copied(page[bad][p])]
        IN  /\ page' = [page EXCEPT ![free] = new,
                                    ![bad] = IF worn THEN @ ELSE ErasedBlock]
            /\ owner' = [owner EXCEPT ![free] = LogicalOf(req.addr),
                                      ![bad] = IF worn THEN @ ELSE None]
            /\ marked' = [marked EXCEPT ![bad] = worn]
            /\ BuildLUT(owner', marked')
            /\ faults' = [faults EXCEPT ![bad] = @ + 1]

Return(ok) ==
    /\ out' = [ok |-> ok, clean |-> bad = None, addr |-> req.addr, count |-> req.count]
    /\ req' = None
    /\ pc' = "idle"

OneLess(k) == k - 1

(* ndCheckError and the test of the retry loop: after one wrong bit, as    *)
(* after none, the call returns; after two it tries again.                 *)
CheckError ==
    /\ pc = "check"
    /\ \/ /\ bad = None
          /\ Return(TRUE)
          /\ UNCHANGED <<flashVars, lutVars, tries, faults>>
       \/ /\ bad # None /\ ~Uncorrectable(bad)
          /\ ReplaceBlock
          /\ Return(TRUE)
          /\ UNCHANGED tries
       \/ /\ bad # None /\ Uncorrectable(bad)
          /\ ReplaceBlock
          /\ tries' = OneLess(tries)
          /\ IF tries' > 0 THEN pc' = "read" /\ UNCHANGED <<req, out>>
                           ELSE Return(FALSE)
    /\ UNCHANGED <<buf, bad, flipped, written, lost>>

DriverStep == ReadPages \/ CheckError

Next ==
    \/ \E l \in Logical, p \in SubPages : Flip(l, p)
    \/ \E s \in Sectors, d \in Data : WriteSector(s, d)
    \/ \E a \in Sectors, n \in 1 .. MaxCount : ReadSectors(a, n)
    \/ DriverStep

Spec == Init /\ [][Next]_vars
FairSpec == Spec /\ WF_vars(DriverStep)

-----------------------------------------------------------------------------
(* Copies and replacements carry every sector over: only a sector with two *)
(* wrong bits of its own loses its value.                                  *)
DataKept ==
    \A s \in Sectors \ lost :
        map[LogicalOf(s)] # None => page[map[LogicalOf(s)]][PageOf(s)].data = written[s]

(* The table rebuilt after a replacement is the one the writes maintain:   *)
(* the replaced block is not found a second time, and a bad block is       *)
(* neither free nor mapped.                                                *)
TableMatchesFlash ==
    /\ TypeOK
    /\ \A l \in Logical : Holding(owner, marked, l) = IF map[l] = None THEN {} ELSE {map[l]}
    /\ \A b \in Phys : use[b] <=> \E l \in Logical : map[l] = b
    /\ cfg = marked

(* A sector's own data: what was written to it, or, once two of its bits   *)
(* were wrong, what was made of that when it was copied.                   *)
Own(s, d) == d = written[s] \/ (s \in lost /\ d = Corrupt)

(* k sectors of the read r have their own data; the one behind them, if    *)
(* the read goes on, is the one with an error, as the flash returned it.   *)
ReadTo(k, r) ==
    /\ \A i \in 0 .. k - 1 : Own(r.addr + i, buf[i])
    /\ k < r.count => buf[k] = Corrupt

(* Whatever a read reports, its last attempt has delivered the sectors     *)
(* before the first one with an error, all of them if it met none, and     *)
(* none of another place or attempt; a read fails only when the block it   *)
(* reads from lost a sector (io_rpg_nand.c:25-32, nanddriver.cpp:326-377). *)
(* It may report success with the sector in error as it is and the rest of *)
(* the buffer not filled: OneBitIsCorrected says what is promised then.    *)
ReadsToTheError ==
    pc = "idle" /\ out # None =>
        /\ \E k \in 0 .. out.count : (out.clean <=> k = out.count) /\ ReadTo(k, out)
        /\ out.ok \/ \E s \in lost : LogicalOf(s) = LogicalOf(out.addr)

(* nandprotocol.cpp:255-257: "true" stands for "no error or 1 bit ecc      *)
(* error, corrected".  A read that met no more than one wrong bit and      *)
(* reports success has the data.                                           *)
OneBitIsCorrected ==
    pc = "idle" /\ out # None /\ out.ok /\ lost = {} =>
        \A i \in 0 .. out.count - 1 : buf[i] = written[out.addr + i]

(* nanddriver.cpp:650: a block that fails twice should be marked bad. *)
SecondFaultMarksBad == \A b \in Phys : faults[b] >= 2 => marked[b]

(* nanddriver.cpp:308: ndSearchFreeBlock says so when there is no free     *)
(* block, and returns.                                                     *)
SearchReturns == (pc = "check") ~> (pc # "check")
=============================================================================
