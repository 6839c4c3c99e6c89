-------------------------- MODULE NandDriverProofs --------------------------
(***************************************************************************)
(* Proofs about NandDriver for every geometry, every set of special blocks *)
(* and every set of values.                                                *)
(***************************************************************************)
EXTENDS NandPowerLoss, FiniteSetTheorems, WellFoundedInduction, TLAPS

(* Sub pages of the open block that have been programmed. *)
Done == IF pc \in {"head", "tail"} THEN copied
        ELSE IF pc = "erase" THEN NumSubPages ELSE Cursor

(* What the control state says about the counters. *)
ControlInv ==
    /\ cfg = BuiltCfg
    /\ req.kind \in {"write", "safe"} => req.data \in Data
    /\ req.kind \in {"none", "flush"} => req.left = 0
    /\ pc \in {"open", "head", "fill"} => req.kind \in {"write", "safe"} /\ req.left > 0
    /\ pc \in {"open", "read"} => remain = 0
    /\ pc = "head" => copied < Cursor
    /\ pc = "tail" => remain > 0 /\ Cursor <= copied /\ copied < NumSubPages

(* The blocks of the table and of the open write are writable, and the old *)
(* block of an open write is out of the table.                             *)
BlocksInv ==
    /\ \A b \in Special : ~use[b]
    /\ Opened => /\ tag \in Logical
                 /\ map[tag] = block
                 /\ oldBlock \notin Special
                 /\ oldBlock # block => ~use[oldBlock]

(* Where the tags are: on every sub page of a mapped block, of the old     *)
(* block of an open write, and on the programmed part of its new block.    *)
TagsInv ==
    /\ \A l \in Logical, p \in SubPages :
          map[l] # None /\ ~(Opened /\ l = tag) => flash[map[l]][p].tag = l
    /\ Opened => \A p \in SubPages :
          /\ p < Done => flash[block][p].tag = tag
          /\ p >= Done => flash[block][p] = Erased
    /\ Opened /\ oldBlock # block => \A p \in SubPages : flash[oldBlock][p].tag = tag

(* What holds however often the power fails: of the table and the calls,   *)
(* whatever the flash holds.                                               *)
TableInv == TypeOK /\ ControlInv /\ UseIffMapped /\ BlocksInv

SafeInv == TableInv /\ TagsInv /\ FreeIsErased

-----------------------------------------------------------------------------
(* Arithmetic of addresses.                                                *)

(* Multiplication by a natural number is monotonic. *)
LEMMA MulMono ==
    ASSUME NEW a \in Nat, NEW b \in Nat, NEW n \in Nat, a <= b
    PROVE  a * n <= b * n
OBVIOUS

(* Quotient and remainder. *)
LEMMA DivMod ==
    ASSUME NEW x \in Nat, NEW n \in Nat \ {0}
    PROVE  /\ x \div n \in Nat
           /\ (x % n) \in 0 .. n - 1
           /\ x = n * (x \div n) + (x % n)
OBVIOUS

(* A sector number below l blocks of n sectors lies in one of them. *)
LEMMA DivBelow ==
    ASSUME NEW l \in Nat, NEW n \in Nat \ {0}, NEW x \in 0 .. l * n - 1
    PROVE  x \div n \in 0 .. l - 1
<1> DEFINE q == x \div n
<1>1. q \in Nat /\ n * q <= x
  BY DivMod
<1>2. CASE q >= l
  <2>1. l * n <= q * n
    BY <1>1, <1>2, MulMono
  <2> QED
    BY <2>1, <1>1
<1> QED
  BY <1>1, <1>2

(* Rounding up to the next multiple of s stays within a multiple of s. *)
LEMMA RoundUp ==
    ASSUME NEW s \in Nat \ {0}, NEW n \in Nat, n % s = 0, NEW c \in 0 .. n - 1
    PROVE  s - (c % s) \in 1 .. s /\ c + (s - (c % s)) <= n
<1>0. c \in Nat
  OBVIOUS
<1>1. PICK q \in Nat, r \in 0 .. s - 1 : r = c % s /\ c = s * q + r
  <2>1. c \div s \in Nat /\ (c % s) \in 0 .. s - 1 /\ c = s * (c \div s) + (c % s)
    BY <1>0, DivMod, Zenon
  <2> QED
    BY <2>1, Zenon
<1>2. PICK k \in Nat : n = s * k + (n % s)
  BY DivMod, Zenon
<1>3. n = s * k
  BY <1>2
<1>4. q < k
  <2> SUFFICES ASSUME k <= q PROVE FALSE
    OBVIOUS
  <2>1. k * s <= q * s
    BY MulMono
  <2> QED
    BY <2>1, <1>1, <1>3
<1>5. (q + 1) * s <= k * s
  BY <1>4, MulMono
<1>6. (q + 1) * s = s * q + s
  OBVIOUS
<1> QED
  BY <1>1, <1>3, <1>5, <1>6

(* Programming n more sub pages, in the one-byte count of what remains. *)
LEMMA RemainAfter ==
    ASSUME NEW N \in Nat \ {0}, NEW r \in 0 .. N - 1, NEW c \in 0 .. N - 1,
           r = 0 => c = 0, r > 0 => c = N - r,
           NEW n \in Nat, n > 0, c + n <= N
    PROVE  /\ c + n = N => (N + r - n) % N = 0
           /\ c + n < N => /\ (N + r - n) % N = N - (c + n)
                           /\ (N - (N - (c + n))) % N = c + n
OBVIOUS

(* The sizes of a zone. *)
LEMMA Geometry ==
    /\ NumBlocks \in Nat \ {0} /\ NumLogical \in Nat \ {0}
    /\ NumSubPages \in Nat \ {0} /\ SubPerPage \in Nat \ {0}
    /\ NumSubPages % SubPerPage = 0
    /\ TagPage \in SubPages /\ 0 \in Phys
    /\ Special \subseteq Phys
    /\ None \notin Int /\ None \notin Phys /\ None \notin Logical
BY SizesAssumption, SpecialAssumption, ValuesAssumption DEF TagPage, SubPages, Phys, Logical

(* Every address has a logical block and a sub page. *)
LEMMA AddressInZone ==
    ASSUME NEW a \in Nat
    PROVE  LogicalOf(a) \in Logical /\ PageOf(a) \in SubPages
<1> DEFINE size == NumLogical * NumSubPages
<1>1. size \in Nat \ {0}
  BY Geometry
<1>2. a % size \in 0 .. size - 1
  BY <1>1, DivMod
<1>3. (a % size) \div NumSubPages \in 0 .. NumLogical - 1
  BY <1>2, Geometry, DivBelow
<1>4. PageOf(a) \in SubPages
  BY Geometry, DivMod DEF PageOf, SubPages
<1> QED
  BY <1>3, <1>4 DEF LogicalOf, Logical

(* The cursor undoes the wrap of the one-byte counter. *)
LEMMA CursorValue ==
    ASSUME remain \in 0 .. NumSubPages - 1
    PROVE  /\ Cursor \in SubPages
           /\ remain = 0 => Cursor = 0
           /\ remain > 0 => Cursor = NumSubPages - remain
<1>1. remain = 0 => NumSubPages % NumSubPages = 0
  BY Geometry
<1>2. remain > 0 => (NumSubPages - remain) % NumSubPages = NumSubPages - remain
  BY Geometry
<1> QED
  BY <1>1, <1>2, Geometry DEF Cursor, AsByte, SubPages

-----------------------------------------------------------------------------
(* The table and the calls, whatever the flash holds: each step keeps      *)
(* TableInv.  None of this depends on the power staying on.                *)

(* What the invariant says of the counters, in the form the steps use. *)
LEMMA Counters ==
    ASSUME TableInv
    PROVE  /\ NumSubPages \in Nat \ {0} /\ remain \in 0 .. NumSubPages - 1
           /\ Cursor \in SubPages /\ Cursor \in 0 .. NumSubPages - 1
           /\ remain = 0 => Cursor = 0
           /\ remain > 0 => Cursor = NumSubPages - remain
           /\ copied \in 0 .. NumSubPages
BY CursorValue, Geometry DEF TableInv, TypeOK, SubPages

(* The new block of an open write is a writable block of the table, and    *)
(* the old one, when it is another block, is in nobody's way.              *)
LEMMA OpenBlocks ==
    ASSUME TableInv, Opened
    PROVE  /\ tag \in Logical /\ block \in Phys /\ oldBlock \in Phys
           /\ map[tag] = block /\ use[block]
           /\ block \notin Special /\ block >= BootBlocks
           /\ oldBlock \notin Special /\ oldBlock >= BootBlocks
           /\ \A l \in Logical : l # tag => map[l] # block
           /\ oldBlock # block => \A l \in Logical : map[l] # oldBlock
<1>1. /\ tag \in Logical /\ block \in Phys /\ oldBlock \in Phys
      /\ map[tag] = block /\ oldBlock \notin Special
      /\ oldBlock # block => ~use[oldBlock]
  BY DEF TableInv, TypeOK, BlocksInv
<1>2. map[tag] # None
  BY <1>1, Geometry
<1>3. use[block] /\ block \notin Special
  BY <1>1 DEF TableInv, UseIffMapped, BlocksInv
<1>4. \A l \in Logical : l # tag => map[l] # block
  BY <1>1, <1>2 DEF TableInv, UseIffMapped
<1>5. oldBlock # block => \A l \in Logical : map[l] # oldBlock
  BY <1>1 DEF TableInv, UseIffMapped
<1>6. \A b \in Phys \ Special : b >= BootBlocks
  BY SizesAssumption, SpecialAssumption DEF Phys
<1> QED
  BY <1>1, <1>3, <1>4, <1>5, <1>6

(* Steps that leave the table and the open block alone. *)
LEMMA QuietTable ==
    ASSUME TableInv, UNCHANGED <<lutVars, oldBlock, block>>,
           Opened' = Opened, Opened => tag' = tag
    PROVE  UseIffMapped' /\ BlocksInv'
<1>1. UseIffMapped'
  BY DEF TableInv, UseIffMapped, lutVars
<1>2. BlocksInv'
  BY DEF TableInv, BlocksInv, lutVars
<1> QED
  BY <1>1, <1>2

(* Whatever is programmed, a block holds sub pages. *)
LEMMA ProgramTyped ==
    ASSUME TableInv, NEW b \in Phys, NEW S, NEW vals \in [S -> SubPageContents],
           NEW t \in Logical \cup {None}, flash' = [flash EXCEPT ![b] = Programmed(b, vals, t)]
    PROVE  flash' \in [Phys -> [SubPages -> SubPageContents]]
<1>1. flash \in [Phys -> [SubPages -> SubPageContents]]
  BY DEF TableInv, TypeOK
<1>2. [data |-> Corrupt, tag |-> t] \in SubPageContents
  BY DEF SubPageContents
<1>3. Programmed(b, vals, t) \in [SubPages -> SubPageContents]
  BY <1>1, <1>2 DEF Programmed
<1> HIDE DEF Programmed
<1> QED
  BY <1>1, <1>3

(* A write call starts: nothing moves yet. *)
LEMMA WritePagesTable ==
    ASSUME TableInv, NEW kind \in {"write", "safe"}, NEW a \in Sectors,
           NEW n \in 1 .. MaxCount, NEW d \in Data, WritePages(kind, a, n, d)
    PROVE  TableInv' /\ Opened' = Opened
<1> USE DEF WritePages, lutVars, wrVars
<1>1. a \in Nat /\ n \in Nat /\ n > 0
  BY Geometry, SizesAssumption DEF Sectors
<1>2. req' \in Request
  BY <1>1 DEF Request
<1>3. TypeOK'
  BY <1>2, Counters DEF TableInv, TypeOK
<1>4. Cursor' = Cursor
  BY DEF Cursor
<1>5. ControlInv'
  BY <1>1, <1>4, Counters DEF TableInv, ControlInv
<1>6. Opened' = Opened
  BY Counters DEF Opened
<1>7. UseIffMapped' /\ BlocksInv'
  BY <1>6, QuietTable
<1> QED
  BY <1>3, <1>5, <1>6, <1>7 DEF TableInv

(* A read call starts. *)
LEMMA ReadPagesTable ==
    ASSUME TableInv, NEW a \in Sectors, ReadPages(a)
    PROVE  TableInv' /\ Opened' = Opened
<1> USE DEF ReadPages, lutVars, wrVars
<1>1. a \in Nat
  BY Geometry DEF Sectors
<1>2. req' \in Request
  BY <1>1 DEF Request
<1>3. TypeOK'
  BY <1>2, Counters DEF TableInv, TypeOK
<1>4. Cursor' = Cursor
  BY DEF Cursor
<1>5. ControlInv'
  BY <1>1, <1>4, Counters DEF TableInv, ControlInv
<1>6. Opened' = Opened
  BY Counters DEF Opened
<1>7. UseIffMapped' /\ BlocksInv'
  BY <1>6, QuietTable
<1> QED
  BY <1>3, <1>5, <1>6, <1>7 DEF TableInv

(* The pending tail is to be finished by clearStatus or shutdown. *)
LEMMA FinishPartialCopyTable ==
    ASSUME TableInv, FinishPartialCopy
    PROVE  TableInv' /\ Opened' = Opened
<1> USE DEF FinishPartialCopy, lutVars, wrVars
<1>1. req' \in Request
  BY DEF Request
<1>2. TypeOK'
  BY <1>1, Counters DEF TableInv, TypeOK
<1>3. Cursor' = Cursor
  BY DEF Cursor
<1>4. ControlInv'
  BY <1>3, Counters DEF TableInv, ControlInv
<1>5. Opened' = Opened
  BY Counters DEF Opened
<1>6. UseIffMapped' /\ BlocksInv'
  BY <1>5, QuietTable
<1> QED
  BY <1>2, <1>4, <1>5, <1>6 DEF TableInv

(* A read looks its block up and returns. *)
LEMMA ReadSubPageTable ==
    ASSUME TableInv, ReadSubPage
    PROVE  TableInv' /\ ~Opened /\ ~Opened'
<1> USE DEF ReadSubPage, lutVars
<1>1. req \in Request /\ req.addr \in Nat /\ LogicalOf(req.addr) \in Logical
  BY AddressInZone DEF TableInv, TypeOK, Request
<1>2. req' \in Request
  BY DEF Request, NoRequest
<1>3. TypeOK'
  BY <1>1, <1>2 DEF TableInv, TypeOK
<1>4. Cursor' = Cursor /\ remain = 0
  BY DEF Cursor, TableInv, ControlInv
<1>5. ControlInv'
  BY <1>4 DEF TableInv, ControlInv, NoRequest, BuiltCfg
<1>6. ~Opened' /\ ~Opened /\ Opened' = Opened
  BY <1>4 DEF Opened
<1>7. UseIffMapped' /\ BlocksInv'
  BY <1>6, QuietTable
<1> QED
  BY <1>3, <1>5, <1>6, <1>7 DEF TableInv

(* ndLog2Phy for a write: the free block is out of the table and gets in,  *)
(* the old one gets out and is left to this write alone.                   *)
Opens(l, pg, phy, free) ==
    /\ l = LogicalOf(req.addr) /\ l \in Logical
    /\ pg = PageOf(req.addr) /\ pg \in SubPages
    /\ free \in FreeBlocks /\ free \in Phys /\ ~use[free] /\ free \notin Special
    /\ phy \in Phys /\ phy \notin Special
    /\ phy = IF map[l] = None THEN free ELSE map[l]
    /\ phy # free => use[phy] /\ map[l] = phy
    /\ Remap(l, phy, free)
    /\ oldBlock' = phy /\ block' = free /\ tag' = l
    /\ copied' = 0 /\ Cursor' = pg /\ Done' = 0
    /\ remain' = AsByte(NumSubPages - pg) /\ remain' \in 0 .. NumSubPages - 1
    /\ pc = "open" /\ pc' = IF pg > 0 THEN "head" ELSE "fill"
    /\ ~Opened /\ Opened'
    /\ UNCHANGED <<flash, cfg, lastAddr, req, out>>

LEMMA OpenBlockOpens ==
    ASSUME TableInv, OpenBlock
    PROVE  \E l, pg, phy, free : Opens(l, pg, phy, free)
<1>1. PICK free \in FreeBlocks :
         LET l   == LogicalOf(req.addr)
             phy == IF map[l] = None THEN free ELSE map[l]
         IN  /\ Remap(l, phy, free)
             /\ oldBlock' = phy
             /\ block' = free
             /\ tag' = l
  BY DEF OpenBlock
<1> DEFINE l   == LogicalOf(req.addr)
           pg  == PageOf(req.addr)
           phy == IF map[l] = None THEN free ELSE map[l]
<1>2. l \in Logical /\ pg \in SubPages
  BY AddressInZone DEF TableInv, TypeOK, Request
<1>3. /\ remain' = AsByte(NumSubPages - pg) /\ copied' = 0 /\ pc = "open"
      /\ pc' = IF pg > 0 THEN "head" ELSE "fill"
      /\ UNCHANGED <<flash, cfg, lastAddr, req, out>>
  BY DEF OpenBlock
<1>4. remain = 0
  BY <1>3 DEF TableInv, ControlInv
<1>5. ~Opened /\ Opened'
  BY <1>3, <1>4 DEF Opened
<1>6. free \in Phys /\ ~use[free] /\ free \notin Special
  BY DEF FreeBlocks, TableInv, ControlInv, BuiltCfg
<1>7. phy \in Phys /\ (phy # free => use[phy] /\ map[l] = phy) /\ phy \notin Special
  BY <1>2, <1>6 DEF TableInv, TypeOK, UseIffMapped, BlocksInv
<1>8. /\ pg = 0 => remain' = 0
      /\ pg > 0 => remain' = NumSubPages - pg
      /\ remain' \in 0 .. NumSubPages - 1
  <2>1. NumSubPages % NumSubPages = 0
    BY Geometry
  <2>2. pg > 0 => (NumSubPages - pg) % NumSubPages = NumSubPages - pg
    BY <1>2, Geometry DEF SubPages
  <2> QED
    BY <1>2, <1>3, <2>1, <2>2, Geometry DEF SubPages, AsByte
<1> HIDE DEF l, pg, phy
<1>9. Cursor' = pg
  <2>1. Cursor' = (NumSubPages - remain') % NumSubPages
    BY DEF Cursor, AsByte
  <2>2. NumSubPages % NumSubPages = 0 /\ pg % NumSubPages = pg
    BY <1>2, Geometry DEF SubPages
  <2>3. pg > 0 => NumSubPages - remain' = pg
    BY <1>2, <1>8, Geometry DEF SubPages
  <2>4. pg \in 0 .. NumSubPages - 1
    BY <1>2 DEF SubPages
  <2>5. CASE pg = 0
    <3>1. NumSubPages - remain' = NumSubPages
      BY <2>5, <1>8, Geometry
    <3> QED
      BY <2>1, <2>2, <2>5, <3>1
  <2>6. CASE pg > 0
    BY <2>1, <2>2, <2>3, <2>6
  <2> QED
    BY <2>4, <2>5, <2>6
<1>10. Done' = 0
  BY <1>2, <1>3, <1>9 DEF Done, SubPages
<1>11. Opens(l, pg, phy, free)
  BY <1>1, <1>2, <1>3, <1>5, <1>6, <1>7, <1>8, <1>9, <1>10 DEF Opens, l, pg, phy
<1> QED
  BY <1>11

LEMMA OpenBlockTable ==
    ASSUME TableInv, NEW l, NEW pg, NEW phy, NEW free, Opens(l, pg, phy, free)
    PROVE  TableInv'
<1>1. /\ l \in Logical /\ pg \in SubPages /\ free \in Phys /\ phy \in Phys
      /\ ~use[free] /\ free \notin Special /\ phy \notin Special
      /\ phy = IF map[l] = None THEN free ELSE map[l]
      /\ phy # free => use[phy] /\ map[l] = phy
      /\ use' = [use EXCEPT ![phy] = FALSE, ![free] = TRUE]
      /\ map' = [map EXCEPT ![l] = free]
      /\ oldBlock' = phy /\ block' = free /\ tag' = l
      /\ copied' = 0 /\ Cursor' = pg /\ remain' \in 0 .. NumSubPages - 1
      /\ pc = "open" /\ pc' = IF pg > 0 THEN "head" ELSE "fill"
      /\ UNCHANGED <<flash, cfg, lastAddr, req, out>>
  BY DEF Opens, Remap
<1>2. \A m \in Logical : map[m] # free
  BY <1>1 DEF TableInv, UseIffMapped
<1>3. TypeOK'
  <2>1. /\ use' \in [Phys -> BOOLEAN] /\ map' \in [Logical -> Phys \cup {None}]
        /\ oldBlock' \in Phys /\ block' \in Phys /\ tag' \in Logical \cup {None}
    BY <1>1 DEF TableInv, TypeOK
  <2>2. pc' \in {"head", "fill"} /\ copied' \in 0 .. NumSubPages
    BY <1>1, Geometry
  <2> QED
    BY <1>1, <2>1, <2>2 DEF TableInv, TypeOK
<1>4. ControlInv'
  <2>1. cfg' = BuiltCfg'
    BY <1>1 DEF TableInv, ControlInv, BuiltCfg
  <2> QED
    BY <2>1, <1>1 DEF ControlInv, TableInv, SubPages
<1>5. UseIffMapped'
  <2>1. \A b \in Phys : use'[b] = IF b = free THEN TRUE ELSE IF b = phy THEN FALSE ELSE use[b]
    BY <1>1 DEF TableInv, TypeOK
  <2>2. \A m \in Logical : map'[m] = IF m = l THEN free ELSE map[m]
    BY <1>1 DEF TableInv, TypeOK
  <2>3. \A m \in Logical : m # l /\ phy # free => map[m] # phy
    BY <1>1, Geometry DEF TableInv, UseIffMapped
  <2>4. map[l] # None => map[l] = phy
    BY <1>1
  <2>5. \A b \in Phys : use'[b] <=> \E m \in Logical : map'[m] = b
    <3> SUFFICES ASSUME NEW b \in Phys PROVE use'[b] <=> \E m \in Logical : map'[m] = b
      OBVIOUS
    <3>1. CASE b = free
      BY <3>1, <2>1, <2>2, <1>1
    <3>2. CASE b # free /\ b = phy
      BY <3>2, <2>1, <2>2, <2>3
    <3>3. CASE b # free /\ b # phy
      <4>1. use[b] <=> \E m \in Logical : map[m] = b
        BY DEF TableInv, UseIffMapped
      <4>2. map[l] # b
        BY <3>3, <2>4, Geometry
      <4> QED
        BY <3>3, <4>1, <4>2, <2>1, <2>2
    <3> QED
      BY <3>1, <3>2, <3>3
  <2>6. \A m, k \in Logical : map'[m] # None /\ m # k => map'[m] # map'[k]
    BY <2>2, <1>2 DEF TableInv, UseIffMapped
  <2> QED
    BY <2>5, <2>6 DEF UseIffMapped
<1>6. BlocksInv'
  <2>1. \A b \in Special : ~use'[b]
    BY <1>1, Geometry DEF TableInv, TypeOK, BlocksInv
  <2>2. map'[l] = free
    BY <1>1 DEF TableInv, TypeOK
  <2>3. phy # free => ~use'[phy]
    BY <1>1 DEF TableInv, TypeOK
  <2> QED
    BY <2>1, <2>2, <2>3, <1>1 DEF BlocksInv
<1> QED
  BY <1>3, <1>4, <1>5, <1>6 DEF TableInv

(* A sub page is copied from a block to a block, under some tag. *)
LEMMA CopyTyped ==
    ASSUME TableInv, CopySubPage, Opened, copied < NumSubPages
    PROVE  flash' \in [Phys -> [SubPages -> SubPageContents]]
<1> DEFINE vals == [p \in {copied} |-> [data |-> flash[oldBlock][p].data, tag |-> tag]]
<1>1. copied \in SubPages
  BY Counters DEF SubPages
<1>2. vals \in [{copied} -> SubPageContents]
  <2>1. flash[oldBlock][copied] \in SubPageContents /\ tag \in Logical
    BY <1>1 DEF TableInv, TypeOK, BlocksInv
  <2> QED
    BY <2>1 DEF SubPageContents
<1>3. PICK t \in Logical \cup {None} :
         flash' = [flash EXCEPT ![block] = Programmed(block, vals, t)]
  BY DEF CopySubPage, AndedTags
<1>4. block \in Phys
  BY DEF TableInv, TypeOK
<1> HIDE DEF vals
<1> QED
  BY <1>2, <1>3, <1>4, ProgramTyped

(* One more sub page of the part before the sectors written. *)
LEMMA CopyHeadTable ==
    ASSUME TableInv, CopyHead
    PROVE  TableInv' /\ Opened /\ Opened' /\ copied < NumSubPages /\ Done' = copied + 1
<1>1. /\ pc = "head" /\ CopySubPage /\ copied' = copied + 1
      /\ pc' = IF copied' = Cursor THEN "fill" ELSE "head"
      /\ UNCHANGED <<lutVars, wrVars, req, out>>
  BY DEF CopyHead, CopySubPage
<1>2. copied < Cursor /\ req.left > 0 /\ copied < NumSubPages
  BY <1>1, Counters DEF TableInv, ControlInv
<1>3. Cursor' = Cursor
  BY <1>1 DEF Cursor, wrVars
<1>4. Opened /\ Opened' /\ Done' = copied + 1
  BY <1>1, <1>3 DEF Opened, Done
<1>5. flash' \in [Phys -> [SubPages -> SubPageContents]]
  BY <1>1, <1>2, <1>4, CopyTyped
<1>6. TypeOK'
  BY <1>1, <1>2, <1>5, Counters DEF TableInv, TypeOK, lutVars, wrVars
<1>7. ControlInv'
  BY <1>1, <1>2, <1>3, Counters DEF TableInv, ControlInv, lutVars, wrVars, BuiltCfg
<1>8. UseIffMapped' /\ BlocksInv'
  BY <1>1, <1>4, QuietTable DEF wrVars
<1> QED
  BY <1>2, <1>4, <1>6, <1>7, <1>8 DEF TableInv

(* One more sub page of the part after the sectors written. *)
LEMMA CopyTailTable ==
    ASSUME TableInv, CopyTail
    PROVE  TableInv' /\ Opened /\ Opened' /\ copied < NumSubPages /\ Done' = copied + 1
<1>1. /\ pc = "tail" /\ CopySubPage /\ copied' = copied + 1
      /\ pc' = IF copied' = NumSubPages THEN "erase" ELSE "tail"
      /\ UNCHANGED <<lutVars, wrVars, req, out>>
  BY DEF CopyTail, CopySubPage
<1>2. remain > 0 /\ Cursor <= copied /\ copied < NumSubPages
  BY <1>1 DEF TableInv, ControlInv
<1>3. Cursor' = Cursor /\ remain' = remain
  BY <1>1 DEF Cursor, wrVars
<1>4. Opened /\ Opened' /\ Done' = copied + 1
  BY <1>1, <1>2, <1>3 DEF Opened, Done
<1>5. flash' \in [Phys -> [SubPages -> SubPageContents]]
  BY <1>1, <1>2, <1>4, CopyTyped
<1>6. TypeOK'
  BY <1>1, <1>2, <1>5, Counters DEF TableInv, TypeOK, lutVars, wrVars
<1>7. ControlInv'
  BY <1>1, <1>2, <1>3, Counters DEF TableInv, ControlInv, lutVars, wrVars, BuiltCfg
<1>8. UseIffMapped' /\ BlocksInv'
  BY <1>1, <1>4, QuietTable DEF wrVars
<1> QED
  BY <1>2, <1>4, <1>6, <1>7, <1>8 DEF TableInv

(* The next n sectors of the call go to the next sub pages of the open     *)
(* block, no further than its end.                                         *)
Fills(n) ==
    /\ pc = "fill" /\ n <= req.left /\ Cursor + n <= NumSubPages
    /\ \E t \in Logical \cup {None} : flash' = [flash EXCEPT ![block] =
                         Programmed(block, [p \in Cursor .. Cursor + n - 1 |->
                                               [data |-> req.data, tag |-> tag]], t)]
    /\ lastAddr' = req.addr + n - 1
    /\ UNCHANGED <<lutVars, oldBlock, block, tag, out>>
    /\ \/ /\ remain' = 0 /\ pc' = "erase" /\ copied' = copied
          /\ req' = [req EXCEPT !.addr = @ + n, !.left = @ - n]
       \/ /\ remain' # 0 /\ n < req.left /\ pc' = "fill" /\ copied' = copied
          /\ req' = [req EXCEPT !.addr = @ + n, !.left = @ - n]
       \/ /\ remain' # 0 /\ n = req.left /\ pc' = "tail" /\ copied' = NumSubPages - remain'
          /\ req' = [req EXCEPT !.addr = @ + n, !.left = 0]
       \/ /\ remain' # 0 /\ n = req.left /\ pc' = "idle" /\ copied' = copied
          /\ req' = NoRequest
    /\ remain' \in 0 .. NumSubPages - 1
    /\ remain' # 0 => Cursor' = Cursor + n /\ NumSubPages - remain' = Cursor + n
    /\ remain' = 0 => Cursor + n = NumSubPages

LEMMA FillCount ==
    ASSUME TableInv, FillPage
    PROVE  \E n \in Nat \ {0} : Fills(n)
<1> DEFINE room  == SubPerPage - (Cursor % SubPerPage)
           n     == IF req.left < room THEN req.left ELSE room
           vals  == [p \in Cursor .. Cursor + n - 1 |-> [data |-> req.data, tag |-> tag]]
<1>1. /\ pc = "fill"
      /\ \E t \in Logical \cup {None} : flash' = [flash EXCEPT ![block] = Programmed(block, vals, t)]
      /\ remain' = (NumSubPages + remain - n) % NumSubPages
      /\ lastAddr' = req.addr + n - 1
      /\ UNCHANGED <<lutVars, oldBlock, block, tag, out>>
  BY DEF FillPage, AsByte, AndedTags
<1>2. req \in Request /\ req.left \in Nat /\ req.left > 0 /\ req.addr \in Nat
      /\ req.data \in Data \cup {None}
  BY <1>1 DEF TableInv, TypeOK, ControlInv, Request
<1>3. Cursor \in Nat /\ Cursor < NumSubPages /\ Cursor \in 0 .. NumSubPages - 1
  BY Counters DEF TableInv
<1>4. room \in 1 .. SubPerPage /\ Cursor + room <= NumSubPages
  BY <1>3, Geometry, RoundUp
<1>5. n \in Nat /\ n > 0 /\ n <= req.left /\ Cursor + n <= NumSubPages
  BY <1>2, <1>3, <1>4, Geometry
<1>6. /\ Cursor + n = NumSubPages => remain' = 0
      /\ Cursor + n < NumSubPages => /\ remain' = NumSubPages - (Cursor + n)
                                     /\ Cursor' = Cursor + n
  <2> HIDE DEF n
  <2>1. remain' = (NumSubPages + remain - n) % NumSubPages
    BY <1>1
  <2>2. Cursor' = (NumSubPages - remain') % NumSubPages
    BY DEF Cursor, AsByte
  <2>3. /\ Cursor + n = NumSubPages => (NumSubPages + remain - n) % NumSubPages = 0
        /\ Cursor + n < NumSubPages =>
             /\ (NumSubPages + remain - n) % NumSubPages = NumSubPages - (Cursor + n)
             /\ (NumSubPages - (NumSubPages - (Cursor + n))) % NumSubPages = Cursor + n
    BY <1>3, <1>5, Counters, RemainAfter DEF TableInv
  <2> QED
    BY <2>1, <2>2, <2>3
<1>7. \/ /\ remain' = 0 /\ pc' = "erase" /\ copied' = copied
         /\ req' = [req EXCEPT !.addr = @ + n, !.left = @ - n]
      \/ /\ remain' # 0 /\ n < req.left /\ pc' = "fill" /\ copied' = copied
         /\ req' = [req EXCEPT !.addr = @ + n, !.left = @ - n]
      \/ /\ remain' # 0 /\ n = req.left /\ pc' = "tail" /\ copied' = NumSubPages - remain'
         /\ req' = [req EXCEPT !.addr = @ + n, !.left = 0]
      \/ /\ remain' # 0 /\ n = req.left /\ pc' = "idle" /\ copied' = copied /\ req' = NoRequest
  BY DEF FillPage
<1> HIDE DEF n, room
<1>8. /\ remain' \in 0 .. NumSubPages - 1
      /\ remain' # 0 => Cursor' = Cursor + n /\ NumSubPages - remain' = Cursor + n
      /\ remain' = 0 => Cursor + n = NumSubPages
  <2>1. CASE Cursor + n = NumSubPages
    BY <2>1, <1>6, Counters DEF TableInv
  <2>2. CASE Cursor + n < NumSubPages
    BY <2>2, <1>3, <1>5, <1>6, Counters DEF TableInv
  <2> QED
    BY <2>1, <2>2, <1>3, <1>5, Counters DEF TableInv
<1>9. Fills(n)
  BY <1>1, <1>5, <1>7, <1>8 DEF Fills
<1> QED
  BY <1>5, <1>9

(* The sectors that fit in the page are programmed; then the block is      *)
(* full, or the call goes on, ends, or copies the tail.                    *)
LEMMA FillPageTable ==
    ASSUME TableInv, NEW n \in Nat \ {0}, Fills(n)
    PROVE  TableInv' /\ Opened /\ Opened' /\ Done = Cursor /\ Done' = Cursor + n
<1> DEFINE vals == [p \in Cursor .. Cursor + n - 1 |-> [data |-> req.data, tag |-> tag]]
<1>1. /\ pc = "fill" /\ lastAddr' = req.addr + n - 1
      /\ \E t \in Logical \cup {None} :
            flash' = [flash EXCEPT ![block] = Programmed(block, vals, t)]
      /\ UNCHANGED <<lutVars, oldBlock, block, tag, out>>
  BY DEF Fills
<1>2. req \in Request /\ req.left \in Nat /\ req.addr \in Nat /\ req.data \in Data \cup {None}
  BY DEF TableInv, TypeOK, Request
<1>3. Cursor \in Nat /\ Cursor < NumSubPages /\ Cursor \in 0 .. NumSubPages - 1
  BY Counters DEF TableInv
<1>4. n \in Nat /\ n > 0 /\ n <= req.left /\ Cursor + n <= NumSubPages
  BY DEF Fills
<1>5. \/ /\ remain' = 0 /\ pc' = "erase" /\ copied' = copied
         /\ req' = [req EXCEPT !.addr = @ + n, !.left = @ - n]
      \/ /\ remain' # 0 /\ n < req.left /\ pc' = "fill" /\ copied' = copied
         /\ req' = [req EXCEPT !.addr = @ + n, !.left = @ - n]
      \/ /\ remain' # 0 /\ pc' = "tail" /\ copied' = NumSubPages - remain'
         /\ req' = [req EXCEPT !.addr = @ + n, !.left = 0]
      \/ /\ remain' # 0 /\ pc' = "idle" /\ copied' = copied /\ req' = NoRequest
  BY DEF Fills
<1>6. /\ remain' \in 0 .. NumSubPages - 1
      /\ remain' # 0 => Cursor' = Cursor + n /\ NumSubPages - remain' = Cursor + n
      /\ remain' = 0 => Cursor + n = NumSubPages
  BY DEF Fills
<1>7. Opened /\ Done = Cursor
  BY <1>1 DEF Opened, Done
<1>8. Opened'
  BY <1>5, <1>6 DEF Opened
<1>9. Done' = Cursor + n
  BY <1>5, <1>6 DEF Done
<1>10. vals \in [Cursor .. Cursor + n - 1 -> SubPageContents]
  <2>1. tag \in Logical
    BY <1>7 DEF TableInv, BlocksInv
  <2>2. req.data \in Data \cup {Blank, Corrupt}
    BY <1>1 DEF TableInv, ControlInv
  <2> QED
    BY <2>1, <2>2 DEF SubPageContents
<1> HIDE DEF vals
<1>11. flash' \in [Phys -> [SubPages -> SubPageContents]]
  <2>1. block \in Phys
    BY DEF TableInv, TypeOK
  <2> QED
    BY <1>1, <1>10, <2>1, ProgramTyped
<1>12. UseIffMapped' /\ BlocksInv'
  BY <1>1, <1>7, <1>8, QuietTable
<1>14. req' \in Request /\ (pc' = "fill" => req'.left > 0)
       /\ (req'.kind = req.kind \/ req' = NoRequest) /\ (req'.data = req.data \/ req' = NoRequest)
  <2>1. NoRequest \in Request
    BY DEF Request, NoRequest
  <2>2. req.addr + n \in Nat /\ req.left - n \in Nat /\ (n < req.left => req.left - n > 0)
    BY <1>2, <1>4
  <2>3. ASSUME NEW k \in Nat, req' = [req EXCEPT !.addr = @ + n, !.left = k]
        PROVE  /\ req' \in Request /\ req'.left = k
               /\ req'.kind = req.kind /\ req'.data = req.data
    BY <1>2, <2>2, <2>3 DEF Request
  <2>4. CASE req' = [req EXCEPT !.addr = @ + n, !.left = @ - n]
    <3>1. req' = [req EXCEPT !.addr = @ + n, !.left = req.left - n]
      BY <2>4, <1>2 DEF Request
    <3>2. /\ req' \in Request /\ req'.left = req.left - n
          /\ req'.kind = req.kind /\ req'.data = req.data
      BY <2>2, <2>3, <3>1
    <3>3. pc' = "fill" => n < req.left
      BY <1>5
    <3> QED
      BY <2>2, <3>2, <3>3
  <2>5. CASE req' = [req EXCEPT !.addr = @ + n, !.left = 0] /\ pc' # "fill"
    BY <2>3, <2>5
  <2>6. CASE req' = NoRequest /\ pc' # "fill"
    BY <2>1, <2>6
  <2> QED
    BY <1>5, <2>4, <2>5, <2>6
<1>15. TypeOK'
  <2>1. lastAddr' \in Int
    BY <1>1, <1>2, <1>4
  <2>2. pc' \in {"idle", "fill", "tail", "erase"}
    BY <1>5
  <2>3. copied' = copied \/ (remain' # 0 /\ copied' = NumSubPages - remain')
    BY <1>5
  <2>4. copied' \in 0 .. NumSubPages
    BY <1>6, <2>3, Counters DEF TableInv
  <2> QED
    BY <1>1, <1>6, <1>11, <1>14, <2>1, <2>2, <2>4 DEF TableInv, TypeOK, lutVars
<1>16. ControlInv'
  <2>1. pc' = "tail" => remain' > 0 /\ Cursor' <= copied' /\ copied' < NumSubPages
    BY <1>3, <1>4, <1>5, <1>6, Counters DEF TableInv
  <2>2. pc' \in {"idle", "fill", "tail", "erase"}
    BY <1>5
  <2>3. req.kind \in {"write", "safe"} /\ req.data \in Data /\ cfg = BuiltCfg
    BY <1>1 DEF TableInv, ControlInv
  <2> QED
    BY <1>1, <1>14, <2>1, <2>2, <2>3 DEF ControlInv, NoRequest, BuiltCfg, lutVars
<1> QED
  BY <1>7, <1>8, <1>9, <1>12, <1>15, <1>16 DEF TableInv

(* The old block goes, and with it the write. *)
LEMMA EraseOldTable ==
    ASSUME TableInv, EraseOld
    PROVE  TableInv' /\ Opened /\ ~Opened'
<1>1. /\ pc = "erase" /\ remain' = 0 /\ pc' \in {"idle", "read", "open"}
      /\ flash' = IF oldBlock = block THEN flash
                  ELSE [flash EXCEPT ![oldBlock] = ErasedBlock(oldBlock)]
      /\ UNCHANGED <<lutVars, oldBlock, block, tag, lastAddr, copied, out>>
      /\ \/ pc' = "idle" /\ req' = NoRequest
         \/ pc' = "read" /\ req' = req /\ req.left > 0
         \/ pc' = "open" /\ req' = req /\ req.left > 0 /\ req.kind # "read"
  BY DEF EraseOld
<1>2. Opened /\ ~Opened'
  BY <1>1 DEF Opened
<1>3. flash' \in [Phys -> [SubPages -> SubPageContents]]
  <2>1. oldBlock \in Phys /\ flash \in [Phys -> [SubPages -> SubPageContents]]
    BY DEF TableInv, TypeOK
  <2>2. ErasedBlock(oldBlock) \in [SubPages -> SubPageContents]
    BY <2>1 DEF ErasedBlock, Erased, SubPageContents
  <2> QED
    BY <1>1, <2>1, <2>2
<1>4. req \in Request /\ req' \in Request
  BY <1>1 DEF TableInv, TypeOK, Request, NoRequest
<1>5. TypeOK'
  BY <1>1, <1>3, <1>4, Counters DEF TableInv, TypeOK, lutVars
<1>6. ControlInv'
  <2>1. req.kind \in {"write", "safe"} => req.data \in Data
    BY DEF TableInv, ControlInv
  <2>2. req.kind \in {"none", "flush"} => req.left = 0
    BY DEF TableInv, ControlInv
  <2>3. req.kind \in {"none", "write", "safe", "read", "flush"} /\ req.left \in Nat
    BY <1>4 DEF Request
  <2>4. cfg' = BuiltCfg'
    BY <1>1 DEF TableInv, ControlInv, BuiltCfg, lutVars
  <2> QED
    BY <1>1, <2>1, <2>2, <2>3, <2>4 DEF ControlInv, NoRequest
<1>7. UseIffMapped'
  BY <1>1 DEF TableInv, UseIffMapped, lutVars
<1>8. BlocksInv'
  BY <1>1, <1>2 DEF TableInv, BlocksInv, lutVars
<1> QED
  BY <1>2, <1>5, <1>6, <1>7, <1>8 DEF TableInv

(* No set of naturals descends for ever. *)
LEMMA NatLess == IsWellFoundedOn({ss \in Nat \X Nat : ss[1] < ss[2]}, Nat)
BY NatLessThanWellFounded DEF OpToRel

(* The lowest of a set of blocks is one of them. *)
LEMMA LowestIn ==
    ASSUME NEW S \in SUBSET Nat, S # {}
    PROVE  Lowest(S) \in S
<1> DEFINE R == {ss \in Nat \X Nat : ss[1] < ss[2]}
<1>1. IsWellFoundedOn(R, Nat)
  BY NatLess
<1>2. \A x, y \in Nat : x < y => <<x, y>> \in R
  OBVIOUS
<1> HIDE DEF R
<1>3. PICK b \in S : \A c \in S : ~(<<c, b>> \in R)
  BY <1>1, WFMin, Zenon
<1>4. b \in S /\ \A c \in S : b <= c
  <2> SUFFICES ASSUME NEW c \in S, ~(b <= c) PROVE FALSE
    BY <1>3
  <2>1. c \in Nat /\ b \in Nat
    BY <1>3
  <2>2. c < b
    BY <2>1
  <2> QED
    BY <1>2, <1>3, <2>1, <2>2
<1> QED
  BY <1>4 DEF Lowest

(* ndBuildLUT makes a sound table out of any flash: no block can carry two *)
(* tags, and a block gets its flag together with its logical block.        *)
LEMMA StartUpTable ==
    ASSUME TableInv, StartUp
    PROVE  TableInv' /\ ~Opened'
<1> USE DEF StartUp
<1>1. \A l \in Logical : Tagged(l) \in SUBSET Phys
  BY DEF Tagged
<1>2. \A l \in Logical : Tagged(l) # {} => Lowest(Tagged(l)) \in Tagged(l)
  <2>1. Phys \subseteq Nat
    BY DEF Phys
  <2> QED
    BY <1>1, <2>1, LowestIn
<1>3. /\ \A l \in Logical : map'[l] = IF Tagged(l) = {} THEN None ELSE Lowest(Tagged(l))
      /\ \A b \in Phys : use'[b] = \E l \in Logical : Tagged(l) # {} /\ b = Lowest(Tagged(l))
  BY DEF BuiltMap, BuiltUse
<1>4. ~Opened'
  BY DEF Opened
<1>5. TypeOK'
  <2>1. map' \in [Logical -> Phys \cup {None}]
    BY <1>1, <1>2 DEF BuiltMap
  <2>2. use' \in [Phys -> BOOLEAN] /\ cfg' \in [Phys -> BOOLEAN]
    BY DEF BuiltUse, BuiltCfg
  <2> QED
    BY <2>1, <2>2, Geometry DEF TableInv, TypeOK, Request, NoRequest
<1>6. ControlInv'
  BY DEF TableInv, ControlInv, NoRequest, BuiltCfg
<1>7. UseIffMapped'
  <2>1. \A b \in Phys : use'[b] <=> \E l \in Logical : map'[l] = b
    <3> SUFFICES ASSUME NEW b \in Phys PROVE use'[b] <=> \E l \in Logical : map'[l] = b
      OBVIOUS
    <3>1. \A l \in Logical : (Tagged(l) # {} /\ b = Lowest(Tagged(l))) <=> map'[l] = b
      BY <1>3, Geometry
    <3> QED
      BY <1>3, <3>1
  <2>2. ASSUME NEW l \in Logical, NEW m \in Logical, map'[l] # None, map'[l] = map'[m]
        PROVE  l = m
    <3>1. Tagged(l) # {} /\ map'[l] \in Tagged(l)
      BY <1>2, <1>3, <2>2
    <3>2. Tagged(m) # {} /\ map'[l] \in Tagged(m)
      BY <1>2, <1>3, <2>2
    <3> QED
      BY <3>1, <3>2 DEF Tagged
  <2> QED
    BY <2>1, <2>2 DEF UseIffMapped
<1>8. BlocksInv'
  <2>1. \A b \in Special, l \in Logical : b \notin Tagged(l)
    BY DEF Tagged
  <2>2. \A b \in Special : b \in Phys
    BY Geometry
  <2>3. \A b \in Special : ~use'[b]
    BY <1>2, <1>3, <2>1, <2>2
  <2> QED
    BY <1>4, <2>3 DEF BlocksInv
<1> QED
  BY <1>4, <1>5, <1>6, <1>7, <1>8 DEF TableInv

LEMMA RestartTable ==
    ASSUME TableInv, Restart
    PROVE  TableInv'
BY StartUpTable DEF Restart

LEMMA StutterTable ==
    ASSUME TableInv,
           UNCHANGED <<flash, map, use, cfg, oldBlock, block, remain, tag, lastAddr,
                       copied, req, out, pc>>
    PROVE  TableInv'
<1>1. TypeOK'
  BY DEF TableInv, TypeOK
<1>2. ControlInv'
  BY DEF TableInv, ControlInv, BuiltCfg, Cursor
<1>3. Opened' = Opened
  BY DEF Opened
<1>4. UseIffMapped' /\ BlocksInv'
  BY <1>3, QuietTable DEF lutVars
<1> QED
  BY <1>1, <1>2, <1>4 DEF TableInv

(* No step, with the power on, spoils the table. *)
LEMMA NextTable ==
    ASSUME TableInv, [Next]_vars
    PROVE  TableInv'
<1>1. CASE Call
  BY <1>1, WritePagesTable, ReadPagesTable, FinishPartialCopyTable DEF Call
<1>2. CASE OpenBlock
  BY <1>2, OpenBlockOpens, OpenBlockTable
<1>3. CASE CopyHead \/ CopyTail
  BY <1>3, CopyHeadTable, CopyTailTable
<1>4. CASE FillPage
  BY <1>4, FillCount, FillPageTable
<1>5. CASE EraseOld
  BY <1>5, EraseOldTable
<1>6. CASE ReadSubPage
  BY <1>6, ReadSubPageTable
<1>7. CASE Restart
  BY <1>7, RestartTable
<1>8. CASE UNCHANGED vars
  BY <1>8, StutterTable DEF vars, lutVars, wrVars
<1> QED
  BY <1>1, <1>2, <1>3, <1>4, <1>5, <1>6, <1>7, <1>8 DEF Next, DriverStep

-----------------------------------------------------------------------------
(* Steps that leave the flash and the table alone keep the parts of the    *)
(* invariant that speak of them.                                           *)
LEMMA QuietPreserves ==
    ASSUME SafeInv, UNCHANGED <<flash, lutVars, oldBlock, block>>,
           Opened' = Opened, Opened => tag' = tag /\ Done' = Done
    PROVE  TagsInv' /\ FreeIsErased'
<1> USE DEF lutVars
<1>3. TagsInv'
  <2>1. ~Opened => TagsInv'
    BY DEF SafeInv, TableInv, TagsInv
  <2>2. Opened => TagsInv'
    BY DEF SafeInv, TableInv, TagsInv
  <2> QED
    BY <2>1, <2>2
<1>4. FreeIsErased'
  BY DEF SafeInv, TableInv, FreeIsErased, FreeBlocks
<1> QED
  BY <1>3, <1>4

(* Programming the next n sub pages of the open block meets only erased    *)
(* ones, so that they get exactly the values meant for them.               *)
LEMMA ProgramsErased ==
    ASSUME SafeInv, Opened, NEW n \in Nat, Done \in Nat, Done + n <= NumSubPages,
           NEW vals \in [Done .. Done + n - 1 -> SubPageContents], NEW t,
           flash' = [flash EXCEPT ![block] = Programmed(block, vals, t)]
    PROVE  /\ flash' \in [Phys -> [SubPages -> SubPageContents]]
           /\ \A b \in Phys : b # block => flash'[b] = flash[b]
           /\ \A p \in SubPages : flash'[block][p] = IF p \in Done .. Done + n - 1
                                                     THEN vals[p] ELSE flash[block][p]
<1> DEFINE new == Programmed(block, vals, t)
<1>1. flash \in [Phys -> [SubPages -> SubPageContents]] /\ block \in Phys
  BY DEF SafeInv, TableInv, TypeOK
<1>2. \A p \in SubPages : p \in Done .. Done + n - 1 => flash[block][p] = Erased
  <2>1. \A p \in SubPages : p >= Done => flash[block][p] = Erased
    BY DEF SafeInv, TableInv, TagsInv
  <2> QED
    BY <2>1 DEF SubPages
<1>3. /\ new \in [SubPages -> SubPageContents]
      /\ \A p \in SubPages : new[p] = IF p \in Done .. Done + n - 1
                                      THEN vals[p] ELSE flash[block][p]
  <2>1. ~(block < BootBlocks)
    BY OpenBlocks, SizesAssumption DEF SafeInv, Phys
  <2>2. DOMAIN vals = Done .. Done + n - 1
    OBVIOUS
  <2>3. \A p \in SubPages : new[p] = IF p \in Done .. Done + n - 1
                                      THEN vals[p] ELSE flash[block][p]
    BY <1>2, <2>1, <2>2 DEF Programmed
  <2>4. \A p \in SubPages : new[p] \in SubPageContents
    BY <2>3, <1>1
  <2>5. new = [p \in SubPages |-> new[p]]
    BY DEF Programmed
  <2> HIDE DEF new
  <2> QED
    BY <2>3, <2>4, <2>5
<1> HIDE DEF new
<1>4. flash' = [flash EXCEPT ![block] = new]
  BY DEF new
<1>5. flash'[block] = new /\ \A b \in Phys : b # block => flash'[b] = flash[b]
  BY <1>1, <1>4
<1>6. flash' \in [Phys -> [SubPages -> SubPageContents]]
  BY <1>1, <1>3, <1>4
<1> QED
  BY <1>3, <1>5, <1>6

(* Such a step keeps the invariant as long as the block stays open and the *)
(* cursor moves with it.                                                   *)
LEMMA ProgramPreserves ==
    ASSUME SafeInv, Opened, NEW n \in Nat, Done \in Nat, Done + n <= NumSubPages,
           NEW vals \in [Done .. Done + n - 1 -> SubPageContents], NEW t,
           \A p \in Done .. Done + n - 1 : vals[p].tag = tag,
           flash' = [flash EXCEPT ![block] = Programmed(block, vals, t)],
           UNCHANGED <<lutVars, oldBlock, block, tag>>,
           Opened', Done' = Done + n
    PROVE  TagsInv' /\ FreeIsErased'
<1>1. /\ flash' \in [Phys -> [SubPages -> SubPageContents]]
      /\ \A b \in Phys : b # block => flash'[b] = flash[b]
      /\ \A p \in SubPages : flash'[block][p] = IF p \in Done .. Done + n - 1
                                                THEN vals[p] ELSE flash[block][p]
  BY ProgramsErased
<1>3. TagsInv'
  <2>1. \A l \in Logical, p \in SubPages :
          map'[l] # None /\ ~(Opened' /\ l = tag') => flash'[map'[l]][p].tag = l
    <3> SUFFICES ASSUME NEW l \in Logical, NEW p \in SubPages, map[l] # None, l # tag
                 PROVE  flash'[map[l]][p].tag = l
      BY DEF lutVars
    <3>1. map[l] \in Phys /\ map[l] # block
      BY OpenBlocks DEF SafeInv, TableInv, TypeOK
    <3>2. flash[map[l]][p].tag = l
      BY DEF SafeInv, TableInv, TagsInv
    <3> QED
      BY <3>1, <3>2, <1>1
  <2>2. \A p \in SubPages : /\ p < Done' => flash'[block'][p].tag = tag'
                            /\ p >= Done' => flash'[block'][p] = Erased
    <3> SUFFICES ASSUME NEW p \in SubPages
                 PROVE  /\ p < Done + n => flash'[block][p].tag = tag
                        /\ p >= Done + n => flash'[block][p] = Erased
      OBVIOUS
    <3>1. /\ p < Done => flash[block][p].tag = tag
          /\ p >= Done => flash[block][p] = Erased
      BY DEF SafeInv, TableInv, TagsInv
    <3>2. p \in Nat
      BY DEF SubPages
    <3> QED
      BY <3>1, <3>2, <1>1
  <2>3. oldBlock' # block' => \A p \in SubPages : flash'[oldBlock'][p].tag = tag'
    BY <1>1, OpenBlocks DEF SafeInv, TableInv, TagsInv
  <2> QED
    BY <2>1, <2>2, <2>3 DEF TagsInv
<1>4. FreeIsErased'
  <2> SUFFICES ASSUME NEW b \in Phys, ~use[b], ~cfg[b], b # oldBlock,
                      NEW p \in SubPages
               PROVE  flash'[b][p] = Erased
    BY DEF FreeIsErased, FreeBlocks, lutVars
  <2>1. b # block
    BY OpenBlocks DEF SafeInv
  <2>2. flash[b][p] = Erased
    BY DEF SafeInv, TableInv, FreeIsErased, FreeBlocks
  <2> QED
    BY <2>1, <2>2, <1>1
<1> QED
  BY <1>3, <1>4

-----------------------------------------------------------------------------
(* The steps of the driver while the power stays on: what they do to the   *)
(* tags and to the free blocks.                                            *)

(* The initial state satisfies the invariant. *)
LEMMA InitSafe == Init => SafeInv
<1> SUFFICES ASSUME Init PROVE SafeInv
  OBVIOUS
<1> USE DEF Init
<1>1. TypeOK
  BY Geometry DEF TypeOK, BuiltCfg, SubPageContents, Erased, Request, NoRequest
<1>2. ControlInv /\ UseIffMapped
  BY Geometry DEF ControlInv, UseIffMapped, NoRequest
<1>3. ~Opened
  BY DEF Opened
<1>4. BlocksInv
  BY <1>3, Geometry DEF BlocksInv
<1>5. TagsInv
  BY <1>3 DEF TagsInv
<1>6. FreeIsErased
  BY DEF FreeIsErased, FreeBlocks
<1> QED
  BY <1>1, <1>2, <1>4, <1>5, <1>6 DEF SafeInv, TableInv

(* A call starts: nothing moves yet. *)
LEMMA CallSafe ==
    ASSUME SafeInv, Call
    PROVE  SafeInv'
<1>1. TableInv' /\ Opened' = Opened
  BY WritePagesTable, ReadPagesTable, FinishPartialCopyTable DEF SafeInv, Call
<1>2. UNCHANGED <<flash, lutVars, oldBlock, block, tag, remain>>
  BY DEF Call, WritePages, ReadPages, FinishPartialCopy, wrVars
<1>3. Cursor' = Cursor
  BY <1>2 DEF Cursor
<1>4. Opened => Done' = Done
  <2>1. Opened /\ pc = "idle" => remain > 0
    BY Counters DEF Opened, SafeInv
  <2> QED
    BY <2>1, <1>3, Counters
       DEF Call, WritePages, ReadPages, FinishPartialCopy, Done, Opened, SafeInv
<1>5. TagsInv' /\ FreeIsErased'
  BY <1>1, <1>2, <1>4, QuietPreserves
<1> QED
  BY <1>1, <1>5 DEF SafeInv

(* A read looks its block up and returns. *)
LEMMA ReadSubPageSafe ==
    ASSUME SafeInv, ReadSubPage
    PROVE  SafeInv'
<1>1. TableInv' /\ ~Opened /\ ~Opened'
  BY ReadSubPageTable DEF SafeInv
<1>2. UNCHANGED <<flash, lutVars, oldBlock, block>> /\ Opened' = Opened
  BY <1>1 DEF ReadSubPage, Opened
<1>3. TagsInv' /\ FreeIsErased'
  BY <1>1, <1>2, QuietPreserves
<1> QED
  BY <1>1, <1>3 DEF SafeInv

(* ndLog2Phy for a write: the free block is erased and out of the table,   *)
(* the old one, if there is one, is left to this write alone.              *)
LEMMA OpenBlockSafe ==
    ASSUME SafeInv, OpenBlock
    PROVE  SafeInv'
<1>0. PICK l, pg, phy, free : Opens(l, pg, phy, free)
  BY OpenBlockOpens DEF SafeInv
<1>1. TableInv'
  BY <1>0, OpenBlockTable DEF SafeInv
<1>2. /\ l \in Logical /\ free \in FreeBlocks /\ free \in Phys /\ phy \in Phys
      /\ ~use[free] /\ free \notin Special
      /\ phy # free => use[phy] /\ map[l] = phy
      /\ use' = [use EXCEPT ![phy] = FALSE, ![free] = TRUE]
      /\ map' = [map EXCEPT ![l] = free]
      /\ oldBlock' = phy /\ block' = free /\ tag' = l /\ Done' = 0
      /\ ~Opened /\ Opened' /\ UNCHANGED <<flash, cfg>>
  BY <1>0 DEF Opens, Remap
<1>3. TagsInv'
  <2>1. \A m \in Logical, p \in SubPages :
          map'[m] # None /\ ~(Opened' /\ m = tag') => flash'[map'[m]][p].tag = m
    BY <1>2 DEF SafeInv, TableInv, TypeOK, TagsInv
  <2>2. \A p \in SubPages : flash[free][p] = Erased
    BY <1>2 DEF SafeInv, FreeIsErased
  <2>3. \A p \in SubPages : ~(p < Done') /\ flash'[block'][p] = Erased
    BY <1>2, <2>2 DEF SubPages
  <2>4. oldBlock' # block' => \A p \in SubPages : flash'[oldBlock'][p].tag = tag'
    BY <1>2, Geometry DEF SafeInv, TagsInv
  <2> QED
    BY <2>1, <2>3, <2>4 DEF TagsInv
<1>4. FreeIsErased'
  <2> SUFFICES ASSUME NEW b \in Phys, ~use'[b], ~cfg'[b], b # oldBlock', NEW p \in SubPages
               PROVE  flash'[b][p] = Erased
    BY <1>2 DEF FreeIsErased, FreeBlocks
  <2>1. ~use[b] /\ ~cfg[b]
    BY <1>2 DEF SafeInv, TableInv, TypeOK
  <2> QED
    BY <2>1, <1>2 DEF SafeInv, FreeIsErased, FreeBlocks
<1> QED
  BY <1>1, <1>3, <1>4 DEF SafeInv

(* The copy loops program the sub page at the cursor of the copy. *)
LEMMA CopySafe ==
    ASSUME SafeInv, CopyHead \/ CopyTail
    PROVE  SafeInv'
<1>0. TableInv' /\ Opened /\ Opened' /\ copied < NumSubPages /\ Done' = copied + 1
  BY CopyHeadTable, CopyTailTable DEF SafeInv
<1>1. Done = copied /\ CopySubPage /\ UNCHANGED <<lutVars, wrVars>>
  BY DEF CopyHead, CopyTail, Done
<1>2. copied \in Nat
  BY Counters DEF SafeInv
<1>3. copied \in SubPages /\ Done .. Done + 1 - 1 = {copied}
  <2>1. copied .. copied + 1 - 1 = {copied}
    BY <1>2
  <2> QED
    BY <1>0, <1>1, <1>2, <2>1, Counters DEF SubPages, SafeInv
<1> DEFINE vals == [p \in {copied} |-> [data |-> flash[oldBlock][p].data, tag |-> tag]]
<1>4. vals \in [Done .. Done + 1 - 1 -> SubPageContents]
  <2>1. flash[oldBlock][copied] \in SubPageContents /\ tag \in Logical
    BY <1>0, <1>3, OpenBlocks DEF SafeInv, TableInv, TypeOK
  <2> QED
    BY <1>3, <2>1 DEF SubPageContents
<1>5. \A p \in Done .. Done + 1 - 1 : vals[p].tag = tag
  BY <1>3
<1>6. PICK t \in AndedTags(block, {copied}) :
        flash' = [flash EXCEPT ![block] = Programmed(block, vals, t)]
  BY <1>1 DEF CopySubPage
<1> HIDE DEF vals
<1>7. Done' = Done + 1 /\ Done \in Nat /\ Done + 1 <= NumSubPages
  BY <1>0, <1>1, <1>2, Counters DEF SafeInv
<1>8. UNCHANGED <<lutVars, oldBlock, block, tag>>
  BY <1>1 DEF wrVars
<1>9. TagsInv' /\ FreeIsErased'
  BY <1>0, <1>4, <1>5, <1>6, <1>7, <1>8, ProgramPreserves
<1> QED
  BY <1>0, <1>9 DEF SafeInv

LEMMA FillPageSafe ==
    ASSUME SafeInv, FillPage
    PROVE  SafeInv'
<1>0. PICK n \in Nat \ {0} : Fills(n)
  BY FillCount DEF SafeInv
<1> DEFINE vals == [p \in Cursor .. Cursor + n - 1 |-> [data |-> req.data, tag |-> tag]]
<1>1. TableInv' /\ Opened /\ Opened' /\ Done = Cursor /\ Done' = Cursor + n
  BY <1>0, FillPageTable DEF SafeInv
<1>2. /\ pc = "fill" /\ Cursor + n <= NumSubPages
      /\ \E t : flash' = [flash EXCEPT ![block] = Programmed(block, vals, t)]
      /\ UNCHANGED <<lutVars, oldBlock, block, tag>>
  BY <1>0 DEF Fills
<1>3. vals \in [Done .. Done + n - 1 -> SubPageContents]
  <2>1. tag \in Logical /\ req.data \in Data \cup {Blank, Corrupt}
    BY <1>1, <1>2, OpenBlocks DEF SafeInv, TableInv, ControlInv
  <2> QED
    BY <1>1, <2>1 DEF SubPageContents
<1>4. \A p \in Done .. Done + n - 1 : vals[p].tag = tag
  BY <1>1
<1>5. PICK t : flash' = [flash EXCEPT ![block] = Programmed(block, vals, t)]
  BY <1>2
<1> HIDE DEF vals
<1>6. Done \in Nat /\ Done + n <= NumSubPages /\ Done' = Done + n /\ n \in Nat
  BY <1>1, <1>2, Counters DEF SafeInv
<1>7. TagsInv' /\ FreeIsErased'
  BY <1>1, <1>2, <1>3, <1>4, <1>5, <1>6, ProgramPreserves
<1> QED
  BY <1>1, <1>7 DEF SafeInv

(* The old block goes when the new one is complete. *)
LEMMA EraseOldSafe ==
    ASSUME SafeInv, EraseOld
    PROVE  SafeInv'
<1>0. TableInv' /\ Opened /\ ~Opened'
  BY EraseOldTable DEF SafeInv
<1>1. /\ pc = "erase" /\ Done = NumSubPages
      /\ flash' = IF oldBlock = block THEN flash
                  ELSE [flash EXCEPT ![oldBlock] = ErasedBlock(oldBlock)]
      /\ UNCHANGED <<lutVars, oldBlock, block, tag>>
  BY DEF EraseOld, Done
<1>2. ErasedBlock(oldBlock) = [p \in SubPages |-> Erased]
  BY <1>0, OpenBlocks, SizesAssumption DEF ErasedBlock, Phys, SafeInv
<1>3. /\ \A b \in Phys : b # oldBlock \/ oldBlock = block => flash'[b] = flash[b]
      /\ oldBlock # block => \A p \in SubPages : flash'[oldBlock][p] = Erased
  BY <1>0, <1>1, <1>2, OpenBlocks DEF SafeInv, TableInv, TypeOK
<1>4. TagsInv'
  <2> SUFFICES ASSUME NEW l \in Logical, NEW p \in SubPages, map[l] # None
               PROVE  flash'[map[l]][p].tag = l
    BY <1>0, <1>1 DEF TagsInv, lutVars
  <2>1. map[l] \in Phys /\ (map[l] # oldBlock \/ oldBlock = block)
    BY <1>0, OpenBlocks DEF SafeInv, TableInv, TypeOK
  <2>2. flash'[map[l]] = flash[map[l]]
    BY <1>3, <2>1
  <2>3. CASE l = tag
    <3>1. map[l] = block /\ p < Done
      BY <2>3, <1>0, <1>1, OpenBlocks, Counters DEF SubPages, SafeInv
    <3> QED
      BY <2>2, <2>3, <3>1, <1>0 DEF SafeInv, TagsInv
  <2>4. CASE l # tag
    BY <2>2, <2>4 DEF SafeInv, TagsInv
  <2> QED
    BY <2>3, <2>4
<1>5. FreeIsErased'
  <2> SUFFICES ASSUME NEW b \in Phys, ~use[b], ~cfg[b], NEW p \in SubPages
               PROVE  flash'[b][p] = Erased
    BY <1>0, <1>1 DEF FreeIsErased, FreeBlocks, lutVars
  <2>1. CASE b = oldBlock
    BY <2>1, <1>0, <1>3, OpenBlocks DEF SafeInv
  <2>2. CASE b # oldBlock
    BY <2>2, <1>3 DEF SafeInv, FreeIsErased, FreeBlocks
  <2> QED
    BY <2>1, <2>2
<1> QED
  BY <1>0, <1>4, <1>5 DEF SafeInv

-----------------------------------------------------------------------------
(* The tags on the flash say what the table says of every logical block    *)
(* that is not being written.                                              *)
LEMMA TaggedOnce ==
    ASSUME SafeInv, NEW l \in Logical, ~(Opened /\ l = tag)
    PROVE  Tagged(l) = IF map[l] = None THEN {} ELSE {map[l]}
<1> SUFFICES ASSUME NEW b \in Phys
             PROVE  b \in Tagged(l) <=> map[l] = b
  BY Geometry DEF Tagged, SafeInv, TableInv, TypeOK
<1>1. TagPage \in SubPages
  BY Geometry
<1>2. ASSUME map[l] = b PROVE b \in Tagged(l)
  <2>1. use[b] /\ b \notin Special
    BY <1>2 DEF SafeInv, TableInv, UseIffMapped, BlocksInv
  <2>2. flash[b][TagPage].tag = l
    BY <1>1, <1>2, Geometry DEF SafeInv, TagsInv
  <2> QED
    BY <2>1, <2>2 DEF Tagged
<1>3. ASSUME b \in Tagged(l) PROVE map[l] = b
  <2>1. b \notin Special /\ flash[b][TagPage].tag = l
    BY <1>3 DEF Tagged
  <2>2. flash[b][TagPage] # Erased
    BY <2>1, Geometry DEF Erased
  <2>3. ~(Opened /\ oldBlock = b /\ oldBlock # block)
    BY <1>1, <2>1 DEF SafeInv, TagsInv
  <2>4. ~(Opened /\ block = b)
    <3>1. Done \in Nat /\ TagPage \in Nat
      BY <1>1, Counters DEF Done, SubPages, SafeInv
    <3>2. TagPage < Done \/ TagPage >= Done
      BY <3>1
    <3> QED
      BY <1>1, <2>1, <2>2, <3>2 DEF SafeInv, TagsInv
  <2>5. use[b]
    <3> SUFFICES ASSUME ~use[b] PROVE FALSE
      OBVIOUS
    <3>1. b \in FreeBlocks
      BY <2>1 DEF FreeBlocks, SafeInv, TableInv, ControlInv, BuiltCfg
    <3> QED
      BY <3>1, <1>1, <2>2, <2>3, <2>4 DEF SafeInv, FreeIsErased
  <2>6. PICK m \in Logical : map[m] = b
    BY <2>5 DEF SafeInv, TableInv, UseIffMapped
  <2>7. ~(Opened /\ m = tag)
    BY <2>4, <2>6, OpenBlocks DEF SafeInv
  <2>8. flash[b][TagPage].tag = m
    BY <2>6, <2>7, <1>1, Geometry DEF SafeInv, TagsInv
  <2> QED
    BY <2>1, <2>6, <2>8
<1> QED
  BY <1>2, <1>3

(* ... so that ndBuildLUT finds it again, whenever the power fails. *)
LEMMA EntryFromTags ==
    ASSUME SafeInv, NEW l \in Logical, ~(Opened /\ l = tag)
    PROVE  BuiltMap[l] = map[l]
<1>1. \A b \in Phys : Lowest({b}) = b
  BY DEF Lowest, Phys
<1>2. map[l] \in Phys \cup {None}
  BY DEF SafeInv, TableInv, TypeOK
<1> QED
  BY <1>1, <1>2, TaggedOnce, Geometry DEF BuiltMap

(* With no write open, the tags on the flash say what the table says. *)
LEMMA TableFromTags ==
    ASSUME SafeInv, ~Opened
    PROVE  BuiltMap = map /\ BuiltUse = use
<1>1. \A l \in Logical : Tagged(l) = IF map[l] = None THEN {} ELSE {map[l]}
  BY TaggedOnce
<1>2. \A b \in Phys : Lowest({b}) = b
  BY DEF Lowest, Phys
<1>3. \A l \in Logical : map[l] # None => map[l] \in Phys
  BY DEF SafeInv, TableInv, TypeOK
<1>4. \A l \in Logical : BuiltMap[l] = map[l]
  BY EntryFromTags
<1>5. BuiltMap = map
  BY <1>4 DEF BuiltMap, SafeInv, TableInv, TypeOK
<1>6. \A b \in Phys : BuiltUse[b] = use[b]
  <2> SUFFICES ASSUME NEW b \in Phys
               PROVE  (\E l \in Logical : Tagged(l) # {} /\ b = Lowest(Tagged(l))) <=> use[b]
    BY DEF BuiltUse, SafeInv, TableInv, TypeOK
  <2>1. \A l \in Logical : (Tagged(l) # {} /\ b = Lowest(Tagged(l))) <=> map[l] = b
    BY <1>1, <1>2, <1>3, Geometry
  <2> QED
    BY <2>1 DEF SafeInv, TableInv, UseIffMapped
<1>7. BuiltUse = use
  BY <1>6 DEF BuiltUse, SafeInv, TableInv, TypeOK
<1> QED
  BY <1>5, <1>7

(* An orderly restart finds the table it left. *)
LEMMA RestartSafe ==
    ASSUME SafeInv, Restart
    PROVE  SafeInv'
<1>1. TableInv' /\ ~Opened /\ ~Opened'
  BY RestartTable, StartUpTable DEF Restart, Opened, SafeInv
<1>2. map' = map /\ use' = use /\ cfg' = cfg /\ flash' = flash
  BY <1>1, TableFromTags DEF Restart, StartUp, SafeInv, TableInv, ControlInv
<1>3. TagsInv'
  BY <1>1, <1>2 DEF SafeInv, TagsInv
<1>4. FreeIsErased'
  BY <1>1, <1>2 DEF SafeInv, FreeIsErased, FreeBlocks
<1> QED
  BY <1>1, <1>3, <1>4 DEF SafeInv

-----------------------------------------------------------------------------
(* No step of Next, and no stuttering step, leaves the invariant. *)
LEMMA NextSafe ==
    ASSUME SafeInv, [Next]_vars
    PROVE  SafeInv'
<1>1. CASE Call
  BY <1>1, CallSafe
<1>2. CASE OpenBlock
  BY <1>2, OpenBlockSafe
<1>3. CASE CopyHead \/ CopyTail
  BY <1>3, CopySafe
<1>4. CASE FillPage
  BY <1>4, FillPageSafe
<1>5. CASE EraseOld
  BY <1>5, EraseOldSafe
<1>6. CASE ReadSubPage
  BY <1>6, ReadSubPageSafe
<1>7. CASE Restart
  BY <1>7, RestartSafe
<1>8. CASE UNCHANGED vars
  <2>1. UNCHANGED <<flash, map, use, cfg, oldBlock, block, remain, tag, lastAddr,
                    copied, req, out, pc>>
    BY <1>8 DEF vars, lutVars, wrVars
  <2>2. TableInv'
    BY <2>1, StutterTable DEF SafeInv
  <2>3. Opened' = Opened /\ Done' = Done
    BY <2>1 DEF Opened, Done, Cursor
  <2>4. TagsInv' /\ FreeIsErased'
    BY <2>1, <2>3, QuietPreserves DEF lutVars
  <2> QED
    BY <2>2, <2>4 DEF SafeInv
<1> QED
  BY <1>1, <1>2, <1>3, <1>4, <1>5, <1>6, <1>7, <1>8 DEF Next, DriverStep

(* In every reachable state the driver satisfies the inductive invariant. *)
THEOREM Safety == Spec => []SafeInv
<1>1. Init => SafeInv
  BY InitSafe
<1>2. SafeInv /\ [Next]_vars => SafeInv'
  BY NextSafe
<1> QED
  BY <1>1, <1>2, PTL DEF Spec

(* Every variable of ndInitNAND, ndReadPages and ndWritePages keeps its    *)
(* type; the one-byte count of what remains never leaves its range.        *)
THEOREM TypeCorrect == Spec => []TypeOK
<1>1. SafeInv => TypeOK
  BY DEF SafeInv, TableInv
<1> QED
  BY <1>1, Safety, PTL

(* ndSearchFreeBlock only hands out erased blocks: the block whose flag    *)
(* ndLog2Phy clears before copying it is never among those it hands out    *)
(* while the copy is going on; and no physical block serves two logical    *)
(* ones.                                                                   *)
THEOREM TableConsistent == Spec => []FreeBlocksKnown
<1>1. SafeInv => FreeBlocksKnown
  BY DEF SafeInv, TableInv, FreeBlocksKnown
<1> QED
  BY <1>1, Safety, PTL

(* Between calls ndBuildLUT would build the table that is in RAM. *)
THEOREM TableSurvivesRestart == Spec => []RebuildAgrees
<1>1. SafeInv => RebuildAgrees
  <2> SUFFICES ASSUME SafeInv, pc = "idle", remain = 0
               PROVE  BuiltMap = map /\ BuiltUse = use
    BY DEF RebuildAgrees
  <2>1. ~Opened
    BY Counters DEF SafeInv, Opened
  <2> QED
    BY <2>1, TableFromTags
<1> QED
  BY <1>1, Safety, PTL

(* Whichever call finishes a write, the old block of a logical block that  *)
(* has one is erased only when the new block carries all of its sub pages. *)
THEOREM CopyNeverLost == Spec => []CompleteCopyKept
<1>1. SafeInv => CompleteCopyKept
  <2> SUFFICES ASSUME SafeInv, NEW l \in Logical, map[l] # None,
                      ~(Opened /\ l = tag /\ oldBlock = block)
               PROVE  \E b \in Phys : \A p \in SubPages : flash[b][p].tag = l
    BY DEF CompleteCopyKept
  <2>1. CASE Opened /\ l = tag
    <3>1. oldBlock \in Phys /\ \A p \in SubPages : flash[oldBlock][p].tag = l
      BY <2>1, OpenBlocks DEF SafeInv, TableInv, TagsInv
    <3> QED
      BY <3>1
  <2>2. CASE ~(Opened /\ l = tag)
    <3>1. map[l] \in Phys /\ \A p \in SubPages : flash[map[l]][p].tag = l
      BY <2>2 DEF SafeInv, TableInv, TypeOK, TagsInv
    <3> QED
      BY <3>1
  <2> QED
    BY <2>1, <2>2
<1> QED
  BY <1>1, Safety, PTL

(* Programming and erasing reach the two blocks of an open write only. *)
LEMMA SpecialStep ==
    ASSUME TableInv, Next \/ PowerLoss, NEW b \in Special
    PROVE  flash'[b] = flash[b]
<1>1. b \in Phys /\ flash \in [Phys -> [SubPages -> SubPageContents]]
  BY Geometry DEF TableInv, TypeOK
<1>2. ASSUME Opened PROVE b # block /\ b # oldBlock
  BY <1>2, OpenBlocks DEF SafeInv
<1>3. CASE CopyHead \/ CopyTail
  <2>1. Opened
    BY <1>3 DEF CopyHead, CopyTail, Opened, TableInv, ControlInv, TypeOK
  <2>2. \E f : flash' = [flash EXCEPT ![block] = f]
    BY <1>3 DEF CopyHead, CopyTail, CopySubPage
  <2> QED
    BY <2>1, <2>2, <1>1, <1>2
<1>4. CASE FillPage
  <2>1. Opened
    BY <1>4 DEF FillPage, Opened
  <2>2. \E f : flash' = [flash EXCEPT ![block] = f]
    BY <1>4 DEF FillPage
  <2> QED
    BY <2>1, <2>2, <1>1, <1>2
<1>5. CASE EraseOld
  <2>1. Opened
    BY <1>5 DEF EraseOld, Opened
  <2>2. flash' = flash \/ \E f : flash' = [flash EXCEPT ![oldBlock] = f]
    BY <1>5 DEF EraseOld
  <2> QED
    BY <2>1, <2>2, <1>1, <1>2
<1>6. CASE Call \/ OpenBlock \/ ReadSubPage \/ Restart \/ PowerLoss
  BY <1>6 DEF Call, WritePages, ReadPages, FinishPartialCopy, OpenBlock, ReadSubPage,
              Restart, PowerLoss, StartUp
<1> QED
  BY <1>3, <1>4, <1>5, <1>6 DEF Next, DriverStep
(* Bad blocks, config blocks and boot blocks are never programmed or       *)
(* erased by the driver.                                                   *)
THEOREM SpecialBlocksUntouched == Spec => SpecialUntouched
<1>1. SafeInv /\ [Next]_vars => [\A b \in Special : flash'[b] = flash[b]]_vars
  BY SpecialStep DEF SafeInv
<1> QED
  BY <1>1, Safety, PTL DEF Spec, SpecialUntouched

-----------------------------------------------------------------------------
(* The driver as a disc.                                                   *)
Disc == [s \in Sectors |-> SectorValue(s)]
Todo == IF Writing THEN [addr |-> req.addr, left |-> req.left, data |-> req.data]
                   ELSE [addr |-> 0, left |-> 0, data |-> None]

(* Sector a is the one that the cursor of the open block stands at.        *)
Placed(a) == a \in Sectors /\ tag = a \div NumSubPages /\ Cursor = a % NumSubPages

(* What ties the call to the open block: the sector to be written is at    *)
(* the cursor, and so is, between calls, the one after the last.           *)
CallInv ==
    /\ pc = "idle" => req = NoRequest
    /\ pc = "read" => req.kind = "read"
    /\ req.kind = "read" => req.addr \in Sectors
    /\ Writing => req.addr + req.left <= NumLogical * NumSubPages
    /\ pc \in {"head", "fill"} => Placed(req.addr)
    /\ pc = "idle" /\ remain > 0 => lastAddr \in Int /\ Placed(lastAddr + 1)

DiscInv == SafeInv /\ CallInv

-----------------------------------------------------------------------------
LEMMA LessByMore ==
    ASSUME NEW n \in Nat, NEW k \in Nat, k > 0
    PROVE  n - k < n
OBVIOUS

(* The one-byte count of what remains, taken back. *)
LEMMA WrapTwice ==
    ASSUME NEW n \in Nat \ {0}, NEW q \in 0 .. n - 1
    PROVE  (n - ((n - q) % n)) % n = q
<1>1. CASE q = 0
  BY <1>1
<1>2. CASE q > 0
  <2>1. (n - q) % n = n - q
    BY <1>2
  <2> QED
    BY <1>2, <2>1
<1> QED
  BY <1>1, <1>2

(* Quotient and remainder are the only ones. *)
LEMMA DivModUnique ==
    ASSUME NEW n \in Nat \ {0}, NEW q \in Nat, NEW r \in 0 .. n - 1
    PROVE  (n * q + r) \div n = q /\ (n * q + r) % n = r
<1> DEFINE x == n * q + r
           k == x \div n
<1>1. n * q \in Nat /\ x \in Nat
  OBVIOUS
<1>2. k \in Nat /\ (x % n) \in 0 .. n - 1 /\ x = n * k + (x % n)
  BY <1>1, DivMod
<1> HIDE DEF x, k
<1>3. x = n * q + r
  BY DEF x
<1>4. ~(k < q)
  <2> SUFFICES ASSUME k < q PROVE FALSE
    OBVIOUS
  <2>1. (k + 1) * n <= q * n
    BY <1>2, MulMono
  <2>2. (k + 1) * n = n * k + n /\ q * n = n * q
    BY <1>2
  <2> QED
    BY <1>2, <1>3, <2>1, <2>2
<1>5. ~(q < k)
  <2> SUFFICES ASSUME q < k PROVE FALSE
    OBVIOUS
  <2>1. (q + 1) * n <= k * n
    BY <1>2, MulMono
  <2>2. (q + 1) * n = n * q + n /\ k * n = n * k
    BY <1>2
  <2> QED
    BY <1>2, <1>3, <2>1, <2>2
<1>6. k = q /\ (x % n) = r
  BY <1>2, <1>3, <1>4, <1>5
<1> QED
  BY <1>6 DEF k, x

(* The block and the page of a sector, and of one that is n further on in  *)
(* the same block.                                                         *)
LEMMA SectorPlace ==
    ASSUME NEW s \in Sectors
    PROVE  /\ s \in Nat /\ NumLogical * NumSubPages \in Nat
           /\ s \div NumSubPages \in Logical /\ s % NumSubPages \in SubPages
           /\ s = NumSubPages * (s \div NumSubPages) + (s % NumSubPages)
           /\ LogicalOf(s) = s \div NumSubPages /\ PageOf(s) = s % NumSubPages
<1> DEFINE size == NumLogical * NumSubPages
<1>1. size \in Nat \ {0} /\ s \in 0 .. size - 1
  BY Geometry DEF Sectors
<1>2. size * 0 + s = s
  BY <1>1
<1>3. s % size = s
  <2> HIDE DEF size
  <2> QED
    BY <1>1, <1>2, DivModUnique
<1>4. s \div NumSubPages \in 0 .. NumLogical - 1
  BY <1>1, Geometry, DivBelow
<1>5. /\ (s % NumSubPages) \in 0 .. NumSubPages - 1
      /\ s = NumSubPages * (s \div NumSubPages) + (s % NumSubPages)
  BY <1>1, Geometry, DivMod
<1> QED
  BY <1>1, <1>3, <1>4, <1>5 DEF LogicalOf, PageOf, Logical, SubPages

LEMMA SectorAfter ==
    ASSUME NEW s \in Sectors, NEW n \in Nat, (s % NumSubPages) + n < NumSubPages
    PROVE  /\ s + n \in Sectors
           /\ (s + n) \div NumSubPages = s \div NumSubPages
           /\ (s + n) % NumSubPages = (s % NumSubPages) + n
<1> DEFINE q == s \div NumSubPages
           r == s % NumSubPages
<1>1. /\ q \in 0 .. NumLogical - 1 /\ r \in 0 .. NumSubPages - 1 /\ s = NumSubPages * q + r
      /\ NumSubPages \in Nat \ {0} /\ NumLogical \in Nat \ {0} /\ s \in Nat
  BY SectorPlace, Geometry DEF Logical, SubPages
<1>2. r + n < NumSubPages
  OBVIOUS
<1> HIDE DEF q, r
<1>3. s + n = NumSubPages * q + (r + n) /\ r + n \in 0 .. NumSubPages - 1 /\ q \in Nat
  BY <1>1, <1>2
<1>4. (s + n) \div NumSubPages = q /\ (s + n) % NumSubPages = r + n
  BY <1>1, <1>3, DivModUnique
<1>5. s + n < NumLogical * NumSubPages
  <2>1. (q + 1) * NumSubPages <= NumLogical * NumSubPages
    BY <1>1, MulMono
  <2>2. (q + 1) * NumSubPages = NumSubPages * q + NumSubPages
    BY <1>1
  <2>3. NumLogical * NumSubPages \in Nat
    BY <1>1
  <2>4. NumSubPages * q \in Nat
    BY <1>1
  <2> QED
    BY <1>1, <1>3, <2>1, <2>2, <2>3, <2>4
<1>6. s + n \in Sectors
  BY <1>1, <1>5 DEF Sectors
<1> QED
  BY <1>4, <1>6 DEF q, r

(* The sectors of a group of pages of one block follow each other.         *)
LEMMA GroupOf ==
    ASSUME NEW a \in Sectors, NEW n \in Nat, (a % NumSubPages) + n <= NumSubPages, NEW s \in Sectors
    PROVE  s \in a .. a + n - 1 <=>
             s \div NumSubPages = a \div NumSubPages
             /\ s % NumSubPages \in (a % NumSubPages) .. (a % NumSubPages) + n - 1
<1> DEFINE q == a \div NumSubPages
           r == a % NumSubPages
<1>1. /\ q \in Nat /\ r \in 0 .. NumSubPages - 1 /\ a = NumSubPages * q + r
      /\ NumSubPages \in Nat \ {0} /\ a \in Nat /\ s \in Nat
  BY SectorPlace, Geometry DEF Logical, SubPages
<1>2. ASSUME s \in a .. a + n - 1
      PROVE  s \div NumSubPages = q /\ s % NumSubPages = r + (s - a)
  <2>1. s - a \in Nat /\ (a % NumSubPages) + (s - a) < NumSubPages
    BY <1>1, <1>2
  <2>2. a + (s - a) = s
    BY <1>1
  <2> QED
    BY <2>1, <2>2, SectorAfter
<1>3. ASSUME s \div NumSubPages = q, s % NumSubPages \in r .. r + n - 1
      PROVE  s \in a .. a + n - 1
  <2>1. s = NumSubPages * q + (s % NumSubPages) /\ (s % NumSubPages) \in Nat
    BY <1>3, SectorPlace DEF SubPages
  <2> HIDE DEF q, r
  <2>2. NumSubPages * q \in Nat
    BY <1>1
  <2> QED
    BY <1>1, <1>3, <2>1, <2>2
<1>4. ASSUME s \in a .. a + n - 1 PROVE s % NumSubPages \in r .. r + n - 1
  BY <1>1, <1>2, <1>4
<1> QED
  BY <1>2, <1>3, <1>4

-----------------------------------------------------------------------------
(* What a sector holds: on the programmed pages of the open block, and on  *)
(* all others.                                                             *)
LEMMA ValueOf ==
    ASSUME SafeInv, NEW s \in Sectors
    PROVE  /\ Opened /\ s \div NumSubPages = tag =>
                SectorValue(s) = IF s % NumSubPages < Done
                                   THEN flash[block][s % NumSubPages].data
                                   ELSE flash[oldBlock][s % NumSubPages].data
           /\ ~(Opened /\ s \div NumSubPages = tag) =>
                SectorValue(s) = IF map[s \div NumSubPages] = None THEN Blank
                                 ELSE flash[map[s \div NumSubPages]][s % NumSubPages].data
<1>1. s % NumSubPages \in SubPages
  BY SectorPlace
<1>2. ASSUME Opened, s \div NumSubPages = tag
      PROVE  SectorValue(s) = IF s % NumSubPages < Done
                                THEN flash[block][s % NumSubPages].data
                                ELSE flash[oldBlock][s % NumSubPages].data
  <2>1. tag \in Logical /\ map[tag] = block /\ block # None
    BY <1>2, OpenBlocks, Geometry DEF SafeInv
  <2>2. /\ s % NumSubPages < Done => flash[block][s % NumSubPages].tag = tag
        /\ s % NumSubPages >= Done => flash[block][s % NumSubPages] = Erased
    BY <1>1, <1>2 DEF SafeInv, TableInv, TagsInv
  <2>3. Done \in Nat /\ s % NumSubPages \in Nat
    BY <1>1, Counters, Geometry DEF SafeInv, Done, SubPages
  <2>4. Erased.tag = None /\ tag # None
    BY <2>1, Geometry DEF Erased
  <2>5. CASE s % NumSubPages < Done
    BY <1>2, <2>1, <2>2, <2>4, <2>5 DEF SectorValue
  <2>6. CASE ~(s % NumSubPages < Done)
    BY <1>2, <2>1, <2>2, <2>3, <2>6 DEF SectorValue
  <2> QED
    BY <2>5, <2>6
<1>3. ASSUME ~(Opened /\ s \div NumSubPages = tag)
      PROVE  SectorValue(s) = IF map[s \div NumSubPages] = None THEN Blank
                              ELSE flash[map[s \div NumSubPages]][s % NumSubPages].data
  BY <1>3 DEF SectorValue
<1> QED
  BY <1>2, <1>3

(* Programming the next pages of the open block changes their sectors.     *)
LEMMA ProgramDisc ==
    ASSUME SafeInv, Opened, NEW n \in Nat, Done \in Nat, Done + n <= NumSubPages,
           NEW vals \in [Done .. Done + n - 1 -> SubPageContents], NEW t,
           \A p \in Done .. Done + n - 1 : vals[p].tag = tag,
           flash' = [flash EXCEPT ![block] = Programmed(block, vals, t)],
           UNCHANGED <<lutVars, oldBlock, block, tag>>, Opened', NEW s \in Sectors
    PROVE  SectorValue(s)' = IF s \div NumSubPages = tag /\ s % NumSubPages \in Done .. Done + n - 1
                               THEN vals[s % NumSubPages].data ELSE SectorValue(s)
<1> DEFINE l == s \div NumSubPages
           p == s % NumSubPages
<1>1. /\ \A b \in Phys : b # block => flash'[b] = flash[b]
      /\ \A q \in SubPages : flash'[block][q] = IF q \in Done .. Done + n - 1
                                                THEN vals[q] ELSE flash[block][q]
  BY ProgramsErased
<1>2. l \in Logical /\ p \in SubPages
  BY SectorPlace
<1>3. /\ tag \in Logical /\ map[tag] = block /\ block \in Phys /\ oldBlock \in Phys /\ block # None
      /\ \A m \in Logical : m # tag => map[m] # block
  BY OpenBlocks, Geometry DEF SafeInv
<1>4. map' = map /\ oldBlock' = oldBlock /\ block' = block /\ tag' = tag
  BY DEF lutVars
<1>5. SectorValue(s)' = IF l = tag /\ flash'[block][p] = Erased THEN flash'[oldBlock][p].data
                        ELSE IF map[l] = None THEN Blank ELSE flash'[map[l]][p].data
  BY <1>4 DEF SectorValue
<1>6. SectorValue(s) = IF l = tag /\ flash[block][p] = Erased THEN flash[oldBlock][p].data
                       ELSE IF map[l] = None THEN Blank ELSE flash[map[l]][p].data
  BY DEF SectorValue
<1> HIDE DEF l, p
<1>7. CASE l # tag
  <2>1. map[l] # None => flash'[map[l]] = flash[map[l]]
    BY <1>1, <1>2, <1>3, <1>7 DEF SafeInv, TableInv, TypeOK
  <2> QED
    BY <1>5, <1>6, <1>7, <2>1 DEF l, p
<1>8. CASE l = tag /\ p \in Done .. Done + n - 1
  <2>1. flash'[block][p] = vals[p] /\ vals[p].tag = tag
    BY <1>1, <1>2, <1>8
  <2>2. flash'[block][p] # Erased
    BY <2>1, <1>3, Geometry DEF Erased
  <2> QED
    BY <1>3, <1>5, <1>8, <2>1, <2>2 DEF l, p
<1>9. CASE l = tag /\ p \notin Done .. Done + n - 1
  <2>1. flash'[block][p] = flash[block][p] /\ flash'[oldBlock][p] = flash[oldBlock][p]
    BY <1>1, <1>2, <1>3, <1>9
  <2> QED
    BY <1>3, <1>5, <1>6, <1>9, <2>1 DEF l, p
<1> QED
  BY <1>7, <1>8, <1>9

-----------------------------------------------------------------------------
(* The steps of the driver, seen on the disc.                              *)

(* Nothing moves when a call begins or a lookup is done. *)
LEMMA SameValues ==
    ASSUME UNCHANGED <<flash, map, block, oldBlock>>, Opened' = Opened, Opened => tag' = tag
    PROVE  Disc' = Disc
<1>1. \A s \in Sectors : SectorValue(s)' = SectorValue(s)
  BY DEF SectorValue
<1> QED
  BY <1>1 DEF Disc

(* A block is opened: nothing has been programmed, and the old one counts. *)
LEMMA OpenBlockDisc ==
    ASSUME SafeInv, OpenBlock
    PROVE  Disc' = Disc /\ Opened'
<1> DEFINE l == LogicalOf(req.addr)
<1>1. PICK free \in FreeBlocks :
         /\ map' = [map EXCEPT ![l] = free]
         /\ oldBlock' = (IF map[l] = None THEN free ELSE map[l])
         /\ block' = free /\ tag' = l
  BY DEF OpenBlock, Remap
<1>2. /\ UNCHANGED flash /\ remain = 0 /\ pc = "open" /\ pc' \in {"head", "fill"}
      /\ l \in Logical
  BY AddressInZone DEF OpenBlock, SafeInv, TableInv, ControlInv, TypeOK, Request
<1>3. ~Opened /\ Opened'
  BY <1>2 DEF Opened
<1>4. \A p \in SubPages : flash[free][p] = Erased
  BY <1>1, <1>3 DEF SafeInv, TableInv, FreeIsErased
<1>5. free \in Phys /\ map \in [Logical -> Phys \cup {None}]
  BY DEF FreeBlocks, SafeInv, TableInv, TypeOK
<1> HIDE DEF l
<1>6. ASSUME NEW s \in Sectors PROVE SectorValue(s)' = SectorValue(s)
  <2>1. s \div NumSubPages \in Logical /\ s % NumSubPages \in SubPages
    BY SectorPlace
  <2>2. CASE s \div NumSubPages = l
    <3>1. SectorValue(s)' = flash[oldBlock'][s % NumSubPages].data
      BY <1>1, <1>2, <1>3, <1>4, <2>1, <2>2 DEF SectorValue
    <3>2. SectorValue(s) = IF map[l] = None THEN Blank ELSE flash[map[l]][s % NumSubPages].data
      BY <1>3, <2>2 DEF SectorValue
    <3> QED
      BY <1>1, <1>4, <2>1, <3>1, <3>2 DEF Erased
  <2>3. CASE s \div NumSubPages # l
    <3>1. map'[s \div NumSubPages] = map[s \div NumSubPages]
      BY <1>1, <1>5, <2>1, <2>3
    <3> QED
      BY <1>1, <1>2, <1>3, <2>3, <3>1 DEF SectorValue
  <2> QED
    BY <2>2, <2>3
<1> QED
  BY <1>3, <1>6 DEF Disc

(* A copied page holds what it held on the old block. *)
LEMMA CopyDisc ==
    ASSUME SafeInv, pc \in {"head", "tail"}, CopySubPage, UNCHANGED <<lutVars, wrVars>>, Opened'
    PROVE  Disc' = Disc
<1>1. Opened /\ Done = copied
  BY Counters DEF Opened, Done, SafeInv, TableInv, ControlInv
<1>2. copied \in Nat /\ copied < NumSubPages
  BY Counters DEF SafeInv, TableInv, ControlInv
<1>3. /\ copied \in SubPages /\ Done .. Done + 1 - 1 = {copied}
      /\ Done \in Nat /\ Done + 1 <= NumSubPages
  <2>1. copied .. copied + 1 - 1 = {copied}
    BY <1>2
  <2> QED
    BY <1>1, <1>2, <2>1, Counters DEF SafeInv, SubPages
<1> DEFINE vals == [p \in {copied} |-> [data |-> flash[oldBlock][p].data, tag |-> tag]]
<1>4. vals \in [Done .. Done + 1 - 1 -> SubPageContents]
  <2>1. flash[oldBlock][copied] \in SubPageContents /\ tag \in Logical
    BY <1>1, <1>3, OpenBlocks DEF SafeInv, TableInv, TypeOK
  <2> QED
    BY <1>3, <2>1 DEF SubPageContents
<1>5. /\ vals[copied].data = flash[oldBlock][copied].data
      /\ \A p \in Done .. Done + 1 - 1 : vals[p].tag = tag
  BY <1>3
<1>6. PICK t \in AndedTags(block, {copied}) :
        flash' = [flash EXCEPT ![block] = Programmed(block, vals, t)]
  BY DEF CopySubPage
<1> HIDE DEF vals
<1>7. UNCHANGED <<lutVars, oldBlock, block, tag>>
  BY DEF wrVars
<1>8. ASSUME NEW s \in Sectors PROVE SectorValue(s)' = SectorValue(s)
  <2>1. SectorValue(s)' = IF s \div NumSubPages = tag /\ s % NumSubPages \in Done .. Done + 1 - 1
                            THEN vals[s % NumSubPages].data ELSE SectorValue(s)
    BY <1>1, <1>3, <1>4, <1>5, <1>6, <1>7, ProgramDisc
  <2>2. CASE s \div NumSubPages = tag /\ s % NumSubPages = copied
    <3>1. SectorValue(s) = flash[oldBlock][copied].data
      BY <1>1, <1>2, <2>2, ValueOf
    <3> QED
      BY <1>3, <1>5, <2>1, <2>2, <3>1
  <2> QED
    BY <1>3, <2>1, <2>2
<1> QED
  BY <1>8 DEF Disc

(* The new block is complete: the old one no longer counts. *)
LEMMA EraseOldDisc ==
    ASSUME SafeInv, EraseOld
    PROVE  Disc' = Disc
<1>1. /\ pc = "erase" /\ remain' = 0 /\ pc' \in {"idle", "read", "open"}
      /\ flash' = IF oldBlock = block THEN flash
                  ELSE [flash EXCEPT ![oldBlock] = ErasedBlock(oldBlock)]
      /\ map' = map
  BY DEF EraseOld, lutVars
<1>2. Opened /\ Done = NumSubPages /\ ~Opened'
  BY <1>1 DEF Opened, Done
<1>3. \A b \in Phys : b # oldBlock \/ oldBlock = block => flash'[b] = flash[b]
  BY <1>1 DEF SafeInv, TableInv, TypeOK
<1>4. ASSUME NEW s \in Sectors PROVE SectorValue(s)' = SectorValue(s)
  <2>1. s \div NumSubPages \in Logical /\ s % NumSubPages < Done
    BY <1>2, SectorPlace, Geometry DEF SubPages
  <2>2. SectorValue(s) = IF map[s \div NumSubPages] = None THEN Blank
                         ELSE flash[map[s \div NumSubPages]][s % NumSubPages].data
    BY <1>2, <2>1, ValueOf, OpenBlocks, Geometry DEF SafeInv
  <2>3. map[s \div NumSubPages] # None =>
           flash'[map[s \div NumSubPages]] = flash[map[s \div NumSubPages]]
    BY <1>2, <1>3, <2>1, OpenBlocks DEF SafeInv, TableInv, TypeOK
  <2>4. SectorValue(s)' = IF map[s \div NumSubPages] = None THEN Blank
                          ELSE flash'[map[s \div NumSubPages]][s % NumSubPages].data
    BY <1>1, <1>2 DEF SectorValue
  <2> QED
    BY <2>2, <2>3, <2>4
<1> QED
  BY <1>4 DEF Disc

-----------------------------------------------------------------------------
(* The sectors of a call and the cursor of the open block.                 *)
LEMMA FillDisc ==
    ASSUME DiscInv, NEW n \in Nat \ {0}, Fills(n)
    PROVE  /\ Opened'
           /\ req.addr + n - 1 \in Sectors
           /\ Disc' = [s \in Sectors |->
                         IF s \in req.addr .. req.addr + n - 1 THEN req.data ELSE Disc[s]]
           /\ remain' # 0 => /\ req.addr + n \in Sectors
                             /\ tag' = (req.addr + n) \div NumSubPages
                             /\ Cursor' = (req.addr + n) % NumSubPages
<1> DEFINE vals == [p \in Cursor .. Cursor + n - 1 |-> [data |-> req.data, tag |-> tag]]
<1>1. /\ pc = "fill" /\ Cursor + n <= NumSubPages
      /\ \E t : flash' = [flash EXCEPT ![block] = Programmed(block, vals, t)]
      /\ UNCHANGED <<lutVars, oldBlock, block, tag>>
      /\ remain' # 0 => Cursor' = Cursor + n /\ NumSubPages - remain' = Cursor + n
      /\ remain' \in 0 .. NumSubPages - 1
      /\ remain' # 0 \/ pc' = "erase"
  BY DEF Fills
<1>2. /\ SafeInv /\ Opened /\ Done = Cursor /\ Opened'
      /\ Cursor \in Nat /\ Cursor < NumSubPages /\ NumSubPages \in Nat \ {0}
  BY <1>1, Counters DEF SafeInv, DiscInv, Opened, Done
<1>3. /\ req.addr \in Sectors /\ tag = req.addr \div NumSubPages
      /\ Cursor = req.addr % NumSubPages
  BY <1>1 DEF DiscInv, CallInv, Placed
<1>4. vals \in [Done .. Done + n - 1 -> SubPageContents]
  <2>1. tag \in Logical /\ req.data \in Data
    BY <1>1, <1>2, OpenBlocks DEF SafeInv, TableInv, ControlInv
  <2> QED
    BY <1>2, <2>1 DEF SubPageContents
<1>5. \A p \in Done .. Done + n - 1 : vals[p].tag = tag /\ vals[p].data = req.data
  BY <1>2
<1>6. PICK t : flash' = [flash EXCEPT ![block] = Programmed(block, vals, t)]
  BY <1>1
<1> HIDE DEF vals
<1>7. ASSUME NEW s \in Sectors
      PROVE  SectorValue(s)' = IF s \in req.addr .. req.addr + n - 1 THEN req.data
                               ELSE SectorValue(s)
  <2>1. SectorValue(s)' = IF s \div NumSubPages = tag /\ s % NumSubPages \in Done .. Done + n - 1
                            THEN vals[s % NumSubPages].data ELSE SectorValue(s)
    BY <1>1, <1>2, <1>4, <1>5, <1>6, ProgramDisc
  <2>2. s \in req.addr .. req.addr + n - 1 <=>
          s \div NumSubPages = tag /\ s % NumSubPages \in Done .. Done + n - 1
    BY <1>1, <1>2, <1>3, GroupOf
  <2> QED
    BY <1>5, <2>1, <2>2
<1>8. Disc' = [s \in Sectors |->
                 IF s \in req.addr .. req.addr + n - 1 THEN req.data ELSE Disc[s]]
  BY <1>7 DEF Disc
<1>9. req.addr + n - 1 \in Sectors
  <2>1. n - 1 \in Nat /\ (req.addr % NumSubPages) + (n - 1) < NumSubPages
    BY <1>1, <1>2, <1>3
  <2>2. req.addr + (n - 1) \in Sectors
    BY <1>3, <2>1, SectorAfter
  <2>3. req.addr \in Nat /\ req.addr + n - 1 = req.addr + (n - 1)
    BY <1>3, SectorPlace
  <2> QED
    BY <2>2, <2>3
<1>10. ASSUME remain' # 0
       PROVE  /\ req.addr + n \in Sectors
              /\ tag' = (req.addr + n) \div NumSubPages
              /\ Cursor' = (req.addr + n) % NumSubPages
  <2>1. Cursor' = Cursor + n /\ NumSubPages - remain' = Cursor + n
    BY <1>1, <1>10
  <2>2. Cursor + n < NumSubPages
    <3>1. NumSubPages \in Nat
      BY Geometry
    <3>2. remain' \in Nat /\ remain' > 0
      BY <3>1, <1>1, <1>10
    <3>3. NumSubPages - remain' < NumSubPages
      BY <3>1, <3>2, LessByMore
    <3> QED
      BY <2>1, <3>3
  <2>3. /\ req.addr + n \in Sectors
        /\ (req.addr + n) \div NumSubPages = req.addr \div NumSubPages
        /\ (req.addr + n) % NumSubPages = (req.addr % NumSubPages) + n
    BY <1>3, <2>2, SectorAfter
  <2> QED
    BY <1>1, <1>3, <2>1, <2>3
<1> QED
  BY <1>2, <1>8, <1>9, <1>10

(* A call and what it has to do fit together in every state. *)
LEMMA CallFacts ==
    ASSUME SafeInv
    PROVE  /\ req \in Request /\ req.addr \in Nat /\ req.left \in Nat
           /\ req.data \in Data \cup {None}
           /\ NoRequest.kind = "none" /\ NoRequest.left = 0
           /\ req = NoRequest => ~Writing
BY DEF SafeInv, TableInv, TypeOK, Request, NoRequest, Writing

LEMMA StartCall ==
    ASSUME DiscInv, Call
    PROVE  CallInv' /\ Disc' = Disc
<1>1. SafeInv /\ pc = "idle" /\ ~Writing
  BY CallFacts DEF DiscInv, CallInv, Call, WritePages, ReadPages, FinishPartialCopy
<1>2. UNCHANGED <<flash, map, block, oldBlock, tag, remain, lastAddr>>
      /\ (remain > 0 => pc' \in {"fill", "tail"}) /\ (remain = 0 => pc' \in {"open", "read"})
      /\ remain \in Nat
  BY <1>1, Counters DEF SafeInv, Call, WritePages, ReadPages, FinishPartialCopy, lutVars, wrVars
<1>3. Opened' = Opened
  BY <1>1, <1>2 DEF Opened
<1>4. Disc' = Disc
  BY <1>2, <1>3, SameValues
<1>5. Cursor' = Cursor
  BY <1>2 DEF Cursor
<1>6. ASSUME NEW kind \in {"write", "safe"}, NEW a \in Sectors, NEW n \in 1 .. MaxCount,
             NEW d \in Data, a + n <= NumLogical * NumSubPages, WritePages(kind, a, n, d)
      PROVE  CallInv'
  <2>1. /\ req'.addr = a /\ req'.left = n /\ req'.kind = kind
        /\ pc' \in {"open", "fill", "tail"}
        /\ pc' = "fill" => remain > 0 /\ a = lastAddr + 1
    BY <1>6 DEF WritePages
  <2>2. pc' = "fill" => Placed(a)
    BY <1>1, <2>1 DEF DiscInv, CallInv
  <2>3. pc' = "fill" => Placed(req.addr)'
    BY <1>2, <1>5, <2>1, <2>2 DEF Placed
  <2> QED
    BY <1>6, <2>1, <2>3 DEF CallInv
<1>7. ASSUME NEW a \in Sectors, ReadPages(a)
      PROVE  CallInv'
  <2>1. req'.addr = a /\ req'.kind = "read" /\ pc' \in {"read", "tail"}
    BY <1>7 DEF ReadPages
  <2>2. ~Writing'
    BY <2>1 DEF Writing
  <2> QED
    BY <2>1, <2>2 DEF CallInv
<1>8. CASE FinishPartialCopy
  <2>1. req'.kind = "flush" /\ pc' = "tail"
    BY <1>8 DEF FinishPartialCopy
  <2>2. ~Writing'
    BY <2>1 DEF Writing
  <2> QED
    BY <1>4, <2>1, <2>2 DEF CallInv
<1> QED
  BY <1>4, <1>6, <1>7, <1>8 DEF Call

LEMMA OpenBlockCall ==
    ASSUME DiscInv, OpenBlock
    PROVE  CallInv'
<1>1. SafeInv /\ SafeInv' /\ pc = "open" /\ UNCHANGED req /\ pc' \in {"head", "fill"}
  BY OpenBlockSafe DEF DiscInv, OpenBlock
<1>2. Writing /\ req.kind \in {"write", "safe"} /\ req.addr + req.left <= NumLogical * NumSubPages
  BY <1>1 DEF SafeInv, TableInv, ControlInv, DiscInv, CallInv, Writing
<1>3. req.addr \in Sectors
  <2>1. req.addr \in Nat /\ req.left \in Nat /\ req.left > 0 /\ NumLogical * NumSubPages \in Nat
    BY <1>1, <1>2, CallFacts, Geometry DEF Writing
  <2> DEFINE size == NumLogical * NumSubPages
  <2> HIDE DEF size
  <2>2. req.addr < size
    BY <1>2, <2>1 DEF size
  <2> QED
    BY <2>1, <2>2 DEF Sectors, size
<1>4. tag' = req.addr \div NumSubPages /\ Cursor' = req.addr % NumSubPages
  <2>1. LogicalOf(req.addr) = req.addr \div NumSubPages /\ PageOf(req.addr) = req.addr % NumSubPages
        /\ PageOf(req.addr) \in SubPages
    BY <1>3, SectorPlace
  <2>2. tag' = LogicalOf(req.addr) /\ remain' = (NumSubPages - PageOf(req.addr)) % NumSubPages
    BY DEF OpenBlock, AsByte
  <2>3. Cursor' = (NumSubPages - remain') % NumSubPages
    BY DEF Cursor, AsByte
  <2>4. Cursor' = PageOf(req.addr)
    <3> DEFINE p == PageOf(req.addr)
    <3>1. p \in 0 .. NumSubPages - 1 /\ NumSubPages \in Nat \ {0}
      BY <2>1, Geometry DEF SubPages
    <3>2. \A q \in 0 .. NumSubPages - 1 :
             (NumSubPages - ((NumSubPages - q) % NumSubPages)) % NumSubPages = q
      BY <3>1, WrapTwice
    <3> QED
      BY <2>2, <2>3, <3>1, <3>2
  <2> QED
    BY <2>1, <2>2, <2>4
<1> QED
  BY <1>1, <1>2, <1>3, <1>4 DEF CallInv, Placed, Writing

LEMMA CopyCall ==
    ASSUME DiscInv, CopyHead \/ CopyTail
    PROVE  CallInv' /\ Disc' = Disc /\ UNCHANGED <<req, out>>
<1>1. /\ pc \in {"head", "tail"} /\ CopySubPage /\ UNCHANGED <<lutVars, wrVars, req, out>>
      /\ pc' \in {"head", "fill", "tail", "erase"}
      /\ pc' \in {"head", "fill"} => pc = "head"
  BY DEF CopyHead, CopyTail
<1>2. SafeInv /\ (pc = "tail" => remain > 0)
  BY <1>1 DEF DiscInv, SafeInv, TableInv, ControlInv
<1>3. UNCHANGED <<tag, remain, lastAddr>> /\ Cursor' = Cursor
  BY <1>1 DEF wrVars, Cursor
<1>4. Opened'
  BY <1>2, <1>3 DEF CopyHead, CopyTail, Opened
<1>5. Disc' = Disc
  BY <1>1, <1>2, <1>4, CopyDisc
<1> QED
  BY <1>1, <1>3, <1>5 DEF DiscInv, CallInv, Placed, Writing

LEMMA FillCall ==
    ASSUME DiscInv, NEW n \in Nat \ {0}, Fills(n)
    PROVE  CallInv'
<1>1. /\ req \in Request /\ req.addr \in Nat /\ req.left \in Nat /\ n <= req.left
      /\ pc = "fill" /\ req.kind \in {"write", "safe"} /\ req.left > 0
  BY CallFacts DEF DiscInv, SafeInv, TableInv, ControlInv, Fills
<1>2. req.addr + req.left <= NumLogical * NumSubPages
  BY <1>1 DEF DiscInv, CallInv, Writing
<1>3. remain' # 0 => /\ req.addr + n \in Sectors
                     /\ tag' = (req.addr + n) \div NumSubPages
                     /\ Cursor' = (req.addr + n) % NumSubPages
  BY FillDisc
<1>4. CASE req' = [req EXCEPT !.addr = @ + n, !.left = @ - n] /\ pc' \in {"fill", "erase"}
           /\ (pc' = "fill" => remain' # 0)
  <2>1. req'.addr = req.addr + n /\ req'.left = req.left - n /\ req'.kind = req.kind
    BY <1>1, <1>4 DEF Request
  <2>2. req'.addr + req'.left = req.addr + req.left
    BY <1>1, <2>1
  <2>3. pc' = "fill" => Placed(req.addr)'
    BY <1>3, <1>4, <2>1 DEF Placed
  <2> QED
    BY <1>1, <1>2, <1>4, <2>1, <2>2, <2>3 DEF CallInv
<1>5. CASE req' = [req EXCEPT !.addr = @ + n, !.left = 0] /\ pc' = "tail"
  <2>1. req'.left = 0 /\ req'.kind = req.kind
    BY <1>1, <1>5 DEF Request
  <2> QED
    BY <1>1, <1>5, <2>1 DEF CallInv, Writing
<1>6. CASE req' = NoRequest /\ pc' = "idle" /\ remain' # 0
  <2>1. lastAddr' = req.addr + n - 1 /\ lastAddr' \in Int /\ lastAddr' + 1 = req.addr + n
    BY <1>1 DEF Fills
  <2>2. Placed(lastAddr + 1)'
    BY <1>3, <1>6, <2>1 DEF Placed
  <2> QED
    BY <1>6, <2>1, <2>2 DEF CallInv, NoRequest, Writing
<1> QED
  BY <1>4, <1>5, <1>6 DEF Fills

LEMMA EraseOldCall ==
    ASSUME DiscInv, EraseOld
    PROVE  CallInv'
<1>1. /\ remain' = 0 /\ pc' \in {"idle", "read", "open"}
      /\ \/ pc' = "idle" /\ req' = NoRequest
         \/ pc' # "idle" /\ req' = req /\ (pc' = "read" => req.kind = "read")
  BY DEF EraseOld
<1> QED
  BY <1>1 DEF DiscInv, CallInv, NoRequest, Writing

LEMMA ReadSubPageCall ==
    ASSUME DiscInv, ReadSubPage
    PROVE  CallInv' /\ Disc' = Disc
<1>1. /\ SafeInv /\ pc = "read" /\ remain = 0 /\ pc' = "idle" /\ req' = NoRequest
      /\ UNCHANGED <<flash, map, block, oldBlock, remain>>
  BY DEF ReadSubPage, DiscInv, SafeInv, TableInv, ControlInv, lutVars
<1>2. ~Opened /\ Opened' = Opened
  BY <1>1 DEF Opened
<1> QED
  BY <1>1, <1>2, SameValues DEF CallInv, NoRequest, Writing

LEMMA RestartCall ==
    ASSUME DiscInv, Restart
    PROVE  CallInv' /\ Disc' = Disc
<1>1. SafeInv /\ ~Opened /\ ~Opened' /\ remain' = 0 /\ pc' = "idle" /\ req' = NoRequest
  BY DEF DiscInv, Restart, StartUp, Opened
<1>2. map' = map /\ flash' = flash
  BY <1>1, TableFromTags DEF Restart, StartUp
<1>3. \A s \in Sectors : SectorValue(s)' = SectorValue(s)
  BY <1>1, <1>2 DEF SectorValue
<1>4. Disc' = Disc
  BY <1>3 DEF Disc
<1> QED
  BY <1>1, <1>4 DEF CallInv, NoRequest, Writing

LEMMA InitDisc == Init => DiscInv
<1> SUFFICES ASSUME Init PROVE DiscInv
  OBVIOUS
<1>1. pc = "idle" /\ remain = 0 /\ req = NoRequest
  BY DEF Init
<1> QED
  BY <1>1, InitSafe DEF DiscInv, CallInv, NoRequest, Writing

LEMMA NextDisc ==
    ASSUME DiscInv, [Next]_vars
    PROVE  DiscInv'
<1>1. SUFFICES CallInv'
  BY NextSafe DEF DiscInv
<1>2. CASE Call
  BY <1>2, StartCall
<1>3. CASE OpenBlock
  BY <1>3, OpenBlockCall
<1>4. CASE CopyHead \/ CopyTail
  BY <1>4, CopyCall
<1>5. CASE FillPage
  BY <1>5, FillCount, FillCall DEF SafeInv, DiscInv
<1>6. CASE EraseOld
  BY <1>6, EraseOldCall
<1>7. CASE ReadSubPage
  BY <1>7, ReadSubPageCall
<1>8. CASE Restart
  BY <1>8, RestartCall
<1>9. CASE UNCHANGED vars
  BY <1>9 DEF vars, wrVars, DiscInv, CallInv, Placed, Cursor, Writing
<1> QED
  BY <1>2, <1>3, <1>4, <1>5, <1>6, <1>7, <1>8, <1>9 DEF Next, DriverStep

-----------------------------------------------------------------------------
(* Every step of the driver is one of the disc, or none.                   *)
LEMMA StepRefines ==
    ASSUME DiscInv, [Next]_vars
    PROVE  [Abstract!Next]_Abstract!vars
<1> DEFINE size == NumLogical * NumSubPages
<1>s. SafeInv /\ CallInv /\ Sectors = 0 .. size - 1 /\ size \in Nat
  BY Geometry DEF DiscInv, Sectors
<1>v. UNCHANGED <<Disc, Todo, out>> => UNCHANGED Abstract!vars
  BY DEF Disc, Todo, Abstract!vars
<1>f. Disc' = Disc /\ Todo' = Todo /\ out' = None => Abstract!Next
  BY DEF Disc, Todo, Abstract!Forget, Abstract!Next
<1> HIDE DEF size
<1>1. ASSUME NEW kind \in {"write", "safe"}, NEW a \in Sectors, NEW n \in 1 .. MaxCount,
             NEW d \in Data, a + n <= NumLogical * NumSubPages, WritePages(kind, a, n, d)
      PROVE  Abstract!Next
  <2>1. Disc' = Disc
    BY <1>1, StartCall DEF Call
  <2>2. ~Writing /\ out' = None /\ req' = [kind |-> kind, addr |-> a, left |-> n, data |-> d]
    BY <1>1, CallFacts DEF WritePages, DiscInv, CallInv
  <2>3. n \in Nat /\ n > 0 /\ a \in Nat /\ a + n <= size
    BY <1>1, <1>s, SizesAssumption DEF size
  <2>4. Writing' /\ Todo' = [addr |-> a, left |-> n, data |-> d]
    BY <2>2, <2>3 DEF Writing, Todo
  <2>5. n \in 1 .. size
    BY <1>s, <2>3
  <2>6. Abstract!Submit(a, n, d)
    BY <2>1, <2>2, <2>4 DEF Abstract!Submit, Abstract!Nothing, Disc, Todo
  <2> QED
    BY <1>1, <1>s, <2>5, <2>6 DEF Abstract!Next, Abstract!Sectors, size
<1>2. CASE FinishPartialCopy \/ \E a \in Sectors : ReadPages(a)
  <2>1. Disc' = Disc
    BY <1>2, StartCall DEF Call
  <2>2. ~Writing /\ ~Writing' /\ out' = None
    BY <1>2, CallFacts DEF FinishPartialCopy, ReadPages, DiscInv, CallInv, Writing
  <2> QED
    BY <1>f, <2>1, <2>2 DEF Todo
<1>3. CASE OpenBlock
  <2>1. Disc' = Disc /\ UNCHANGED <<req, out>>
    BY <1>3, <1>s, OpenBlockDisc DEF OpenBlock
  <2> QED
    BY <1>v, <2>1 DEF Todo, Writing
<1>4. CASE CopyHead \/ CopyTail
  BY <1>4, <1>v, CopyCall DEF Todo, Writing
<1>5. CASE FillPage
  <2>1. PICK n \in Nat \ {0} : Fills(n)
    BY <1>5, <1>s, FillCount DEF SafeInv
  <2>2. /\ req \in Request /\ req.addr \in Nat /\ req.left \in Nat /\ n <= req.left /\ out' = out
        /\ req.kind \in {"write", "safe"} /\ req.left > 0 /\ req.addr + req.left <= size
    BY <1>s, <2>1, CallFacts DEF SafeInv, TableInv, ControlInv, Fills, CallInv, Writing, size
  <2>3. Writing /\ Todo = [addr |-> req.addr, left |-> req.left, data |-> req.data]
    BY <2>2 DEF Writing, Todo
  <2>4. Todo' = IF n = req.left THEN [addr |-> 0, left |-> 0, data |-> None]
                ELSE [addr |-> req.addr + n, left |-> req.left - n, data |-> req.data]
    <3>1. CASE req' = [req EXCEPT !.addr = @ + n, !.left = @ - n]
      <4>1. /\ req'.addr = req.addr + n /\ req'.left = req.left - n
            /\ req'.kind = req.kind /\ req'.data = req.data
        BY <2>2, <3>1 DEF Request
      <4>2. req.left - n > 0 <=> n # req.left
        BY <2>2
      <4> QED
        BY <2>2, <4>1, <4>2 DEF Todo, Writing
    <3>2. CASE n = req.left /\ req' = [req EXCEPT !.addr = @ + n, !.left = 0]
      <4>1. req'.left = 0
        BY <2>2, <3>2 DEF Request
      <4> QED
        BY <3>2, <4>1 DEF Todo, Writing
    <3>3. CASE n = req.left /\ req' = NoRequest
      BY <3>3 DEF Todo, Writing, NoRequest
    <3> QED
      BY <2>1, <3>1, <3>2, <3>3 DEF Fills
  <2>5. Disc' = [s \in Sectors |->
                   IF s \in req.addr .. req.addr + n - 1 THEN req.data ELSE Disc[s]]
    BY <2>1, FillDisc
  <2>6. n \in 1 .. size
    BY <1>s, <2>2
  <2>7. Abstract!Commit(n)
    <3>1. /\ Todo.left > 0 /\ n <= Todo.left
          /\ Disc' = [s \in Sectors |->
                        IF s \in Todo.addr .. Todo.addr + n - 1 THEN Todo.data ELSE Disc[s]]
          /\ Todo' = IF n = Todo.left THEN [addr |-> 0, left |-> 0, data |-> None]
                     ELSE [Todo EXCEPT !.addr = @ + n, !.left = @ - n]
          /\ UNCHANGED out
      BY <2>2, <2>3, <2>4, <2>5
    <3> QED
      BY <3>1 DEF Abstract!Commit, Abstract!Nothing, Abstract!Sectors, Disc, Todo, Sectors
  <2> QED
    BY <2>6, <2>7 DEF Abstract!Next, size
<1>6. CASE EraseOld
  <2>1. Disc' = Disc /\ out' = out
    BY <1>6, <1>s, EraseOldDisc DEF EraseOld
  <2>2. Todo' = Todo
    BY <1>6 DEF EraseOld, Todo, Writing, NoRequest
  <2> QED
    BY <1>v, <2>1, <2>2
<1>7. CASE ReadSubPage
  <2>1. Disc' = Disc
    BY <1>7, ReadSubPageCall
  <2>2. /\ req.kind = "read" /\ req.addr \in Sectors
        /\ remain = 0 /\ pc = "read" /\ req' = NoRequest
    BY <1>7, <1>s DEF ReadSubPage, CallInv, SafeInv, TableInv, ControlInv
  <2>3. ~Writing /\ ~Writing' /\ ~Opened
    BY <2>2 DEF Writing, NoRequest, Opened
  <2>4. PICK v \in Data \cup {Blank, Corrupt} :
          /\ map[LogicalOf(req.addr)] # None =>
               v = flash[map[LogicalOf(req.addr)]][PageOf(req.addr)].data
          /\ out' = [addr |-> req.addr, val |-> v]
    BY <1>7 DEF ReadSubPage
  <2>5. Disc[req.addr] # Blank => v = Disc[req.addr]
    BY <2>2, <2>3, <2>4, SectorPlace DEF Disc, SectorValue
  <2>6. Abstract!Read(req.addr, v)
    BY <2>1, <2>3, <2>4, <2>5 DEF Abstract!Read, Abstract!Nothing, Disc, Todo
  <2> QED
    BY <1>s, <2>2, <2>6 DEF Abstract!Next, Abstract!Sectors, size
<1>8. CASE Restart
  <2>1. Disc' = Disc
    BY <1>8, RestartCall
  <2>2. ~Writing /\ ~Writing' /\ out' = None
    BY <1>8, <1>s, CallFacts DEF Restart, StartUp, CallInv, NoRequest, Writing
  <2> QED
    BY <1>f, <2>1, <2>2 DEF Todo
<1>9. CASE UNCHANGED vars
  <2>1. UNCHANGED <<Disc, Todo, out>>
    BY <1>9 DEF vars, lutVars, wrVars, Disc, SectorValue, Opened, Todo, Writing
  <2> QED
    BY <1>v, <2>1
<1> QED
  BY <1>1, <1>2, <1>3, <1>4, <1>5, <1>6, <1>7, <1>8, <1>9 DEF Next, Call, DriverStep

(* For every zone and whatever is written, read, finished and restarted in *)
(* between, libfat sees an array of sectors: a read returns what was last  *)
(* written to its sector, and blocks, copies and the table are invisible   *)
(* (nanddriver.cpp:313-498).                                               *)
THEOREM DriverIsADisc == Spec => ImplementsDisc
<1>1. Init => Abstract!Init
  <2> SUFFICES ASSUME Init PROVE Abstract!Init
    OBVIOUS
  <2>1. \A s \in Sectors : s \div NumSubPages \in Logical
    BY SectorPlace
  <2>2. ~Opened /\ ~Writing /\ out = None /\ \A l \in Logical : map[l] = None
    BY DEF Init, Opened, Writing, NoRequest
  <2>3. \A s \in Sectors : SectorValue(s) = Blank
    BY <2>1, <2>2 DEF SectorValue
  <2> QED
    BY <2>2, <2>3 DEF Abstract!Init, Abstract!Nothing, Abstract!Sectors, Sectors
<1>2. Init => DiscInv
  BY InitDisc
<1>3. DiscInv /\ [Next]_vars => DiscInv'
  BY NextDisc
<1>4. DiscInv /\ [Next]_vars => [Abstract!Next]_Abstract!vars
  BY StepRefines
<1> QED
  BY <1>1, <1>2, <1>3, <1>4, PTL DEF Spec, ImplementsDisc, Abstract!Spec
-----------------------------------------------------------------------------
(* The power fails.                                                        *)

(* What survives: the table is sound whatever the flash holds, and until   *)
(* the first failure everything else is.                                   *)
LossInv == TableInv /\ losses \in Nat /\ (losses = 0 => SafeInv)

LEMMA LossStep ==
    ASSUME LossInv, [LossNext]_lossVars
    PROVE  LossInv'
<1>1. CASE Next /\ UNCHANGED losses
  BY <1>1, NextTable, NextSafe DEF LossInv
<1>2. CASE LosePower
  BY <1>2, StartUpTable DEF LossInv, LosePower, PowerLoss
<1>3. CASE UNCHANGED lossVars
  <2>1. UNCHANGED vars /\ UNCHANGED losses
    BY <1>3 DEF lossVars
  <2> QED
    BY <2>1, NextTable, NextSafe DEF LossInv
<1> QED
  BY <1>1, <1>2, <1>3 DEF LossNext

THEOREM LossSafety == LossSpec => []LossInv
<1>1. LossInit => LossInv
  BY InitSafe DEF LossInit, LossInv, SafeInv
<1>2. LossInv /\ [LossNext]_lossVars => LossInv'
  BY LossStep
<1> QED
  BY <1>1, <1>2, PTL DEF LossSpec

(* A zone has more writable blocks than logical ones, so that one of them  *)
(* is out of the table.                                                    *)
LEMMA SpareBlock ==
    ASSUME TableInv
    PROVE  FreeBlocks # {}
<1> SUFFICES ASSUME FreeBlocks = {} PROVE FALSE
  OBVIOUS
<1> DEFINE Writable == Phys \ Special
           owner    == [b \in Writable |-> CHOOSE l \in Logical : map[l] = b]
<1>1. \A b \in Writable : owner[b] \in Logical /\ map[owner[b]] = b
  <2> SUFFICES ASSUME NEW b \in Writable
               PROVE  \E l \in Logical : map[l] = b
    OBVIOUS
  <2>1. use[b]
    BY DEF FreeBlocks, TableInv, ControlInv, BuiltCfg
  <2> QED
    BY <2>1 DEF TableInv, UseIffMapped
<1> HIDE DEF owner
<1>2. owner \in Injection(Writable, Logical)
  <2>1. owner \in [Writable -> Logical]
    BY <1>1 DEF owner
  <2>2. \A a, b \in Writable : owner[a] = owner[b] => a = b
    BY <1>1
  <2> QED
    BY <2>1, <2>2 DEF Injection, IsInjective
<1>3. IsFiniteSet(Logical) /\ Cardinality(Logical) = NumLogical
  <2>1. NumLogical - 1 >= 0 /\ NumLogical \in Nat
    BY Geometry
  <2> QED
    BY <2>1, FS_Interval DEF Logical
<1>4. Cardinality(Writable) <= Cardinality(Logical)
  BY <1>2, <1>3, FS_Injection
<1>5. IsFiniteSet(Writable)
  BY <1>2, <1>3, FS_Injection
<1> QED
  BY <1>3, <1>4, <1>5, FS_CardinalityType, SpareAssumption, Geometry

(* However often and wherever the power fails, ndBuildLUT makes a table in *)
(* which no physical block serves two logical ones and every flag has its  *)
(* block, no step spoils it, and the loop of ndSearchFreeBlock ends        *)
(* (nanddriver.cpp:188, 266).                                              *)
THEOREM TableSurvivesLoss == LossSpec => []TableSound
<1>1. LossInv => TableSound
  BY SpareBlock DEF LossInv, TableInv, TableSound, SearchFinds
<1> QED
  BY <1>1, LossSafety, PTL

(* ... and the bad, config and boot blocks are never touched. *)
THEOREM SpecialSurviveLoss == LossSpec => SpecialUntouched
<1>1. LossInv /\ [LossNext]_lossVars => [\A b \in Special : flash'[b] = flash[b]]_vars
  <2> SUFFICES ASSUME LossInv, LossNext
               PROVE  \A b \in Special : flash'[b] = flash[b]
    BY DEF lossVars
  <2> QED
    BY SpecialStep DEF LossInv, LossNext, LosePower
<1> QED
  BY <1>1, LossSafety, PTL DEF LossSpec, SpecialUntouched

(* The first failure of the power changes no sector outside the logical    *)
(* block that is being rewritten.                                          *)
THEOREM FirstLossContained == LossSpec => LossContained
<1>1. ASSUME LossInv, LossNext, losses = 0, losses' = 1, NEW s \in Sectors,
             ~(Opened /\ s \div NumSubPages = tag)
      PROVE  SectorValue(s)' = SectorValue(s)
  <2>1. SafeInv /\ StartUp
    BY <1>1 DEF LossInv, LossNext, LosePower, PowerLoss
  <2> DEFINE l == s \div NumSubPages
  <2>2. l \in Logical
    BY SectorPlace
  <2>3. map' = BuiltMap /\ flash' = flash /\ ~Opened'
    BY <2>1 DEF StartUp, Opened
  <2>4. BuiltMap[l] = map[l]
    BY <1>1, <2>1, <2>2, EntryFromTags
  <2>5. map'[l] = map[l]
    BY <2>3, <2>4
  <2> QED
    BY <1>1, <2>3, <2>5 DEF SectorValue
<1>2. LossInv /\ [LossNext]_lossVars
        => [losses = 0 /\ losses' = 1 =>
              \A s \in Sectors : ~(Opened /\ s \div NumSubPages = tag)
                                   => SectorValue(s)' = SectorValue(s)]_lossVars
  BY <1>1
<1> QED
  BY <1>2, LossSafety, PTL DEF LossSpec, LossContained
=============================================================================
