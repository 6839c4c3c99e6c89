--------------------------- MODULE NandEccProofs ---------------------------
(***************************************************************************)
(* What NandEcc promises, for every zone, number of tries and amount of    *)
(* lost bits: the table agrees with the tags and marks on the flash, the   *)
(* data of every sector that did not lose two bits is kept, and a read     *)
(* delivers each sector's own data up to the first one with an error.      *)
(***************************************************************************)
EXTENDS NandEcc, FiniteSetTheorems, WellFoundedInduction, TLAPS

(* A free block has nothing on it. *)
FreeIsErased == \A b \in FreeBlocks : page[b] = ErasedBlock

(* A sector of a block that is not on the flash was never written. *)
NeverWritten == \A s \in Sectors : map[LogicalOf(s)] = None => written[s] = Blank

(* Where there are two wrong bits the sector is a lost one. *)
LossIsKnown ==
    \A s \in Sectors :
        map[LogicalOf(s)] # None /\ page[map[LogicalOf(s)]][PageOf(s)].flips = 2 => s \in lost

(* Every sector on the flash has its own data. *)
SectorsOwn ==
    \A s \in Sectors : map[LogicalOf(s)] # None => Own(s, page[map[LogicalOf(s)]][PageOf(s)].data)

(* Reading stopped behind k sectors, or has them all. *)
Stopped(k) == (bad = None <=> k = req.count) /\ ReadTo(k, req)

(* What the call that is under way relies on. *)
CallInv ==
    /\ pc # "idle" => /\ req \in Read
                      /\ map[LogicalOf(req.addr)] # None
                      /\ PageOf(req.addr) + req.count <= NumSubPages
                      /\ tries > 0
    /\ pc = "check" => bad \in {None, map[LogicalOf(req.addr)]}
    /\ pc = "check" => \E k \in 0 .. req.count : Stopped(k)

IInv ==
    /\ TableMatchesFlash /\ FreeIsErased
    /\ SectorsOwn /\ NeverWritten /\ LossIsKnown
    /\ CallInv /\ ReadsToTheError

-----------------------------------------------------------------------------
(* Arithmetic of addresses.                                                *)

(* Multiplication by a natural number is monotonic. *)
LEMMA MulMono ==
    ASSUME NEW a \in Nat, NEW b \in Nat, NEW n \in Nat, a <= b
    PROVE  a * n <= b * n
OBVIOUS

(* Quotient and remainder. *)
LEMMA DivMod ==
    ASSUME NEW x \in Nat, NEW n \in Nat \ {0}
    PROVE  /\ x \div n \in Nat
           /\ (x % n) \in 0 .. n - 1
           /\ x = n * (x \div n) + (x % n)
OBVIOUS

(* A sector number below l blocks of n sectors lies in one of them. *)
LEMMA DivBelow ==
    ASSUME NEW l \in Nat, NEW n \in Nat \ {0}, NEW x \in 0 .. l * n - 1
    PROVE  x \div n \in 0 .. l - 1
<1> DEFINE q == x \div n
<1>1. q \in Nat /\ n * q <= x
  BY DivMod
<1>2. CASE q >= l
  <2>1. l * n <= q * n
    BY <1>1, <1>2, MulMono
  <2> QED
    BY <2>1, <1>1
<1> QED
  BY <1>1, <1>2

(* Quotient and remainder are the only ones. *)
LEMMA DivModUnique ==
    ASSUME NEW n \in Nat \ {0}, NEW q \in Nat, NEW r \in 0 .. n - 1
    PROVE  (n * q + r) \div n = q /\ (n * q + r) % n = r
<1> DEFINE x == n * q + r
           k == x \div n
<1>1. n * q \in Nat /\ x \in Nat
  OBVIOUS
<1>2. k \in Nat /\ (x % n) \in 0 .. n - 1 /\ x = n * k + (x % n)
  BY <1>1, DivMod
<1> HIDE DEF x, k
<1>3. x = n * q + r
  BY DEF x
<1>4. ~(k < q)
  <2> SUFFICES ASSUME k < q PROVE FALSE
    OBVIOUS
  <2>1. (k + 1) * n <= q * n
    BY <1>2, MulMono
  <2>2. (k + 1) * n = n * k + n /\ q * n = n * q
    BY <1>2
  <2> QED
    BY <1>2, <1>3, <2>1, <2>2
<1>5. ~(q < k)
  <2> SUFFICES ASSUME q < k PROVE FALSE
    OBVIOUS
  <2>1. (q + 1) * n <= k * n
    BY <1>2, MulMono
  <2>2. (q + 1) * n = n * q + n /\ k * n = n * k
    BY <1>2
  <2> QED
    BY <1>2, <1>3, <2>1, <2>2
<1>6. k = q /\ (x % n) = r
  BY <1>2, <1>3, <1>4, <1>5
<1> QED
  BY <1>6 DEF k, x

(* The sizes of a zone, and that no block is None. *)
LEMMA Sizes ==
    /\ NumBlocks \in Nat \ {0} /\ NumLogical \in Nat \ {0} /\ NumSubPages \in Nat \ {0}
    /\ Retries \in Nat \ {0} /\ MaxCount \in Nat \ {0} /\ MaxFlips \in Nat
    /\ Logical \subseteq Phys /\ Phys \subseteq Nat /\ None \notin Phys
BY EccAssumption DEF Logical, Phys

(* The block and the page of a sector. *)
LEMMA PlaceOfSector ==
    ASSUME NEW s \in Sectors
    PROVE  /\ s \in Nat /\ LogicalOf(s) \in Logical /\ PageOf(s) \in SubPages
           /\ s = NumSubPages * LogicalOf(s) + PageOf(s)
<1>1. s \in 0 .. NumLogical * NumSubPages - 1 /\ s \in Nat
  BY Sizes DEF Sectors
<1>2. s \div NumSubPages \in 0 .. NumLogical - 1
  BY <1>1, Sizes, DivBelow
<1>3. /\ (s % NumSubPages) \in 0 .. NumSubPages - 1
      /\ s = NumSubPages * (s \div NumSubPages) + (s % NumSubPages)
  BY <1>1, Sizes, DivMod
<1> QED
  BY <1>1, <1>2, <1>3 DEF LogicalOf, PageOf, Logical, SubPages

(* The sector of a block and a page. *)
LEMMA SectorOfPlace ==
    ASSUME NEW l \in Logical, NEW p \in SubPages
    PROVE  /\ NumSubPages * l + p \in Sectors
           /\ l * NumSubPages + p = NumSubPages * l + p
           /\ LogicalOf(NumSubPages * l + p) = l /\ PageOf(NumSubPages * l + p) = p
<1>1. l \in 0 .. NumLogical - 1 /\ l \in Nat /\ p \in 0 .. NumSubPages - 1
  BY Sizes DEF Logical, SubPages
<1>2. (NumSubPages * l + p) \div NumSubPages = l /\ (NumSubPages * l + p) % NumSubPages = p
  BY <1>1, Sizes, DivModUnique
<1>3. (l + 1) * NumSubPages <= NumLogical * NumSubPages
  BY <1>1, Sizes, MulMono
<1>4. /\ (l + 1) * NumSubPages = NumSubPages * l + NumSubPages
      /\ NumLogical * NumSubPages \in Nat /\ NumSubPages * l \in Nat
      /\ l * NumSubPages = NumSubPages * l
  BY <1>1, Sizes
<1>5. NumSubPages * l + p \in Sectors
  BY <1>1, <1>3, <1>4, Sizes DEF Sectors
<1> QED
  BY <1>2, <1>4, <1>5 DEF LogicalOf, PageOf

(* The sectors that follow in the same block. *)
LEMMA SectorAfter ==
    ASSUME NEW s \in Sectors, NEW i \in Nat, PageOf(s) + i < NumSubPages
    PROVE  /\ s + i \in Sectors
           /\ LogicalOf(s + i) = LogicalOf(s) /\ PageOf(s + i) = PageOf(s) + i
<1>1. /\ s \in Nat /\ LogicalOf(s) \in Logical /\ PageOf(s) \in SubPages
      /\ s = NumSubPages * LogicalOf(s) + PageOf(s)
  BY PlaceOfSector
<1>2. PageOf(s) + i \in SubPages /\ PageOf(s) \in Nat /\ LogicalOf(s) \in Nat
  BY <1>1, Sizes DEF SubPages, Logical
<1>3. s + i = NumSubPages * LogicalOf(s) + (PageOf(s) + i)
  <2>1. NumSubPages * LogicalOf(s) \in Nat
    BY <1>2, Sizes
  <2> QED
    BY <1>1, <1>2, <2>1
<1> QED
  BY <1>1, <1>2, <1>3, SectorOfPlace

(* Two sectors in one place are the same. *)
LEMMA SamePlace ==
    ASSUME NEW s \in Sectors, NEW t \in Sectors,
           LogicalOf(s) = LogicalOf(t), PageOf(s) = PageOf(t)
    PROVE  s = t
BY PlaceOfSector

(* Every nonempty set of naturals has a lowest element: the intervals      *)
(* below its elements are finite sets, which are well-founded.             *)
LEMMA LowestIn ==
    ASSUME NEW S \in SUBSET Nat, S # {}
    PROVE  Lowest(S) \in S /\ \A c \in S : Lowest(S) <= c
  <1> DEFINE below == {0 .. n : n \in S}
  <1>1. below \subseteq FiniteSubsetsOf(Nat) /\ below # {}
    <2>1. \A n \in S : IsFiniteSet(0 .. n) /\ 0 .. n \subseteq Nat
      BY FS_Interval
    <2> QED
      BY <2>1 DEF FiniteSubsetsOf
  <1>2. PICK b \in below : \A d \in below : <<d, b>> \notin StrictSubsetOrdering(Nat)
    <2>1. IsWellFoundedOn(StrictSubsetOrdering(Nat), FiniteSubsetsOf(Nat))
      BY FS_StrictSubsetOrderingWellFounded
    <2> HIDE DEF below
    <2> QED
      BY <1>1, <2>1, WFMin
  <1>3. PICK m \in S : b = 0 .. m
    OBVIOUS
  <1>4. \A c \in S : m <= c
    <2> SUFFICES ASSUME NEW c \in S, c < m PROVE FALSE
      OBVIOUS
    <2>1. 0 .. c \in below
      OBVIOUS
    <2>2. 0 .. c \subseteq 0 .. m /\ m \in 0 .. m /\ m \notin 0 .. c /\ 0 .. m \subseteq Nat
      OBVIOUS
    <2>3. <<0 .. c, 0 .. m>> \in StrictSubsetOrdering(Nat)
      BY <2>2 DEF StrictSubsetOrdering
    <2> QED
      BY <1>2, <1>3, <2>1, <2>3
  <1> QED
    BY <1>4 DEF Lowest

-----------------------------------------------------------------------------
(* The table.                                                              *)

(* The block a logical one is mapped to has its tag and no mark. *)
LEMMA MappedBlock ==
    ASSUME TableMatchesFlash, NEW l \in Logical, map[l] # None
    PROVE  /\ map[l] \in Phys /\ owner[map[l]] = l /\ ~marked[map[l]]
           /\ use[map[l]] /\ ~cfg[map[l]]
<1>1. map[l] \in Holding(owner, marked, l)
  BY DEF TableMatchesFlash
<1> QED
  BY <1>1 DEF TableMatchesFlash, Holding

(* A free block belongs to nobody. *)
LEMMA FreeBlock ==
    ASSUME TableMatchesFlash, NEW b \in FreeBlocks
    PROVE  /\ b \in Phys /\ ~use[b] /\ ~cfg[b] /\ ~marked[b]
           /\ owner[b] = None
           /\ \A l \in Logical : map[l] # b
<1>1. b \in Phys /\ ~use[b] /\ ~cfg[b] /\ ~marked[b] /\ \A l \in Logical : map[l] # b
  BY DEF TableMatchesFlash, FreeBlocks
<1>2. owner[b] = None
  <2> SUFFICES ASSUME owner[b] # None PROVE FALSE
    OBVIOUS
  <2>1. owner[b] \in Logical
    BY <1>1 DEF TableMatchesFlash, TypeOK
  <2>2. b \in Holding(owner, marked, owner[b])
    BY <1>1, <2>1 DEF Holding
  <2> QED
    BY <1>1, <2>1, <2>2 DEF TableMatchesFlash
<1> QED
  BY <1>1, <1>2

(* A page that is copied keeps its data unless it has two wrong bits. *)
LEMMA CopiedPage ==
    ASSUME NEW pg \in [data : Data \cup {Blank, Corrupt}, flips : 0 .. 2]
    PROVE  /\ Copied(pg) \in [data : Data \cup {Blank, Corrupt}, flips : 0 .. 2]
           /\ Copied(pg).flips = 0
           /\ Copied(pg).data = IF pg.flips = 2 THEN Corrupt ELSE pg.data
BY DEF Copied

LEMMA ErasedPages ==
    /\ ErasedBlock \in [SubPages -> [data : Data \cup {Blank, Corrupt}, flips : 0 .. 2]]
    /\ \A p \in SubPages : ErasedBlock[p] = ErasedPage
    /\ Copied(ErasedPage) = ErasedPage
    /\ ErasedPage.data = Blank /\ ErasedPage.flips = 0
BY DEF ErasedBlock, ErasedPage, Copied

-----------------------------------------------------------------------------
LEMMA InitIInv == Init => IInv
<1> SUFFICES ASSUME Init PROVE IInv
  OBVIOUS
<1> USE Sizes DEF Init
<1>1. TypeOK
  BY ErasedPages DEF TypeOK, Read
<1>2. TableMatchesFlash
  BY <1>1 DEF TableMatchesFlash, Holding
<1>3. /\ FreeIsErased
      /\ \A s \in Sectors : map[LogicalOf(s)] = None
  BY PlaceOfSector DEF FreeIsErased, FreeBlocks
<1>4. SectorsOwn /\ NeverWritten /\ LossIsKnown
  BY <1>3 DEF SectorsOwn, NeverWritten, LossIsKnown
<1>5. CallInv /\ ReadsToTheError
  BY DEF CallInv, ReadsToTheError
<1> QED
  BY <1>2, <1>3, <1>4, <1>5 DEF IInv

(* A bit is lost. *)
LEMMA FlipStep ==
    ASSUME IInv, NEW l \in Logical, NEW p \in SubPages, Flip(l, p)
    PROVE  IInv'
<1> DEFINE b == map[l]
           s0 == NumSubPages * l + p
           Pages == [data : Data \cup {Blank, Corrupt}, flips : 0 .. 2]
<1> USE Sizes
<1>1. /\ b \in Phys /\ map' = map /\ owner' = owner /\ marked' = marked /\ use' = use
      /\ cfg' = cfg /\ ecc' = ecc /\ written' = written /\ UNCHANGED callVars
      /\ map[l] # None /\ page[b][p].flips < 2 /\ use[b]
  <2>1. map[l] # None
    BY DEF Flip
  <2> QED
    BY <2>1, MappedBlock DEF IInv, Flip, lutVars, callVars
<1>2. /\ s0 \in Sectors /\ LogicalOf(s0) = l /\ PageOf(s0) = p /\ l * NumSubPages + p = s0
  BY SectorOfPlace
<1> HIDE DEF s0
<1>3. page \in [Phys -> [SubPages -> Pages]]
  BY DEF IInv, TableMatchesFlash, TypeOK
<1>4. /\ page' = [page EXCEPT ![b][p].flips = @ + 1]
      /\ page' \in [Phys -> [SubPages -> Pages]]
      /\ lost' = IF page[b][p].flips = 1 THEN lost \cup {s0} ELSE lost
  <2>1. page' = [page EXCEPT ![b][p].flips = @ + 1]
    BY <1>1 DEF Flip
  <2>2. page[b] \in [SubPages -> Pages] /\ page[b][p] \in Pages
    BY <1>1, <1>3
  <2>3. [page[b][p] EXCEPT !.flips = @ + 1] \in Pages
    BY <1>1, <2>2
  <2>4. page' \in [Phys -> [SubPages -> Pages]]
    <3>1. [page[b] EXCEPT ![p] = [page[b][p] EXCEPT !.flips = @ + 1]] \in [SubPages -> Pages]
      BY <2>2, <2>3
    <3> QED
      BY <1>1, <1>3, <2>1, <3>1
  <2>5. lost' = IF page[b][p].flips = 1 THEN lost \cup {s0} ELSE lost
    BY <1>1, <1>2 DEF Flip
  <2> QED
    BY <2>1, <2>4, <2>5
<1>5. /\ \A c \in Phys : c # b => page'[c] = page[c]
      /\ \A c \in Phys, q \in SubPages : page'[c][q].data = page[c][q].data
      /\ \A c \in Phys, q \in SubPages :
            c # b \/ q # p => page'[c][q].flips = page[c][q].flips
      /\ page'[b][p].flips = page[b][p].flips + 1
  BY <1>1, <1>3, <1>4
<1>6. lost \subseteq lost' /\ lost' \subseteq Sectors
  BY <1>2, <1>4 DEF IInv, TableMatchesFlash, TypeOK
<1>7. TypeOK'
  <2>1. flipped' \in 0 .. MaxFlips
    BY DEF IInv, TableMatchesFlash, TypeOK, Flip
  <2>2. /\ UNCHANGED <<owner, marked, map, use, cfg, ecc, written, faults>>
        /\ UNCHANGED <<tries, req, buf, bad, out, pc>>
    BY <1>1 DEF Flip, callVars
  <2>3. TypeOK
    BY DEF IInv, TableMatchesFlash
  <2> HIDE DEF b
  <2> QED
    BY <1>4, <1>6, <2>1, <2>2, <2>3 DEF TypeOK
<1>8. TableMatchesFlash'
  BY <1>1, <1>7 DEF IInv, TableMatchesFlash, Holding
<1>9. FreeIsErased'
  BY <1>1, <1>5 DEF IInv, FreeIsErased, FreeBlocks
<1>10. NeverWritten'
  BY <1>1 DEF IInv, NeverWritten
<1>11. SectorsOwn'
  <2> SUFFICES ASSUME NEW s \in Sectors, map[LogicalOf(s)] # None
               PROVE  \/ page'[map[LogicalOf(s)]][PageOf(s)].data = written[s]
                      \/ s \in lost' /\ page'[map[LogicalOf(s)]][PageOf(s)].data = Corrupt
    BY <1>1 DEF SectorsOwn, Own
  <2>1. map[LogicalOf(s)] \in Phys /\ PageOf(s) \in SubPages
    BY PlaceOfSector, MappedBlock DEF IInv
  <2> QED
    BY <1>1, <1>5, <1>6, <2>1 DEF IInv, SectorsOwn, Own
<1>12. LossIsKnown'
  <2> SUFFICES ASSUME NEW s \in Sectors, map[LogicalOf(s)] # None,
                      page'[map[LogicalOf(s)]][PageOf(s)].flips = 2
               PROVE  s \in lost'
    BY <1>1 DEF LossIsKnown
  <2>1. map[LogicalOf(s)] \in Phys /\ PageOf(s) \in SubPages /\ LogicalOf(s) \in Logical
    BY PlaceOfSector, MappedBlock DEF IInv
  <2>2. CASE map[LogicalOf(s)] = b /\ PageOf(s) = p
    <3>1. LogicalOf(s) = l
      BY <1>1, <2>1, <2>2, MappedBlock DEF IInv
    <3>2. s = s0
      BY <1>2, <2>2, <3>1, SamePlace
    <3>3. page[b][p].flips \in 0 .. 2
      BY <1>1, <1>3
    <3>4. page[b][p].flips = 1
      BY <1>5, <2>2, <3>3
    <3> QED
      BY <1>4, <3>2, <3>4
  <2>3. CASE ~(map[LogicalOf(s)] = b /\ PageOf(s) = p)
    <3>1. page[map[LogicalOf(s)]][PageOf(s)].flips = 2
      BY <1>5, <2>1, <2>3
    <3> QED
      BY <1>6, <3>1 DEF IInv, LossIsKnown
  <2> QED
    BY <2>2, <2>3
<1>13. CallInv'
  BY <1>1, <1>6 DEF IInv, CallInv, Stopped, ReadTo, Own, callVars
<1>14. ReadsToTheError'
  BY <1>1, <1>6 DEF IInv, ReadsToTheError, ReadTo, Own, callVars
<1> QED
  BY <1>8, <1>9, <1>10, <1>11, <1>12, <1>13, <1>14 DEF IInv

(* A sector is written: its block moves to a free one. *)
LEMMA WriteStep ==
    ASSUME IInv, NEW s \in Sectors, NEW d \in Data, WriteSector(s, d)
    PROVE  IInv'
<1> DEFINE l == LogicalOf(s)
           p0 == PageOf(s)
           Pages == [data : Data \cup {Blank, Corrupt}, flips : 0 .. 2]
<1> USE Sizes
<1>1. PICK free \in FreeBlocks :
        LET old == IF map[l] = None THEN free ELSE map[l]
            new == [p \in SubPages |-> IF p = p0 THEN [data |-> d, flips |-> 0]
                                       ELSE Copied(page[old][p])]
        IN  /\ page' = [page EXCEPT ![old] = ErasedBlock, ![free] = new]
            /\ owner' = [owner EXCEPT ![old] = None, ![free] = l]
            /\ map' = [map EXCEPT ![l] = free]
            /\ use' = [use EXCEPT ![old] = FALSE, ![free] = TRUE]
            /\ ecc' = [ecc EXCEPT ![l] = FALSE]
  BY DEF WriteSector
<1> DEFINE old == IF map[l] = None THEN free ELSE map[l]
           new == [p \in SubPages |-> IF p = p0 THEN [data |-> d, flips |-> 0]
                                      ELSE Copied(page[old][p])]
<1>2. /\ page' = [page EXCEPT ![old] = ErasedBlock, ![free] = new]
      /\ owner' = [owner EXCEPT ![old] = None, ![free] = l]
      /\ map' = [map EXCEPT ![l] = free]
      /\ use' = [use EXCEPT ![old] = FALSE, ![free] = TRUE]
      /\ ecc' = [ecc EXCEPT ![l] = FALSE]
  BY <1>1
<1>3. /\ pc = "idle" /\ written' = [written EXCEPT ![s] = d] /\ lost' = lost \ {s}
      /\ out' = None
      /\ UNCHANGED <<marked, cfg, tries, req, buf, bad, pc, flipped, faults>>
  BY DEF WriteSector
<1>4. TableMatchesFlash /\ TypeOK
  BY DEF IInv, TableMatchesFlash
<1>5. l \in Logical /\ p0 \in SubPages /\ l \in Phys
  BY PlaceOfSector
<1>6. /\ free \in Phys /\ ~use[free] /\ ~cfg[free] /\ ~marked[free] /\ owner[free] = None
      /\ \A m \in Logical : map[m] # free
  BY <1>4, FreeBlock
<1>7. /\ map[l] # None => old # free /\ owner[old] = l /\ ~marked[old] /\ old = map[l] /\ use[old]
      /\ map[l] = None => old = free
      /\ old \in Phys
  <2>1. CASE map[l] = None
    BY <1>6, <2>1
  <2>2. CASE map[l] # None
    BY <1>4, <1>5, <1>6, <2>2, MappedBlock
  <2> QED
    BY <2>1, <2>2
<1>8. \A m \in Logical : m # l => map[m] # old
  <2> SUFFICES ASSUME NEW m \in Logical, m # l, map[m] = old PROVE FALSE
    OBVIOUS
  <2>1. map[m] # None
    BY <1>7
  <2>2. owner[old] = m
    BY <1>4, <2>1, MappedBlock
  <2> QED
    BY <1>5, <1>6, <1>7, <2>2
<1>9. page \in [Phys -> [SubPages -> Pages]]
  BY <1>4 DEF TypeOK
<1>10. /\ new \in [SubPages -> Pages]
       /\ new[p0].data = d
       /\ \A p \in SubPages : new[p].flips = 0
       /\ \A p \in SubPages \ {p0} :
             new[p].data = IF page[old][p].flips = 2 THEN Corrupt ELSE page[old][p].data
  <2>1. [data |-> d, flips |-> 0] \in Pages
    OBVIOUS
  <2>2. \A p \in SubPages : /\ page[old][p] \in Pages
                            /\ Copied(page[old][p]) \in Pages
                            /\ Copied(page[old][p]).flips = 0
                            /\ Copied(page[old][p]).data = IF page[old][p].flips = 2 THEN Corrupt ELSE page[old][p].data
    <3> SUFFICES ASSUME NEW p \in SubPages
                 PROVE  /\ page[old][p] \in Pages
                        /\ Copied(page[old][p]) \in Pages
                        /\ Copied(page[old][p]).flips = 0
                        /\ Copied(page[old][p]).data = IF page[old][p].flips = 2 THEN Corrupt ELSE page[old][p].data
      OBVIOUS
    <3>1. page[old][p] \in Pages
      BY <1>7, <1>9
    <3> QED
      BY <3>1, CopiedPage
  <2> HIDE DEF Pages
  <2> QED
    BY <1>5, <2>1, <2>2
<1> HIDE DEF old, new, l, p0
<1>11. /\ page' \in [Phys -> [SubPages -> Pages]]
       /\ page'[free] = new
       /\ old # free => page'[old] = ErasedBlock
       /\ \A b \in Phys \ {old, free} : page'[b] = page[b]
  <2> HIDE DEF Pages
  <2>1. ErasedBlock \in [SubPages -> Pages]
    BY ErasedPages DEF Pages
  <2> QED
    BY <1>2, <1>6, <1>7, <1>9, <1>10, <2>1
<1>12. /\ map' \in [Logical -> Phys \cup {None}] /\ use' \in [Phys -> BOOLEAN]
       /\ owner' \in [Phys -> Logical \cup {None}] /\ ecc' \in [Phys -> BOOLEAN]
       /\ map'[l] = free /\ \A m \in Logical : m # l => map'[m] = map[m]
       /\ owner'[free] = l /\ (old # free => owner'[old] = None)
       /\ \A b \in Phys \ {old, free} : owner'[b] = owner[b] /\ use'[b] = use[b]
       /\ use'[free] /\ (old # free => ~use'[old])
  BY <1>2, <1>4, <1>5, <1>6, <1>7 DEF TypeOK
<1>13. TypeOK'
  <2>1. written' \in [Sectors -> Data \cup {Blank}] /\ lost' \subseteq Sectors
    BY <1>3, <1>4 DEF TypeOK
  <2> QED
    BY <1>3, <1>4, <1>11, <1>12, <2>1 DEF TypeOK
<1>14. \A m \in Logical : Holding(owner', marked', m) = IF map'[m] = None THEN {} ELSE {map'[m]}
  <2> SUFFICES ASSUME NEW m \in Logical
               PROVE  Holding(owner', marked, m) = IF map'[m] = None THEN {} ELSE {map'[m]}
    BY <1>3
  <2>0. Holding(owner, marked, m) = IF map[m] = None THEN {} ELSE {map[m]}
    BY <1>4 DEF TableMatchesFlash
  <2>1. CASE m = l
    <3>1. \A b \in Phys : owner'[b] = l /\ ~marked[b] => b = free
      <4> SUFFICES ASSUME NEW b \in Phys, owner'[b] = l, ~marked[b], b # free PROVE FALSE
        OBVIOUS
      <4>1. b # old
        BY <1>5, <1>12
      <4>2. owner[b] = l
        BY <1>12, <4>1
      <4>3. b \in Holding(owner, marked, l)
        BY <4>2 DEF Holding
      <4>4. map[l] # None /\ map[l] = b
        BY <2>0, <2>1, <4>3
      <4> QED
        BY <1>7, <4>1, <4>4
    <3> QED
      BY <1>6, <1>12, <2>1, <3>1 DEF Holding
  <2>2. CASE m # l
    <3>1. \A b \in Phys : owner'[b] = m <=> owner[b] = m
      BY <1>5, <1>6, <1>7, <1>12, <2>2
    <3>2. Holding(owner', marked, m) = Holding(owner, marked, m)
      BY <3>1 DEF Holding
    <3> QED
      BY <1>12, <2>0, <2>2, <3>2
  <2> QED
    BY <2>1, <2>2
<1>15. \A b \in Phys : use'[b] <=> \E m \in Logical : map'[m] = b
  <2> SUFFICES ASSUME NEW b \in Phys
               PROVE  use'[b] <=> \E m \in Logical : map'[m] = b
    OBVIOUS
  <2>0. use[b] <=> \E m \in Logical : map[m] = b
    BY <1>4 DEF TableMatchesFlash
  <2>1. CASE b = free
    BY <1>5, <1>12, <2>1
  <2>2. CASE b # free /\ b = old
    BY <1>8, <1>12, <2>2
  <2>3. CASE b # free /\ b # old
    BY <1>7, <1>12, <2>0, <2>3
  <2> QED
    BY <2>1, <2>2, <2>3
<1>16. TableMatchesFlash'
  BY <1>3, <1>4, <1>13, <1>14, <1>15 DEF TableMatchesFlash
<1>17. FreeIsErased'
  <2> SUFFICES ASSUME NEW b \in Phys, ~use'[b], ~cfg[b] PROVE page'[b] = ErasedBlock
    BY <1>3 DEF FreeIsErased, FreeBlocks
  <2>1. b # free
    BY <1>12
  <2>2. CASE b = old
    BY <1>11, <2>1, <2>2
  <2>3. CASE b # old
    <3>1. b \in FreeBlocks
      BY <1>12, <2>1, <2>3 DEF FreeBlocks
    <3> QED
      BY <1>11, <2>1, <2>3, <3>1 DEF IInv, FreeIsErased
  <2> QED
    BY <2>2, <2>3
<1>18. written'[s] = d /\ \A t \in Sectors : t # s => written'[t] = written[t]
  BY <1>3, <1>4 DEF TypeOK
<1>19. ASSUME NEW t \in Sectors
       PROVE  /\ map'[LogicalOf(t)] # None
                    => \/ page'[map'[LogicalOf(t)]][PageOf(t)].data = written'[t]
                       \/ t \in lost' /\ page'[map'[LogicalOf(t)]][PageOf(t)].data = Corrupt
              /\ map'[LogicalOf(t)] = None => written'[t] = Blank
              /\ map'[LogicalOf(t)] # None /\ page'[map'[LogicalOf(t)]][PageOf(t)].flips = 2
                    => t \in lost'
  <2>0. /\ LogicalOf(t) \in Logical /\ PageOf(t) \in SubPages
        /\ t \in lost' <=> t \in lost /\ t # s
    BY <1>3, PlaceOfSector
  <2>a. /\ map[LogicalOf(t)] # None
               => \/ page[map[LogicalOf(t)]][PageOf(t)].data = written[t]
                  \/ t \in lost /\ page[map[LogicalOf(t)]][PageOf(t)].data = Corrupt
        /\ map[LogicalOf(t)] = None => written[t] = Blank
        /\ map[LogicalOf(t)] # None /\ page[map[LogicalOf(t)]][PageOf(t)].flips = 2
               => t \in lost
    BY DEF IInv, SectorsOwn, Own, NeverWritten, LossIsKnown
  <2>1. CASE LogicalOf(t) # l
    <3>1. t # s /\ map'[LogicalOf(t)] = map[LogicalOf(t)]
      BY <1>12, <2>0, <2>1 DEF l
    <3>2. map[LogicalOf(t)] # None => page'[map[LogicalOf(t)]] = page[map[LogicalOf(t)]]
      <4> SUFFICES ASSUME map[LogicalOf(t)] # None
                   PROVE  page'[map[LogicalOf(t)]] = page[map[LogicalOf(t)]]
        OBVIOUS
      <4>1. map[LogicalOf(t)] \in Phys \ {old, free}
        BY <1>4, <1>6, <1>8, <2>0, <2>1, MappedBlock
      <4> QED
        BY <1>11, <4>1
    <3> QED
      BY <1>18, <2>0, <2>a, <3>1, <3>2
  <2>2. CASE t = s
    <3>1. LogicalOf(t) = l /\ PageOf(t) = p0
      BY <2>2 DEF l, p0
    <3> QED
      BY <1>5, <1>6, <1>10, <1>11, <1>12, <1>18, <2>0, <2>2, <3>1
  <2>3. CASE LogicalOf(t) = l /\ t # s
    <3>1. PageOf(t) \in SubPages \ {p0}
      BY <2>0, <2>3, SamePlace DEF l, p0
    <3>2. /\ page[old][PageOf(t)].flips = 2 => t \in lost
          /\ \/ page[old][PageOf(t)].data = written[t]
             \/ t \in lost /\ page[old][PageOf(t)].data = Corrupt
      <4>1. CASE map[l] # None
        BY <1>7, <2>a, <2>3, <4>1
      <4>2. CASE map[l] = None
        <5>1. page[old] = ErasedBlock
          BY <1>1, <1>7, <4>2 DEF IInv, FreeIsErased
        <5> QED
          BY <2>0, <2>3, <2>a, <4>2, <5>1, ErasedPages
      <4> QED
        BY <4>1, <4>2
    <3>3. page'[map'[LogicalOf(t)]] = new /\ map'[LogicalOf(t)] # None
      BY <1>6, <1>11, <1>12, <2>3
    <3>4. new[PageOf(t)].flips = 0
      BY <1>10, <3>1
    <3>5. new[PageOf(t)].data = written[t] \/ (t \in lost /\ new[PageOf(t)].data = Corrupt)
      BY <1>10, <3>1, <3>2
    <3> QED
      BY <1>18, <2>0, <2>3, <3>3, <3>4, <3>5
  <2> QED
    BY <2>1, <2>2, <2>3
<1>20. SectorsOwn' /\ NeverWritten' /\ LossIsKnown'
  BY <1>19 DEF SectorsOwn, Own, NeverWritten, LossIsKnown
<1>21. CallInv' /\ ReadsToTheError'
  BY <1>3 DEF CallInv, ReadsToTheError
<1> QED
  BY <1>16, <1>17, <1>20, <1>21 DEF IInv

(* A read begins. *)
LEMMA ReadCallStep ==
    ASSUME IInv, NEW a \in Sectors, NEW n \in 1 .. MaxCount, ReadSectors(a, n)
    PROVE  IInv'
<1> USE Sizes
<1>1. /\ UNCHANGED <<page, owner, marked, map, use, cfg, ecc, flipped, written, lost, faults>>
      /\ pc' = "read" /\ tries' = Retries /\ out' = None /\ bad' = None
      /\ req' = [addr |-> a, count |-> n] /\ buf' = [i \in 0 .. MaxCount - 1 |-> Stale]
      /\ map[LogicalOf(a)] # None /\ PageOf(a) + n <= NumSubPages
  BY DEF ReadSectors, flashVars, lutVars, history
<1>2. TypeOK'
  <2>1. req' \in Read /\ buf' \in [0 .. MaxCount - 1 -> Data \cup {Blank, Corrupt, Stale}]
    BY <1>1 DEF Read
  <2>2. TypeOK
    BY DEF IInv, TableMatchesFlash
  <2> QED
    BY <1>1, <2>1, <2>2 DEF TypeOK
<1>3. TableMatchesFlash'
  BY <1>1, <1>2 DEF IInv, TableMatchesFlash, Holding
<1>4. FreeIsErased' /\ SectorsOwn' /\ NeverWritten' /\ LossIsKnown'
  BY <1>1 DEF IInv, FreeIsErased, FreeBlocks, SectorsOwn, Own, NeverWritten, LossIsKnown
<1>5. CallInv'
  BY <1>1 DEF CallInv, Read
<1>6. ReadsToTheError'
  BY <1>1 DEF ReadsToTheError
<1> QED
  BY <1>3, <1>4, <1>5, <1>6 DEF IInv

(* The pages are read, up to the first with a wrong bit.  Without one the  *)
(* buffer has the data: or there would be a lowest that failed, and the    *)
(* reading gets that far.                                                  *)
LEMMA ReadPagesStep ==
    ASSUME IInv, ReadPages
    PROVE  IInv'
<1> DEFINE b     == map[LogicalOf(req.addr)]
           first == PageOf(req.addr)
           upTo  == {i \in 0 .. req.count - 1 :
                       \A j \in 0 .. i - 1 : ~Failing(b, first + j)}
           Pages == [data : Data \cup {Blank, Corrupt}, flips : 0 .. 2]
<1> USE Sizes
<1>1. /\ UNCHANGED <<page, owner, marked, map, use, cfg, ecc, flipped, written, lost, faults>>
      /\ UNCHANGED <<tries, req, out>>
      /\ pc = "read" /\ pc' = "check"
      /\ buf' = [i \in DOMAIN buf |->
                    IF i \in upTo THEN Seen(page[b][first + i]) ELSE buf[i]]
      /\ bad' = IF \E i \in upTo : Failing(b, first + i) THEN b ELSE None
  BY DEF ReadPages, flashVars, lutVars, history
<1>2. /\ req \in Read /\ b # None /\ first + req.count <= NumSubPages /\ tries > 0
  BY <1>1 DEF IInv, CallInv
<1>3. TypeOK /\ TableMatchesFlash
  BY DEF IInv, TableMatchesFlash
<1>4. /\ req.addr \in Sectors /\ req.count \in 1 .. MaxCount
      /\ first \in SubPages /\ first \in Nat /\ b \in Phys
  <2>1. req.addr \in Sectors /\ req.count \in 1 .. MaxCount
    BY <1>2 DEF Read
  <2>2. PageOf(req.addr) \in SubPages /\ LogicalOf(req.addr) \in Logical
    BY <2>1, PlaceOfSector
  <2>3. b \in Phys
    BY <1>2, <1>3, <2>2, MappedBlock
  <2> QED
    BY <2>1, <2>2, <2>3 DEF SubPages
<1>5. \A i \in 0 .. req.count - 1 :
         first + i \in SubPages /\ i \in 0 .. MaxCount - 1 /\ page[b][first + i] \in Pages
  <2> SUFFICES ASSUME NEW i \in 0 .. req.count - 1
               PROVE  /\ first + i \in SubPages /\ i \in 0 .. MaxCount - 1
                      /\ page[b][first + i] \in Pages
    OBVIOUS
  <2>1. first + i \in SubPages /\ i \in 0 .. MaxCount - 1
    <3> HIDE DEF b, first
    <3> QED
      BY <1>2, <1>4 DEF SubPages
  <2>2. page \in [Phys -> [SubPages -> Pages]]
    BY <1>3 DEF TypeOK
  <2> QED
    BY <1>4, <2>1, <2>2
<1>6. buf \in [0 .. MaxCount - 1 -> Data \cup {Blank, Corrupt, Stale}]
  BY <1>3 DEF TypeOK
<1>7. \A i \in upTo : Seen(page[b][first + i]) \in Data \cup {Blank, Corrupt}
  BY <1>5 DEF Seen
<1>8. bad' \in {None, b}
  BY <1>1
<1>9. ASSUME NEW i \in 0 .. req.count - 1, \A j \in 0 .. i : ~Failing(b, first + j)
      PROVE  Own(req.addr + i, buf'[i])
  <2> HIDE DEF b, first
  <2>1. i \in upTo
    BY <1>4, <1>9
  <2>2. ~Failing(b, first + i)
    BY <1>4, <1>9
  <2> HIDE DEF upTo
  <2>3. page[b][first + i].flips = 0 /\ Seen(page[b][first + i]) = page[b][first + i].data
    BY <1>5, <2>2 DEF Failing, Seen
  <2>4. /\ req.addr + i \in Sectors
        /\ LogicalOf(req.addr + i) = LogicalOf(req.addr) /\ PageOf(req.addr + i) = first + i
    <3>1. PageOf(req.addr) + i < NumSubPages /\ i \in Nat
      BY <1>2, <1>4, <1>5 DEF first, SubPages
    <3> QED
      BY <1>4, <3>1, SectorAfter DEF first
  <2>5. Own(req.addr + i, page[b][first + i].data)
    BY <1>2, <2>4 DEF IInv, SectorsOwn, b
  <2>6. buf'[i] = page[b][first + i].data
    BY <1>1, <1>5, <1>6, <2>1, <2>3
  <2> QED
    BY <2>5, <2>6
<1>0. ASSUME NEW k \in 0 .. req.count, bad' = None <=> k = req.count,
             \A i \in 0 .. k - 1 : Own(req.addr + i, buf'[i]), k < req.count => buf'[k] = Corrupt
      PROVE  \E n \in 0 .. req.count : Stopped(n)'
  <2>1. Stopped(k)'
    BY <1>0, <1>1 DEF Stopped, ReadTo, Own
  <2> QED
    BY <2>1
<1>10. \E k \in 0 .. req.count : Stopped(k)'
  <2> DEFINE F == {i \in 0 .. req.count - 1 : Failing(b, first + i)}
             m == Lowest(F)
  <2>1. req.count \in Nat /\ req.count > 0
    BY <1>4
  <2>2. CASE F = {}
    <3>1. \A i \in 0 .. req.count - 1 : ~Failing(b, first + i)
      BY <2>2
    <3>2. bad' = None
      BY <1>1, <3>1
    <3> HIDE DEF b, first, upTo
    <3>3. \A i \in 0 .. req.count - 1 : Own(req.addr + i, buf'[i])
      <4> SUFFICES ASSUME NEW i \in 0 .. req.count - 1 PROVE Own(req.addr + i, buf'[i])
        OBVIOUS
      <4>1. \A j \in 0 .. i : ~Failing(b, first + j)
        BY <2>1, <3>1
      <4> QED
        BY <1>9, <4>1
    <3> QED
      BY <1>0, <2>1, <3>2, <3>3
  <2>3. CASE F # {}
    <3>1. F \in SUBSET Nat
      OBVIOUS
    <3>2. m \in F /\ \A c \in F : m <= c
      <4> HIDE DEF F
      <4> QED
        BY <2>3, <3>1, LowestIn
    <3> HIDE DEF m
    <3>3. m \in 0 .. req.count - 1 /\ Failing(b, first + m) /\ m \in Nat /\ m < req.count /\ m # req.count
      BY <2>1, <3>2
    <3>4. \A j \in 0 .. m - 1 : j \in 0 .. req.count - 1 /\ ~Failing(b, first + j)
      <4> SUFFICES ASSUME NEW j \in 0 .. m - 1
                   PROVE  j \in 0 .. req.count - 1 /\ ~Failing(b, first + j)
        OBVIOUS
      <4>1. j < m /\ j \in 0 .. req.count - 1
        BY <2>1, <3>3
      <4> QED
        BY <3>2, <3>3, <4>1
    <3> HIDE DEF F
    <3>5. m \in upTo
      BY <3>3, <3>4
    <3>6. bad' = b /\ bad' # None
      BY <1>1, <1>2, <3>3, <3>5
    <3>7. buf'[m] = Corrupt
      <4>1. page[b][first + m].flips # 0
        BY <3>3 DEF Failing
      <4> HIDE DEF b, first, upTo
      <4> QED
        BY <1>1, <1>5, <1>6, <3>3, <3>5, <4>1 DEF Seen
    <3> HIDE DEF b, first, upTo
    <3>8. \A i \in 0 .. m - 1 : Own(req.addr + i, buf'[i])
      <4> SUFFICES ASSUME NEW i \in 0 .. m - 1 PROVE Own(req.addr + i, buf'[i])
        OBVIOUS
      <4>1. i \in 0 .. req.count - 1 /\ \A j \in 0 .. i : j \in 0 .. m - 1
        BY <3>3, <3>4
      <4>2. \A j \in 0 .. i : ~Failing(b, first + j)
        BY <3>4, <4>1
      <4> QED
        BY <1>9, <4>1, <4>2
    <3>9. m \in 0 .. req.count
      BY <2>1, <3>3
    <3> QED
      BY <1>0, <3>3, <3>6, <3>7, <3>8, <3>9
  <2> QED
    BY <2>2, <2>3
<1> HIDE DEF b, first, upTo
<1>11. TypeOK'
  <2>1. buf' \in [0 .. MaxCount - 1 -> Data \cup {Blank, Corrupt, Stale}]
    BY <1>1, <1>6, <1>7
  <2>2. bad' \in Phys \cup {None}
    BY <1>4, <1>8
  <2> QED
    BY <1>1, <1>3, <2>1, <2>2 DEF TypeOK
<1>12. TableMatchesFlash'
  BY <1>1, <1>3, <1>11 DEF TableMatchesFlash, Holding
<1>13. FreeIsErased' /\ SectorsOwn' /\ NeverWritten' /\ LossIsKnown'
  BY <1>1 DEF IInv, FreeIsErased, FreeBlocks, SectorsOwn, Own, NeverWritten, LossIsKnown
<1>14. CallInv'
  <2>1. (pc # "idle")' => /\ req' \in Read
                          /\ map'[LogicalOf(req'.addr)] # None
                          /\ PageOf(req'.addr) + req'.count <= NumSubPages
                          /\ tries' > 0
    BY <1>1, <1>2 DEF b, first
  <2>2. bad' \in {None, map'[LogicalOf(req'.addr)]}
    BY <1>1, <1>8 DEF b
  <2>3. \E k \in 0 .. req'.count : Stopped(k)'
    BY <1>1, <1>10
  <2> QED
    BY <2>1, <2>2, <2>3 DEF CallInv
<1>15. ReadsToTheError'
  BY <1>1 DEF ReadsToTheError
<1> QED
  BY <1>12, <1>13, <1>14, <1>15 DEF IInv

-----------------------------------------------------------------------------
(* What ndReplaceBlock keeps. *)
Kept ==
    /\ page \in [Phys -> [SubPages -> [data : Data \cup {Blank, Corrupt}, flips : 0 .. 2]]]
    /\ owner \in [Phys -> Logical \cup {None}]
    /\ marked \in [Phys -> BOOLEAN]
    /\ map \in [Logical -> Phys \cup {None}]
    /\ use \in [Phys -> BOOLEAN] /\ cfg \in [Phys -> BOOLEAN] /\ ecc \in [Phys -> BOOLEAN]
    /\ faults \in [Phys -> Nat]
    /\ \A l \in Logical : Holding(owner, marked, l) = IF map[l] = None THEN {} ELSE {map[l]}
    /\ \A b \in Phys : use[b] <=> \E l \in Logical : map[l] = b
    /\ cfg = marked
    /\ FreeIsErased /\ SectorsOwn /\ NeverWritten /\ LossIsKnown

(* The block that failed is replaced: the new one has its tag, the old one *)
(* no tag or a mark, and the table that is built again finds just the new. *)
LEMMA Replaced ==
    ASSUME IInv, pc = "check", bad # None, ReplaceBlock, UNCHANGED <<written, lost>>
    PROVE  Kept' /\ map'[LogicalOf(req.addr)] # None
<1> DEFINE l     == LogicalOf(req.addr)
           worn  == ecc[bad] \/ Uncorrectable(bad)
           new   == [p \in SubPages |-> Copied(page[bad][p])]
           Pages == [data : Data \cup {Blank, Corrupt}, flips : 0 .. 2]
<1> USE Sizes
<1>1. PICK free \in FreeBlocks :
        /\ page' = [page EXCEPT ![free] = new, ![bad] = IF worn THEN @ ELSE ErasedBlock]
        /\ owner' = [owner EXCEPT ![free] = l, ![bad] = IF worn THEN @ ELSE None]
        /\ marked' = [marked EXCEPT ![bad] = worn]
        /\ BuildLUT(owner', marked')
        /\ faults' = [faults EXCEPT ![bad] = @ + 1]
  BY DEF ReplaceBlock
<1>2. TableMatchesFlash /\ TypeOK /\ req \in Read /\ map[l] # None /\ bad = map[l]
  BY DEF IInv, TableMatchesFlash, CallInv
<1>3. l \in Logical
  BY <1>2, PlaceOfSector DEF Read
<1>4. /\ bad \in Phys /\ owner[bad] = l /\ ~marked[bad] /\ use[bad] /\ ~cfg[bad]
  BY <1>2, <1>3, MappedBlock
<1>5. /\ free \in Phys /\ ~use[free] /\ ~cfg[free] /\ ~marked[free] /\ owner[free] = None
      /\ \A m \in Logical : map[m] # free
  BY <1>2, FreeBlock
<1>6. free # bad /\ worn \in BOOLEAN
  BY <1>2, <1>4, <1>5 DEF TypeOK, Uncorrectable
<1>7. \A m \in Logical : m # l => map[m] # bad
  <2> SUFFICES ASSUME NEW m \in Logical, m # l, map[m] = bad PROVE FALSE
    OBVIOUS
  <2>1. owner[bad] = m
    BY <1>2, MappedBlock
  <2> QED
    BY <1>4, <2>1
<1>8. page \in [Phys -> [SubPages -> Pages]]
  BY <1>2 DEF TypeOK
<1>9. /\ new \in [SubPages -> Pages]
      /\ \A p \in SubPages : new[p].flips = 0
      /\ \A p \in SubPages : new[p].data = IF page[bad][p].flips = 2 THEN Corrupt ELSE page[bad][p].data
  <2>1. \A p \in SubPages : /\ Copied(page[bad][p]) \in Pages
                            /\ Copied(page[bad][p]).flips = 0
                            /\ Copied(page[bad][p]).data = IF page[bad][p].flips = 2 THEN Corrupt ELSE page[bad][p].data
    <3> SUFFICES ASSUME NEW p \in SubPages
                 PROVE  /\ Copied(page[bad][p]) \in Pages
                        /\ Copied(page[bad][p]).flips = 0
                        /\ Copied(page[bad][p]).data = IF page[bad][p].flips = 2 THEN Corrupt ELSE page[bad][p].data
      OBVIOUS
    <3>1. page[bad][p] \in Pages
      BY <1>4, <1>8
    <3> QED
      BY <3>1, CopiedPage
  <2> HIDE DEF Pages
  <2> QED
    BY <2>1
<1> HIDE DEF new, l, worn
<1>10. /\ page' \in [Phys -> [SubPages -> Pages]]
       /\ page'[free] = new
       /\ ~worn => page'[bad] = ErasedBlock
       /\ \A b \in Phys \ {bad, free} : page'[b] = page[b]
  <2> HIDE DEF Pages
  <2>1. ErasedBlock \in [SubPages -> Pages]
    BY ErasedPages DEF Pages
  <2>2. page[bad] \in [SubPages -> Pages]
    BY <1>4, <1>8
  <2> QED
    BY <1>1, <1>4, <1>5, <1>6, <1>8, <1>9, <2>1, <2>2
<1>11. /\ owner' \in [Phys -> Logical \cup {None}] /\ marked' \in [Phys -> BOOLEAN]
       /\ faults' \in [Phys -> Nat]
       /\ owner'[free] = l /\ owner'[bad] = (IF worn THEN l ELSE None)
       /\ \A b \in Phys \ {bad, free} : owner'[b] = owner[b]
       /\ marked'[bad] = worn
       /\ \A b \in Phys \ {bad} : marked'[b] = marked[b]
  <2>1. owner \in [Phys -> Logical \cup {None}] /\ marked \in [Phys -> BOOLEAN] /\ faults \in [Phys -> Nat]
    BY <1>2 DEF TypeOK
  <2> QED
    BY <1>1, <1>3, <1>4, <1>5, <1>6, <2>1
<1>12. /\ Holding(owner', marked', l) = {free}
       /\ \A m \in Logical : m # l =>
             Holding(owner', marked', m) = IF map[m] = None THEN {} ELSE {map[m]}
  <2>0. \A m \in Logical : Holding(owner, marked, m) = IF map[m] = None THEN {} ELSE {map[m]}
    BY <1>2 DEF TableMatchesFlash
  <2>1. \A b \in Phys : owner'[b] = l /\ ~marked'[b] => b = free
    <3> SUFFICES ASSUME NEW b \in Phys, owner'[b] = l, ~marked'[b], b # free PROVE FALSE
      OBVIOUS
    <3>1. b # bad
      BY <1>3, <1>11
    <3>2. b \in Holding(owner, marked, l)
      BY <1>11, <3>1 DEF Holding
    <3> QED
      BY <1>2, <1>3, <2>0, <3>1, <3>2
  <2>2. Holding(owner', marked', l) = {free}
    BY <1>5, <1>6, <1>11, <2>1 DEF Holding
  <2>3. ASSUME NEW m \in Logical, m # l
        PROVE  Holding(owner', marked', m) = IF map[m] = None THEN {} ELSE {map[m]}
    <3>1. \A b \in Phys : owner'[b] = m /\ ~marked'[b] <=> owner[b] = m /\ ~marked[b]
      <4> SUFFICES ASSUME NEW b \in Phys
                   PROVE  owner'[b] = m /\ ~marked'[b] <=> owner[b] = m /\ ~marked[b]
        OBVIOUS
      <4>1. CASE b = free
        BY <1>5, <1>11, <2>3, <4>1
      <4>2. CASE b = bad
        BY <1>4, <1>11, <2>3, <4>2
      <4>3. CASE b # free /\ b # bad
        BY <1>11, <4>3
      <4> QED
        BY <4>1, <4>2, <4>3
    <3>2. Holding(owner', marked', m) = Holding(owner, marked, m)
      BY <3>1 DEF Holding
    <3> QED
      BY <2>0, <3>2
  <2> QED
    BY <2>2, <2>3
<1>13. /\ map' = [m \in Logical |-> IF Holding(owner', marked', m) = {} THEN None
                                    ELSE Lowest(Holding(owner', marked', m))]
       /\ use' = [b \in Phys |-> \E m \in Logical : map'[m] = b]
       /\ cfg' = marked'
       /\ ecc' = [b \in Phys |-> FALSE]
  BY <1>1 DEF BuildLUT
<1>14. \A b \in Phys : Lowest({b}) = b
  BY DEF Lowest
<1>15. map'[l] = free /\ \A m \in Logical : m # l => map'[m] = map[m]
  <2>1. map'[l] = free
    BY <1>3, <1>5, <1>12, <1>13, <1>14
  <2>2. ASSUME NEW m \in Logical, m # l PROVE map'[m] = map[m]
    <3>1. map[m] \in Phys \cup {None}
      BY <1>2 DEF TypeOK
    <3> QED
      BY <1>12, <1>13, <1>14, <2>2, <3>1
  <2> QED
    BY <2>1, <2>2
<1>16. /\ map' \in [Logical -> Phys \cup {None}]
       /\ use' \in [Phys -> BOOLEAN] /\ cfg' \in [Phys -> BOOLEAN] /\ ecc' \in [Phys -> BOOLEAN]
  <2>1. map' \in [Logical -> Phys \cup {None}]
    <3>1. \A m \in Logical : map'[m] \in Phys \cup {None}
      BY <1>2, <1>5, <1>15 DEF TypeOK
    <3> QED
      BY <1>13, <3>1
  <2> QED
    BY <1>11, <1>13, <2>1
<1>17. \A m \in Logical : Holding(owner', marked', m) = IF map'[m] = None THEN {} ELSE {map'[m]}
  BY <1>3, <1>5, <1>12, <1>15
<1>18. \A b \in Phys : use'[b] <=> \E m \in Logical : map'[m] = b
  BY <1>13
<1>19. FreeIsErased'
  <2> SUFFICES ASSUME NEW b \in Phys, ~use'[b], ~cfg'[b] PROVE page'[b] = ErasedBlock
    BY DEF FreeIsErased, FreeBlocks
  <2>1. b # free
    BY <1>3, <1>15, <1>18
  <2>2. CASE b = bad
    BY <1>10, <1>11, <1>13, <2>2
  <2>3. CASE b # bad
    <3>1. ~use[b]
      <4> SUFFICES ASSUME use[b] PROVE FALSE
        OBVIOUS
      <4>1. PICK m \in Logical : map[m] = b
        BY <1>2 DEF TableMatchesFlash
      <4> QED
        BY <1>2, <1>15, <1>18, <2>3, <4>1
    <3>2. ~cfg[b]
      BY <1>2, <1>11, <1>13, <2>3 DEF TableMatchesFlash
    <3> QED
      BY <1>10, <2>1, <2>3, <3>1, <3>2 DEF IInv, FreeIsErased, FreeBlocks
  <2> QED
    BY <2>2, <2>3
<1>20. ASSUME NEW t \in Sectors
       PROVE  /\ map'[LogicalOf(t)] # None
                    => \/ page'[map'[LogicalOf(t)]][PageOf(t)].data = written[t]
                       \/ t \in lost /\ page'[map'[LogicalOf(t)]][PageOf(t)].data = Corrupt
              /\ map'[LogicalOf(t)] = None => written[t] = Blank
              /\ map'[LogicalOf(t)] # None /\ page'[map'[LogicalOf(t)]][PageOf(t)].flips = 2
                    => t \in lost
  <2>0. LogicalOf(t) \in Logical /\ PageOf(t) \in SubPages
    BY PlaceOfSector
  <2>a. /\ map[LogicalOf(t)] # None
               => \/ page[map[LogicalOf(t)]][PageOf(t)].data = written[t]
                  \/ t \in lost /\ page[map[LogicalOf(t)]][PageOf(t)].data = Corrupt
        /\ map[LogicalOf(t)] = None => written[t] = Blank
        /\ map[LogicalOf(t)] # None /\ page[map[LogicalOf(t)]][PageOf(t)].flips = 2
               => t \in lost
    BY DEF IInv, SectorsOwn, Own, NeverWritten, LossIsKnown
  <2>1. CASE LogicalOf(t) # l
    <3>1. map'[LogicalOf(t)] = map[LogicalOf(t)]
      BY <1>15, <2>0, <2>1
    <3>2. map[LogicalOf(t)] # None => page'[map[LogicalOf(t)]] = page[map[LogicalOf(t)]]
      <4> SUFFICES ASSUME map[LogicalOf(t)] # None
                   PROVE  page'[map[LogicalOf(t)]] = page[map[LogicalOf(t)]]
        OBVIOUS
      <4>1. map[LogicalOf(t)] \in Phys \ {bad, free}
        BY <1>2, <1>5, <1>7, <2>0, <2>1, MappedBlock
      <4> QED
        BY <1>10, <4>1
    <3> QED
      BY <2>a, <3>1, <3>2
  <2>2. CASE LogicalOf(t) = l
    <3>1. page'[map'[l]] = new /\ map'[l] # None
      BY <1>5, <1>10, <1>15
    <3>2. page'[map'[LogicalOf(t)]] = new /\ map'[LogicalOf(t)] # None
      BY <2>2, <3>1
    <3>3. map[LogicalOf(t)] = bad /\ map[LogicalOf(t)] # None
      BY <1>2, <2>2 DEF l
    <3> HIDE DEF Pages
    <3>4. new[PageOf(t)].flips = 0
      BY <1>9, <2>0
    <3>5. new[PageOf(t)].data = written[t] \/ (t \in lost /\ new[PageOf(t)].data = Corrupt)
      BY <1>9, <2>0, <2>a, <3>3
    <3> QED
      BY <3>2, <3>4, <3>5
  <2> QED
    BY <2>1, <2>2
<1>21. SectorsOwn' /\ NeverWritten' /\ LossIsKnown'
  BY <1>1, <1>20 DEF SectorsOwn, Own, NeverWritten, LossIsKnown
<1>22. map'[l] # None
  BY <1>5, <1>15
<1> QED
  BY <1>10, <1>11, <1>13, <1>16, <1>17, <1>18, <1>19, <1>21, <1>22 DEF Kept, l

(* The read ends, or is tried again. *)
LEMMA CheckStep ==
    ASSUME IInv, CheckError
    PROVE  IInv'
<1> USE Sizes
<1>1. pc = "check" /\ UNCHANGED <<buf, bad, flipped, written, lost>>
  BY DEF CheckError
<1>2. /\ TypeOK /\ TableMatchesFlash /\ req \in Read /\ tries > 0
      /\ map[LogicalOf(req.addr)] # None /\ PageOf(req.addr) + req.count <= NumSubPages
      /\ bad = None \/ bad = map[LogicalOf(req.addr)]
      /\ \E k \in 0 .. req.count : Stopped(k)
  BY <1>1 DEF IInv, TableMatchesFlash, CallInv
<1>3. req.addr \in Sectors /\ req.count \in 1 .. MaxCount
  BY <1>2 DEF Read
<1>4. ASSUME NEW ok \in BOOLEAN, Return(ok)
      PROVE  /\ out'.ok = ok /\ out'.clean = (bad = None)
             /\ out'.addr = req.addr /\ out'.count = req.count
             /\ out' \in [ok : BOOLEAN, clean : BOOLEAN, addr : Sectors, count : 1 .. MaxCount]
             /\ req' = None /\ pc' = "idle"
  BY <1>3, <1>4 DEF Return
<1>5. ASSUME NEW ok \in BOOLEAN, Return(ok), ~ok => Uncorrectable(bad) /\ bad # None
      PROVE  CallInv' /\ ReadsToTheError'
  <2>1. CallInv'
    BY <1>4, <1>5 DEF CallInv
  <2>2. \E k \in 0 .. out'.count : (out'.clean <=> k = out'.count) /\ ReadTo(k, out)'
    <3>1. PICK k \in 0 .. req.count : Stopped(k)
      BY <1>2
    <3>2. (out'.clean <=> k = out'.count) /\ ReadTo(k, out)'
      BY <1>1, <1>4, <1>5, <3>1 DEF Stopped, ReadTo, Own
    <3> QED
      BY <1>4, <1>5, <3>2
  <2>3. out'.ok \/ \E s \in lost' : LogicalOf(s) = LogicalOf(out'.addr)
    <3> SUFFICES ASSUME Uncorrectable(bad), bad # None
                 PROVE  \E s \in lost' : LogicalOf(s) = LogicalOf(out'.addr)
      BY <1>4, <1>5
    <3>1. PICK p \in SubPages : page[bad][p].flips = 2
      BY DEF Uncorrectable
    <3> DEFINE s0 == NumSubPages * LogicalOf(req.addr) + p
    <3>2. LogicalOf(req.addr) \in Logical
      BY <1>3, PlaceOfSector
    <3>3. s0 \in Sectors /\ LogicalOf(s0) = LogicalOf(req.addr) /\ PageOf(s0) = p
      BY <3>2, SectorOfPlace
    <3> HIDE DEF s0
    <3>4. s0 \in lost
      BY <1>2, <3>1, <3>3 DEF IInv, LossIsKnown
    <3> QED
      BY <1>1, <1>4, <1>5, <3>3, <3>4
  <2> QED
    BY <2>1, <2>2, <2>3 DEF ReadsToTheError
<1>6. CASE bad = None /\ Return(TRUE) /\ UNCHANGED <<flashVars, lutVars, tries, faults>>
  <2>1. UNCHANGED <<page, owner, marked, map, use, cfg, ecc, tries, faults>>
    BY <1>6 DEF flashVars, lutVars
  <2>2. TypeOK'
    BY <1>1, <1>2, <1>4, <1>6, <2>1 DEF TypeOK
  <2>3. TableMatchesFlash'
    BY <1>2, <2>1, <2>2 DEF TableMatchesFlash, Holding
  <2>4. FreeIsErased' /\ SectorsOwn' /\ NeverWritten' /\ LossIsKnown'
    BY <1>1, <2>1 DEF IInv, FreeIsErased, FreeBlocks, SectorsOwn, Own, NeverWritten, LossIsKnown
  <2>5. CallInv' /\ ReadsToTheError'
    BY <1>5, <1>6, ~TRUE => Uncorrectable(bad) /\ bad # None, TRUE \in BOOLEAN, Zenon
  <2> QED
    BY <2>3, <2>4, <2>5 DEF IInv
<1>7. ASSUME bad # None, ReplaceBlock
      PROVE  /\ Kept' /\ map'[LogicalOf(req.addr)] # None
             /\ TypeOK' => /\ TableMatchesFlash' /\ FreeIsErased' /\ SectorsOwn'
                           /\ NeverWritten' /\ LossIsKnown'
  <2>1. Kept' /\ map'[LogicalOf(req.addr)] # None
    BY <1>1, <1>7, Replaced
  <2> QED
    BY <2>1 DEF Kept, TableMatchesFlash
<1>8. CASE bad # None /\ ~Uncorrectable(bad) /\ ReplaceBlock /\ Return(TRUE) /\ UNCHANGED tries
  <2>1. Kept'
    BY <1>7, <1>8
  <2>2. TypeOK'
    BY <1>1, <1>2, <1>4, <1>8, <2>1 DEF Kept, TypeOK
  <2> QED
    BY <1>5, <1>7, <1>8, <2>2 DEF IInv
<1>9. CASE /\ bad # None /\ Uncorrectable(bad) /\ ReplaceBlock /\ tries' = OneLess(tries)
           /\ IF tries' > 0 THEN pc' = "read" /\ UNCHANGED <<req, out>> ELSE Return(FALSE)
  <2>0. tries' \in 0 .. Retries
    BY <1>2, <1>9 DEF OneLess, TypeOK
  <2>1. Kept' /\ map'[LogicalOf(req.addr)] # None
    BY <1>7, <1>9
  <2>2. CASE tries' > 0
    <3>1. pc' = "read" /\ UNCHANGED <<req, out>>
      BY <1>9, <2>2
    <3>2. TypeOK'
      BY <1>1, <1>2, <2>0, <2>1, <3>1 DEF Kept, TypeOK
    <3>3. CallInv' /\ ReadsToTheError'
      BY <1>2, <2>1, <2>2, <3>1
         DEF CallInv, ReadsToTheError
    <3> QED
      BY <1>7, <1>9, <3>2, <3>3 DEF IInv
  <2>3. CASE ~(tries' > 0)
    <3>1. Return(FALSE)
      BY <1>9, <2>3
    <3>2. TypeOK'
      BY <1>1, <1>2, <1>4, <2>0, <2>1, <3>1 DEF Kept, TypeOK
    <3> QED
      BY <1>5, <1>7, <1>9, <3>1, <3>2 DEF IInv
  <2> QED
    BY <2>2, <2>3
<1> QED
  BY <1>6, <1>8, <1>9 DEF CheckError

LEMMA NextStep == IInv /\ [Next]_vars => IInv'
<1> SUFFICES ASSUME IInv, [Next]_vars PROVE IInv'
  OBVIOUS
<1>1. CASE UNCHANGED vars
  <2>1. /\ UNCHANGED <<page, owner, marked, map, use, cfg, ecc>>
        /\ UNCHANGED <<tries, req, buf, bad, out, pc, flipped, written, lost, faults>>
    BY <1>1 DEF vars, flashVars, lutVars, callVars, history
  <2> QED
    BY <2>1 DEF IInv, TableMatchesFlash, TypeOK, Holding, FreeIsErased, FreeBlocks, SectorsOwn,
        NeverWritten, LossIsKnown, CallInv, Stopped, ReadsToTheError, ReadTo, Own
<1>2. ASSUME NEW l \in Logical, NEW p \in SubPages, Flip(l, p) PROVE IInv'
  BY <1>2, FlipStep
<1>3. ASSUME NEW s \in Sectors, NEW d \in Data, WriteSector(s, d) PROVE IInv'
  BY <1>3, WriteStep
<1>4. ASSUME NEW a \in Sectors, NEW n \in 1 .. MaxCount, ReadSectors(a, n) PROVE IInv'
  BY <1>4, ReadCallStep
<1>5. CASE ReadPages
  BY <1>5, ReadPagesStep
<1>6. CASE CheckError
  BY <1>6, CheckStep
<1> QED
  BY <1>1, <1>2, <1>3, <1>4, <1>5, <1>6 DEF Next, DriverStep

-----------------------------------------------------------------------------
(* Every variable keeps its type, and the table rebuilt after a            *)
(* replacement (ndBuildLUT) is the one the writes maintain: a replaced     *)
(* block is not found a second time, a bad block is neither free nor       *)
(* mapped.                                                                 *)
THEOREM TableIsRebuilt == Spec => []TableMatchesFlash
<1>1. IInv => TableMatchesFlash
  BY DEF IInv
<1> QED
  BY <1>1, InitIInv, NextStep, PTL DEF Spec

(* Copies and replacements carry every sector over (ndCopyPages,           *)
(* ndReplaceBlock): only one with two wrong bits of its own loses its      *)
(* value.                                                                  *)
THEOREM SectorsAreKept == Spec => []DataKept
<1>1. IInv => DataKept
  BY DEF IInv, SectorsOwn, Own, DataKept
<1> QED
  BY <1>1, InitIInv, NextStep, PTL DEF Spec

(* Whatever a read reports (_RPG_NAND_readSectors, ndReadPages), its last  *)
(* attempt, against a block that may have been replaced in between, has    *)
(* delivered each sector's own data up to the first one with an error, and *)
(* it fails only if a sector of the block was lost.  After one wrong bit   *)
(* it may report success all the same.                                     *)
THEOREM RetriesAreSound == Spec => []ReadsToTheError
<1>1. IInv => ReadsToTheError
  BY DEF IInv
<1> QED
  BY <1>1, InitIInv, NextStep, PTL DEF Spec
=============================================================================
