---------------------------- MODULE StorageProofs ----------------------------
(***************************************************************************)
(* Proofs about the mounted volumes, for every number of slots, objects,   *)
(* files and cards: the variables of the SD driver and of the volumes keep *)
(* their types, no slot and no open file loses its volume, and, as long as *)
(* slot 0 is not changed while it is all a volume has, a disc has one      *)
(* cache.                                                                  *)
(***************************************************************************)
EXTENDS Storage, FiniteSetTheorems, TLAPS

Objects == [disc : Discs, medium : Cards \cup {Nand}, openFileCount : Nat, volume : Volumes]
OpenOn(h) == {f \in Files : files[f] = h}

(* The driver: a try, and a block, are left where one is made or sent.     *)
SdInv ==
    /\ SdTypeOK
    /\ at = "cmd8" => retry = 0
    /\ at = "acmd41" => retry < MaxRetry
    /\ at \in {"read", "write"} => job.left >= 1
    /\ Len(got) + job.left <= MaxBlocks

MountTypes ==
    /\ partitions \in [Slots -> Handles \cup {NoHandle}]
    /\ heap \in [Handles -> Objects \cup {Released}]
    /\ files \in [Files -> Handles \cup {NoHandle}] /\ abandoned \subseteq Files

(* Every volume can be reached from a slot; a second mount of its disc     *)
(* finds it there.                                                         *)
HeapMounted == \A h \in Live : \E n \in Slots : partitions[n] = h

MountInv == MountTypes /\ NoDanglingSlot /\ OpenFilesKept

CallTypes == call \in {"boot", "initRPG", "mount", "none", "failed"} /\ requests \in 0 .. MaxRequests

IInv == SdInv /\ MountInv /\ CallTypes
OneInv == HeapMounted /\ OneCachePerDisc

-----------------------------------------------------------------------------
(* A set of slots that is not empty has a lowest one.                      *)
LEMMA LowestIn ==
    ASSUME NEW S \in SUBSET Nat, S # {}
    PROVE  Lowest(S) \in S
  <1> DEFINE below == {0 .. n : n \in S}
  <1>1. below \subseteq FiniteSubsetsOf(Nat) /\ below # {}
    <2>1. \A n \in S : IsFiniteSet(0 .. n) /\ 0 .. n \subseteq Nat
      BY FS_Interval
    <2> QED
      BY <2>1 DEF FiniteSubsetsOf
  <1>2. PICK b \in below : \A d \in below : <<d, b>> \notin StrictSubsetOrdering(Nat)
    <2>1. IsWellFoundedOn(StrictSubsetOrdering(Nat), FiniteSubsetsOf(Nat))
      BY FS_StrictSubsetOrderingWellFounded
    <2> HIDE DEF below
    <2> QED
      BY <1>1, <2>1, WFMin
  <1>3. PICK m \in S : b = 0 .. m
    OBVIOUS
  <1>4. \A c \in S : m <= c
    <2> SUFFICES ASSUME NEW c \in S, c < m PROVE FALSE
      OBVIOUS
    <2>1. 0 .. c \in below
      OBVIOUS
    <2>2. 0 .. c \subseteq 0 .. m /\ m \in 0 .. m /\ m \notin 0 .. c /\ 0 .. m \subseteq Nat
      OBVIOUS
    <2>3. <<0 .. c, 0 .. m>> \in StrictSubsetOrdering(Nat)
      BY <2>2 DEF StrictSubsetOrdering
    <2> QED
      BY <1>2, <1>3, <2>1, <2>3
  <1> QED
    BY <1>4 DEF Lowest

(* What the constructor makes of a boot record has its type.               *)
LEMMA VolumeType ==
    ASSUME NEW d \in Cards \cup {Nand}, Medium[d].signature
    PROVE  Volume(Medium[d]) \in Volumes
  <1> DEFINE m == Medium[d]
             boot == BootSector(m)
             r == m.records[boot]
  <1>1. /\ boot \in Nat
        /\ {r.reserved, r.numFATs, r.sectorsPerFat, r.rootSectors, r.sectors} \subseteq Nat
        /\ r.sectorsPerCluster \in Nat \ {0}
    BY MediumAssumption, StorageAssumption
  <1>2. DataStart(boot, r) \in Nat
    <2>1. r.numFATs * r.sectorsPerFat \in Nat
      BY <1>1
    <2> QED
      BY <1>1, <2>1 DEF DataStart
  <1>3. (r.sectors - DataStart(boot, r)) % WordSize \in Nat
    <2> HIDE DEF r, boot, m
    <2>1. r.sectors - DataStart(boot, r) \in Int
      BY <1>1, <1>2
    <2>2. WordSize \in Nat \ {0}
      BY StorageAssumption
    <2> QED
      BY <2>1, <2>2
  <1>4. ((r.sectors - DataStart(boot, r)) % WordSize) \div r.sectorsPerCluster \in Nat
    <2> HIDE DEF r, boot, m
    <2>1. r.sectorsPerCluster \in Nat \ {0}
      BY <1>1
    <2> QED
      BY <1>3, <2>1
  <1> QED
    BY <1>1, <1>2, <1>4 DEF Volume, Volumes

-----------------------------------------------------------------------------
(* The SD driver.                                                          *)
LEMMA AddressIn ==
    ASSUME NEW b \in AllBlocks
    PROVE  b \in Nat /\ b < AddressSpace
  BY SdAssumption DEF AllBlocks, Blocks

LEMMA BlockAtIn ==
    ASSUME NEW a \in 0 .. AddressSpace, slot \in Cards
    PROVE  BlockAt(a) \in 0 .. AddressSpace
  <1>1. BlockSize \in Nat \ {0} /\ AddressSpace \in Nat
    BY SdAssumption
  <1>2. a \div BlockSize \in Nat /\ a \div BlockSize <= a
    BY <1>1
  <1> QED
    BY <1>1, <1>2 DEF BlockAt

LEMMA CommandSd ==
    ASSUME SdInv, NEW op \in {"read", "write"}, NEW b \in AllBlocks, NEW n \in 1 .. MaxBlocks,
           NEW d \in Data, Command(op, b, n, d)
    PROVE  SdInv'
  <1> USE DEF SdInv, SdTypeOK
  <1>1. MaxBlocks \in Nat /\ AddressSpace \in Nat \ {0} /\ BlockSize \in Nat \ {0}
    BY SdAssumption
  <1>2. cursor' \in 0 .. AddressSpace + MaxBlocks
    <2>1. CASE In({"tran"})
      <3>1. slot \in Cards
        BY <2>1 DEF In
      <3>2. AddressOf(b) \in 0 .. AddressSpace
        <4>1. b \in Nat /\ b < AddressSpace
          BY AddressIn
        <4>2. b * BlockSize \in Nat
          BY <1>1, <4>1
        <4>3. (b * BlockSize) % AddressSpace \in 0 .. AddressSpace - 1
          BY <1>1, <4>2
        <4> QED
          BY <1>1, <4>1, <4>3 DEF AddressOf
      <3>3. cursor' = BlockAt(AddressOf(b))
        BY <2>1 DEF Command
      <3>4. BlockAt(AddressOf(b)) \in 0 .. AddressSpace
        BY <3>1, <3>2, BlockAtIn
      <3> QED
        BY <1>1, <3>3, <3>4
    <2>2. CASE ~In({"tran"})
      BY <2>2 DEF Command
    <2> QED
      BY <2>1, <2>2
  <1>3. job' = [op |-> op, addr |-> b, count |-> n, left |-> n, data |-> d] /\ got' = <<>> /\ at' = op
    BY DEF Command
  <1>4. state' \in States
    BY DEF Command, States
  <1>5. UNCHANGED <<slot, stored, isSD20, isSDHC, selected, retry, ready>>
    BY DEF Command, flags
  <1> QED
    BY <1>1, <1>2, <1>3, <1>4, <1>5

(* ACMD41 is not sent more often than it may be.                           *)
LEMMA InitialiseSd ==
    ASSUME SdInv, Initialise
    PROVE  SdInv'
  <1> USE DEF SdInv, SdTypeOK, InitSteps, States, cardVars, flags, request
  <1> MaxRetry \in Nat \ {0}
    BY SdAssumption
  <1>1. CASE Cmd8
    BY <1>1 DEF Cmd8
  <1>2. CASE Acmd41
    <2>1. retry + 1 <= MaxRetry /\ retry \in Nat
      BY <1>2 DEF Acmd41
    <2>2. /\ retry' \in 0 .. MaxRetry /\ at' \in {"acmd41", "cmd2"}
          /\ at' = "acmd41" => retry' < MaxRetry
      <3>1. CASE retry' = retry + 1 /\ at' = IF retry + 1 < MaxRetry THEN "acmd41" ELSE "cmd2"
        <4>1. CASE retry + 1 < MaxRetry
          BY <2>1, <3>1, <4>1
        <4>2. CASE ~(retry + 1 < MaxRetry)
          BY <2>1, <3>1, <4>2
        <4> QED
          BY <4>1, <4>2
      <3>2. CASE retry' = retry /\ at' = "cmd2"
        BY <3>2
      <3> QED
        BY <1>2, <3>1, <3>2 DEF Acmd41
    <2>3. state' \in States /\ isSDHC' \in BOOLEAN
      BY <1>2 DEF Acmd41, Willing
    <2>4. UNCHANGED <<slot, cursor, stored, isSD20, selected, job, got, ready>>
      BY <1>2 DEF Acmd41
    <2> QED
      BY <2>2, <2>3, <2>4
  <1>3. CASE Identify
    BY <1>3 DEF Identify
  <1>4. CASE Address
    BY <1>4 DEF Address, In
  <1>5. CASE Select
    BY <1>5 DEF Select
  <1>6. CASE BusWidth
    BY <1>6 DEF BusWidth
  <1>7. CASE Status
    BY <1>7 DEF Status
  <1> QED
    BY <1>1, <1>2, <1>3, <1>4, <1>5, <1>6, <1>7 DEF Initialise

(* Each block that is transferred leaves one less.                         *)
LEMMA BlockSd ==
    ASSUME SdInv, at \in {"read", "write"}, slot \in Cards, cursor \in Blocks(slot),
           NEW busy \in States, AfterBlock(busy),
           got' = got \/ \E x \in Data : got' = Append(got, x),
           \/ stored' = stored
           \/ stored' = [stored EXCEPT ![slot][cursor] = job.data],
           UNCHANGED <<slot, flags, ready>>
    PROVE  SdInv'
  <1> USE DEF SdInv, SdTypeOK, flags
  <1>1. MaxBlocks \in Nat \ {0} /\ AddressSpace \in Nat \ {0} /\ Capacity[slot] <= AddressSpace
        /\ Capacity[slot] \in Nat
    BY SdAssumption
  <1>2. job.left \in 1 .. MaxBlocks /\ job' = [job EXCEPT !.left = job.left - 1]
    BY <1>1 DEF AfterBlock
  <1>3. /\ job' \in [op : {"none", "read", "write"}, addr : AllBlocks \cup {0}, count : 0 .. MaxBlocks,
                    left : 0 .. MaxBlocks, data : Data]
        /\ job'.left = job.left - 1
    <2>1. job.left - 1 \in 0 .. MaxBlocks
      BY <1>1, <1>2
    <2>2. job' = [op |-> job.op, addr |-> job.addr, count |-> job.count, left |-> job.left - 1,
                  data |-> job.data]
      BY <1>2
    <2> QED
      BY <2>1, <2>2
  <1>4. cursor' \in 0 .. AddressSpace + MaxBlocks
    <2>1. cursor' \in {0, cursor + 1}
      BY DEF AfterBlock
    <2>2. cursor \in 0 .. AddressSpace - 1
      BY <1>1 DEF Blocks
    <2> QED
      BY <1>1, <2>1, <2>2
  <1>5. got' \in Seq(Data) /\ Len(got') <= Len(got) + 1
    OBVIOUS
  <1>6. DOMAIN stored' = Cards /\ \A c \in Cards : stored'[c] \in [Blocks(c) -> Data]
    <2>1. job.data \in Data
      OBVIOUS
    <2>2. CASE stored' = [stored EXCEPT ![slot][cursor] = job.data]
      <3>1. DOMAIN stored' = Cards
        BY <2>2
      <3>2. ASSUME NEW c \in Cards PROVE stored'[c] \in [Blocks(c) -> Data]
        <4>1. CASE c = slot
          <5>1. stored'[c] = [stored[c] EXCEPT ![cursor] = job.data]
            BY <2>2, <4>1
          <5> QED
            BY <2>1, <4>1, <5>1
        <4>2. CASE c # slot
          BY <2>2, <4>2
        <4> QED
          BY <4>1, <4>2
      <3> QED
        BY <3>1, <3>2
    <2> QED
      BY <2>2
  <1>7. /\ state' \in States
        /\ at' = IF job.left > 1 THEN at ELSE IF job.count = 1 THEN "idle" ELSE "stop"
    BY DEF AfterBlock, States
  <1>8. at' \in {"read", "write"} => job'.left >= 1
    BY <1>2, <1>3, <1>7
  <1>9. Len(got') + job'.left <= MaxBlocks /\ Len(got') <= MaxBlocks
    BY <1>1, <1>2, <1>3, <1>5
  <1> QED
    BY <1>3, <1>4, <1>5, <1>6, <1>7, <1>8, <1>9

LEMMA TransferSd ==
    ASSUME SdInv, Transfer
    PROVE  SdInv'
  <1> USE DEF SdInv, SdTypeOK, States
  <1>1. CASE ReadBlock
    <2>1. slot \in Cards /\ cursor \in Blocks(slot) /\ at \in {"read", "write"}
      BY <1>1 DEF ReadBlock, In
    <2>2. stored[slot][cursor] \in Data
      BY <2>1
    <2> QED
      BY <1>1, <2>1, <2>2, BlockSd DEF ReadBlock, flags
  <1>2. CASE WriteBlock
    <2>1. slot \in Cards /\ cursor \in Blocks(slot) /\ at \in {"read", "write"}
      BY <1>2 DEF WriteBlock, In
    <2> QED
      BY <1>2, <2>1, BlockSd DEF WriteBlock, flags
  <1>3. CASE StopTransmission
    BY <1>3 DEF StopTransmission, flags, request
  <1>4. CASE Reselect
    BY <1>4 DEF Reselect, flags, request
  <1>5. CASE ProbeAnswered
    BY <1>5, SdAssumption DEF ProbeAnswered, flags, request
  <1> QED
    BY <1>1, <1>2, <1>3, <1>4, <1>5 DEF Transfer

(* The steps of the driver that are part of other calls.                   *)
LEMMA ResetSd ==
    ASSUME SdInv, Reset
    PROVE  SdInv'
  BY SdAssumption DEF Reset, SdInv, SdTypeOK, InitSteps, States, NoJob

LEMMA OtherSd ==
    ASSUME SdInv,
           \/ \E b \in AllBlocks : Probe(b)
           \/ Deselect \/ SwitchOff \/ Remove
           \/ \E c \in Cards : Insert(c)
           \/ UNCHANGED sdVars
    PROVE  SdInv'
  <1> USE DEF SdInv, SdTypeOK, States, flags, request
  <1> MaxBlocks \in Nat \ {0} /\ AddressSpace \in Nat \ {0} /\ BlockSize \in Nat \ {0} /\ MaxRetry \in Nat \ {0}
    BY SdAssumption
  <1>1. ASSUME NEW b \in AllBlocks, Probe(b) PROVE SdInv'
    <2>1. cursor' \in 0 .. AddressSpace + MaxBlocks
      <3>1. CASE In({"tran"})
        <4> DEFINE a == IF isSDHC THEN (b \div BlockSize) * BlockSize ELSE (b * BlockSize) % AddressSpace
        <4>1. a \in 0 .. AddressSpace
          <5>1. b \in Nat /\ b < AddressSpace
            BY AddressIn
          <5>2. b * BlockSize \in Nat
            BY <5>1
          <5>3. (b * BlockSize) % AddressSpace \in 0 .. AddressSpace - 1
            BY <5>2
          <5>4. (b \div BlockSize) * BlockSize \in 0 .. b
            BY <5>1
          <5> QED
            BY <5>1, <5>3, <5>4
        <4>2. slot \in Cards /\ cursor' = BlockAt(a)
          BY <1>1, <3>1 DEF Probe, In
        <4> HIDE DEF a
        <4>3. BlockAt(a) \in 0 .. AddressSpace
          BY <4>1, <4>2, BlockAtIn
        <4> QED
          BY <4>2, <4>3
      <3>2. CASE ~In({"tran"})
        BY <1>1, <3>2 DEF Probe
      <3> QED
        BY <3>1, <3>2
    <2>2. at' = "probe" /\ state' \in States /\ UNCHANGED <<slot, stored, isSD20, isSDHC, selected, retry, job, got, ready>>
      BY <1>1 DEF Probe
    <2> QED
      BY <2>1, <2>2
  <1>2. CASE Deselect
    <2>1. state' \in States /\ at' = "cid" /\ UNCHANGED <<slot, cursor, stored, isSD20, isSDHC, selected, retry, job, got, ready>>
      BY <1>2 DEF Deselect
    <2> QED
      BY <2>1
  <1>3. CASE SwitchOff
    <2>1. /\ UNCHANGED <<slot, stored>> /\ state' = "idle" /\ at' = "off" /\ job' = NoJob /\ got' = <<>>
          /\ isSD20' = FALSE /\ isSDHC' = FALSE /\ selected' = FALSE
          /\ cursor' = 0 /\ retry' = 0 /\ ready' = NoCard
      BY <1>3 DEF SwitchOff
    <2>2. /\ NoJob \in [op : {"none", "read", "write"}, addr : AllBlocks \cup {0}, count : 0 .. MaxBlocks,
                        left : 0 .. MaxBlocks, data : Data]
          /\ NoJob.left = 0
      BY SdAssumption DEF NoJob
    <2>3. got' \in Seq(Data) /\ Len(got') = 0
      BY <2>1
    <2>4. Len(got') + job'.left <= MaxBlocks /\ Len(got') <= MaxBlocks
      BY <2>1, <2>2, <2>3
    <2>5. slot' \in Cards \cup {NoCard} /\ ready' \in Cards \cup {NoCard} /\ state' \in States
          /\ {isSD20', isSDHC', selected'} \subseteq BOOLEAN
      BY <2>1
    <2>6. cursor' \in 0 .. AddressSpace + MaxBlocks /\ retry' \in 0 .. MaxRetry
      BY <2>1
    <2>7. DOMAIN stored' = Cards /\ \A c \in Cards : stored'[c] \in [Blocks(c) -> Data]
      BY <2>1
    <2> QED
      BY <2>1, <2>2, <2>3, <2>4, <2>5, <2>6, <2>7
  <1>4. CASE Remove
    <2>1. /\ UNCHANGED <<stored, isSD20, isSDHC, retry, at, job, got>>
          /\ slot' = NoCard /\ state' = "idle" /\ ready' = NoCard /\ selected' = FALSE /\ cursor' = 0
      BY <1>4 DEF Remove
    <2>2. cursor' \in 0 .. AddressSpace + MaxBlocks /\ state' \in States
      BY <2>1
    <2> QED
      BY <2>1, <2>2
  <1>5. ASSUME NEW c \in Cards, Insert(c) PROVE SdInv'
    BY <1>5 DEF Insert
  <1>6. CASE UNCHANGED sdVars
    BY <1>6 DEF sdVars, cardVars
  <1> QED
    BY <1>1, <1>2, <1>3, <1>4, <1>5, <1>6

-----------------------------------------------------------------------------
(* The volumes.                                                            *)
LEMMA OpenOnFinite ==
    ASSUME NEW h
    PROVE  IsFiniteSet(OpenOn(h)) /\ Cardinality(OpenOn(h)) \in Nat
  BY StorageAssumption, FS_Subset, FS_CardinalityType DEF OpenOn

(* A mount copies the pointer of a slot, or makes a volume that nothing    *)
(* refers to yet.                                                          *)
LEMMA AttachMount ==
    ASSUME SdTypeOK, MountInv, NEW n \in Slots, NEW d \in Discs, Attach(n, d)
    PROVE  MountInv'
  <1> USE DEF MountInv, MountTypes
  <1>1. UNCHANGED <<files, abandoned>>
    BY DEF Attach
  <1>2. CASE Mounted(d) # {}
    <2>1. Lowest(Mounted(d)) \in Mounted(d)
      <3>1. Mounted(d) \in SUBSET Nat
        BY StorageAssumption DEF Mounted, Slots
      <3> QED
        BY <1>2, <3>1, LowestIn
    <2> DEFINE m == Lowest(Mounted(d))
    <2>2. m \in Slots /\ partitions[m] # NoHandle
      BY <2>1 DEF Mounted
    <2>3. partitions' = [partitions EXCEPT ![n] = partitions[m]] /\ heap' = heap
      BY <1>2 DEF Attach
    <2> HIDE DEF m
    <2>4. MountTypes' /\ Live' = Live
      BY <1>1, <2>2, <2>3 DEF Live
    <2>5. NoDanglingSlot'
      BY <2>2, <2>3, <2>4 DEF NoDanglingSlot
    <2>6. OpenFilesKept'
      BY <1>1, <2>3, <2>4 DEF OpenFilesKept
    <2> QED
      BY <2>4, <2>5, <2>6
  <1>3. CASE Mounted(d) = {} /\ Medium[OnDisc(d)].signature
    <2>1. /\ Unused # {}
          /\ partitions' = [partitions EXCEPT ![n] = Allocated]
          /\ heap' = [heap EXCEPT ![Allocated] = Partition(d)]
      BY <1>3 DEF Attach
    <2>2. Allocated \in Unused
      BY <2>1 DEF Allocated
    <2>3. Allocated \in Handles /\ heap[Allocated] = Released /\ OpenOn(Allocated) = {}
      BY <2>2 DEF Unused, OpenOn
    <2>4. OnDisc(d) \in Cards \cup {Nand}
      BY DEF Attach, OnDisc, In, Discs, SdTypeOK
    <2>5. Partition(d) \in Objects /\ Partition(d).openFileCount = 0 /\ Partition(d) # Released
      BY <1>3, <2>4, VolumeType DEF Partition, Objects, Released, Discs
    <2> DEFINE new == Allocated
    <2> HIDE DEF new
    <2>6. new \in Handles /\ new \notin Live /\ OpenOn(new) = {}
      BY <2>3 DEF new, Live
    <2>7. partitions' = [partitions EXCEPT ![n] = new] /\ heap' = [heap EXCEPT ![new] = Partition(d)]
      BY <2>1 DEF new
    <2>8. MountTypes'
      BY <1>1, <2>5, <2>6, <2>7
    <2>9. Live' = Live \cup {new} /\ \A h \in Live : heap'[h] = heap[h]
      BY <2>5, <2>6, <2>7 DEF Live
    <2>10. NoDanglingSlot'
      BY <2>6, <2>7, <2>9 DEF NoDanglingSlot
    <2>11. OpenFilesKept'
      <3>1. ASSUME NEW h \in Live'
            PROVE  heap'[h].openFileCount = Cardinality({f \in Files : files'[f] = h})
        <4>1. CASE h \in Live
          BY <1>1, <2>9, <4>1 DEF OpenFilesKept
        <4>2. CASE h = new
          <5>1. heap'[h].openFileCount = 0
            BY <2>5, <2>6, <2>7, <4>2
          <5>2. {f \in Files : files'[f] = h} = {}
            BY <1>1, <2>6, <4>2 DEF OpenOn
          <5> QED
            BY <5>1, <5>2, FS_EmptySet
        <4> QED
          BY <2>9, <4>1, <4>2
      <3>2. \A f \in Files \ abandoned' : files'[f] # NoHandle => files'[f] \in Live'
        BY <1>1, <2>9 DEF OpenFilesKept
      <3> QED
        BY <3>1, <3>2 DEF OpenFilesKept
    <2> QED
      BY <2>8, <2>10, <2>11
  <1>4. CASE Mounted(d) = {} /\ ~Medium[OnDisc(d)].signature
    BY <1>1, <1>4 DEF Attach, NoDanglingSlot, OpenFilesKept, Live
  <1> QED
    BY <1>2, <1>3, <1>4

LEMMA SameMount ==
    ASSUME MountInv, UNCHANGED mountVars
    PROVE  MountInv'
  BY DEF MountInv, MountTypes, mountVars, NoDanglingSlot, OpenFilesKept, Live

LEMMA SetDefaultMount ==
    ASSUME MountInv, NEW n \in Slots, SetDefault(n)
    PROVE  MountInv'
  <1>1. /\ partitions[n] # NoHandle /\ UNCHANGED <<heap, files, abandoned>>
        /\ partitions' = [partitions EXCEPT ![PI_DEFAULT] = partitions[n]]
    BY DEF SetDefault
  <1>2. MountTypes' /\ Live' = Live
    BY <1>1 DEF MountInv, MountTypes, Live
  <1>3. NoDanglingSlot'
    BY <1>1, <1>2 DEF MountInv, MountTypes, NoDanglingSlot
  <1>4. OpenFilesKept'
    BY <1>1, <1>2 DEF MountInv, OpenFilesKept
  <1> QED
    BY <1>2, <1>3, <1>4 DEF MountInv

(* All slots of a volume are cleared with it.  The files that were open on *)
(* it are abandoned, or there were none.                                   *)
LEMMA ReleaseMount ==
    ASSUME MountInv, NEW n \in Slots, partitions[n] # NoHandle,
           partitions' = Without(n), heap' = [heap EXCEPT ![partitions[n]] = Released],
           files' = files,
           abandoned \subseteq abandoned', abandoned' \subseteq Files,
           OpenOn(partitions[n]) \subseteq abandoned'
    PROVE  MountInv'
  <1> USE DEF MountInv, MountTypes
  <1> DEFINE old == partitions[n]
  <1>1. old \in Handles
    OBVIOUS
  <1>2. MountTypes'
    BY DEF Without
  <1>3. Live' = Live \ {old} /\ \A h \in Live' : heap'[h] = heap[h]
    BY <1>1 DEF Live
  <1>4. NoDanglingSlot'
    BY <1>3 DEF NoDanglingSlot, Without
  <1>5. \A f \in Files \ abandoned' : files'[f] # NoHandle => files'[f] \in Live'
    BY <1>3 DEF OpenFilesKept, OpenOn
  <1>6. \A h \in Live' : heap'[h].openFileCount = Cardinality({f \in Files : files'[f] = h})
    BY <1>3 DEF OpenFilesKept
  <1> QED
    BY <1>2, <1>4, <1>5, <1>6 DEF OpenFilesKept

LEMMA UnmountMount ==
    ASSUME MountInv, NEW n \in Slots, Unmount(n)
    PROVE  MountInv'
  <1>1. partitions[n] \in Live
    BY DEF Unmount, MountInv, NoDanglingSlot
  <1>2. Cardinality(OpenOn(partitions[n])) = 0
    BY <1>1 DEF Unmount, Held, MountInv, OpenFilesKept, OpenOn
  <1>3. OpenOn(partitions[n]) = {}
    BY <1>2, OpenOnFinite, FS_EmptySet
  <1> QED
    BY <1>3, ReleaseMount DEF Unmount, MountInv, MountTypes

LEMMA UnsafeUnmountMount ==
    ASSUME MountInv, NEW n \in Slots, UnsafeUnmount(n)
    PROVE  MountInv'
  BY ReleaseMount DEF UnsafeUnmount, OpenOn, MountInv, MountTypes

LEMMA OpenMount ==
    ASSUME MountInv, NEW f \in Files, NEW n \in Slots, OpenFile(f, n)
    PROVE  MountInv'
  <1> USE DEF MountInv, MountTypes
  <1> DEFINE h == partitions[n]
  <1>1. h \in Live /\ h \in Handles /\ heap[h] \in Objects
    BY DEF OpenFile, NoDanglingSlot, Live
  <1>2. /\ files[f] = NoHandle /\ UNCHANGED <<partitions, abandoned>>
        /\ files' = [files EXCEPT ![f] = h]
        /\ heap' = [heap EXCEPT ![h] = [heap[h] EXCEPT !.openFileCount = heap[h].openFileCount + 1]]
    BY DEF OpenFile
  <1> HIDE DEF h
  <1>3. heap'[h] \in Objects /\ heap'[h] # Released /\ heap'[h].openFileCount = heap[h].openFileCount + 1
    BY <1>1, <1>2 DEF Objects, Released, Discs
  <1>4. MountTypes' /\ Live' = Live
    BY <1>1, <1>2, <1>3 DEF Live
  <1>5. NoDanglingSlot'
    BY <1>2, <1>4 DEF NoDanglingSlot
  <1>6. \A g \in Files \ abandoned' : files'[g] # NoHandle => files'[g] \in Live'
    BY <1>1, <1>2, <1>4 DEF OpenFilesKept
  <1>7. ASSUME NEW k \in Live
        PROVE  heap'[k].openFileCount = Cardinality({g \in Files : files'[g] = k})
    <2>1. CASE k = h
      <3>1. {g \in Files : files'[g] = k} = OpenOn(h) \cup {f} /\ f \notin OpenOn(h)
        BY <1>1, <1>2, <2>1, StorageAssumption DEF OpenOn
      <3>2. Cardinality(OpenOn(h) \cup {f}) = Cardinality(OpenOn(h)) + 1
        BY <3>1, OpenOnFinite, FS_AddElement
      <3>3. heap[h].openFileCount = Cardinality(OpenOn(h))
        BY <1>1 DEF OpenFilesKept, OpenOn
      <3> QED
        BY <1>3, <2>1, <3>1, <3>2, <3>3
    <2>2. CASE k # h
      <3>1. {g \in Files : files'[g] = k} = {g \in Files : files[g] = k}
        BY <1>2, <2>2, StorageAssumption DEF Live
      <3>2. heap'[k] = heap[k]
        BY <1>2, <2>2 DEF Live
      <3> QED
        BY <3>1, <3>2 DEF OpenFilesKept
    <2> QED
      BY <2>1, <2>2
  <1> QED
    BY <1>4, <1>5, <1>6, <1>7 DEF OpenFilesKept

LEMMA CloseMount ==
    ASSUME MountInv, NEW f \in Files, CloseFile(f)
    PROVE  MountInv'
  <1> USE DEF MountInv, MountTypes
  <1> DEFINE h == files[f]
  <1>1. h \in Live /\ h \in Handles /\ heap[h] \in Objects
    BY DEF CloseFile, OpenFilesKept, Live
  <1>2. /\ UNCHANGED <<partitions, abandoned>>
        /\ files' = [files EXCEPT ![f] = NoHandle]
        /\ heap' = [heap EXCEPT ![h] = [heap[h] EXCEPT !.openFileCount = heap[h].openFileCount - 1]]
    BY DEF CloseFile
  <1>3. /\ heap[h].openFileCount = Cardinality(OpenOn(h)) /\ f \in OpenOn(h)
    BY <1>1 DEF OpenFilesKept, OpenOn
  <1>4. Cardinality(OpenOn(h)) # 0 /\ Cardinality(OpenOn(h)) \in Nat
    BY <1>3, OpenOnFinite, FS_EmptySet
  <1>5. files[f] = h
    OBVIOUS
  <1> HIDE DEF h
  <1>6. heap'[h] \in Objects /\ heap'[h] # Released /\ heap'[h].openFileCount = heap[h].openFileCount - 1
    BY <1>1, <1>2, <1>3, <1>4 DEF Objects, Released, Discs
  <1>7. MountTypes' /\ Live' = Live
    BY <1>1, <1>2, <1>6 DEF Live
  <1>8. NoDanglingSlot'
    BY <1>2, <1>7 DEF NoDanglingSlot
  <1>9. \A g \in Files \ abandoned' : files'[g] # NoHandle => files'[g] \in Live'
    BY <1>2, <1>7 DEF OpenFilesKept
  <1>10. ASSUME NEW k \in Live
         PROVE  heap'[k].openFileCount = Cardinality({g \in Files : files'[g] = k})
    <2>1. CASE k = h
      <3>1. {g \in Files : files'[g] = k} = OpenOn(h) \ {f}
        BY <1>1, <1>2, <2>1, StorageAssumption DEF OpenOn
      <3>2. Cardinality(OpenOn(h) \ {f}) = Cardinality(OpenOn(h)) - 1
        BY <1>3, OpenOnFinite, FS_RemoveElement
      <3> QED
        BY <1>3, <1>6, <2>1, <3>1, <3>2
    <2>2. CASE k # h
      <3>1. {g \in Files : files'[g] = k} = {g \in Files : files[g] = k}
        BY <1>2, <1>5, <2>2, StorageAssumption DEF Live
      <3>2. heap'[k] = heap[k]
        BY <1>2, <2>2 DEF Live
      <3> QED
        BY <3>1, <3>2 DEF OpenFilesKept
    <2> QED
      BY <2>1, <2>2
  <1> QED
    BY <1>7, <1>8, <1>9, <1>10 DEF OpenFilesKept

LEMMA PowerOffMount ==
    ASSUME PowerOff
    PROVE  MountInv' /\ OneInv'
  <1>1. /\ partitions' = [n \in Slots |-> NoHandle] /\ heap' = [h \in Handles |-> Released]
        /\ files' = [f \in Files |-> NoHandle] /\ abandoned' = {}
    BY DEF PowerOff
  <1> QED
    BY <1>1 DEF MountInv, MountTypes, NoDanglingSlot, OpenFilesKept, OneInv, HeapMounted, OneCachePerDisc, Live

-----------------------------------------------------------------------------
LEMMA InitInv == Init => IInv /\ OneInv
  <1> SUFFICES ASSUME Init PROVE IInv /\ OneInv
    OBVIOUS
  <1>1. SdInv
    <2>1. /\ slot \in Cards \cup {NoCard} /\ state = "idle" /\ cursor = 0 /\ stored = Formatted
          /\ isSD20 = FALSE /\ isSDHC = FALSE /\ selected = FALSE /\ retry = 0
          /\ at = "off" /\ job = NoJob /\ got = <<>> /\ ready = NoCard
      BY DEF Init, SdInit
    <2>2. /\ NoJob \in [op : {"none", "read", "write"}, addr : AllBlocks \cup {0}, count : 0 .. MaxBlocks,
                        left : 0 .. MaxBlocks, data : Data]
          /\ NoJob.left = 0
      BY SdAssumption DEF NoJob
    <2>3. DOMAIN stored = Cards /\ \A c \in Cards : stored[c] \in [Blocks(c) -> Data]
      BY <2>1, SdAssumption DEF Blocks
    <2>4. cursor \in 0 .. AddressSpace + MaxBlocks /\ retry \in 0 .. MaxRetry /\ state \in States
      BY <2>1, SdAssumption DEF States
    <2>5. got \in Seq(Data) /\ Len(got) <= MaxBlocks /\ Len(got) + job.left <= MaxBlocks
      BY <2>1, <2>2, SdAssumption
    <2> QED
      BY <2>1, <2>2, <2>3, <2>4, <2>5 DEF SdInv, SdTypeOK
  <1>2. MountInv /\ OneInv
    <2>1. /\ partitions = [n \in Slots |-> NoHandle] /\ heap = [h \in Handles |-> Released]
          /\ files = [f \in Files |-> NoHandle] /\ abandoned = {}
      BY DEF Init
    <2> QED
      BY <2>1 DEF MountInv, MountTypes, NoDanglingSlot, OpenFilesKept, OneInv, HeapMounted, OneCachePerDisc, Live
  <1>3. CallTypes
    BY StorageAssumption DEF Init, CallTypes
  <1> QED
    BY <1>1, <1>2, <1>3 DEF IInv

(* Each step, by what it does to the driver, to the volumes and to the     *)
(* call.                                                                   *)
LEMMA NextInv == IInv /\ [Next]_vars => IInv'
  <1> SUFFICES ASSUME IInv, [Next]_vars PROVE IInv'
    OBVIOUS
  <1>s. SdInv /\ SdTypeOK
    BY DEF IInv, SdInv
  <1>m. MountInv
    BY DEF IInv
  <1>c. CallTypes
    BY DEF IInv
  <1>z. 0 \in Slots /\ 1 \in Slots /\ {"nand", "sd"} = Discs
    BY StorageAssumption DEF Slots, Discs
  <1>q. (SdInv' /\ MountInv' /\ UNCHANGED <<call, requests>>) => IInv'
    BY <1>c DEF IInv, CallTypes
  <1>1. CASE InitNand
    <2>1. SdInv'
      BY <1>1, <1>s, ResetSd DEF InitNand
    <2>2. MountInv'
      BY <1>1, <1>s, <1>m, <1>z, AttachMount, SameMount DEF InitNand
    <2>3. CallTypes'
      BY <1>1, <1>c DEF InitNand, CallTypes
    <2> QED
      BY <2>1, <2>2, <2>3 DEF IInv
  <1>2. CASE InitSd
    <2>1. SdInv'
      BY <1>2, <1>s, OtherSd DEF InitSd
    <2>2. MountInv'
      BY <1>2, <1>s, <1>m, <1>z, AttachMount, SameMount DEF InitSd
    <2>3. CallTypes'
      BY <1>2, <1>c DEF InitSd, CallTypes
    <2> QED
      BY <2>1, <2>2, <2>3 DEF IInv
  <1>3. CASE MountSlot1
    <2>1. SdInv'
      BY <1>3, <1>s, ResetSd DEF MountSlot1
    <2>2. MountInv'
      BY <1>3, <1>m, SameMount DEF MountSlot1
    <2>3. CallTypes'
      BY <1>3, <1>c DEF MountSlot1, CallTypes
    <2> QED
      BY <2>1, <2>2, <2>3 DEF IInv
  <1>4. CASE MountedSlot1
    <2>1. SdInv'
      BY <1>4, <1>s, OtherSd DEF MountedSlot1
    <2>2. MountInv'
      BY <1>4, <1>s, <1>m, <1>z, AttachMount, SameMount DEF MountedSlot1
    <2>3. CallTypes'
      BY <1>4, <1>c DEF MountedSlot1, CallTypes
    <2> QED
      BY <2>1, <2>2, <2>3 DEF IInv
  <1>5. ASSUME NEW n \in Slots, NEW d \in Discs, FreeMount(n, d) PROVE IInv'
    <2>1. SdInv'
      BY <1>5, <1>s, OtherSd DEF FreeMount
    <2>2. MountInv'
      BY <1>5, <1>s, <1>m, AttachMount DEF FreeMount
    <2> QED
      BY <1>5, <1>q, <2>1, <2>2 DEF FreeMount
  <1>6. ASSUME NEW n \in Slots, SetDefault(n) PROVE IInv'
    BY <1>6, <1>s, <1>m, <1>q, OtherSd, SetDefaultMount DEF SetDefault
  <1>7. ASSUME NEW n \in Slots, Unmount(n) PROVE IInv'
    BY <1>7, <1>s, <1>m, <1>q, OtherSd, UnmountMount DEF Unmount
  <1>8. ASSUME NEW n \in Slots, UnsafeUnmount(n) PROVE IInv'
    BY <1>8, <1>s, <1>m, <1>q, OtherSd, UnsafeUnmountMount DEF UnsafeUnmount
  <1>9. ASSUME NEW f \in Files, NEW n \in Slots, OpenFile(f, n) PROVE IInv'
    BY <1>9, <1>s, <1>m, <1>q, OtherSd, OpenMount DEF OpenFile
  <1>10. ASSUME NEW f \in Files, CloseFile(f) PROVE IInv'
    BY <1>10, <1>s, <1>m, <1>q, OtherSd, CloseMount DEF CloseFile
  <1>11. ASSUME NEW f \in Files, NEW op \in {"read", "write"}, NEW b \in AllBlocks,
                NEW n \in 1 .. MaxBlocks, NEW d \in Data, Access(f, op, b, n, d)
         PROVE  IInv'
    <2>1. SdInv'
      BY <1>11, <1>s, CommandSd DEF Access
    <2>2. MountInv'
      BY <1>11, <1>m, SameMount DEF Access
    <2>3. CallTypes'
      BY <1>11, <1>c, StorageAssumption DEF Access, CallTypes
    <2> QED
      BY <2>1, <2>2, <2>3 DEF IInv
  <1>12. ASSUME NEW b \in AllBlocks, CheckSpeed(b) PROVE IInv'
    BY <1>12, <1>s, <1>m, <1>q, OtherSd, SameMount DEF CheckSpeed
  <1>13. CASE GetInfo
    BY <1>13, <1>s, <1>m, <1>q, OtherSd, SameMount DEF GetInfo
  <1>14. CASE Driver
    BY <1>14, <1>s, <1>m, <1>q, InitialiseSd, TransferSd, SameMount DEF Driver
  <1>15. CASE PowerOff
    <2>1. SdInv'
      BY <1>15, <1>s, OtherSd DEF PowerOff
    <2>2. CallTypes'
      BY <1>15, <1>c DEF PowerOff, CallTypes
    <2> QED
      BY <1>15, <2>1, <2>2, PowerOffMount DEF IInv
  <1>16. CASE Exchange
    BY <1>16, <1>s, <1>m, <1>q, OtherSd, SameMount DEF Exchange
  <1>17. CASE UNCHANGED vars
    BY <1>17, <1>s, <1>m, <1>q, OtherSd, SameMount DEF vars
  <1> QED
    BY <1>1, <1>2, <1>3, <1>4, <1>5, <1>6, <1>7, <1>8, <1>9, <1>10, <1>11, <1>12, <1>13, <1>14,
       <1>15, <1>16, <1>17 DEF Next

-----------------------------------------------------------------------------
(* One cache.  A second volume is made only when no slot has the disc, and *)
(* then no volume has it.                                                  *)
LEMMA AttachOne ==
    ASSUME SdTypeOK, MountInv, OneInv, NEW n \in Slots, NEW d \in Discs, Attach(n, d)
    PROVE  OneInv'
  <1> USE DEF MountInv, MountTypes, OneInv
  <1>1. partitions[n] = NoHandle
    BY DEF Attach
  <1>2. \A h \in Live : \E k \in Slots \ {n} : partitions[k] = h
    BY <1>1, StorageAssumption DEF HeapMounted, Live
  <1>3. CASE heap' = heap
    <2>1. Live' = Live
      BY <1>3 DEF Live
    <2>2. \A k \in Slots \ {n} : partitions'[k] = partitions[k]
      BY DEF Attach
    <2> QED
      BY <1>2, <1>3, <2>1, <2>2 DEF HeapMounted, OneCachePerDisc
  <1>4. CASE Mounted(d) = {} /\ Medium[OnDisc(d)].signature
    <2> DEFINE new == Allocated
    <2>1. /\ Unused # {}
          /\ partitions' = [partitions EXCEPT ![n] = new] /\ heap' = [heap EXCEPT ![new] = Partition(d)]
      BY <1>4 DEF Attach
    <2>2. new \in Handles /\ heap[new] = Released
      BY <2>1 DEF Allocated, Unused
    <2> HIDE DEF new
    <2>3. Partition(d).disc = d /\ Partition(d) # Released
      BY DEF Partition, Released, Discs
    <2>4. Live' = Live \cup {new} /\ heap'[new].disc = d /\ \A h \in Live : heap'[h] = heap[h]
      BY <2>1, <2>2, <2>3 DEF Live
    <2>5. HeapMounted'
      BY <1>2, <2>1, <2>4 DEF HeapMounted
    <2>6. \A h \in Live : heap[h].disc # d
      BY <1>2, <1>4, StorageAssumption DEF Mounted, Held, Live
    <2>7. OneCachePerDisc'
      BY <2>4, <2>6 DEF OneCachePerDisc
    <2> QED
      BY <2>5, <2>7
  <1> QED
    BY <1>3, <1>4 DEF Attach

LEMMA SameOne ==
    ASSUME OneInv, UNCHANGED mountVars
    PROVE  OneInv'
  BY DEF OneInv, mountVars, HeapMounted, OneCachePerDisc, Live

(* Slot 0 is changed only when it is empty or its volume has another slot. *)
LEMMA SetDefaultOne ==
    ASSUME StealsDefault = FALSE, MountInv, OneInv, NEW n \in Slots, SetDefault(n)
    PROVE  OneInv'
  <1> USE DEF MountInv, MountTypes, OneInv, PI_DEFAULT
  <1>1. /\ heap' = heap /\ Live' = Live /\ \A k \in Slots \ {0} : partitions'[k] = partitions[k]
        /\ partitions[0] = NoHandle \/ \E k \in Slots \ {0} : partitions[k] = partitions[0]
    BY DEF SetDefault, Live
  <1>2. \A h \in Live : \E k \in Slots \ {0} : partitions[k] = h
    BY <1>1, StorageAssumption DEF HeapMounted, Live
  <1> QED
    BY <1>1, <1>2 DEF HeapMounted, OneCachePerDisc

LEMMA ReleaseOne ==
    ASSUME MountInv, OneInv, NEW n \in Slots, partitions[n] # NoHandle,
           partitions' = Without(n), heap' = [heap EXCEPT ![partitions[n]] = Released]
    PROVE  OneInv'
  <1> USE DEF MountInv, MountTypes, OneInv
  <1>1. Live' = Live \ {partitions[n]} /\ \A h \in Live' : heap'[h] = heap[h]
    BY DEF Live
  <1>2. HeapMounted'
    BY <1>1 DEF HeapMounted, Without
  <1> QED
    BY <1>1, <1>2 DEF OneCachePerDisc

LEMMA CountOne ==
    ASSUME MountInv, OneInv, partitions' = partitions, NEW h \in Live, NEW c,
           heap' = [heap EXCEPT ![h].openFileCount = c]
    PROVE  OneInv'
  <1> USE DEF MountInv, MountTypes, OneInv
  <1>1. heap[h] \in Objects /\ h \in Handles
    BY DEF Live
  <1>2. heap'[h].disc = heap[h].disc /\ heap'[h] # Released
    BY <1>1 DEF Objects, Released, Discs
  <1>3. Live' = Live /\ \A k \in Live : heap'[k].disc = heap[k].disc
    BY <1>1, <1>2 DEF Live
  <1> QED
    BY <1>3 DEF HeapMounted, OneCachePerDisc

LEMMA NextOne ==
    ASSUME StealsDefault = FALSE, IInv, OneInv, [Next]_vars
    PROVE  OneInv'
  <1>m. MountInv /\ SdTypeOK
    BY DEF IInv, SdInv
  <1>z. 0 \in Slots /\ 1 \in Slots /\ {"nand", "sd"} = Discs
    BY StorageAssumption DEF Slots, Discs
  <1>1. CASE InitNand
    BY <1>1, <1>m, <1>z, AttachOne, SameOne DEF InitNand
  <1>2. CASE InitSd
    BY <1>2, <1>m, <1>z, AttachOne, SameOne DEF InitSd
  <1>3. CASE MountedSlot1
    BY <1>3, <1>m, <1>z, AttachOne, SameOne DEF MountedSlot1
  <1>4. ASSUME NEW n \in Slots, NEW d \in Discs, FreeMount(n, d) PROVE OneInv'
    BY <1>4, <1>m, AttachOne DEF FreeMount
  <1>5. ASSUME NEW n \in Slots, SetDefault(n) PROVE OneInv'
    BY <1>5, <1>m, SetDefaultOne
  <1>6. ASSUME NEW n \in Slots, Unmount(n) \/ UnsafeUnmount(n) PROVE OneInv'
    BY <1>6, <1>m, ReleaseOne DEF Unmount, UnsafeUnmount
  <1>7. ASSUME NEW f \in Files, NEW n \in Slots, OpenFile(f, n) PROVE OneInv'
    <2>1. partitions[n] \in Live
      BY <1>7, <1>m DEF OpenFile, MountInv, NoDanglingSlot
    <2> QED
      BY <1>7, <1>m, <2>1, CountOne DEF OpenFile
  <1>8. ASSUME NEW f \in Files, CloseFile(f) PROVE OneInv'
    <2>1. files[f] \in Live
      BY <1>8, <1>m DEF CloseFile, MountInv, OpenFilesKept
    <2> QED
      BY <1>8, <1>m, <2>1, CountOne DEF CloseFile
  <1>9. CASE PowerOff
    BY <1>9, PowerOffMount
  <1>10. ASSUME \/ MountSlot1 \/ GetInfo \/ Driver \/ Exchange \/ UNCHANGED vars
                \/ \E f \in Files, op \in {"read", "write"}, b \in AllBlocks, n \in 1 .. MaxBlocks, d \in Data :
                      Access(f, op, b, n, d)
                \/ \E b \in AllBlocks : CheckSpeed(b)
         PROVE  OneInv'
    <2>1. UNCHANGED mountVars
      BY <1>10 DEF MountSlot1, GetInfo, Driver, Exchange, vars, Access, CheckSpeed
    <2> QED
      BY <2>1, SameOne
  <1> QED
    BY <1>1, <1>2, <1>3, <1>4, <1>5, <1>6, <1>7, <1>8, <1>9, <1>10 DEF Next

-----------------------------------------------------------------------------
(* The blocks.                                                             *)

(* The driver serves requests, or is on its way from ACMD41 to that.       *)
Serving   == {"idle", "read", "write", "probe", "stop", "cid"}
Addressed == Serving \cup {"cmd2", "cmd3", "cmd7", "acmd6", "cmd13"}

(* The card that is ready stands where the driver takes it to be.          *)
InStep ==
    /\ ready = slot /\ at \in Serving /\ selected
    /\ at = "idle" => state = "tran"
    /\ at = "read" => state = "data" /\ cursor = job.addr + Len(got)
    /\ at = "write" => state = "rcv" /\ cursor = job.addr + job.count - job.left
    /\ at = "probe" => state = "data"
    /\ at = "stop" => state \in {"data", "rcv"}
    /\ at = "cid" => state = "stby"

(* A card that got past ACMD41 is addressed the way its kind wants; one    *)
(* that was put in later has not got past it.                              *)
StepsInv ==
    /\ at \in {"cmd8", "acmd41"} /\ slot # NoCard => state \in {"idle", "checked"}
    /\ at \in Addressed /\ slot # NoCard /\ state \notin {"idle", "checked"}
         => isSDHC = (Kind[slot] = "hc")
    /\ at \in Serving /\ slot # NoCard /\ ready = NoCard => state = "idle"
    /\ ready # NoCard => InStep
    /\ job.left <= job.count
    /\ at \notin Serving => job.op = "none"
    /\ at = "read" => job.op = "read" /\ Len(got) + job.left = job.count
    /\ at = "write" => job.op = "write"

(* What has been read is what is stored. *)
GotInv ==
    job.op = "read" /\ ready # NoCard =>
        \A i \in 1 .. Len(got) : got[i] = stored[ready][job.addr + i - 1]

CardInv == StepsInv /\ GotInv

SdVolume(h) == heap[h].disc = "sd"

(* A volume is the one of its medium, and the medium of a volume on the SD *)
(* card is the card that is ready, as long as one is.                      *)
VolumeInv ==
    /\ \A h \in Live : /\ Medium[heap[h].medium].signature
                       /\ heap[h].volume = Volume(Medium[heap[h].medium])
    /\ ready # NoCard => \A h \in Live : SdVolume(h) => heap[h].medium = ready
    /\ at \in InitSteps => \A h \in Live : ~SdVolume(h)
    /\ call = "boot" => Live = {}
    /\ at = "write" /\ ready # NoCard => \E h \in Live : SdVolume(h)

(* A boot record tells the truth about its medium: the volume ends on it.  *)
(* And its data begin, counted from the first sector of the medium, below  *)
(* its length: the constructor subtracts the one from the other.           *)
VolumesFit ==
    \A d \in DOMAIN Medium : Medium[d].signature =>
        LET m == Medium[d]
            r == m.records[BootSector(m)]
        IN  /\ DataStart(BootSector(m), r) <= r.sectors /\ r.sectors < WordSize
            /\ d \in Cards => BootSector(m) + r.sectors <= Capacity[d]

LEMMA InitialiseCard ==
    ASSUME SdInv, CardInv, Initialise
    PROVE  CardInv'
  <1> USE DEF CardInv, StepsInv, GotInv, InStep, Serving, Addressed, In, cardVars, flags, request
  <1>0. slot \in Cards \cup {NoCard} /\ NoCard \notin Cards /\ ready \in Cards \cup {NoCard}
    BY SdAssumption DEF SdInv, SdTypeOK
  <1>1. CASE Cmd8
    BY <1>0, <1>1 DEF Cmd8
  <1>2. CASE Acmd41
    <2>1. /\ at = "acmd41" /\ at' \in {"acmd41", "cmd2"} /\ ready = NoCard
          /\ UNCHANGED <<slot, cursor, stored, selected, job, got, ready>>
      BY <1>2 DEF Acmd41
    <2>2. CASE UNCHANGED <<state, isSDHC>>
      BY <1>0, <2>1, <2>2
    <2>3. CASE /\ Willing \/ ~In(States)
               /\ state' = IF Willing THEN "ready" ELSE state
               /\ isSDHC' = IF Willing THEN Kind[slot] = "hc" ELSE TRUE
               /\ at' = "cmd2"
      <3>1. ~Willing => slot = NoCard
        BY <2>3 DEF SdInv, SdTypeOK
      <3> QED
        BY <1>0, <2>1, <2>3, <3>1
    <2> QED
      BY <1>2, <2>2, <2>3 DEF Acmd41
  <1>3. CASE Identify
    BY <1>0, <1>3 DEF Identify
  <1>4. CASE Address
    BY <1>0, <1>4 DEF Address
  <1>5. CASE Select
    BY <1>0, <1>5 DEF Select
  <1>6. CASE BusWidth
    BY <1>0, <1>6 DEF BusWidth
  <1>7. CASE Status
    BY <1>0, <1>7 DEF Status
  <1> QED
    BY <1>1, <1>2, <1>3, <1>4, <1>5, <1>6, <1>7 DEF Initialise

(* The address a command names is that of the block, on a card of either   *)
(* kind, as long as the block is on the card.                              *)
LEMMA RightBlock ==
    ASSUME slot \in Cards, isSDHC = (Kind[slot] = "hc"), NEW b \in Blocks(slot)
    PROVE  BlockAt(AddressOf(b)) = b
  <1>1. /\ BlockSize \in Nat \ {0} /\ AddressSpace \in Nat \ {0} /\ Capacity[slot] \in Nat
        /\ b \in Nat /\ b < Capacity[slot]
    BY SdAssumption DEF Blocks
  <1>2. CASE Kind[slot] = "hc"
    BY <1>2 DEF BlockAt, AddressOf
  <1>3. CASE Kind[slot] # "hc"
    <2>1. Capacity[slot] * BlockSize <= AddressSpace
      BY <1>3, SdAssumption
    <2>2. (b + 1) * BlockSize <= Capacity[slot] * BlockSize
      <3> DEFINE c == Capacity[slot]
      <3>1. b + 1 <= c /\ c \in Nat
        BY <1>1
      <3> HIDE DEF c
      <3>2. (b + 1) * BlockSize <= c * BlockSize
        BY <1>1, <3>1
      <3> QED
        BY <3>2 DEF c
    <2>3. (b + 1) * BlockSize = b * BlockSize + BlockSize /\ b * BlockSize \in Nat
          /\ Capacity[slot] * BlockSize \in Nat
      BY <1>1
    <2>4. b * BlockSize < AddressSpace
      BY <1>1, <2>1, <2>2, <2>3
    <2>5. (b * BlockSize) % AddressSpace = b * BlockSize
      BY <1>1, <2>3, <2>4
    <2>6. (b * BlockSize) \div BlockSize = b
      BY <1>1
    <2> QED
      BY <1>3, <2>5, <2>6 DEF BlockAt, AddressOf
  <1> QED
    BY <1>2, <1>3

LEMMA CommandCard ==
    ASSUME SdInv, CardInv, NEW op \in {"read", "write"}, NEW b \in AllBlocks, NEW n \in 1 .. MaxBlocks,
           NEW d \in Data, Command(op, b, n, d), ready # NoCard => b \in Blocks(ready)
    PROVE  CardInv'
  <1> USE DEF CardInv
  <1>1. /\ at = "idle" /\ at' = op /\ got' = <<>>
        /\ job' = [op |-> op, addr |-> b, count |-> n, left |-> n, data |-> d]
        /\ UNCHANGED <<slot, stored, isSD20, isSDHC, selected, retry, ready>>
        /\ IF In({"tran"})
             THEN /\ state' = IF op = "read" THEN "data" ELSE "rcv"
                  /\ cursor' = BlockAt(AddressOf(b))
             ELSE UNCHANGED <<state, cursor>>
    BY DEF Command, flags
  <1>2. n \in Nat /\ b \in Nat /\ NoCard \notin Cards /\ slot \in Cards \cup {NoCard}
        /\ ready \in Cards \cup {NoCard}
    BY AddressIn, SdAssumption DEF SdInv, SdTypeOK
  <1>3. slot # NoCard /\ ready = NoCard => state = "idle" /\ state' = "idle"
    BY <1>1 DEF StepsInv, Serving, In
  <1>4. ready # NoCard => /\ state = "tran" /\ ready = slot /\ selected
                          /\ isSDHC = (Kind[slot] = "hc") /\ cursor' = b
    <2> SUFFICES ASSUME ready # NoCard
                 PROVE  /\ state = "tran" /\ ready = slot /\ selected
                        /\ isSDHC = (Kind[slot] = "hc") /\ cursor' = b
      OBVIOUS
    <2>1. state = "tran" /\ ready = slot /\ selected
      BY <1>1 DEF StepsInv, InStep
    <2>2. isSDHC = (Kind[slot] = "hc") /\ slot \in Cards
      BY <1>1, <1>2, <2>1 DEF StepsInv, Addressed, Serving
    <2>3. cursor' = BlockAt(AddressOf(b))
      BY <1>1, <2>1, <1>2 DEF In
    <2> QED
      BY <2>1, <2>2, <2>3, RightBlock
  <1>5. job'.op = op /\ job'.addr = b /\ job'.count = n /\ job'.left = n /\ Len(got') = 0
    BY <1>1
  <1>6. InStep' \/ ready' = NoCard
    BY <1>1, <1>2, <1>4, <1>5 DEF InStep, In, Serving
  <1>7. StepsInv'
    BY <1>1, <1>2, <1>3, <1>4, <1>5, <1>6 DEF StepsInv, Addressed, Serving
  <1>8. GotInv'
    BY <1>1, <1>5 DEF GotInv
  <1> QED
    BY <1>7, <1>8

LEMMA TransferCard ==
    ASSUME SdInv, CardInv, Transfer
    PROVE  CardInv'
  <1> USE DEF CardInv
  <1>0. slot \in Cards \cup {NoCard} /\ NoCard \notin Cards /\ ready \in Cards \cup {NoCard}
        /\ MaxBlocks \in Nat
    BY SdAssumption DEF SdInv, SdTypeOK
  <1>j. /\ job.left \in Nat /\ job.count \in Nat /\ cursor \in Int /\ job.addr \in Int
        /\ got \in Seq(Data) /\ DOMAIN stored = Cards
        /\ \A c \in Cards : stored[c] \in [Blocks(c) -> Data]
        /\ job \in [op : {"none", "read", "write"}, addr : AllBlocks \cup {0}, count : 0 .. MaxBlocks,
                    left : 0 .. MaxBlocks, data : Data]
    BY <1>0, AddressIn DEF SdInv, SdTypeOK
  <1>a. ASSUME NEW busy, AfterBlock(busy), at \in {"read", "write"}
        PROVE  /\ job'.op = job.op /\ job'.addr = job.addr /\ job'.count = job.count
               /\ job'.left = job.left - 1
               /\ at' \in {at, "idle", "stop"}
               /\ at' = at => job.left > 1 /\ cursor' = cursor + 1 /\ state' = busy
               /\ at' = "idle" => state' = "tran"
               /\ at' = "stop" => state' = busy
    <2>1. job' = [op |-> job.op, addr |-> job.addr, count |-> job.count, left |-> job.left - 1,
                  data |-> job.data]
      BY <1>a, <1>j DEF AfterBlock
    <2>2. job.left > 1 => job.count # 1
      BY <1>j DEF StepsInv
    <2> QED
      BY <1>a, <2>1, <2>2 DEF AfterBlock
  <1>1. CASE ReadBlock
    <2>1. /\ at = "read" /\ slot # NoCard /\ state = "data" /\ cursor \in Blocks(slot) /\ AfterBlock("data")
          /\ got' = Append(got, stored[slot][cursor]) /\ UNCHANGED <<slot, stored, isSD20, isSDHC, selected, retry, ready>>
      BY <1>1 DEF ReadBlock, flags, In
    <2>2. ready # NoCard /\ InStep /\ ready = slot /\ cursor = job.addr + Len(got) /\ selected
          /\ isSDHC = (Kind[slot] = "hc") /\ job.op = "read" /\ Len(got) + job.left = job.count
      BY <2>1 DEF StepsInv, InStep, Serving, Addressed
    <2>3. /\ Len(got) \in Nat /\ Len(got') = Len(got) + 1 /\ got'[Len(got) + 1] = stored[slot][cursor]
          /\ \A i \in 1 .. Len(got) : got'[i] = got[i]
      <3>1. stored[slot][cursor] \in Data
        BY <1>0, <1>j, <2>1
      <3> QED
        BY <1>j, <2>1, <3>1
    <2>4. /\ job'.op = job.op /\ job'.addr = job.addr /\ job'.count = job.count
          /\ job'.left = job.left - 1
          /\ at' \in {"read", "idle", "stop"}
          /\ at' = "read" => cursor' = cursor + 1 /\ state' = "data"
          /\ at' = "idle" => state' = "tran"
          /\ at' = "stop" => state' = "data"
      BY <1>a, <2>1
    <2>5. InStep'
      BY <1>j, <2>1, <2>2, <2>3, <2>4 DEF InStep, Serving
    <2>6. StepsInv'
      BY <1>j, <2>1, <2>2, <2>3, <2>4, <2>5 DEF StepsInv, Serving, Addressed
    <2>7. GotInv'
      <3> SUFFICES ASSUME NEW i \in 1 .. Len(got) + 1
                   PROVE  got'[i] = stored[slot][job.addr + i - 1]
        BY <2>1, <2>2, <2>3, <2>4 DEF GotInv
      <3>1. CASE i = Len(got) + 1
        <4>1. job.addr + i - 1 = cursor
          BY <1>j, <2>2, <2>3, <3>1
        <4> QED
          BY <2>3, <3>1, <4>1
      <3>2. CASE i \in 1 .. Len(got)
        BY <2>2, <2>3, <3>2 DEF GotInv
      <3> QED
        BY <2>3, <3>1, <3>2
    <2> QED
      BY <2>6, <2>7
  <1>2. CASE WriteBlock
    <2>1. /\ at = "write" /\ slot # NoCard /\ state = "rcv" /\ cursor \in Blocks(slot) /\ AfterBlock("rcv")
          /\ UNCHANGED <<slot, got, isSD20, isSDHC, selected, retry, ready>>
      BY <1>2 DEF WriteBlock, flags, In
    <2>2. ready # NoCard /\ InStep /\ ready = slot /\ cursor = job.addr + job.count - job.left /\ selected
          /\ isSDHC = (Kind[slot] = "hc") /\ job.op = "write"
      BY <2>1 DEF StepsInv, InStep, Serving, Addressed
    <2>4. /\ job'.op = job.op /\ job'.addr = job.addr /\ job'.count = job.count
          /\ job'.left = job.left - 1
          /\ at' \in {"write", "idle", "stop"}
          /\ at' = "write" => cursor' = cursor + 1 /\ state' = "rcv"
          /\ at' = "idle" => state' = "tran"
          /\ at' = "stop" => state' = "rcv"
      BY <1>a, <2>1
    <2>5. InStep'
      BY <1>j, <2>1, <2>2, <2>4 DEF InStep, Serving
    <2>6. StepsInv'
      BY <1>j, <2>1, <2>2, <2>4, <2>5 DEF StepsInv, Serving, Addressed
    <2>7. GotInv'
      BY <2>2, <2>4 DEF GotInv
    <2> QED
      BY <2>6, <2>7
  <1>3. CASE StopTransmission \/ Reselect \/ ProbeAnswered
    <2>1. /\ at \in {"stop", "cid", "probe"} /\ at' = "idle"
          /\ UNCHANGED <<slot, stored, isSD20, isSDHC, selected, retry, job, got, ready>>
      BY <1>3 DEF StopTransmission, Reselect, ProbeAnswered, flags, request
    <2>2. slot # NoCard /\ ready = NoCard => state = "idle" /\ state' = "idle"
      BY <1>3, <2>1 DEF StopTransmission, Reselect, ProbeAnswered, In, StepsInv, Serving
    <2>3. ready # NoCard => ready = slot /\ selected /\ isSDHC = (Kind[slot] = "hc") /\ state' = "tran"
      <3>1. ready # NoCard => ready = slot /\ selected /\ InStep
        BY DEF StepsInv, InStep
      <3>2. ready # NoCard => state \notin {"idle", "checked"}
        BY <2>1, <3>1 DEF InStep
      <3> QED
        BY <1>0, <1>3, <2>1, <3>1, <3>2
           DEF StopTransmission, Reselect, ProbeAnswered, In, InStep, StepsInv, Addressed, Serving
    <2>4. ready # NoCard => InStep'
      BY <2>1, <2>3 DEF InStep, Serving
    <2>5. StepsInv'
      BY <2>1, <2>2, <2>3, <2>4 DEF StepsInv, Addressed, Serving
    <2>6. GotInv'
      BY <2>1 DEF GotInv
    <2> QED
      BY <2>5, <2>6
  <1> QED
    BY <1>1, <1>2, <1>3 DEF Transfer

(* The other steps: the card starts again, is left alone, or goes.         *)
LEMMA OtherCard ==
    ASSUME SdInv, CardInv,
           \/ Reset
           \/ \E b \in AllBlocks : Probe(b)
           \/ Deselect \/ SwitchOff \/ Remove
           \/ \E c \in Cards : Insert(c)
           \/ UNCHANGED sdVars
    PROVE  CardInv'
  <1> USE DEF CardInv
  <1>0. slot \in Cards \cup {NoCard} /\ NoCard \notin Cards /\ ready \in Cards \cup {NoCard}
    BY SdAssumption DEF SdInv, SdTypeOK
  <1>1. CASE Reset \/ SwitchOff
    <2>1. /\ ready' = NoCard /\ state' = "idle" /\ at' \in {"cmd8", "off"} /\ job' = NoJob /\ got' = <<>>
      BY <1>1 DEF Reset, SwitchOff
    <2>2. StepsInv'
      BY <2>1 DEF StepsInv, Addressed, Serving, NoJob
    <2> QED
      BY <2>1, <2>2 DEF GotInv
  <1>2. CASE Remove \/ \E c \in Cards : Insert(c)
    <2>1. /\ ready' = NoCard /\ state' = "idle" /\ UNCHANGED <<at, job, got>>
      BY <1>0, <1>2 DEF Remove, Insert, request, StepsInv, InStep
    <2>2. StepsInv'
      BY <2>1 DEF StepsInv, Addressed, Serving
    <2> QED
      BY <2>1, <2>2 DEF GotInv
  <1>3. CASE Deselect \/ \E b \in AllBlocks : Probe(b)
    <2>1. /\ at = "idle" /\ at' \in {"cid", "probe"}
          /\ UNCHANGED <<slot, stored, isSD20, isSDHC, selected, retry, job, got, ready>>
          /\ In({"tran"}) => state' = IF at' = "cid" THEN "stby" ELSE "data"
          /\ ~In({"tran"}) => state' = state
      BY <1>3 DEF Deselect, Probe, flags, request
    <2>2. slot # NoCard /\ ready = NoCard => state = "idle" /\ state' = "idle"
      BY <2>1 DEF In, StepsInv, Serving
    <2>3. ready # NoCard => /\ ready = slot /\ selected /\ isSDHC = (Kind[slot] = "hc") /\ In({"tran"})
      BY <1>0, <2>1 DEF In, InStep, StepsInv, Addressed, Serving
    <2>4. ready # NoCard => InStep'
      BY <2>1, <2>3 DEF InStep, Serving
    <2>5. StepsInv'
      BY <2>1, <2>2, <2>3, <2>4 DEF StepsInv, Addressed, Serving
    <2>6. GotInv'
      BY <2>1 DEF GotInv
    <2> QED
      BY <2>5, <2>6
  <1>4. CASE UNCHANGED sdVars
    BY <1>4 DEF sdVars, cardVars, flags, request, StepsInv, GotInv, InStep
  <1> QED
    BY <1>1, <1>2, <1>3, <1>4


(* The sectors before the last cluster number are below the size. *)
LEMMA LastFits ==
    ASSUME NEW size \in Nat, NEW start \in Nat, NEW boot \in Nat, NEW per \in Nat \ {0},
           NEW word \in Nat \ {0}, start <= size, size < word,
           NEW last, last = ((size - start) % word) \div per
    PROVE  start .. start + (last - 1) * per - 1 \subseteq start .. boot + size - 1
  <1>1. size - start \in Nat /\ size - start < word
    OBVIOUS
  <1>2. (size - start) % word = size - start
    BY <1>1
  <1>3. \A x \in Nat : x \div per \in Nat /\ (x \div per) * per <= x
    OBVIOUS
  <1>4. last \in Nat /\ last * per <= size - start
    BY <1>1, <1>2, <1>3
  <1>5. (last - 1) * per = last * per - per /\ last * per \in Nat
    BY <1>4
  <1> DEFINE k == (last - 1) * per
  <1>6. k \in Int /\ k <= size - start
    BY <1>4, <1>5
  <1> HIDE DEF k
  <1>7. start .. start + k - 1 \subseteq start .. boot + size - 1
    BY <1>6
  <1> QED
    BY <1>7 DEF k

(* The clusters of a volume are inside it.                                 *)
LEMMA ClustersFit ==
    ASSUME VolumesFit, NEW d \in Cards \cup {Nand}, Medium[d].signature
    PROVE  LET v == Volume(Medium[d])
               r == Medium[d].records[v.boot]
           IN  /\ DataSectors(v) \subseteq v.boot + r.reserved + r.numFATs * r.sectorsPerFat + r.rootSectors
                                             .. v.boot + v.sectors - 1
               /\ v.boot \in Nat /\ v.dataStart \in Nat
               /\ d \in Cards => v.boot + v.sectors <= Capacity[d]
  <1> DEFINE m == Medium[d]
             boot == BootSector(m)
             r == m.records[boot]
             start == DataStart(boot, r)
             last == ((r.sectors - start) % WordSize) \div r.sectorsPerCluster
  <1>1. /\ boot \in Nat
        /\ {r.reserved, r.numFATs, r.sectorsPerFat, r.rootSectors, r.sectors} \subseteq Nat
        /\ r.sectorsPerCluster \in Nat \ {0}
    BY MediumAssumption, StorageAssumption
  <1>2. /\ start \in Nat /\ start <= r.sectors /\ r.sectors < WordSize /\ WordSize \in Nat \ {0}
        /\ d \in Cards => boot + r.sectors <= Capacity[d]
    <2>1. r.numFATs * r.sectorsPerFat \in Nat
      BY <1>1
    <2>2. start \in Nat
      BY <1>1, <2>1 DEF DataStart
    <2> QED
      BY <2>2, StorageAssumption DEF VolumesFit
  <1>3. /\ Volume(m).boot = boot /\ Volume(m).sectors = r.sectors /\ Volume(m).dataStart = start
        /\ Volume(m).perCluster = r.sectorsPerCluster /\ Volume(m).lastCluster = last
    BY DEF Volume
  <1>4. start = boot + r.reserved + r.numFATs * r.sectorsPerFat + r.rootSectors
    BY DEF DataStart
  <1> DEFINE per == r.sectorsPerCluster
             size == r.sectors
  <1>5. last = ((size - start) % WordSize) \div per
    OBVIOUS
  <1>6. per \in Nat \ {0} /\ size \in Nat /\ boot \in Nat /\ start \in Nat
        /\ start <= size /\ size < WordSize
    BY <1>1, <1>2
  <1> HIDE DEF last, per, size, start, boot, r
  <1>7. start .. start + (last - 1) * per - 1 \subseteq start .. boot + size - 1
    BY <1>2, <1>5, <1>6, LastFits
  <1>8. DataSectors(Volume(m)) = start .. start + (last - 1) * per - 1
    BY <1>3 DEF DataSectors, per
  <1> QED
    BY <1>2, <1>3, <1>4, <1>6, <1>7, <1>8 DEF r, boot, size

(* An object of a volume, in all steps but those that make it or give it   *)
(* back: only its count changes.                                           *)
Same(h, o) == o.disc = heap[h].disc /\ o.medium = heap[h].medium /\ o.volume = heap[h].volume

LEMMA KeptVolumes ==
    ASSUME VolumeInv, Live' \subseteq Live, \A h \in Live' : Same(h, heap'[h]),
           call' = "boot" => Live' = {},
           ready' # NoCard => ready' = ready \/ \A h \in Live : ~SdVolume(h),
           at' \in InitSteps => at \in InitSteps \/ \A h \in Live' : ~SdVolume(h),
           at' = "write" /\ ready' # NoCard => \E h \in Live' : SdVolume(h)
    PROVE  VolumeInv'
  <1>1. \A h \in Live' : heap'[h].disc = heap[h].disc /\ heap'[h].medium = heap[h].medium
                         /\ heap'[h].volume = heap[h].volume /\ h \in Live
    BY DEF Same
  <1>2. \A h \in Live' : SdVolume(h)' <=> SdVolume(h)
    BY <1>1 DEF SdVolume
  <1>3. \A h \in Live' : /\ Medium[heap'[h].medium].signature
                         /\ heap'[h].volume = Volume(Medium[heap'[h].medium])
    BY <1>1 DEF VolumeInv
  <1>4. ready' # NoCard => \A h \in Live' : SdVolume(h)' => heap'[h].medium = ready'
    BY <1>1, <1>2 DEF VolumeInv
  <1>5. at' \in InitSteps => \A h \in Live' : ~SdVolume(h)'
    BY <1>1, <1>2 DEF VolumeInv
  <1>6. at' = "write" /\ ready' # NoCard => \E h \in Live' : SdVolume(h)'
    BY <1>2
  <1> QED
    BY <1>3, <1>4, <1>5, <1>6 DEF VolumeInv

(* A mount: the card it is made on is the one that is ready.               *)
LEMMA AttachVolumes ==
    ASSUME SdTypeOK, MountInv, CardInv, VolumeInv, NEW n \in Slots, NEW d \in Discs, Attach(n, d),
           call' # "boot",
           ready' # NoCard => ready' = ready,
           at' = "write" => at = "write",
           at' \in InitSteps => \A h \in Live : ~SdVolume(h),
           d = "sd" => at' = at
    PROVE  VolumeInv'
  <1>1. CASE heap' = heap
    <2>1. Live' = Live /\ \A h \in Live' : Same(h, heap'[h])
      BY <1>1 DEF Live, Same
    <2>2. at' = "write" /\ ready' # NoCard => \E h \in Live' : SdVolume(h)
      BY <2>1 DEF VolumeInv
    <2>3. /\ ready' # NoCard => ready' = ready \/ \A h \in Live : ~SdVolume(h)
          /\ at' \in InitSteps => at \in InitSteps \/ \A h \in Live' : ~SdVolume(h)
          /\ call' = "boot" => Live' = {}
      BY <2>1
    <2> QED
      BY <2>1, <2>2, <2>3, KeptVolumes
  <1>2. CASE Mounted(d) = {} /\ Medium[OnDisc(d)].signature
    <2> DEFINE new == Allocated
               m == OnDisc(d)
    <2>1. Unused # {} /\ heap' = [heap EXCEPT ![new] = Partition(d)]
      BY <1>2 DEF Attach
    <2>2. new \in Handles /\ heap[new] = Released
      BY <2>1 DEF Allocated, Unused
    <2> HIDE DEF new
    <2>3. /\ Partition(d).disc = d /\ Partition(d).medium = m /\ Partition(d).volume = Volume(Medium[m])
          /\ Partition(d) # Released
      BY DEF Partition, Released, Discs
    <2>4. heap'[new] = Partition(d) /\ new \notin Live /\ Live' = Live \cup {new} /\ \A h \in Live : heap'[h] = heap[h]
      BY <2>1, <2>2, <2>3 DEF Live, MountInv, MountTypes
    <2>5. d = "sd" => at' = "idle" /\ (ready # NoCard => m = ready)
      BY DEF Attach, CardInv, StepsInv, InStep, OnDisc
    <2>6. ASSUME NEW h \in Live'
          PROVE  /\ Medium[heap'[h].medium].signature
                 /\ heap'[h].volume = Volume(Medium[heap'[h].medium])
      <3>1. CASE h \in Live
        BY <2>4, <3>1 DEF VolumeInv
      <3>2. CASE h = new
        BY <1>2, <2>3, <2>4, <3>2
      <3> QED
        BY <2>4, <3>1, <3>2
    <2>7. ASSUME ready' # NoCard, NEW h \in Live', SdVolume(h)'
          PROVE  heap'[h].medium = ready'
      <3>1. CASE h \in Live
        BY <2>4, <2>7, <3>1 DEF VolumeInv, SdVolume
      <3>2. CASE h = new
        BY <2>3, <2>4, <2>5, <2>7, <3>2 DEF SdVolume
      <3> QED
        BY <2>4, <3>1, <3>2
    <2>8. ASSUME at' \in InitSteps, NEW h \in Live'
          PROVE  ~SdVolume(h)'
      <3>1. d # "sd"
        BY <2>5, <2>8 DEF InitSteps
      <3> QED
        BY <2>3, <2>4, <2>8, <3>1 DEF SdVolume
    <2>9. at' = "write" /\ ready' # NoCard => \E h \in Live' : SdVolume(h)'
      BY <2>4 DEF VolumeInv, SdVolume
    <2> QED
      BY <2>6, <2>7, <2>8, <2>9 DEF VolumeInv
  <1> QED
    BY <1>1, <1>2 DEF Attach

(* Nothing is mounted or given back: the driver takes a step, or a card is *)
(* exchanged.                                                              *)
LEMMA SameVolumes ==
    ASSUME VolumeInv, UNCHANGED mountVars, call' # "boot" \/ call' = call,
           ready' # NoCard => ready' = ready \/ at \in InitSteps,
           at' \in InitSteps => at \in InitSteps \/ \A h \in Live : ~SdVolume(h),
           at' = "write" => at = "write" \/ \E h \in Live : SdVolume(h),
           at = "write" /\ ready' # NoCard => ready' = ready
    PROVE  VolumeInv'
  <1>1. Live' = Live /\ \A h \in Live' : Same(h, heap'[h])
    BY DEF mountVars, Live, Same
  <1>2. call' = "boot" => Live' = {}
    BY <1>1 DEF VolumeInv
  <1>3. ready' # NoCard => ready' = ready \/ \A h \in Live : ~SdVolume(h)
    BY DEF VolumeInv
  <1>4. at' \in InitSteps => at \in InitSteps \/ \A h \in Live' : ~SdVolume(h)
    BY <1>1
  <1>5. at' = "write" /\ ready' # NoCard => \E h \in Live' : SdVolume(h)
    BY <1>1 DEF VolumeInv
  <1> QED
    BY <1>1, <1>2, <1>3, <1>4, <1>5, KeptVolumes

(* A volume is given back, or its count changes, while the driver does     *)
(* nothing.                                                                *)
LEMMA ReleaseVolumes ==
    ASSUME MountInv, VolumeInv, NEW n \in Slots, partitions[n] # NoHandle, at # "write",
           heap' = [heap EXCEPT ![partitions[n]] = Released], UNCHANGED <<ready, at, call>>
    PROVE  VolumeInv'
  <1>1. Live' \subseteq Live /\ \A h \in Live' : Same(h, heap'[h])
    BY DEF Live, Same, MountInv, MountTypes
  <1>2. call' = "boot" => Live' = {}
    BY <1>1 DEF VolumeInv
  <1> QED
    BY <1>1, <1>2, KeptVolumes DEF VolumeInv

LEMMA CountVolumes ==
    ASSUME MountInv, VolumeInv, NEW h \in Live, NEW c,
           heap' = [heap EXCEPT ![h].openFileCount = c], UNCHANGED <<ready, at, call>>
    PROVE  VolumeInv'
  <1>1. heap[h] \in Objects /\ h \in Handles
    BY DEF Live, MountInv, MountTypes
  <1>2. heap'[h] # Released /\ Same(h, heap'[h])
    BY <1>1 DEF Objects, Released, Discs, Same, MountInv, MountTypes
  <1>3. Live' = Live /\ \A k \in Live : Same(k, heap'[k])
    BY <1>1, <1>2 DEF Live, Same, MountInv, MountTypes
  <1>4. /\ call' = "boot" => Live' = {}
        /\ at' = "write" /\ ready' # NoCard => \E k \in Live' : SdVolume(k)
    BY <1>3 DEF VolumeInv
  <1> QED
    BY <1>3, <1>4, KeptVolumes DEF VolumeInv

LEMMA DriverVolumes ==
    ASSUME VolumeInv, Driver
    PROVE  VolumeInv'
  <1>1. UNCHANGED mountVars /\ call' = call
    BY DEF Driver
  <1>2. CASE Initialise
    <2>1. at \in InitSteps /\ at # "write" /\ at' # "write"
      BY <1>2 DEF Initialise, Cmd8, Acmd41, Identify, Address, Select, BusWidth, Status, InitSteps
    <2> QED
      BY <1>1, <2>1, SameVolumes
  <1>3. CASE Transfer
    <2>1. ready' = ready
      BY <1>3 DEF Transfer, ReadBlock, WriteBlock, StopTransmission, Reselect, ProbeAnswered
    <2>2. at' = at \/ at' \in {"idle", "stop"}
      BY <1>3 DEF Transfer, ReadBlock, WriteBlock, StopTransmission, Reselect, ProbeAnswered, AfterBlock
    <2> QED
      BY <1>1, <2>1, <2>2, SameVolumes DEF InitSteps
  <1> QED
    BY <1>2, <1>3 DEF Driver

LEMMA InitBlocks == Init => CardInv /\ VolumeInv
  <1> SUFFICES ASSUME Init PROVE CardInv /\ VolumeInv
    OBVIOUS
  <1>1. at = "off" /\ job = NoJob /\ ready = NoCard /\ heap = [h \in Handles |-> Released]
    BY DEF Init, SdInit
  <1>2. CardInv
    BY <1>1 DEF CardInv, StepsInv, GotInv, Addressed, Serving, NoJob
  <1>3. VolumeInv
    BY <1>1 DEF VolumeInv, Live, InitSteps
  <1> QED
    BY <1>2, <1>3

(* A request goes to blocks of the card that is ready.                     *)
LEMMA AccessInside ==
    ASSUME VolumesFit, SdInv, MountInv, VolumeInv, NEW f \in Files, NEW op \in {"read", "write"},
           NEW b \in AllBlocks, NEW n \in 1 .. MaxBlocks, NEW d \in Data, Access(f, op, b, n, d)
    PROVE  files[f] \in Live /\ SdVolume(files[f]) /\ (ready # NoCard => b \in Blocks(ready))
  <1> DEFINE h == files[f]
             v == heap[h].volume
             m == heap[h].medium
  <1>1. h \in Live /\ SdVolume(h) /\ b .. b + n - 1 \subseteq DataSectors(v)
    BY DEF Access, MountInv, OpenFilesKept, SdVolume
  <1>2. SUFFICES ASSUME ready # NoCard PROVE b \in Blocks(ready)
    BY <1>1
  <1>3. m = ready /\ ready \in Cards /\ Medium[m].signature /\ v = Volume(Medium[m])
    BY <1>1, <1>2 DEF VolumeInv, SdInv, SdTypeOK
  <1>4. b \in DataSectors(v) /\ b \in Nat
    BY <1>1, AddressIn, SdAssumption
  <1> DEFINE vv == Volume(Medium[ready])
             r == Medium[ready].records[vv.boot]
             first == vv.boot + r.reserved + r.numFATs * r.sectorsPerFat + r.rootSectors
  <1>5. DataSectors(vv) \subseteq first .. vv.boot + vv.sectors - 1
    BY <1>3, ClustersFit
  <1>6. vv.boot + vv.sectors <= Capacity[ready]
    BY <1>3, ClustersFit
  <1>7. b \in first .. vv.boot + vv.sectors - 1 /\ vv \in Volumes
    BY <1>3, <1>4, <1>5, VolumeType
  <1> DEFINE end == vv.boot + vv.sectors
  <1>8. b <= end - 1 /\ Capacity[ready] \in Nat /\ end \in Nat
    <2> HIDE DEF vv, first
    <2> QED
      BY <1>3, <1>4, <1>7, SdAssumption DEF Volumes
  <1>9. end <= Capacity[ready]
    BY <1>6
  <1> HIDE DEF end
  <1>10. b \in 0 .. Capacity[ready] - 1
    BY <1>4, <1>8, <1>9
  <1> QED
    BY <1>10 DEF Blocks

LEMMA NextBlocks ==
    ASSUME VolumesFit, Exchanges = FALSE, IInv, CardInv, VolumeInv, [Next]_vars
    PROVE  CardInv' /\ VolumeInv'
  <1>s. SdInv /\ SdTypeOK /\ MountInv
    BY DEF IInv, SdInv
  <1>z. 0 \in Slots /\ 1 \in Slots /\ {"nand", "sd"} = Discs
    BY StorageAssumption DEF Slots, Discs
  <1>u. ASSUME UNCHANGED sdVars PROVE CardInv' /\ ready' = ready /\ at' = at
    <2>1. CardInv'
      BY <1>s, <1>u, OtherCard
    <2> QED
      BY <1>u, <2>1 DEF sdVars
  <1>1. CASE InitNand
    <2>1. CardInv'
      BY <1>1, <1>s, OtherCard DEF InitNand
    <2>2. call' # "boot" /\ ready' = NoCard /\ at' = "cmd8" /\ Live = {}
      BY <1>1 DEF InitNand, Reset, VolumeInv
    <2>3. VolumeInv'
      BY <1>1, <1>s, <1>z, <2>2, AttachVolumes, SameVolumes DEF InitNand
    <2> QED
      BY <2>1, <2>3
  <1>2. CASE InitSd \/ MountedSlot1
    <2>1. UNCHANGED sdVars /\ call' # "boot"
      BY <1>2 DEF InitSd, MountedSlot1
    <2>2. at \in {"idle", "off"}
      BY <1>2 DEF InitSd, MountedSlot1
    <2>3. at' \notin InitSteps /\ at' # "write"
      BY <1>u, <2>1, <2>2 DEF InitSteps
    <2>4. Attach(1, "sd") \/ UNCHANGED mountVars
      BY <1>2 DEF InitSd, MountedSlot1
    <2>5. VolumeInv'
      BY <1>s, <1>u, <1>z, <2>1, <2>3, <2>4, AttachVolumes, SameVolumes
    <2> QED
      BY <1>u, <2>1, <2>5
  <1>3. CASE MountSlot1
    <2>1. CardInv'
      BY <1>3, <1>s, OtherCard DEF MountSlot1
    <2>2. \A h \in Live : ~SdVolume(h)
      BY <1>3 DEF MountSlot1, SdVolume
    <2>3. call' # "boot" /\ ready' = NoCard /\ at' = "cmd8" /\ UNCHANGED mountVars
      BY <1>3 DEF MountSlot1, Reset
    <2>4. VolumeInv'
      BY <2>2, <2>3, SameVolumes
    <2> QED
      BY <2>1, <2>4
  <1>4. ASSUME NEW n \in Slots, NEW d \in Discs, FreeMount(n, d) PROVE CardInv' /\ VolumeInv'
    <2>1. UNCHANGED sdVars /\ call = "none" /\ call' = call /\ Attach(n, d)
      BY <1>4 DEF FreeMount
    <2>2. VolumeInv'
      BY <1>s, <1>u, <2>1, AttachVolumes DEF VolumeInv
    <2> QED
      BY <1>u, <2>1, <2>2
  <1>5. ASSUME NEW n \in Slots, SetDefault(n) PROVE CardInv' /\ VolumeInv'
    <2>1. UNCHANGED <<sdVars, heap, call>>
      BY <1>5 DEF SetDefault
    <2>2. VolumeInv'
      BY <1>u, <2>1 DEF VolumeInv, Live, SdVolume
    <2> QED
      BY <1>u, <2>1, <2>2
  <1>6. ASSUME NEW n \in Slots, Unmount(n) \/ UnsafeUnmount(n) PROVE CardInv' /\ VolumeInv'
    <2>1. /\ UNCHANGED <<sdVars, call>> /\ partitions[n] # NoHandle /\ at # "write"
          /\ heap' = [heap EXCEPT ![partitions[n]] = Released]
      BY <1>6 DEF Unmount, UnsafeUnmount
    <2>2. VolumeInv'
      BY <1>s, <1>u, <2>1, ReleaseVolumes
    <2> QED
      BY <1>u, <2>1, <2>2
  <1>7. ASSUME NEW f \in Files, NEW n \in Slots, OpenFile(f, n) PROVE CardInv' /\ VolumeInv'
    <2>1. partitions[n] \in Live /\ UNCHANGED <<sdVars, call>>
      BY <1>7, <1>s DEF OpenFile, MountInv, NoDanglingSlot
    <2>2. VolumeInv'
      BY <1>7, <1>s, <1>u, <2>1, CountVolumes DEF OpenFile
    <2> QED
      BY <1>u, <2>1, <2>2
  <1>8. ASSUME NEW f \in Files, CloseFile(f) PROVE CardInv' /\ VolumeInv'
    <2>1. files[f] \in Live /\ UNCHANGED <<sdVars, call>>
      BY <1>8, <1>s DEF CloseFile, MountInv, OpenFilesKept
    <2>2. VolumeInv'
      BY <1>8, <1>s, <1>u, <2>1, CountVolumes DEF CloseFile
    <2> QED
      BY <1>u, <2>1, <2>2
  <1>9. ASSUME NEW f \in Files, NEW op \in {"read", "write"}, NEW b \in AllBlocks,
               NEW n \in 1 .. MaxBlocks, NEW d \in Data, Access(f, op, b, n, d)
        PROVE  CardInv' /\ VolumeInv'
    <2>1. files[f] \in Live /\ SdVolume(files[f]) /\ (ready # NoCard => b \in Blocks(ready))
      BY <1>9, <1>s, AccessInside
    <2>2. Command(op, b, n, d) /\ UNCHANGED mountVars /\ call' = call
      BY <1>9 DEF Access
    <2>3. CardInv'
      BY <1>s, <2>1, <2>2, CommandCard
    <2>4. ready' = ready /\ at' = op
      BY <2>2 DEF Command
    <2>5. VolumeInv'
      BY <2>1, <2>2, <2>4, SameVolumes DEF InitSteps
    <2> QED
      BY <2>3, <2>5
  <1>10. CASE GetInfo \/ \E b \in AllBlocks : CheckSpeed(b)
    <2>1. Deselect \/ \E b \in AllBlocks : Probe(b)
      BY <1>10 DEF GetInfo, CheckSpeed
    <2>2. UNCHANGED mountVars /\ call' = call
      BY <1>10 DEF GetInfo, CheckSpeed
    <2>3. CardInv'
      BY <1>s, <2>1, OtherCard
    <2>4. ready' = ready /\ at' \in {"cid", "probe"}
      BY <2>1 DEF Deselect, Probe
    <2>5. VolumeInv'
      BY <2>2, <2>4, SameVolumes DEF InitSteps
    <2> QED
      BY <2>3, <2>5
  <1>11. CASE Driver
    <2>1. CardInv'
      BY <1>11, <1>s, InitialiseCard, TransferCard DEF Driver
    <2> QED
      BY <1>11, <2>1, DriverVolumes
  <1>12. CASE PowerOff
    <2>1. CardInv'
      BY <1>12, <1>s, OtherCard DEF PowerOff
    <2>2. ready' = NoCard /\ at' = "off" /\ heap' = [h \in Handles |-> Released]
      BY <1>12 DEF PowerOff, SwitchOff
    <2>3. VolumeInv'
      BY <2>2 DEF VolumeInv, Live, InitSteps
    <2> QED
      BY <2>1, <2>3
  <1>13. CASE Exchange
    <2>1. CardInv'
      BY <1>13, <1>s, OtherCard DEF Exchange
    <2>2. UNCHANGED mountVars /\ call' = call /\ at' = at /\ (ready' = NoCard \/ ready' = ready)
      BY <1>13 DEF Exchange, Remove, Insert
    <2>3. VolumeInv'
      BY <2>2, SameVolumes
    <2> QED
      BY <2>1, <2>3
  <1>14. CASE UNCHANGED vars
    <2>1. UNCHANGED sdVars /\ UNCHANGED mountVars /\ call' = call
      BY <1>14 DEF vars
    <2>2. VolumeInv'
      BY <1>u, <2>1, SameVolumes
    <2> QED
      BY <1>u, <2>1, <2>2
  <1> QED
    BY <1>1, <1>2, <1>3, <1>4, <1>5, <1>6, <1>7, <1>8, <1>9, <1>10, <1>11, <1>12, <1>13, <1>14 DEF Next

(* What is written on a card, and where.                                   *)
LEMMA WriteRequested ==
    ASSUME IInv, CardInv, VolumeInv, [Next]_vars, NEW c \in Cards, stored'[c] # stored[c]
    PROVE  /\ job.op = "write"
           /\ \E h \in Live : heap[h].disc = "sd" /\ heap[h].medium = c
           /\ \A b \in Blocks(c) : b # job.addr + job.count - job.left => stored'[c][b] = stored[c][b]
  <1>1. WriteBlock
    BY DEF Next, vars, sdVars, cardVars, InitNand, InitSd, MountSlot1, MountedSlot1, FreeMount, SetDefault, Unmount,
       UnsafeUnmount, OpenFile, CloseFile, Access, CheckSpeed, GetInfo, Driver, PowerOff, Exchange,
       Reset, Command, Probe, Deselect, SwitchOff, Remove, Insert, Initialise, Transfer, Cmd8, Acmd41,
       Identify, Address, Select, BusWidth, Status, ReadBlock, StopTransmission, Reselect, ProbeAnswered
  <1>2. /\ at = "write" /\ slot # NoCard /\ state = "rcv" /\ cursor \in Blocks(slot)
        /\ stored' = [stored EXCEPT ![slot][cursor] = job.data]
    BY <1>1 DEF WriteBlock, In
  <1>3. /\ slot \in Cards /\ DOMAIN stored = Cards
        /\ \A k \in Cards : stored[k] \in [Blocks(k) -> Data]
    BY <1>2 DEF IInv, SdInv, SdTypeOK
  <1>4. ready = slot /\ job.op = "write" /\ cursor = job.addr + job.count - job.left
    BY <1>2 DEF CardInv, StepsInv, InStep, Serving
  <1>5. c = slot /\ \A b \in Blocks(c) : b # cursor => stored'[c][b] = stored[c][b]
    BY <1>2, <1>3
  <1>6. \E h \in Live : heap[h].disc = "sd" /\ heap[h].medium = c
    BY <1>2, <1>4, <1>5 DEF VolumeInv, SdVolume
  <1> QED
    BY <1>4, <1>5, <1>6

-----------------------------------------------------------------------------
(* The inductive invariant: types, slots and open files.                   *)
THEOREM Safety == Spec => []IInv
<1>1. Init => IInv
  BY InitInv
<1>2. IInv /\ [Next]_vars => IInv'
  BY NextInv
<1> QED
  BY <1>1, <1>2, PTL DEF Spec

(* The variables of the SD driver, of the card and of the volumes keep     *)
(* their types, the position of the card in its blocks included.           *)
THEOREM TypeCorrect == Spec => []TypeOK
<1>1. IInv => TypeOK
  BY DEF IInv, SdInv, MountInv, MountTypes, CallTypes, Objects, TypeOK
<1> QED
  BY <1>1, Safety, PTL

(* Whatever is mounted, unmounted, pulled out and switched off in which    *)
(* order, no slot names a volume that was given back, and no open file     *)
(* loses its volume but by an unsafe unmount (partition.c:357-424).        *)
THEOREM NothingDangles == Spec => [](NoDanglingSlot /\ OpenFilesKept)
<1>1. IInv => NoDanglingSlot /\ OpenFilesKept
  BY DEF IInv, MountInv
<1> QED
  BY <1>1, Safety, PTL

(* And no disc gets two caches, as long as slot 0 is not changed while it  *)
(* is all a volume has (partition.c:237-351).                              *)
THEOREM MountsStayConsistent ==
    ASSUME StealsDefault = FALSE
    PROVE  Spec => []MountsConsistent
<1>1. Init => IInv /\ OneInv
  BY InitInv
<1>2. (IInv /\ OneInv) /\ [Next]_vars => (IInv /\ OneInv)'
  BY NextInv, NextOne
<1>3. IInv /\ OneInv => MountsConsistent
  BY DEF IInv, SdInv, MountInv, MountTypes, CallTypes, Objects, TypeOK, OneInv, MountsConsistent
<1> QED
  BY <1>1, <1>2, <1>3, PTL DEF Spec

(* The types, and what stands on the card and in the driver, together.     *)
BlocksInv == IInv /\ CardInv /\ VolumeInv

LEMMA BlocksInductive ==
    ASSUME Exchanges = FALSE, VolumesFit
    PROVE  Spec => []BlocksInv
<1>1. Init => BlocksInv
  BY InitInv, InitBlocks DEF BlocksInv
<1>2. BlocksInv /\ [Next]_vars => BlocksInv'
  BY NextInv, NextBlocks DEF BlocksInv
<1> QED
  BY <1>1, <1>2, PTL DEF Spec

(* From a file's cluster to the block of the card (partition.c:158-183,    *)
(* sddriver.cpp:222-234): on media whose boot records fit them, and while  *)
(* a card is started again only when no volume is on it, the clusters are  *)
(* inside the volume, and what is read is what the card holds there,       *)
(* whatever card was pulled out and put in between.                        *)
THEOREM TransfersRight ==
    ASSUME Exchanges = FALSE, VolumesFit
    PROVE  Spec => []BlocksRight
<1>1. BlocksInv => BlocksRight
  <2> SUFFICES ASSUME BlocksInv PROVE BlocksRight
    OBVIOUS
  <2>1. ASSUME NEW h \in Live
        PROVE  LET v == heap[h].volume
                   r == Medium[heap[h].medium].records[v.boot]
               IN  DataSectors(v) \subseteq v.boot + r.reserved + r.numFATs * r.sectorsPerFat + r.rootSectors
                                              .. v.boot + v.sectors - 1
    <3>1. heap[h].medium \in Cards \cup {Nand}
      BY <2>1 DEF BlocksInv, IInv, MountInv, MountTypes, Live, Objects
    <3>2. Medium[heap[h].medium].signature /\ heap[h].volume = Volume(Medium[heap[h].medium])
      BY <2>1 DEF BlocksInv, VolumeInv
    <3> QED
      BY <3>1, <3>2, ClustersFit
  <2>2. ClustersInside
    BY <2>1 DEF ClustersInside
  <2>3. ReadsRight
    BY DEF BlocksInv, CardInv, GotInv, ReadsRight
  <2> QED
    BY <2>2, <2>3 DEF BlocksRight
<1> QED
  BY <1>1, BlocksInductive, PTL

(* On media whose boot records fit them, and while a card is started again *)
(* only when no volume is on it (partition.c:256: started under one, a     *)
(* card that was exchanged is written as if it were the first), a card     *)
(* changes only by the writes of a file on its own volume, block by block  *)
(* as requested (sddriver.cpp:222-271).                                    *)
THEOREM WritesRight ==
    ASSUME Exchanges = FALSE, VolumesFit
    PROVE  Spec => OnlyRequested
<1>1. BlocksInv /\ [Next]_vars =>
        [\A c \in Cards : stored'[c] # stored[c] =>
            /\ job.op = "write"
            /\ \E h \in Live : heap[h].disc = "sd" /\ heap[h].medium = c
            /\ \A b \in Blocks(c) : b # job.addr + job.count - job.left => stored'[c][b] = stored[c][b]]_vars
  BY WriteRequested DEF BlocksInv
<1> QED
  BY <1>1, BlocksInductive, PTL DEF Spec, OnlyRequested
=============================================================================
