------------------------------ MODULE Storage ------------------------------
(***************************************************************************)
(* The volumes of libfat (partition.c, disc.c, libfat.c): which volume is  *)
(* mounted in which slot, on the NAND disc and on the SD card, whose       *)
(* driver (SdCard) runs here with it.  The same volume can be mounted in   *)
(* several slots; slot 0 is the default device.                            *)
(*                                                                         *)
(* A medium is the NAND disc or a card; Medium says what its first sector  *)
(* and its boot records hold.                                              *)
(***************************************************************************)
EXTENDS SdCard, FiniteSets

CONSTANTS MaximumPartitions,    \* 4
          Handles, NoHandle,    \* PARTITION objects; NULL
          Files,
          Nand,
          Medium,               \* what is on the NAND disc and on each card
          WordSize,             \* 2^32
          Fat12Clusters, Fat16Clusters,
          MaxRequests,          \* bound on the block transfers
          StealsDefault,        \* slot 0 is changed while it is all a volume has
          Exchanges             \* a card is started again under a volume on it

ASSUME StorageAssumption ==
    /\ MaximumPartitions \in Nat /\ MaximumPartitions >= 2
    /\ NoHandle \notin Handles /\ Nand \notin Cards
    /\ DOMAIN Medium = Cards \cup {Nand}
    /\ {WordSize, Fat12Clusters, Fat16Clusters} \subseteq Nat \ {0} /\ MaxRequests \in Nat
    /\ {StealsDefault, Exchanges} \subseteq BOOLEAN
    /\ IsFiniteSet(Files)

Slots == 0 .. MaximumPartitions - 1
PI_DEFAULT == 0
Released == [disc |-> "none"]
Discs == {"nand", "sd"}         \* _io_rpg_nand, _io_rpg_sd

VARIABLES
  partitions,   \* _FAT_partitions
  heap,         \* handle |-> the PARTITION object, or Released
  files,        \* file |-> file->partition; NoHandle: not open
  abandoned,    \* history: files that were open at an unsafe unmount
  call,         \* what waits for the SD card to start
  requests      \* number of transfers

mountVars == <<partitions, heap, files, abandoned>>
vars == <<sdVars, mountVars, call, requests>>

-----------------------------------------------------------------------------
(* _FAT_partition_constructor: the boot sector.  The first entry marked    *)
(* active counts, else the first with a type.                              *)
Lowest(S) == CHOOSE i \in S : \A j \in S : i <= j

BootSector(m) ==
    LET active == {i \in DOMAIN m.entries : m.entries[i].active}
        used   == {i \in DOMAIN m.entries : m.entries[i].type # 0}
    IN  CASE m.isVolume    -> 0
          [] ~m.isVolume /\ active # {} -> m.entries[Lowest(active)].start
          [] ~m.isVolume /\ active = {} /\ used # {} -> m.entries[Lowest(used)].start
          [] OTHER -> 0

(* What the sector with the signature holds: the fields of a boot record   *)
(* are unsigned, and a cluster has at least a sector.                      *)
ASSUME MediumAssumption ==
    \A d \in DOMAIN Medium : Medium[d].signature =>
        LET m == Medium[d]
            r == m.records[BootSector(m)]
        IN  /\ BootSector(m) \in Nat
            /\ {r.reserved, r.numFATs, r.sectorsPerFat, r.rootSectors, r.sectors} \subseteq Nat
            /\ r.sectorsPerCluster \in Nat \ {0}

DataStart(boot, r) == boot + r.reserved + r.numFATs * r.sectorsPerFat + r.rootSectors

(* The rest of the constructor: r is the record in the boot sector.  The   *)
(* number of the last cluster is taken from absolute sector numbers.       *)
Volume(m) ==
    LET boot == BootSector(m)
        r    == m.records[boot]
        last == ((r.sectors - DataStart(boot, r)) % WordSize) \div r.sectorsPerCluster
    IN  [boot        |-> boot,
         sectors     |-> r.sectors,
         perCluster  |-> r.sectorsPerCluster,
         dataStart   |-> DataStart(boot, r),
         lastCluster |-> last,
         filesysType |-> IF last < Fat12Clusters THEN "FAT12"
                         ELSE IF last < Fat16Clusters THEN "FAT16" ELSE "FAT32"]

-----------------------------------------------------------------------------
Live == {h \in Handles : heap[h] # Released}
Held(n) == heap[partitions[n]]
Mounted(d) == {n \in Slots : partitions[n] # NoHandle /\ Held(n).disc = d}
OnDisc(d) == IF d = "nand" THEN Nand ELSE slot

(* _FAT_mem_allocate, and the new object. *)
Unused == {h \in Handles : heap[h] = Released /\ \A f \in Files : files[f] # h}
Allocated == CHOOSE h \in Unused : TRUE
Partition(d) == [disc |-> d, medium |-> OnDisc(d), openFileCount |-> 0,
                 volume |-> Volume(Medium[OnDisc(d)])]

(* What the mount calls do with a disc that has been started: a disc in    *)
(* use is mounted a second time by copying the pointer.                    *)
Attach(n, d) ==
    /\ partitions[n] = NoHandle
    /\ d = "sd" => at = "idle" /\ In({"tran"})
    /\ IF Mounted(d) # {}
         THEN /\ partitions' = [partitions EXCEPT ![n] = partitions[Lowest(Mounted(d))]]
              /\ UNCHANGED heap
         ELSE IF Medium[OnDisc(d)].signature
         THEN /\ Unused # {}
              /\ partitions' = [partitions EXCEPT ![n] = Allocated]
              /\ heap' = [heap EXCEPT ![Allocated] = Partition(d)]
         ELSE UNCHANGED <<partitions, heap>>
    /\ UNCHANGED <<files, abandoned>>

Init ==
    /\ SdInit
    /\ partitions = [n \in Slots |-> NoHandle]
    /\ heap = [h \in Handles |-> Released]
    /\ files = [f \in Files |-> NoHandle]
    /\ abandoned = {}
    /\ call = "boot" /\ requests = 0

(* fatInitRPG: the NAND disc is mounted in slot 0 if it starts, then the   *)
(* SD card is started. *)
InitNand ==
    /\ call = "boot"
    /\ Attach(0, "nand") \/ UNCHANGED mountVars
    /\ Reset
    /\ call' = "initRPG"
    /\ UNCHANGED requests

(* The card has started or not.  Without the NAND disc the program ends.   *)
InitSd ==
    /\ call = "initRPG"
    /\ \/ at = "idle" /\ Attach(1, "sd")
       \/ at = "off" /\ UNCHANGED mountVars
    /\ call' = IF partitions[0] = NoHandle THEN "failed" ELSE "none"
    /\ UNCHANGED <<sdVars, requests>>

(* _FAT_partition_mount(PI_SLOT_1): _FAT_disc_dsSlotFindInterface starts   *)
(* the card again, whether it is in use or not.                            *)
MountSlot1 ==
    /\ call = "none" /\ partitions[1] = NoHandle
    /\ Exchanges \/ \A h \in Live : heap[h].disc # "sd"
    /\ Reset
    /\ call' = "mount"
    /\ UNCHANGED <<mountVars, requests>>

MountedSlot1 ==
    /\ call = "mount"
    /\ \/ at = "idle" /\ Attach(1, "sd")
       \/ at = "off" /\ UNCHANGED mountVars
    /\ call' = "none"
    /\ UNCHANGED <<sdVars, requests>>

(* _FAT_partition_freeMount, _FAT_partition_mountCustomInterface. *)
FreeMount(n, d) ==
    /\ call = "none" /\ (d = "sd" => ready = slot)
    /\ Attach(n, d)
    /\ UNCHANGED <<sdVars, call, requests>>

(* _FAT_partition_setDefaultInterface, and chdir by way of                 *)
(* _FAT_partition_setDefaultPartition.                                     *)
SetDefault(n) ==
    /\ call = "none" /\ n # PI_DEFAULT /\ partitions[n] # NoHandle
    /\ \/ StealsDefault \/ partitions[0] = NoHandle
       \/ \E k \in Slots \ {0} : partitions[k] = partitions[0]
    /\ partitions' = [partitions EXCEPT ![PI_DEFAULT] = partitions[n]]
    /\ UNCHANGED <<sdVars, heap, files, abandoned, call, requests>>

(* All references to the volume of slot n are removed. *)
Without(n) == [k \in Slots |-> IF partitions[k] = partitions[n] THEN NoHandle ELSE partitions[k]]

(* Mutant of Unmount: open files do not matter. *)
UnmountBusy(n) ==
    /\ call = "none" /\ partitions[n] # NoHandle /\ at \in {"idle", "off"}
    /\ partitions' = Without(n)
    /\ heap' = [heap EXCEPT ![partitions[n]] = Released]
    /\ UNCHANGED <<sdVars, files, abandoned, call, requests>>

Unmount(n) ==
    /\ call = "none" /\ partitions[n] # NoHandle /\ at \in {"idle", "off"}
    /\ Held(n).openFileCount = 0
    /\ partitions' = Without(n)
    /\ heap' = [heap EXCEPT ![partitions[n]] = Released]
    /\ UNCHANGED <<sdVars, files, abandoned, call, requests>>

(* The open files of the volume must not be used any more. *)
UnsafeUnmount(n) ==
    /\ call = "none" /\ partitions[n] # NoHandle /\ at \in {"idle", "off"}
    /\ partitions' = Without(n)
    /\ heap' = [heap EXCEPT ![partitions[n]] = Released]
    /\ abandoned' = abandoned \cup {f \in Files : files[f] = partitions[n]}
    /\ UNCHANGED <<sdVars, files, call, requests>>

-----------------------------------------------------------------------------
(* _FAT_open_r and _FAT_close_r, by the volume they find in the path       *)
(* (_FAT_partition_getPartitionFromPath).                                  *)
OpenFile(f, n) ==
    /\ call = "none" /\ files[f] = NoHandle /\ partitions[n] # NoHandle
    /\ files' = [files EXCEPT ![f] = partitions[n]]
    /\ heap' = [heap EXCEPT ![partitions[n]].openFileCount = @ + 1]
    /\ UNCHANGED <<sdVars, partitions, abandoned, call, requests>>

CloseFile(f) ==
    /\ call = "none" /\ files[f] # NoHandle /\ f \notin abandoned
    /\ files' = [files EXCEPT ![f] = NoHandle]
    /\ heap' = [heap EXCEPT ![files[f]].openFileCount = @ - 1]
    /\ UNCHANGED <<sdVars, partitions, abandoned, call, requests>>

(* The volume's sectors on the card, as the cluster numbers reach them. *)
DataSectors(v) == v.dataStart .. v.dataStart + (v.lastCluster - 1) * v.perCluster - 1

(* A file on an SD volume transfers n sectors. *)
Access(f, op, b, n, d) ==
    /\ call = "none" /\ requests < MaxRequests
    /\ files[f] # NoHandle /\ f \notin abandoned
    /\ heap[files[f]].disc = "sd" /\ (op = "read" => d = Blank)
    /\ b .. b + n - 1 \subseteq DataSectors(heap[files[f]].volume)
    /\ Command(op, b, n, d)
    /\ requests' = requests + 1
    /\ UNCHANGED <<mountVars, call>>

(* The speed check before a program is started. *)
CheckSpeed(b) ==
    /\ call = "none" /\ Mounted("sd") # {}
    /\ b \in 0 .. Held(Lowest(Mounted("sd"))).volume.sectors - 1
    /\ Probe(b)
    /\ UNCHANGED <<mountVars, call, requests>>

GetInfo == call = "none" /\ Mounted("sd") # {} /\ Deselect /\ UNCHANGED <<mountVars, call, requests>>

Driver == (Initialise \/ Transfer) /\ UNCHANGED <<mountVars, call, requests>>

PowerOff ==
    /\ SwitchOff
    /\ partitions' = [n \in Slots |-> NoHandle]
    /\ heap' = [h \in Handles |-> Released]
    /\ files' = [f \in Files |-> NoHandle]
    /\ abandoned' = {} /\ call' = "boot"
    /\ UNCHANGED requests

Exchange == (Remove \/ \E c \in Cards : Insert(c)) /\ UNCHANGED <<mountVars, call, requests>>

Next ==
    \/ InitNand \/ InitSd \/ MountSlot1 \/ MountedSlot1
    \/ \E n \in Slots, d \in Discs : FreeMount(n, d)
    \/ \E n \in Slots : SetDefault(n) \/ Unmount(n) \/ UnsafeUnmount(n)
    \/ \E f \in Files, n \in Slots : OpenFile(f, n)
    \/ \E f \in Files : CloseFile(f)
    \/ \E f \in Files, op \in {"read", "write"}, b \in AllBlocks, n \in 1 .. MaxBlocks, d \in Data :
          Access(f, op, b, n, d)
    \/ \E b \in AllBlocks : CheckSpeed(b)
    \/ GetInfo \/ Driver \/ PowerOff \/ Exchange

(* The driver runs: it sends its next command, and takes each block the    *)
(* card has.                                                               *)
Fairness == WF_vars(Driver) /\ WF_vars(InitSd) /\ WF_vars(MountedSlot1)

Spec == Init /\ [][Next]_vars /\ Fairness

-----------------------------------------------------------------------------
Volumes == [boot : Nat, sectors : Nat, perCluster : Nat, dataStart : Nat, lastCluster : Nat,
            filesysType : {"FAT12", "FAT16", "FAT32"}]

TypeOK ==
    /\ SdTypeOK
    /\ partitions \in [Slots -> Handles \cup {NoHandle}]
    /\ heap \in [Handles -> [disc : Discs, medium : Cards \cup {Nand}, openFileCount : Nat, volume : Volumes]
                              \cup {Released}]
    /\ files \in [Files -> Handles \cup {NoHandle}] /\ abandoned \subseteq Files
    /\ call \in {"boot", "initRPG", "mount", "none", "failed"} /\ requests \in 0 .. MaxRequests

(* A slot never names a volume that has been given back: unmounting one    *)
(* slot of a volume that is mounted in several clears them all.            *)
NoDanglingSlot == \A n \in Slots : partitions[n] # NoHandle => partitions[n] \in Live

(* A volume with open files stays, under whichever slots it is mounted,    *)
(* and goes when the last is closed: the count is that of the open files.  *)
OpenFilesKept ==
    /\ \A f \in Files \ abandoned : files[f] # NoHandle => files[f] \in Live
    /\ \A h \in Live : heap[h].openFileCount = Cardinality({f \in Files : files[f] = h})

(* Two volumes on one disc would each have a cache of it. *)
OneCachePerDisc == \A h, k \in Live : heap[h].disc = heap[k].disc => h = k

(* The table of mounted volumes stays consistent, whatever is mounted and  *)
(* unmounted in which order (partition.c:237-424): no slot dangles, no     *)
(* open file loses its volume, and no disc gets two caches.                *)
MountsConsistent == TypeOK /\ NoDanglingSlot /\ OpenFilesKept /\ OneCachePerDisc

(* Every cluster number the FAT can hand out is inside the volume: no file *)
(* reaches the sectors of another one, or past the end of the medium.      *)
ClustersInside ==
    \A h \in Live :
        LET v == heap[h].volume
            r == Medium[heap[h].medium].records[v.boot]
        IN  DataSectors(v) \subseteq v.boot + r.reserved + r.numFATs * r.sectorsPerFat + r.rootSectors
                                       .. v.boot + v.sectors - 1

(* What has been read is what the card holds at the sectors asked for. *)
ReadsRight ==
    at \in {"read", "stop", "idle"} /\ job.op = "read" /\ ready # NoCard =>
        \A i \in 1 .. Len(got) : got[i] = stored[ready][job.addr + i - 1]

(* The way from a file's cluster to the block of the card (partition.c:    *)
(* 158-183, sddriver.cpp:222-234): inside the volume, and at that block.   *)
BlocksRight == ClustersInside /\ ReadsRight

(* A card's blocks change only when a file on that very card's volume is   *)
(* written, and only the next block of the request: never on a card that   *)
(* has taken the place of the one that was mounted.                        *)
OnlyRequested ==
    [][\A c \in Cards : stored'[c] # stored[c] =>
          /\ job.op = "write"
          /\ \E h \in Live : heap[h].disc = "sd" /\ heap[h].medium = c
          /\ \A b \in Blocks(c) : b # job.addr + job.count - job.left => stored'[c][b] = stored[c][b]]_vars

(* The card is started or given up, whatever is in the slot. *)
StartEnds == at \in InitSteps ~> at \in {"idle", "off"}

(* A transfer ends unless the card is pulled out: the driver polls without *)
(* a time limit.                                                           *)
TransferEnds == at \in {"read", "write", "stop", "probe", "cid"} ~> at \in {"idle", "off"} \/ ready = NoCard

(* The SD driver does not keep the caller for ever, as long as the card    *)
(* stays (sddriver.cpp:101, 125-153, 195-220).                             *)
DriverReturns == StartEnds /\ TransferEnds

(* The type of a FAT volume is a matter of its number of clusters alone. *)
TypeByClusters ==
    \A h \in Live :
        LET v == heap[h].volume
            clusters == (v.boot + v.sectors - v.dataStart) \div v.perCluster
        IN  v.filesysType = IF clusters < Fat12Clusters THEN "FAT12"
                            ELSE IF clusters < Fat16Clusters THEN "FAT16" ELSE "FAT32"
=============================================================================
