----------------------------- MODULE Directory -----------------------------
(***************************************************************************)
(* One directory of libfat (directory.c, with the calls of fatdir.c and    *)
(* fatfile.c that change or list it): entries of one or more slots, found  *)
(* again by their place.  The last slot of an entry is the alias, which    *)
(* has the file; the ones before it have the long name, last part first.   *)
(*                                                                         *)
(* A file that is open for writing keeps the place of its alias and writes *)
(* its size and first cluster there when it is closed; file stands for     *)
(* these two.                                                              *)
(***************************************************************************)
EXTENDS Integers, Sequences

CONSTANTS Names, DirFiles, NoName, NoFile, Absent, Unsaved,
          Size,              \* name |-> number of slots
          SlotsPerCluster,
          MaxClusters,       \* the directory can grow to
          Directories        \* the slots when the volume is mounted

MaxSlots == SlotsPerCluster * MaxClusters

Last     == [name |-> NoName, part |-> 0, file |-> NoFile]    \* DIR_ENTRY_LAST
FreeSlot == [name |-> NoName, part |-> -1, file |-> NoFile]   \* DIR_ENTRY_FREE

Slots == [name : Names \cup {NoName}, part : Int, file : DirFiles \cup {NoFile}]

ASSUME DirectoryAssumption ==
    /\ Size \in [Names -> Nat \ {0}]
    /\ SlotsPerCluster \in Nat \ {0} /\ MaxClusters \in Nat \ {0}
    /\ Directories \subseteq Seq(Slots)
    /\ \A s \in Directories : Len(s) % SlotsPerCluster = 0 /\ Len(s) \in 1 .. MaxSlots
    /\ NoName \notin Names /\ NoFile \notin DirFiles
    /\ {Absent, Unsaved} \cap DirFiles = {} /\ Absent # Unsaved

VARIABLES
  slots,      \* of the clusters the directory has
  dirEntry,   \* file->dirEntryEnd of an open file; 0: not open
  openAs,     \* history: the name it was opened under
  iter,       \* DIR_STATE_STRUCT: the entry the next dirnext returns
  steady,     \* history: the names present since diropen
  seen,       \* history: the names dirnext has returned
  astray,     \* history: a long name was added behind deleted entries at the
              \* end marker, or a file was removed or renamed while open
  result      \* what the last call returned

listing == <<iter, steady, seen>>
dirVars == <<slots, dirEntry, openAs, listing, astray, result>>

NoEntry == [inUse |-> FALSE, validEntry |-> FALSE, dataEnd |-> 0, name |-> NoName]

SlotsTypeOK ==
    /\ slots \in Seq(Slots) /\ Len(slots) <= MaxSlots
    /\ dirEntry \in [DirFiles -> 0 .. MaxSlots]
    /\ openAs \in [DirFiles -> Names \cup {NoName}]
    /\ iter \in [inUse : BOOLEAN, validEntry : BOOLEAN, dataEnd : 0 .. MaxSlots, name : Names \cup {NoName}]
    /\ steady \subseteq Names /\ seen \subseteq Names
    /\ result \in BOOLEAN

-----------------------------------------------------------------------------
FirstOf(S) == CHOOSE i \in S : \A j \in S : i <= j

(* What _FAT_directory_getNextEntry finds: aliases before the end marker.  *)
(* One has its long name if the parts are in front of it.                  *)
InUse(s, i) == \A j \in 1 .. i : s[j] # Last
IsAlias(s, i) == s[i].part = 1 /\ InUse(s, i)
HasName(s, i) ==
    LET n == s[i].name
    IN  \A k \in 2 .. Size[n] :
            i - k + 1 >= 1 /\ s[i - k + 1] = [name |-> n, part |-> k, file |-> NoFile]

(* Mutant of EntriesAfter: the slot after the entry is skipped. *)
EntriesAfterNext(s, i) == {j \in (i + 2) .. Len(s) : IsAlias(s, j)}

EntriesAfter(s, i) == {j \in (i + 1) .. Len(s) : IsAlias(s, j)}
Entry(s, n) == {i \in 1 .. Len(s) : s[i].name = n /\ IsAlias(s, i) /\ HasName(s, i)}
Listed(s) == {n \in Names : Entry(s, n) # {}}
Unique(s) == \A n \in Names : \A i, j \in Entry(s, n) : i = j

ASSUME VolumesAssumption == \A s \in Directories : Unique(s)

DirectoryInit ==
    /\ slots \in Directories
    /\ dirEntry = [f \in DirFiles |-> 0]
    /\ openAs = [f \in DirFiles |-> NoName]
    /\ iter = NoEntry /\ steady = {} /\ seen = {}
    /\ astray = FALSE /\ result = TRUE

-----------------------------------------------------------------------------
(* _FAT_directory_findEntryGap for an entry of n slots.  A directory that  *)
(* grows has end markers in its new cluster.                               *)
SlotAt(s, i) == IF i <= Len(s) THEN s[i] ELSE Last
Marker(s) == CHOOSE i \in 1 .. Len(s) + 1 : SlotAt(s, i) = Last /\ \A j \in 1 .. i - 1 : s[j] # Last

(* Mutant of Gaps: one slot too few. *)
GapsTooShort(s, n) ==
    {i \in 1 .. Marker(s) - n : s[i] = FreeSlot /\ \A j \in i .. i + n - 2 : s[j] = FreeSlot}

Gaps(s, n) == {i \in 1 .. Marker(s) - n : \A j \in i .. i + n - 1 : s[j] = FreeSlot}

(* Deleted entries in front of the end marker are counted, but not used.   *)
FreeBeforeMarker(s) ==
    Marker(s) - 1 - (CHOOSE i \in 0 .. Marker(s) - 1 :
                        /\ i = 0 \/ s[i] # FreeSlot
                        /\ \A j \in i + 1 .. Marker(s) - 1 : s[j] = FreeSlot)

(* A directory of at least n slots. *)
Grown(s, n) ==
    LET length == IF n <= Len(s) THEN Len(s)
                  ELSE ((n + SlotsPerCluster - 1) \div SlotsPerCluster) * SlotsPerCluster
    IN  [i \in 1 .. length |-> SlotAt(s, i)]

GapAtEnd(s, n) ==
    LET last == Marker(s) + n - FreeBeforeMarker(s) - 1
        ok   == last + 1 <= MaxSlots
        t    == Grown(s, IF ok THEN last + 1 ELSE MaxSlots)
    IN  [ok        |-> ok,
         dataStart |-> Marker(s),
         dataEnd   |-> last,
         slots     |-> [i \in DOMAIN t |-> IF Marker(s) < i /\ i <= last + 1 THEN Last ELSE t[i]]]

FindEntryGap(s, n) ==
    IF Gaps(s, n) # {}
      THEN [ok        |-> TRUE,
            dataStart |-> FirstOf(Gaps(s, n)),
            dataEnd   |-> FirstOf(Gaps(s, n)) + n - 1,
            slots     |-> s]
      ELSE GapAtEnd(s, n)

(* _FAT_directory_addEntry: it stops at the end of the directory. *)
AddEntry(s, n, f) ==
    LET gap == FindEntryGap(s, Size[n])
        at  == gap.dataStart
        end == at + Size[n] - 1
    IN  [gap EXCEPT !.slots =
            IF ~gap.ok THEN @
            ELSE [i \in DOMAIN @ |->
                    IF i < at \/ end < i THEN @[i]
                    ELSE IF i = end THEN [name |-> n, part |-> 1, file |-> f]
                    ELSE [name |-> n, part |-> end - i + 1, file |-> NoFile]]]

(* _FAT_directory_removeEntry.  It goes on to the slot after the entry and *)
(* fails if there is none.                                                 *)
RemoveEntry(s, n) ==
    LET end == FirstOf(Entry(s, n))
    IN  [slots |-> [i \in DOMAIN s |-> IF end - Size[n] < i /\ i <= end THEN FreeSlot ELSE s[i]],
         ok    |-> end < Len(s)]

(* What the documents do not allow for: _FAT_directory_findEntryGap counts *)
(* deleted entries it does not use, and a file remembers a place.          *)
Misplaced(n) == Gaps(slots, Size[n]) = {} /\ FreeBeforeMarker(slots) # 0
ChangedOpen(n) == \E f \in DirFiles : openAs[f] = n

-----------------------------------------------------------------------------
(* _FAT_open_r with O_CREAT: n is added with no cluster and no size. *)
Create(n, f) ==
    /\ n \notin Listed(slots)
    /\ openAs[f] = NoName /\ \A i \in DOMAIN slots : slots[i].file # f
    /\ Marker(slots) <= MaxSlots \/ Gaps(slots, Size[n]) # {}
    /\ LET added == AddEntry(slots, n, NoFile)
       IN  /\ slots' = added.slots
           /\ result' = added.ok
           /\ dirEntry' = IF added.ok THEN [dirEntry EXCEPT ![f] = added.dataEnd] ELSE dirEntry
           /\ openAs' = IF added.ok THEN [openAs EXCEPT ![f] = n] ELSE openAs
    /\ astray' = (astray \/ Misplaced(n))
    /\ UNCHANGED listing

(* The directory is full and cannot grow. *)
CreateRefused(n) ==
    /\ n \notin Listed(slots)
    /\ Marker(slots) > MaxSlots /\ Gaps(slots, Size[n]) = {}
    /\ result' = FALSE
    /\ UNCHANGED <<slots, dirEntry, openAs, listing, astray>>

(* _FAT_open_r of a file that exists. *)
OpenFile(n, f) ==
    /\ n \in Listed(slots) /\ slots[FirstOf(Entry(slots, n))].file = f
    /\ openAs[f] = NoName
    /\ dirEntry' = [dirEntry EXCEPT ![f] = FirstOf(Entry(slots, n))]
    /\ openAs' = [openAs EXCEPT ![f] = n]
    /\ result' = TRUE
    /\ UNCHANGED <<slots, listing, astray>>

(* _FAT_close_r writes to the place of the entry, whatever is there now; a *)
(* deleted entry or an end marker stays one.                               *)
Close(f) ==
    /\ openAs[f] # NoName
    /\ slots' = IF slots[dirEntry[f]] \in {FreeSlot, Last} THEN slots
                ELSE [slots EXCEPT ![dirEntry[f]].file = f]
    /\ dirEntry' = [dirEntry EXCEPT ![f] = 0]
    /\ openAs' = [openAs EXCEPT ![f] = NoName]
    /\ result' = TRUE
    /\ UNCHANGED <<listing, astray>>

(* _FAT_unlink_r *)
UnlinkFile(n) ==
    /\ n \in Listed(slots)
    /\ LET removed == RemoveEntry(slots, n)
       IN  slots' = removed.slots /\ result' = removed.ok
    /\ steady' = steady \ {n}
    /\ astray' = (astray \/ ChangedOpen(n))
    /\ UNCHANGED <<dirEntry, openAs, iter, seen>>

(* _FAT_rename_r: the new entry is added before the old one is removed. *)
Rename(n, m) ==
    /\ n \in Listed(slots) /\ m \notin Listed(slots)
    /\ Marker(slots) <= MaxSlots \/ Gaps(slots, Size[m]) # {}
    /\ LET added   == AddEntry(slots, m, slots[FirstOf(Entry(slots, n))].file)
           removed == RemoveEntry(added.slots, n)
       IN  /\ slots' = IF added.ok THEN removed.slots ELSE added.slots
           /\ result' = (added.ok /\ removed.ok)
           /\ steady' = IF added.ok THEN steady \ {n} ELSE steady
    /\ astray' = (astray \/ Misplaced(m) \/ ChangedOpen(n))
    /\ UNCHANGED <<dirEntry, openAs, iter, seen>>

-----------------------------------------------------------------------------
(* _FAT_directory_getNextEntry after the entry whose alias is at i. *)
NextEntry(i) ==
    LET found == EntriesAfter(slots, i)
    IN  IF found = {} THEN [NoEntry EXCEPT !.inUse = TRUE]
        ELSE [inUse |-> TRUE, validEntry |-> TRUE, dataEnd |-> FirstOf(found),
              name |-> IF HasName(slots, FirstOf(found)) THEN slots[FirstOf(found)].name ELSE NoName]

(* _FAT_diropen_r, _FAT_dirreset_r *)
DirOpen ==
    /\ iter' = NextEntry(0)
    /\ steady' = Listed(slots)
    /\ seen' = {}
    /\ result' = TRUE
    /\ UNCHANGED <<slots, dirEntry, openAs, astray>>

(* _FAT_dirnext_r returns the entry found the last time. *)
DirNext ==
    /\ iter.inUse /\ iter.validEntry
    /\ seen' = seen \cup ({iter.name} \ {NoName})
    /\ iter' = NextEntry(iter.dataEnd)
    /\ result' = TRUE
    /\ UNCHANGED <<slots, dirEntry, openAs, steady, astray>>

DirClose ==
    /\ iter.inUse
    /\ iter' = NoEntry /\ steady' = {} /\ seen' = {}
    /\ result' = TRUE
    /\ UNCHANGED <<slots, dirEntry, openAs, astray>>

DirectoryNext ==
    \/ \E n \in Names, f \in DirFiles : Create(n, f) \/ OpenFile(n, f)
    \/ \E n \in Names : CreateRefused(n) \/ UnlinkFile(n)
    \/ \E n, m \in Names : Rename(n, m)
    \/ \E f \in DirFiles : Close(f)
    \/ DirOpen \/ DirNext \/ DirClose

DirectorySpec == DirectoryInit /\ [][DirectoryNext]_dirVars

-----------------------------------------------------------------------------
FileOf(n) ==
    LET found == Entry(slots, n)
        file  == slots[FirstOf(found)].file
    IN  IF found = {} THEN Absent ELSE IF file = NoFile THEN Unsaved ELSE file

Table == INSTANCE NameTable WITH Files <- DirFiles, dir <- [n \in Names |-> FileOf(n)]

(* Names appear, disappear and change only as the calls say, whichever     *)
(* slots they are put in, and a file that is closed is found under its     *)
(* name; no call damages the entry of another file: until a long name goes *)
(* behind deleted entries at the end marker (directory.c:652) or an open   *)
(* file is removed or renamed (fatfile.c:265).                             *)
ImplementsNames == [][astray' \/ Table!Next]_Table!vars

(* When a listing has come to its end it has shown every name that was     *)
(* there all the time, whatever was added and removed meanwhile.           *)
ListingComplete == iter.inUse /\ ~iter.validEntry => steady \subseteq seen

(* No name is there twice. *)
NamesUnique == Unique(slots)

(* The slots are a directory at every step, and a listing of it misses no  *)
(* name, until something goes astray (directory.c:270, fatdir.c:501).      *)
DirectorySound ==
    /\ astray \in BOOLEAN
    /\ ~astray => SlotsTypeOK /\ NamesUnique /\ ListingComplete

(* directory.h:69: the end of an entry always is its alias. *)
EndIsAlias == \A f \in DirFiles : openAs[f] # NoName => slots[dirEntry[f]].part = 1

(* directory.h:143: removing an entry returns true if it has succeeded. *)
RemovalReported ==
    [][\A n \in Names : n \in Listed(slots) /\ n \notin Listed(slots') => result']_dirVars

(* fatfile.c:203: a file remembers the place of its own entry. *)
OwnEntry == \A f \in DirFiles : openAs[f] # NoName => slots[dirEntry[f]].name = openAs[f]
=============================================================================
