------------------------------ MODULE FatTable ------------------------------
(***************************************************************************)
(* The file allocation table of libfat (file_allocation_table.c): chains   *)
(* of clusters, the search for a free one and the pointer it starts from.  *)
(* A file stands for anything with a chain, directories too; held is what  *)
(* its user got from the calls, which the chains have to agree with.       *)
(*                                                                         *)
(* fat.lastCluster is computed one too low (partition.c:193), so the       *)
(* volume and its table have a cluster above it, and other systems use it. *)
(* The code neither links lastCluster to a next cluster nor writes the     *)
(* entry above it, and hands out both: endUsed says that this has hit a    *)
(* file.                                                                   *)
(***************************************************************************)
EXTENDS Integers, Sequences

CONSTANTS Files,
          LastCluster,   \* partition->fat.lastCluster
          Foreign,       \* clusters of files this program does not touch
          Layouts,       \* the clusters of the other files when mounting
          MaxHeld        \* bound on the clusters of one file

First == 2               \* CLUSTER_FIRST
Free  == 0               \* CLUSTER_FREE
Eof   == -1              \* CLUSTER_EOF: no cluster has this number

Entries  == 0 .. LastCluster + 1
Clusters == First .. LastCluster + 1
InRange  == First .. LastCluster

ClustersOf(s) == {s[i] : i \in DOMAIN s}

(* The clusters of files are distinct. *)
Disjoint(h) ==
    \A f, g \in Files : \A i \in DOMAIN h[f], j \in DOMAIN h[g] :
        h[f][i] = h[g][j] => f = g /\ i = j

ASSUME FatAssumption ==
    /\ LastCluster \in Nat /\ LastCluster > First /\ MaxHeld \in Nat
    /\ Foreign \subseteq Clusters
    /\ Layouts \subseteq [Files -> Seq(Clusters \ Foreign)]
    /\ \A h \in Layouts : Disjoint(h)

VARIABLES
  fat,         \* the table
  firstFree,   \* partition->fat.firstFree
  held,        \* history: the clusters each file's user was given, in order
  res,         \* what the last call of _FAT_fat_linkFreeCluster returned
  endUsed      \* history: a file went on from lastCluster, or got the cluster above

vars == <<fat, firstFree, held, res, endUsed>>

TypeOK ==
    /\ fat \in [Entries -> Entries \cup {Eof}]
    /\ firstFree \in Clusters
    /\ held \in [Files -> Seq(Clusters)]
    /\ res \in Clusters \cup {Free}
    /\ endUsed \in BOOLEAN

Owns(h, f, c) == c \in ClustersOf(h[f])
Link(h, f, i) == IF i = Len(h[f]) THEN Eof ELSE h[f][i + 1]

(* The table of a volume on which the files have the clusters of h. *)
TableOf(h) ==
    [c \in Entries |->
        IF \E f \in Files : Owns(h, f, c)
          THEN LET f == CHOOSE f \in Files : Owns(h, f, c)
                   i == CHOOSE i \in DOMAIN h[f] : h[f][i] = c
               IN  Link(h, f, i)
          ELSE IF c \in Foreign \cup {0, 1} THEN Eof ELSE Free]

(* The table as another system left it; firstFree as the constructor of    *)
(* the partition sets it.                                                  *)
Init ==
    /\ held \in Layouts
    /\ fat = TableOf(held)
    /\ firstFree = First
    /\ res = Free
    /\ endUsed = \E f \in Files : Owns(held, f, LastCluster + 1)

-----------------------------------------------------------------------------
(* _FAT_fat_writeFatEntry; the callers ignore that it refuses. *)
Written(t, c, v) == IF c \in InRange THEN [t EXCEPT ![c] = v] ELSE t

Lowest(S) == CHOOSE c \in S : \A d \in S : c <= d

(* The search goes from n to the end of the table, then once more from the *)
(* beginning.  The entry at n is looked at before n is compared with       *)
(* lastCluster.  The pointer is never below First.                         *)
Ahead(t, n) == {c \in Entries : t[c] = Free /\ (c = n \/ (n < c /\ c <= LastCluster))}

(* Mutant of Around: no second search. *)
NoSecondSearch(t) == {}

Around(t) == {c \in InRange : t[c] = Free}
Found(t, n) == IF Ahead(t, n) # {} THEN Lowest(Ahead(t, n)) ELSE Lowest(Around(t))
NoneFree(t, n) == Ahead(t, n) = {} /\ Around(t) = {}

(* _FAT_fat_linkFreeCluster: the result got, the table and the pointer     *)
(* after a call for cluster c, which has no link yet.                      *)
LinkFreeCluster(t, n, c) ==
    LET new    == Found(t, n)
        linked == IF c >= First /\ c < LastCluster THEN Written(t, c, new) ELSE t
    IN  IF c > LastCluster THEN [got |-> Free, fat |-> t, firstFree |-> n]
        ELSE IF t[c] \in InRange THEN [got |-> t[c], fat |-> t, firstFree |-> n]
        ELSE IF NoneFree(t, n) THEN [got |-> Free, fat |-> t, firstFree |-> LastCluster + 1]
        ELSE [got |-> new, fat |-> Written(linked, new, Eof), firstFree |-> new]

(* Mutant of Chain: the link is read after it has been erased. *)
OnlyFirst(t, c) == {c}

(* The clusters from c on, as the loop of _FAT_fat_clearLinks follows the  *)
(* links.                                                                  *)
Chain(t, c) ==
    LET closed == {S \in SUBSET Entries : c \in S /\ \A x \in S : t[x] \in {Free, Eof} \cup S}
    IN  {d \in Entries : \A S \in closed : d \in S}

(* _FAT_fat_clearLinks *)
ClearLinks(t, n, c) ==
    LET freed == Chain(t, c) \cap InRange
    IN  IF c \in InRange
          THEN [fat |-> [d \in Entries |-> IF d \in freed THEN Free ELSE t[d]],
                firstFree |-> IF c < n THEN c ELSE n]
          ELSE [fat |-> t, firstFree |-> n]

-----------------------------------------------------------------------------
(* What a call for cluster c got: its link, or its own entry, is missing. *)
UsesEnd(c, got) == got # Free /\ (c = LastCluster \/ got = LastCluster + 1)

(* _FAT_open_r of a file without a cluster, or of a new one. *)
Open(f) ==
    LET r == LinkFreeCluster(fat, firstFree, Free)
    IN  /\ held[f] = <<>>
        /\ held' = IF r.got = Free THEN held ELSE [held EXCEPT ![f] = <<r.got>>]
        /\ fat' = r.fat /\ firstFree' = r.firstFree /\ res' = r.got
        /\ endUsed' = (endUsed \/ UsesEnd(Free, r.got))

(* _FAT_open_r with O_TRUNC. *)
OpenTruncated(f) ==
    /\ held[f] # <<>>
    /\ LET cleared == ClearLinks(fat, firstFree, held[f][1])
           r == LinkFreeCluster(cleared.fat, cleared.firstFree, Free)
       IN  /\ held' = [held EXCEPT ![f] = IF r.got = Free THEN <<>> ELSE <<r.got>>]
           /\ fat' = r.fat /\ firstFree' = r.firstFree /\ res' = r.got
           /\ endUsed' = (endUsed \/ UsesEnd(Free, r.got))

(* A file or a directory that has reached the end of its last cluster. *)
Extend(f) ==
    /\ held[f] # <<>> /\ Len(held[f]) < MaxHeld
    /\ LET last == held[f][Len(held[f])]
           r == LinkFreeCluster(fat, firstFree, last)
       IN  /\ fat[last] \in {Eof, Free}
           /\ held' = IF r.got = Free THEN held ELSE [held EXCEPT ![f] = Append(@, r.got)]
           /\ fat' = r.fat /\ firstFree' = r.firstFree /\ res' = r.got
           /\ endUsed' = (endUsed \/ UsesEnd(last, r.got))

(* _FAT_unlink_r frees the clusters before it removes the entry. *)
Unlink(f) ==
    /\ held[f] # <<>>
    /\ held[f][1] \in InRange
    /\ LET r == ClearLinks(fat, firstFree, held[f][1])
       IN  fat' = r.fat /\ firstFree' = r.firstFree
    /\ held' = [held EXCEPT ![f] = <<>>]
    /\ res' = Free
    /\ UNCHANGED endUsed

Next == \E f \in Files : Open(f) \/ OpenTruncated(f) \/ Extend(f) \/ Unlink(f)

Spec == Init /\ [][Next]_vars

-----------------------------------------------------------------------------
Matches(t, h) ==
    /\ \A f \in Files : \A i \in DOMAIN h[f] : t[h[f][i]] = Link(h, f, i)
    /\ \A c \in Clusters \ Foreign : (\A f \in Files : ~Owns(h, f, c)) => t[c] = Free
    /\ \A c \in Foreign : t[c] = Eof

(* Until a file goes on past the end the table is the one in which each    *)
(* file has exactly the clusters its user was given, in that order, and    *)
(* all others are free: what was written is found again by the next mount, *)
(* and no cluster is lost.  Files may end in lastCluster.                  *)
TableMatches == endUsed \/ Matches(fat, held)

Abstract == INSTANCE ClusterPool WITH Pool <- InRange \ Foreign, Refused <- Free

(* Until then an allocation takes a cluster that nobody has, and fails     *)
(* only when the volume is full, wherever firstFree points after any       *)
(* number of deletions and failures.                                       *)
ImplementsPool == Abstract!Init /\ [][endUsed' \/ Abstract!Next]_Abstract!vars

(* file_allocation_table.c:204-206: the cluster returned has been set to   *)
(* the end of file.                                                        *)
GotIsEndOfFile == res # Free => fat[res] = Eof

(* file_allocation_table.c:205: the input cluster is linked to the new     *)
(* one.                                                                    *)
EachLinkedToNext ==
    \A f \in Files : \A i \in 1 .. Len(held[f]) - 1 : fat[held[f][i]] = held[f][i + 1]

(* file_allocation_table.c:295: any cluster used by a file is freed.       *)
UnusedIsFree ==
    \A c \in Clusters \ Foreign :
        fat[c] # Free => \E f \in Files : c \in ClustersOf(held[f])
=============================================================================
