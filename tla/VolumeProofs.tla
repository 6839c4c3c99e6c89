---------------------------- MODULE VolumeProofs ----------------------------
(***************************************************************************)
(* Proofs about a volume: its allocation table, one of its directories and *)
(* one of its files.                                                       *)
(*                                                                         *)
(* The table, for every size of the volume, every number of files and      *)
(* every layout it is mounted with: the chains agree with what the users   *)
(* of the files were given, and the table implements ClusterPool, until a  *)
(* file goes on from lastCluster or gets the cluster above it: the code    *)
(* does not write these links.                                             *)
(*                                                                         *)
(* The directory, for all names and lengths of their entries, every size   *)
(* of it and everything it holds when it is mounted: names stay unique,    *)
(* listings miss none, and the slots implement NameTable.  This needs that *)
(* no long name is added behind deleted entries at the end marker and that *)
(* no file is removed or renamed while it is open: the code does not care  *)
(* for either.                                                             *)
(*                                                                         *)
(* A file, for every size of sectors, clusters and volumes and every       *)
(* length of transfers: FatFile implements ByteFile as long as its user    *)
(* does none of the five things the code does not survive.  A place in the *)
(* file designates the position it is for; at the end of a cluster it may  *)
(* only if the file ends there.                                            *)
(***************************************************************************)
EXTENDS FatTable, Directory, FatFile, FiniteSetTheorems, SequenceTheorems, TLAPS

Usable == InRange \ Foreign

Owned(h, c) == \E f \in Files : Owns(h, f, c)

-----------------------------------------------------------------------------
(* A table t that agrees with the clusters h of the files. *)
Good(t, h) ==
    /\ h \in [Files -> Seq(Usable)]
    /\ t \in [Entries -> Entries \cup {Eof}]
    /\ t[Free] = Eof /\ t[1] = Eof
    /\ Disjoint(h)
    /\ Matches(t, h)

IInv == TypeOK /\ (~endUsed => Good(fat, held))

GoodNow == Good(fat, held) /\ firstFree \in Clusters

(* Every nonempty set of naturals has a lowest element: the intervals      *)
(* below its elements are finite sets, which are well-founded.             *)
LEMMA LowestIn ==
    ASSUME NEW S \in SUBSET Nat, S # {}
    PROVE  Lowest(S) \in S /\ \A c \in S : Lowest(S) <= c
  <1> DEFINE below == {0 .. n : n \in S}
  <1>1. below \subseteq FiniteSubsetsOf(Nat) /\ below # {}
    <2>1. \A n \in S : IsFiniteSet(0 .. n) /\ 0 .. n \subseteq Nat
      BY FS_Interval
    <2> QED
      BY <2>1 DEF FiniteSubsetsOf
  <1>2. PICK b \in below : \A d \in below : <<d, b>> \notin StrictSubsetOrdering(Nat)
    <2>1. IsWellFoundedOn(StrictSubsetOrdering(Nat), FiniteSubsetsOf(Nat))
      BY FS_StrictSubsetOrderingWellFounded
    <2> HIDE DEF below
    <2> QED
      BY <1>1, <2>1, WFMin
  <1>3. PICK m \in S : b = 0 .. m
    OBVIOUS
  <1>4. \A c \in S : m <= c
    <2> SUFFICES ASSUME NEW c \in S, c < m PROVE FALSE
      OBVIOUS
    <2>1. 0 .. c \in below
      OBVIOUS
    <2>2. 0 .. c \subseteq 0 .. m /\ m \in 0 .. m /\ m \notin 0 .. c /\ 0 .. m \subseteq Nat
      OBVIOUS
    <2>3. <<0 .. c, 0 .. m>> \in StrictSubsetOrdering(Nat)
      BY <2>2 DEF StrictSubsetOrdering
    <2> QED
      BY <1>2, <1>3, <2>1, <2>3
  <1> QED
    BY <1>4 DEF Lowest

LEMMA UsableIsCluster ==
    /\ Usable \subseteq Clusters \ Foreign /\ Clusters \subseteq Entries
    /\ Clusters \ Foreign \subseteq Usable \cup {LastCluster + 1}
    /\ \A c \in Usable : c \in Nat /\ c >= First /\ c <= LastCluster /\ c \in Entries
  BY FatAssumption DEF Usable, InRange, Clusters, Entries, First

(* Clusters the files have are usable ones, and theirs alone. *)
LEMMA ElementsUsable ==
    ASSUME NEW h \in [Files -> Seq(Usable)], NEW f \in Files, NEW i \in DOMAIN h[f]
    PROVE  h[f][i] \in Usable /\ i \in 1 .. Len(h[f]) /\ Owns(h, f, h[f][i])
  BY DEF Owns, ClustersOf

(* An entry is free in a table that agrees with the files exactly if its   *)
(* cluster is on the volume and no file has it.                            *)
LEMMA FreeIffUnowned ==
    ASSUME NEW t, NEW h, Good(t, h), NEW c \in Entries
    PROVE  t[c] = Free <=> c \in Clusters \ Foreign /\ ~Owned(h, c)
  <1>1. ASSUME Owned(h, c) PROVE t[c] # Free
    <2>0. PICK f \in Files : Owns(h, f, c)
      BY <1>1 DEF Owned
    <2>1. PICK i \in DOMAIN h[f] : h[f][i] = c
      BY <2>0 DEF Owns, ClustersOf
    <2>2. t[c] = Link(h, f, i)
      BY <2>1 DEF Good, Matches
    <2>3. CASE i = Len(h[f])
      BY <2>2, <2>3 DEF Link, Eof, Free
    <2>4. CASE i # Len(h[f])
      <3>1. i + 1 \in DOMAIN h[f]
        BY <2>4, ElementsUsable DEF Good
      <3>2. h[f][i + 1] \in Usable
        BY <3>1 DEF Good
      <3> QED
        BY <2>2, <2>4, <3>2, UsableIsCluster DEF Link, Free, First
    <2> QED
      BY <2>3, <2>4
  <1>2. ASSUME c \in Clusters \ Foreign, ~Owned(h, c) PROVE t[c] = Free
    BY <1>2 DEF Good, Matches, Owned
  <1>3. ASSUME c \notin Clusters \ Foreign PROVE t[c] # Free
    <2>1. c \in Foreign \/ c \in {0, 1}
      BY <1>3, FatAssumption DEF Clusters, Entries, First
    <2> QED
      BY <2>1 DEF Good, Matches, Eof, Free
  <1> QED
    BY <1>1, <1>2, <1>3

(* What a call for cluster c returns with table t: a usable cluster that no *)
(* file has, linked to c and made the end of file, or none if all are used, *)
(* or one for which the end of the volume matters.                          *)
Linked(t, c, u) == [IF c = Free THEN t ELSE [t EXCEPT ![c] = u] EXCEPT ![u] = Eof]
Allocated(t, h, c, r) ==
    /\ r.firstFree \in Clusters
    /\ \/ r.got = Free /\ r.fat = t /\ \A u \in Usable : Owned(h, u)
       \/ r.got \in Usable /\ ~Owned(h, r.got) /\ r.fat = Linked(t, c, r.got)
       \/ UsesEnd(c, r.got)

(* The cluster that is found is a free one of the volume. *)
LEMMA FoundIs ==
    ASSUME NEW t, NEW n \in Clusters, ~NoneFree(t, n)
    PROVE  Found(t, n) \in Clusters /\ t[Found(t, n)] = Free
  <1>1. Ahead(t, n) \in SUBSET Nat /\ Around(t) \in SUBSET Nat
    BY DEF Ahead, Around, Entries, InRange, First
  <1>2. Ahead(t, n) \subseteq Clusters /\ Around(t) \subseteq Clusters
    BY FatAssumption DEF Ahead, Around, Entries, InRange, Clusters, First
  <1>3. CASE Ahead(t, n) # {}
    <2>1. Lowest(Ahead(t, n)) \in Ahead(t, n)
      BY <1>1, <1>3, LowestIn
    <2> QED
      BY <1>2, <1>3, <2>1 DEF Found, Ahead
  <1>4. CASE Ahead(t, n) = {}
    <2>1. Lowest(Around(t)) \in Around(t)
      BY <1>1, <1>4, LowestIn DEF NoneFree
    <2> QED
      BY <1>2, <1>4, <2>1 DEF Found, Around
  <1> QED
    BY <1>3, <1>4

(* The types of what a call returns, whatever the table. *)
LEMMA LinkTypes ==
    ASSUME NEW t \in [Entries -> Entries \cup {Eof}], NEW n \in Clusters, NEW c \in Clusters \cup {Free}
    PROVE  /\ LinkFreeCluster(t, n, c).got \in Clusters \cup {Free}
           /\ LinkFreeCluster(t, n, c).fat \in [Entries -> Entries \cup {Eof}]
           /\ LinkFreeCluster(t, n, c).firstFree \in Clusters
  <1> DEFINE new == Found(t, n)
             linked == IF c >= First /\ c < LastCluster THEN Written(t, c, new) ELSE t
  <1>c. /\ InRange \subseteq Clusters /\ Clusters \subseteq Entries
        /\ LastCluster + 1 \in Clusters
    BY FatAssumption DEF InRange, Clusters, Entries, First
  <1>w. ASSUME NEW u \in [Entries -> Entries \cup {Eof}], NEW d, NEW v \in Entries \cup {Eof}
        PROVE  Written(u, d, v) \in [Entries -> Entries \cup {Eof}]
    BY DEF Written
  <1>1. CASE c > LastCluster
    BY <1>1 DEF LinkFreeCluster
  <1>2. CASE ~(c > LastCluster) /\ t[c] \in InRange
    BY <1>2, <1>c DEF LinkFreeCluster
  <1>3. CASE ~(c > LastCluster) /\ t[c] \notin InRange /\ NoneFree(t, n)
    BY <1>3, <1>c DEF LinkFreeCluster
  <1>4. CASE ~(c > LastCluster) /\ t[c] \notin InRange /\ ~NoneFree(t, n)
    <2>1. LinkFreeCluster(t, n, c) = [got |-> new, fat |-> Written(linked, new, Eof), firstFree |-> new]
      BY <1>4 DEF LinkFreeCluster
    <2>2. new \in Clusters /\ new \in Entries
      BY <1>4, <1>c, FoundIs
    <2>3. linked \in [Entries -> Entries \cup {Eof}]
      BY <1>w, <2>2
    <2>4. Written(linked, new, Eof) \in [Entries -> Entries \cup {Eof}]
      BY <1>w, <2>3
    <2> HIDE DEF linked, new
    <2> QED
      BY <2>1, <2>2, <2>4
  <1> QED
    BY <1>1, <1>2, <1>3, <1>4

(* What _FAT_fat_linkFreeCluster does to a table that agrees with the      *)
(* files, called for no cluster or for the last one of a file.             *)
LEMMA LinkSpec ==
    ASSUME NEW t, NEW h, Good(t, h), NEW n \in Clusters,
           NEW c \in Usable \cup {Free}, t[c] = Eof
    PROVE  Allocated(t, h, c, LinkFreeCluster(t, n, c))
  <1> DEFINE r == LinkFreeCluster(t, n, c)
             new == Found(t, n)
             linked == IF c >= First /\ c < LastCluster THEN Written(t, c, new) ELSE t
  <1>c. /\ LastCluster \in Nat /\ c \in Nat /\ c <= LastCluster
        /\ c \in Entries /\ t[c] \notin InRange
    BY UsableIsCluster, FatAssumption DEF Free, Entries, Eof, InRange, First
  <1>1. CASE NoneFree(t, n)
    <2>1. r.got = Free /\ r.fat = t /\ r.firstFree = LastCluster + 1
      BY <1>1, <1>c DEF LinkFreeCluster
    <2>2. LastCluster + 1 \in Clusters
      BY FatAssumption DEF Clusters, First
    <2>3. ASSUME NEW u \in Usable PROVE Owned(h, u)
      <3>1. t[u] # Free
        BY <1>1 DEF NoneFree, Around, Usable
      <3> QED
        BY <3>1, FreeIffUnowned, UsableIsCluster
    <2> QED
      BY <2>1, <2>2, <2>3 DEF Allocated
  <1>2. CASE ~NoneFree(t, n)
    <2>1. r = [got |-> new, fat |-> Written(linked, new, Eof), firstFree |-> new]
      BY <1>2, <1>c DEF LinkFreeCluster
    <2>2. new \in Clusters /\ t[new] = Free
      BY <1>2, FoundIs
    <2>3. new \in Clusters \ Foreign /\ ~Owned(h, new)
      BY <2>2, FreeIffUnowned, UsableIsCluster
    <2>4. r.got = new /\ r.firstFree = new /\ r.fat = Written(linked, new, Eof)
      BY <2>1
    <2>5. CASE UsesEnd(c, new)
      <3> HIDE DEF r, new
      <3>1. Allocated(t, h, c, r)
        BY <2>2, <2>4, <2>5 DEF Allocated
      <3> QED
        BY <3>1 DEF r
    <2>6. CASE ~UsesEnd(c, new)
      <3>1. new # Free
        BY <2>2, FatAssumption DEF Clusters, First, Free
      <3>2. c # LastCluster /\ new # LastCluster + 1
        BY <2>6, <3>1 DEF UsesEnd
      <3>3. new \in Usable /\ new \in InRange
        BY <2>3, <3>2, UsableIsCluster DEF Usable
      <3>4. c = Free \/ (c >= First /\ c < LastCluster /\ c \in InRange)
        BY <3>2, UsableIsCluster, FatAssumption DEF Usable, InRange
      <3>5. linked = IF c = Free THEN t ELSE [t EXCEPT ![c] = new]
        BY <3>4 DEF Written, Free, First
      <3>6. Written(linked, new, Eof) = [linked EXCEPT ![new] = Eof]
        BY <3>3 DEF Written
      <3>7. r.fat = Linked(t, c, r.got)
        <4> HIDE DEF r, linked
        <4> QED
          BY <2>4, <3>5, <3>6 DEF Linked
      <3> HIDE DEF r, new, linked
      <3>8. Allocated(t, h, c, r)
        BY <2>2, <2>3, <2>4, <3>3, <3>7 DEF Allocated
      <3> QED
        BY <3>8 DEF r
    <2> QED
      BY <2>5, <2>6
  <1> QED
    BY <1>1, <1>2

-----------------------------------------------------------------------------
(* A first cluster for a file that has none. *)
LEMMA FirstCluster ==
    ASSUME NEW t, NEW h, Good(t, h), NEW f \in Files, h[f] = <<>>,
           NEW u \in Usable, ~Owned(h, u)
    PROVE  Good([t EXCEPT ![u] = Eof], [h EXCEPT ![f] = <<u>>])
  <1> DEFINE t2 == [t EXCEPT ![u] = Eof]
             h2 == [h EXCEPT ![f] = <<u>>]
  <1>u. u \in Entries /\ u # Free /\ u # 1 /\ u \notin Foreign
    BY UsableIsCluster DEF Usable, First, Free
  <1>h. /\ h2 \in [Files -> Seq(Usable)] /\ h2[f] = <<u>>
        /\ \A g \in Files : g # f => h2[g] = h[g]
        /\ DOMAIN h2[f] = {1} /\ Len(h2[f]) = 1 /\ h2[f][1] = u
        /\ DOMAIN h[f] = {}
    BY DEF Good
  <1>o. \A g \in Files : \A c : Owns(h2, g, c) <=> Owns(h, g, c) \/ (g = f /\ c = u)
    BY <1>h DEF Owns, ClustersOf
  <1>1. t2 \in [Entries -> Entries \cup {Eof}] /\ t2[Free] = Eof /\ t2[1] = Eof
    BY <1>u DEF Good
  <1>2. Disjoint(h2)
    <2> SUFFICES ASSUME NEW g \in Files, NEW k \in Files, NEW i \in DOMAIN h2[g],
                        NEW j \in DOMAIN h2[k], h2[g][i] = h2[k][j]
                 PROVE  g = k /\ i = j
      BY DEF Disjoint
    <2>1. CASE g = f /\ k = f
      BY <1>h, <2>1
    <2>2. CASE g = f /\ k # f
      BY <1>h, <2>2 DEF Owned, Owns, ClustersOf
    <2>3. CASE g # f /\ k = f
      BY <1>h, <2>3 DEF Owned, Owns, ClustersOf
    <2>4. CASE g # f /\ k # f
      BY <1>h, <2>4 DEF Good, Disjoint
    <2> QED
      BY <2>1, <2>2, <2>3, <2>4
  <1>3. Matches(t2, h2)
    <2>1. ASSUME NEW g \in Files, NEW i \in DOMAIN h2[g]
          PROVE  t2[h2[g][i]] = Link(h2, g, i)
      <3>1. CASE g = f
        BY <1>h, <1>u, <3>1 DEF Link, Good
      <3>2. CASE g # f
        <4>1. h[g][i] # u /\ h[g][i] \in Entries
          BY <1>h, <3>2, UsableIsCluster DEF Owned, Owns, ClustersOf, Good
        <4> QED
          BY <1>h, <3>2, <4>1 DEF Link, Good, Matches
      <3> QED
        BY <3>1, <3>2
    <2>2. ASSUME NEW c \in Clusters \ Foreign, \A g \in Files : ~Owns(h2, g, c)
          PROVE  t2[c] = Free
      <3>1. c # u /\ \A g \in Files : ~Owns(h, g, c)
        BY <1>o, <2>2
      <3>2. c \in Entries
        BY UsableIsCluster
      <3> QED
        BY <3>1, <3>2 DEF Good, Matches
    <2>3. ASSUME NEW c \in Foreign PROVE t2[c] = Eof
      BY <1>u, FatAssumption DEF Good, Matches, Entries, Clusters, First
    <2> QED
      BY <2>1, <2>2, <2>3 DEF Matches
  <1> QED
    BY <1>1, <1>2, <1>3, <1>h DEF Good

(* One more cluster for a file that has some. *)
LEMMA NextCluster ==
    ASSUME NEW t, NEW h, Good(t, h), NEW f \in Files, h[f] # <<>>,
           NEW u \in Usable, ~Owned(h, u), NEW last, last = h[f][Len(h[f])]
    PROVE  Good([[t EXCEPT ![last] = u] EXCEPT ![u] = Eof], [h EXCEPT ![f] = Append(@, u)])
  <1> DEFINE t2 == [[t EXCEPT ![last] = u] EXCEPT ![u] = Eof]
             h2 == [h EXCEPT ![f] = Append(@, u)]
             n == Len(h[f])
  <1>n. /\ h[f] \in Seq(Usable) /\ n \in Nat /\ n >= 1 /\ DOMAIN h[f] = 1 .. n
    BY DEF Good
  <1>u. u \in Entries /\ u # Free /\ u # 1 /\ u \notin Foreign
    BY UsableIsCluster DEF Usable, First, Free
  <1>l. /\ last \in Usable /\ last \in Entries /\ last # Free /\ last # 1
        /\ last \notin Foreign /\ last # u /\ Owns(h, f, last)
    <2>1. n \in DOMAIN h[f]
      BY <1>n
    <2>2. last \in Usable /\ Owns(h, f, last)
      BY <1>n, <2>1 DEF Owns, ClustersOf
    <2> QED
      BY <2>2, UsableIsCluster DEF Usable, First, Free, Owned
  <1>h. /\ h2 \in [Files -> Seq(Usable)] /\ h2[f] = Append(h[f], u)
        /\ \A g \in Files : g # f => h2[g] = h[g]
        /\ DOMAIN h2[f] = 1 .. n + 1 /\ Len(h2[f]) = n + 1
        /\ h2[f][n + 1] = u /\ \A i \in 1 .. n : h2[f][i] = h[f][i]
    <2>1. h2 \in [Files -> Seq(Usable)] /\ h2[f] = Append(h[f], u)
      BY <1>n DEF Good
    <2>2. \A g \in Files : g # f => h2[g] = h[g]
      BY DEF Good
    <2>3. /\ DOMAIN Append(h[f], u) = 1 .. n + 1 /\ Len(Append(h[f], u)) = n + 1
          /\ Append(h[f], u)[n + 1] = u /\ \A i \in 1 .. n : Append(h[f], u)[i] = h[f][i]
      BY <1>n
    <2> QED
      BY <2>1, <2>2, <2>3
  <1>a. \A i \in 1 .. n + 1 : i = n + 1 \/ i \in 1 .. n
    BY <1>n
  <1>b. \A g \in Files : \A i \in DOMAIN h[g] : h[g][i] # u
    BY DEF Owned, Owns, ClustersOf
  <1>t. /\ t2[u] = Eof /\ t2[last] = u
        /\ \A c \in Entries : c # u /\ c # last => t2[c] = t[c]
    BY <1>u, <1>l DEF Good
  <1>1. t2 \in [Entries -> Entries \cup {Eof}] /\ t2[Free] = Eof /\ t2[1] = Eof
    <2>1. [t EXCEPT ![last] = u] \in [Entries -> Entries \cup {Eof}]
      BY <1>u DEF Good
    <2>2. Free \in Entries /\ 1 \in Entries
      BY FatAssumption DEF Entries, Free
    <2> QED
      BY <1>u, <1>l, <1>t, <2>1, <2>2 DEF Good
  <1>2. Disjoint(h2)
    <2> SUFFICES ASSUME NEW g \in Files, NEW k \in Files, NEW i \in DOMAIN h2[g],
                        NEW j \in DOMAIN h2[k], h2[g][i] = h2[k][j]
                 PROVE  g = k /\ i = j
      BY DEF Disjoint
    <2>1. \A e \in Files : \A m \in DOMAIN h2[e] :
             (e = f /\ m = n + 1 /\ h2[e][m] = u) \/ (m \in DOMAIN h[e] /\ h2[e][m] = h[e][m])
      BY <1>h, <1>a, <1>n
    <2>2. CASE h2[g][i] = u
      BY <1>b, <2>1, <2>2
    <2>3. CASE h2[g][i] # u
      BY <2>1, <2>3 DEF Good, Disjoint
    <2> QED
      BY <2>2, <2>3
  <1>3. Matches(t2, h2)
    <2>1. ASSUME NEW g \in Files, NEW i \in DOMAIN h2[g]
          PROVE  t2[h2[g][i]] = Link(h2, g, i)
      <3>1. CASE g = f /\ i = n + 1
        BY <1>h, <1>t, <3>1 DEF Link
      <3>2. CASE g = f /\ i = n
        <4>1. n \in 1 .. n /\ n # n + 1
          BY <1>n
        <4>2. h2[f][n] = last
          BY <1>h, <4>1
        <4> QED
          BY <1>h, <1>t, <3>2, <4>1, <4>2 DEF Link
      <3>3. CASE g = f /\ i \in 1 .. n /\ i # n
        <4>1. h[f][i] # last /\ h[f][i] # u /\ h[f][i] \in Entries
          BY <1>n, <1>b, <3>3, UsableIsCluster DEF Good, Disjoint
        <4>2. t[h[f][i]] = h[f][i + 1]
          BY <1>n, <3>3 DEF Good, Matches, Link
        <4>3. h2[f][i] = h[f][i] /\ h2[f][i + 1] = h[f][i + 1] /\ i # n + 1
          BY <1>h, <1>n, <3>3
        <4> QED
          BY <1>h, <1>t, <3>3, <4>1, <4>2, <4>3 DEF Link
      <3>4. CASE g # f
        <4>1. h[g][i] # last /\ h[g][i] # u /\ h[g][i] \in Entries
          BY <1>h, <1>n, <1>b, <3>4, UsableIsCluster DEF Good, Disjoint
        <4> QED
          BY <1>h, <1>t, <3>4, <4>1 DEF Link, Good, Matches
      <3> QED
        BY <1>a, <1>h, <3>1, <3>2, <3>3, <3>4
    <2>2. ASSUME NEW c \in Clusters \ Foreign, \A g \in Files : ~Owns(h2, g, c)
          PROVE  t2[c] = Free
      <3>1. c # u /\ \A g \in Files : ~Owns(h, g, c)
        <4>1. c # u
          BY <1>h, <1>n, <2>2 DEF Owns, ClustersOf
        <4>2. ASSUME NEW g \in Files, Owns(h, g, c) PROVE Owns(h2, g, c)
          <5>1. CASE g = f
            BY <1>h, <1>n, <4>2, <5>1 DEF Owns, ClustersOf
          <5>2. CASE g # f
            BY <1>h, <4>2, <5>2 DEF Owns, ClustersOf
          <5> QED
            BY <5>1, <5>2
        <4> QED
          BY <2>2, <4>1, <4>2
      <3>2. c # last /\ c \in Entries
        BY <1>l, <3>1, UsableIsCluster
      <3> QED
        BY <1>t, <3>1, <3>2 DEF Good, Matches
    <2>3. ASSUME NEW c \in Foreign PROVE t2[c] = Eof
      BY <1>u, <1>l, <1>t, FatAssumption DEF Good, Matches, Entries, Clusters, First
    <2> QED
      BY <2>1, <2>2, <2>3 DEF Matches
  <1> QED
    BY <1>1, <1>2, <1>3, <1>h DEF Good

-----------------------------------------------------------------------------
(* The loop of _FAT_fat_clearLinks visits the clusters of the file and no  *)
(* others: they are closed under the links, and every closed set with the  *)
(* first of them has all (or it would lack a lowest one).                  *)
LEMMA ChainIsFile ==
    ASSUME NEW t, NEW h, Good(t, h), NEW f \in Files, h[f] # <<>>
    PROVE  Chain(t, h[f][1]) = ClustersOf(h[f])
  <1> DEFINE n == Len(h[f])
             own == ClustersOf(h[f])
             closed == {S \in SUBSET Entries : h[f][1] \in S /\ \A x \in S : t[x] \in {Free, Eof} \cup S}
  <1>n. /\ h[f] \in Seq(Usable) /\ n \in Nat /\ n >= 1 /\ DOMAIN h[f] = 1 .. n
        /\ 1 \in 1 .. n
    BY DEF Good
  <1>e. own \subseteq Entries
    BY <1>n, UsableIsCluster DEF ClustersOf
  <1>c. Chain(t, h[f][1]) = {d \in Entries : \A S \in closed : d \in S}
    BY DEF Chain
  <1>1. own \in closed
    <2>1. h[f][1] \in own
      BY <1>n DEF ClustersOf
    <2>2. ASSUME NEW i \in 1 .. n PROVE t[h[f][i]] \in {Free, Eof} \cup own
      <3>1. t[h[f][i]] = Link(h, f, i)
        BY <1>n, <2>2 DEF Good, Matches
      <3>2. i = n \/ i + 1 \in 1 .. n
        BY <1>n
      <3> QED
        BY <1>n, <3>1, <3>2 DEF Link, ClustersOf
    <2>3. \A x \in own : \E i \in 1 .. n : x = h[f][i]
      BY <1>n DEF ClustersOf
    <2> QED
      BY <1>e, <2>1, <2>2, <2>3
  <1>2. ASSUME NEW S \in closed, NEW c \in own PROVE c \in S
    <2> DEFINE missed == {i \in 1 .. n : h[f][i] \notin S}
    <2>1. SUFFICES ASSUME missed # {} PROVE FALSE
      BY <1>n DEF ClustersOf
    <2>2. missed \in SUBSET Nat
      BY <1>n
    <2> DEFINE m == Lowest(missed)
    <2>3. m \in missed /\ \A i \in missed : m <= i
      <3> HIDE DEF missed
      <3> QED
        BY <2>1, <2>2, LowestIn
    <2> HIDE DEF m
    <2>4. m \in 1 .. n /\ h[f][m] \notin S
      BY <2>3
    <2>5. h[f][1] \in S /\ \A x \in S : t[x] \in {Free, Eof} \cup S
      BY <1>2
    <2>6. m # 1
      BY <2>4, <2>5
    <2>7. m - 1 \in 1 .. n /\ m - 1 # n /\ m - 1 + 1 = m /\ ~(m <= m - 1)
      BY <1>n, <2>4, <2>6
    <2>8. h[f][m - 1] \in S
      BY <2>3, <2>7
    <2>9. t[h[f][m - 1]] = h[f][m]
      BY <1>n, <2>7 DEF Good, Matches, Link
    <2>10. h[f][m] \in Usable
      BY <1>n, <2>4
    <2>11. h[f][m] \notin {Free, Eof}
      BY <2>10, UsableIsCluster DEF Free, Eof, First
    <2> QED
      BY <2>4, <2>5, <2>8, <2>9, <2>11
  <1> HIDE DEF closed, own
  <1>3. own \subseteq Chain(t, h[f][1])
    BY <1>c, <1>e, <1>2
  <1>4. Chain(t, h[f][1]) \subseteq own
    BY <1>c, <1>1
  <1> QED
    BY <1>3, <1>4 DEF own

(* _FAT_fat_clearLinks on the first cluster of a file. *)
LEMMA Cleared ==
    ASSUME NEW t, NEW h, Good(t, h), NEW f \in Files, h[f] # <<>>,
           NEW n \in Clusters
    PROVE  LET r == ClearLinks(t, n, h[f][1])
               h2 == [h EXCEPT ![f] = <<>>]
           IN  /\ r.firstFree \in Clusters
               /\ Good(r.fat, h2)
               /\ h2[f] = <<>>
               /\ h[f][1] \in Usable /\ ~Owned(h2, h[f][1])
  <1> DEFINE own == ClustersOf(h[f])
             first == h[f][1]
             h2 == [h EXCEPT ![f] = <<>>]
             t2 == [d \in Entries |-> IF d \in own THEN Free ELSE t[d]]
             r == ClearLinks(t, n, first)
  <1>1. first \in Usable /\ first \in own /\ first \in InRange /\ first \in Clusters
    <2>1. 1 \in DOMAIN h[f]
      BY DEF Good
    <2> QED
      BY <2>1, UsableIsCluster DEF Good, ClustersOf, Usable
  <1>2. own \subseteq Usable /\ own \cap InRange = own
    BY DEF Good, ClustersOf, Usable
  <1>3. r.fat = t2 /\ r.firstFree \in Clusters
    BY <1>1, <1>2, ChainIsFile DEF ClearLinks
  <1>h. /\ h2 \in [Files -> Seq(Usable)] /\ h2[f] = <<>> /\ DOMAIN h2[f] = {}
        /\ \A g \in Files : g # f => h2[g] = h[g]
    BY DEF Good
  <1>d. \A g \in Files : g # f => \A i \in DOMAIN h[g] : h[g][i] \notin own
    BY DEF Good, Disjoint, ClustersOf
  <1>4. ~Owned(h2, first)
    BY <1>1, <1>d, <1>h DEF Owned, Owns, ClustersOf
  <1>5. t2 \in [Entries -> Entries \cup {Eof}] /\ t2[Free] = Eof /\ t2[1] = Eof
    <2>1. Free \in Entries /\ 1 \in Entries /\ Free \notin own /\ 1 \notin own
      BY <1>2, UsableIsCluster, FatAssumption DEF Entries, Free, First
    <2> QED
      BY <2>1 DEF Good
  <1>6. Disjoint(h2)
    BY <1>h DEF Good, Disjoint
  <1>7. Matches(t2, h2)
    <2>1. ASSUME NEW g \in Files, NEW i \in DOMAIN h2[g]
          PROVE  t2[h2[g][i]] = Link(h2, g, i)
      <3>1. g # f /\ h2[g] = h[g] /\ i \in DOMAIN h[g]
        BY <1>h, <2>1
      <3>2. h[g][i] \in Entries /\ h[g][i] \notin own
        BY <1>d, <3>1, UsableIsCluster DEF Good
      <3> QED
        BY <3>1, <3>2 DEF Good, Matches, Link
    <2>2. ASSUME NEW c \in Clusters \ Foreign, \A g \in Files : ~Owns(h2, g, c)
          PROVE  t2[c] = Free
      <3>1. c \in Entries
        BY UsableIsCluster
      <3>2. CASE c \in own
        BY <3>1, <3>2
      <3>3. CASE c \notin own
        <4>1. \A g \in Files : ~Owns(h, g, c)
          BY <1>h, <2>2, <3>3 DEF Owns
        <4> QED
          BY <3>1, <3>3, <4>1 DEF Good, Matches
      <3> QED
        BY <3>2, <3>3
    <2>3. ASSUME NEW c \in Foreign PROVE t2[c] = Eof
      <3>1. c \in Entries /\ c \notin own
        BY <1>2, FatAssumption DEF Entries, Clusters, First, Usable
      <3> QED
        BY <3>1 DEF Good, Matches
    <2> QED
      BY <2>1, <2>2, <2>3 DEF Matches
  <1>8. Good(t2, h2)
    BY <1>h, <1>5, <1>6, <1>7 DEF Good
  <1> HIDE DEF t2, h2
  <1> QED
    BY <1>1, <1>3, <1>4, <1>8, <1>h DEF h2

(* The table of a volume when it is mounted. *)
LEMMA InitGood ==
    ASSUME Init, ~endUsed
    PROVE  Good(fat, held)
  <1>h. held \in [Files -> Seq(Usable)] /\ Disjoint(held)
    <2>1. held \in [Files -> Seq(Clusters \ Foreign)] /\ Disjoint(held)
      BY FatAssumption DEF Init
    <2>2. ASSUME NEW f \in Files PROVE held[f] \in Seq(Usable)
      <3>1. \A i \in DOMAIN held[f] : held[f][i] \in Clusters \ Foreign /\ held[f][i] # LastCluster + 1
        BY <2>1 DEF Init, Owns, ClustersOf
      <3>2. \A i \in DOMAIN held[f] : held[f][i] \in Usable
        BY <3>1, UsableIsCluster
      <3>3. held[f] \in Seq(Clusters \ Foreign)
        BY <2>1
      <3>4. Len(held[f]) \in Nat /\ held[f] = [i \in 1 .. Len(held[f]) |-> held[f][i]]
            /\ DOMAIN held[f] = 1 .. Len(held[f])
        BY <3>3
      <3> QED
        BY <3>2, <3>4, IsASeq
    <2> QED
      BY <2>1, <2>2
  <1>1. ASSUME NEW f \in Files, NEW i \in DOMAIN held[f]
        PROVE  held[f][i] \in Entries /\ fat[held[f][i]] = Link(held, f, i)
    <2> DEFINE c == held[f][i]
               g == CHOOSE g \in Files : Owns(held, g, c)
               j == CHOOSE j \in DOMAIN held[g] : held[g][j] = c
    <2>1. c \in Entries
      BY <1>h, UsableIsCluster
    <2>2. Owns(held, f, c)
      BY DEF Owns, ClustersOf
    <2>3. g \in Files /\ Owns(held, g, c)
      BY <2>2
    <2>4. j \in DOMAIN held[g] /\ held[g][j] = c
      BY <2>3 DEF Owns, ClustersOf
    <2>5. g = f /\ j = i
      BY <1>h, <2>3, <2>4 DEF Disjoint
    <2>6. fat[c] = Link(held, g, j)
      BY <2>1, <2>2 DEF Init, TableOf
    <2> QED
      BY <2>1, <2>5, <2>6
  <1>2. ASSUME NEW c \in Entries, ~Owned(held, c)
        PROVE  fat[c] = IF c \in Foreign \cup {0, 1} THEN Eof ELSE Free
    BY <1>2 DEF Init, TableOf, Owned
  <1>3. \A c \in Entries : Owned(held, c) => c \in Usable /\ fat[c] \in Entries \cup {Eof}
    <2> SUFFICES ASSUME NEW c \in Entries, NEW f \in Files, Owns(held, f, c)
                 PROVE  c \in Usable /\ fat[c] \in Entries \cup {Eof}
      BY DEF Owned
    <2>1. PICK i \in DOMAIN held[f] : held[f][i] = c
      BY DEF Owns, ClustersOf
    <2>2. fat[c] = Link(held, f, i) /\ c \in Usable
      BY <1>h, <1>1, <2>1
    <2>3. i = Len(held[f]) \/ i + 1 \in DOMAIN held[f]
      BY <1>h, <2>1
    <2> QED
      BY <1>1, <2>2, <2>3 DEF Link
  <1>4. fat \in [Entries -> Entries \cup {Eof}]
    <2>1. \A c \in Entries : fat[c] \in Entries \cup {Eof}
      <3>1. Free \in Entries
        BY FatAssumption DEF Entries, Free
      <3> QED
        BY <1>2, <1>3, <3>1
    <2> QED
      BY <2>1 DEF Init, TableOf
  <1>5. fat[Free] = Eof /\ fat[1] = Eof
    <2>1. Free \in Entries /\ 1 \in Entries /\ Free \notin Usable /\ 1 \notin Usable
      BY UsableIsCluster, FatAssumption DEF Entries, Free, First
    <2> QED
      BY <1>2, <1>3, <2>1 DEF Free
  <1>6. Matches(fat, held)
    <2>1. ASSUME NEW c \in Clusters \ Foreign, \A f \in Files : ~Owns(held, f, c)
          PROVE  fat[c] = Free
      <3>1. c \in Entries /\ c \notin {0, 1}
        BY UsableIsCluster, FatAssumption DEF Clusters, First
      <3> QED
        BY <1>2, <2>1, <3>1 DEF Owned
    <2>2. ASSUME NEW c \in Foreign PROVE fat[c] = Eof
      <3>1. c \in Entries /\ c \notin Usable
        BY FatAssumption DEF Entries, Clusters, First, Usable
      <3> QED
        BY <1>2, <1>3, <3>1
    <2> QED
      BY <1>1, <2>1, <2>2 DEF Matches
  <1> QED
    BY <1>h, <1>4, <1>5, <1>6 DEF Good

(* The types, of every table and every step. *)
LEMMA InitTypes == Init => TypeOK
  <1> SUFFICES ASSUME Init PROVE TypeOK
    OBVIOUS
  <1>1. held \in [Files -> Seq(Clusters)]
    <2>1. held \in [Files -> Seq(Clusters \ Foreign)]
      BY FatAssumption DEF Init
    <2>2. \A f \in Files : held[f] \in Seq(Clusters)
      BY <2>1
    <2> QED
      BY <2>1, <2>2
  <1>2. \A f \in Files : \A i \in DOMAIN held[f] : Link(held, f, i) \in Entries \cup {Eof}
    <2> SUFFICES ASSUME NEW f \in Files, NEW i \in DOMAIN held[f]
                 PROVE  Link(held, f, i) \in Entries \cup {Eof}
      OBVIOUS
    <2>1. held[f] \in Seq(Clusters)
      BY <1>1
    <2>2. i = Len(held[f]) \/ held[f][i + 1] \in Clusters
      BY <2>1
    <2> QED
      BY <2>2, UsableIsCluster DEF Link
  <1>3. ASSUME NEW c \in Entries PROVE fat[c] \in Entries \cup {Eof}
    <2>1. CASE \E f \in Files : Owns(held, f, c)
      <3> DEFINE f == CHOOSE f \in Files : Owns(held, f, c)
                 i == CHOOSE i \in DOMAIN held[f] : held[f][i] = c
      <3>1. f \in Files /\ Owns(held, f, c)
        BY <2>1
      <3>2. i \in DOMAIN held[f]
        BY <3>1 DEF Owns, ClustersOf
      <3>3. fat[c] = Link(held, f, i)
        BY <1>3, <2>1 DEF Init, TableOf
      <3> QED
        BY <1>2, <3>1, <3>2, <3>3
    <2>2. CASE ~ \E f \in Files : Owns(held, f, c)
      <3>1. fat[c] \in {Eof, Free}
        BY <1>3, <2>2 DEF Init, TableOf
      <3>2. Free \in Entries
        BY FatAssumption DEF Entries, Free
      <3> QED
        BY <3>1, <3>2
    <2> QED
      BY <2>1, <2>2
  <1>4. fat \in [Entries -> Entries \cup {Eof}]
    BY <1>3 DEF Init, TableOf
  <1>5. firstFree \in Clusters /\ res = Free /\ endUsed \in BOOLEAN
    BY FatAssumption DEF Init, Clusters, First
  <1> QED
    BY <1>1, <1>4, <1>5 DEF TypeOK

LEMMA ClearTypes ==
    ASSUME NEW t \in [Entries -> Entries \cup {Eof}], NEW n \in Clusters, NEW c
    PROVE  /\ ClearLinks(t, n, c).fat \in [Entries -> Entries \cup {Eof}]
           /\ ClearLinks(t, n, c).firstFree \in Clusters
  <1>1. Free \in Entries /\ InRange \subseteq Clusters
    BY FatAssumption DEF Entries, Free, InRange, Clusters, First
  <1>2. [d \in Entries |-> IF d \in Chain(t, c) \cap InRange THEN Free ELSE t[d]]
          \in [Entries -> Entries \cup {Eof}]
    BY <1>1
  <1> QED
    BY <1>1, <1>2 DEF ClearLinks

LEMMA StepTypes == TypeOK /\ [Next]_vars => TypeOK'
  <1> SUFFICES ASSUME TypeOK, [Next]_vars PROVE TypeOK'
    OBVIOUS
  <1>t. /\ fat \in [Entries -> Entries \cup {Eof}] /\ firstFree \in Clusters
        /\ held \in [Files -> Seq(Clusters)] /\ endUsed \in BOOLEAN
    BY DEF TypeOK
  <1>1. ASSUME NEW f \in Files, Open(f) PROVE TypeOK'
    <2> DEFINE r == LinkFreeCluster(fat, firstFree, Free)
    <2>1. /\ held' = IF r.got = Free THEN held ELSE [held EXCEPT ![f] = <<r.got>>]
          /\ fat' = r.fat /\ firstFree' = r.firstFree /\ res' = r.got
          /\ endUsed' \in BOOLEAN
      BY <1>1 DEF Open
    <2>2. r.got \in Clusters \cup {Free} /\ r.fat \in [Entries -> Entries \cup {Eof}] /\ r.firstFree \in Clusters
      BY <1>t, LinkTypes
    <2> HIDE DEF r
    <2>3. held' \in [Files -> Seq(Clusters)]
      <3>1. r.got # Free => <<r.got>> \in Seq(Clusters)
        BY <2>2
      <3> QED
        BY <1>t, <2>1, <3>1
    <2> QED
      BY <2>1, <2>2, <2>3 DEF TypeOK
  <1>2. ASSUME NEW f \in Files, OpenTruncated(f) PROVE TypeOK'
    <2> DEFINE cleared == ClearLinks(fat, firstFree, held[f][1])
               r == LinkFreeCluster(cleared.fat, cleared.firstFree, Free)
    <2>1. /\ held' = [held EXCEPT ![f] = IF r.got = Free THEN <<>> ELSE <<r.got>>]
          /\ fat' = r.fat /\ firstFree' = r.firstFree /\ res' = r.got
          /\ endUsed' \in BOOLEAN
      BY <1>2 DEF OpenTruncated
    <2>2. cleared.fat \in [Entries -> Entries \cup {Eof}] /\ cleared.firstFree \in Clusters
      BY <1>t, ClearTypes
    <2> HIDE DEF cleared
    <2>3. r.got \in Clusters \cup {Free} /\ r.fat \in [Entries -> Entries \cup {Eof}] /\ r.firstFree \in Clusters
      BY <2>2, LinkTypes
    <2> HIDE DEF r
    <2>4. held' \in [Files -> Seq(Clusters)]
      <3>1. (IF r.got = Free THEN <<>> ELSE <<r.got>>) \in Seq(Clusters)
        BY <2>3
      <3> QED
        BY <1>t, <2>1, <3>1
    <2> QED
      BY <2>1, <2>3, <2>4 DEF TypeOK
  <1>3. ASSUME NEW f \in Files, Extend(f) PROVE TypeOK'
    <2> DEFINE last == held[f][Len(held[f])]
               r == LinkFreeCluster(fat, firstFree, last)
    <2>1. /\ held[f] # <<>>
          /\ held' = IF r.got = Free THEN held ELSE [held EXCEPT ![f] = Append(@, r.got)]
          /\ fat' = r.fat /\ firstFree' = r.firstFree /\ res' = r.got
          /\ endUsed' \in BOOLEAN
      BY <1>3 DEF Extend
    <2>2. last \in Clusters
      BY <1>t, <2>1
    <2> HIDE DEF last
    <2>3. r.got \in Clusters \cup {Free} /\ r.fat \in [Entries -> Entries \cup {Eof}] /\ r.firstFree \in Clusters
      BY <1>t, <2>2, LinkTypes
    <2> HIDE DEF r
    <2>4. held' \in [Files -> Seq(Clusters)]
      <3>1. r.got # Free => Append(held[f], r.got) \in Seq(Clusters)
        BY <1>t, <2>3
      <3> QED
        BY <1>t, <2>1, <3>1
    <2> QED
      BY <2>1, <2>3, <2>4 DEF TypeOK
  <1>4. ASSUME NEW f \in Files, Unlink(f) PROVE TypeOK'
    <2> DEFINE r == ClearLinks(fat, firstFree, held[f][1])
    <2>1. /\ fat' = r.fat /\ firstFree' = r.firstFree /\ res' = Free
          /\ held' = [held EXCEPT ![f] = <<>>] /\ endUsed' = endUsed
      BY <1>4 DEF Unlink
    <2>2. r.fat \in [Entries -> Entries \cup {Eof}] /\ r.firstFree \in Clusters
      BY <1>t, ClearTypes
    <2> HIDE DEF r
    <2>3. held' \in [Files -> Seq(Clusters)]
      BY <1>t, <2>1
    <2> QED
      BY <1>t, <2>1, <2>2, <2>3 DEF TypeOK
  <1>5. CASE UNCHANGED vars
    BY <1>5 DEF vars, TypeOK
  <1> QED
    BY <1>1, <1>2, <1>3, <1>4, <1>5 DEF Next

-----------------------------------------------------------------------------
(* The clusters in use, as ClusterPool sees them. *)
LEMMA PoolOwned ==
    ASSUME NEW c
    PROVE  c \in Abstract!Owned <=> Owned(held, c)
  BY DEF Abstract!Owned, Owned, Owns, ClustersOf

(* A call that finds no cluster. *)
LEMMA RefusedStep ==
    ASSUME Good(fat, held), \A u \in Usable : Owned(held, u),
           fat' = fat, held' = held, res' = Free
    PROVE  Good(fat', held') /\ Abstract!Refuse
  <1>1. Good(fat', held')
    BY DEF Good
  <1>2. InRange \ Foreign \subseteq Abstract!Owned
    BY PoolOwned DEF Usable
  <1> QED
    BY <1>1, <1>2 DEF Abstract!Refuse

LEMMA OpenStep ==
    ASSUME GoodNow, ~endUsed', NEW f \in Files, Open(f)
    PROVE  Good(fat', held') /\ (Abstract!Refuse \/ Abstract!Grow(f))
  <1> DEFINE r == LinkFreeCluster(fat, firstFree, Free)
  <1>1. /\ r.firstFree \in Clusters
        /\ \/ r.got = Free /\ r.fat = fat /\ \A u \in Usable : Owned(held, u)
           \/ /\ r.got \in Usable /\ ~Owned(held, r.got)
              /\ r.fat = [fat EXCEPT ![r.got] = Eof]
    <2>0. ~UsesEnd(Free, r.got)
      BY DEF Open
    <2>1. Allocated(fat, held, Free, LinkFreeCluster(fat, firstFree, Free))
      BY LinkSpec DEF GoodNow, Good
    <2> QED
      BY <2>0, <2>1 DEF Allocated, Linked
  <1>2. /\ held[f] = <<>>
        /\ held' = IF r.got = Free THEN held ELSE [held EXCEPT ![f] = <<r.got>>]
        /\ fat' = r.fat /\ firstFree' = r.firstFree /\ res' = r.got
    BY DEF Open
  <1> HIDE DEF r
  <1>3. CASE r.got = Free /\ r.fat = fat /\ \A u \in Usable : Owned(held, u)
    BY <1>1, <1>2, <1>3, RefusedStep DEF GoodNow
  <1>4. CASE /\ r.got \in Usable /\ ~Owned(held, r.got)
             /\ r.fat = [fat EXCEPT ![r.got] = Eof]
    <2>1. r.got # Free
      BY <1>4, UsableIsCluster DEF Free, First
    <2>2. held' = [held EXCEPT ![f] = <<r.got>>]
      BY <1>2, <2>1
    <2>3. Good(fat', held')
      <3>1. \A u \in Usable : ~Owned(held, u) =>
               Good([fat EXCEPT ![u] = Eof], [held EXCEPT ![f] = <<u>>])
        BY <1>2, FirstCluster DEF GoodNow
      <3>2. Good([fat EXCEPT ![r.got] = Eof], [held EXCEPT ![f] = <<r.got>>])
        BY <1>4, <3>1
      <3>3. fat' = [fat EXCEPT ![r.got] = Eof]
        BY <1>2, <1>4
      <3> QED
        BY <2>2, <3>2, <3>3
    <2>5. r.got \in (InRange \ Foreign) \ Abstract!Owned
      BY <1>4, PoolOwned DEF Usable
    <2>6. <<r.got>> = Append(held[f], r.got)
      BY <1>2
    <2> QED
      BY <1>2, <2>2, <2>3, <2>5, <2>6 DEF Abstract!Grow
  <1> QED
    BY <1>1, <1>3, <1>4

LEMMA ExtendStep ==
    ASSUME GoodNow, ~endUsed', NEW f \in Files, Extend(f)
    PROVE  Good(fat', held') /\ (Abstract!Refuse \/ Abstract!Grow(f))
  <1> DEFINE last == held[f][Len(held[f])]
             r == LinkFreeCluster(fat, firstFree, last)
  <1>0. held[f] # <<>>
    BY DEF Extend
  <1>l. Len(held[f]) \in DOMAIN held[f] /\ last \in Usable /\ fat[last] = Eof /\ last # Free
    <2>1. Len(held[f]) \in DOMAIN held[f]
      BY <1>0 DEF GoodNow, Good
    <2>2. last \in Usable
      BY <2>1 DEF GoodNow, Good
    <2>3. fat[last] = Link(held, f, Len(held[f]))
      BY <2>1 DEF GoodNow, Good, Matches
    <2> QED
      BY <2>1, <2>2, <2>3, UsableIsCluster DEF Link, Free, First
  <1>1. /\ r.firstFree \in Clusters
        /\ \/ r.got = Free /\ r.fat = fat /\ \A u \in Usable : Owned(held, u)
           \/ /\ r.got \in Usable /\ ~Owned(held, r.got)
              /\ r.fat = [[fat EXCEPT ![last] = r.got] EXCEPT ![r.got] = Eof]
    <2>0. ~UsesEnd(last, r.got)
      BY DEF Extend
    <2>1. /\ Good(fat, held) /\ firstFree \in Clusters
          /\ last \in Usable \cup {Free} /\ fat[last] = Eof
      BY <1>l DEF GoodNow
    <2> HIDE DEF last
    <2>2. Allocated(fat, held, last, LinkFreeCluster(fat, firstFree, last))
      BY <2>1, LinkSpec
    <2>3. last # Free
      BY <1>l
    <2> QED
      BY <2>0, <2>2, <2>3 DEF Allocated, Linked
  <1>2. /\ held' = IF r.got = Free THEN held ELSE [held EXCEPT ![f] = Append(@, r.got)]
        /\ fat' = r.fat /\ firstFree' = r.firstFree /\ res' = r.got
    BY DEF Extend
  <1> HIDE DEF r, last
  <1>3. CASE r.got = Free /\ r.fat = fat /\ \A u \in Usable : Owned(held, u)
    BY <1>1, <1>2, <1>3, RefusedStep DEF GoodNow
  <1>4. CASE /\ r.got \in Usable /\ ~Owned(held, r.got)
             /\ r.fat = [[fat EXCEPT ![last] = r.got] EXCEPT ![r.got] = Eof]
    <2>1. r.got # Free
      BY <1>4, UsableIsCluster DEF Free, First
    <2>2. held' = [held EXCEPT ![f] = Append(@, r.got)]
      BY <1>2, <2>1
    <2>3. Good(fat', held')
      <3>1. last = held[f][Len(held[f])]
        BY DEF last
      <3>2. \A u \in Usable : ~Owned(held, u) =>
               Good([[fat EXCEPT ![last] = u] EXCEPT ![u] = Eof],
                    [held EXCEPT ![f] = Append(@, u)])
        BY <1>0, <3>1, NextCluster DEF GoodNow
      <3>3. Good([[fat EXCEPT ![last] = r.got] EXCEPT ![r.got] = Eof],
                 [held EXCEPT ![f] = Append(@, r.got)])
        BY <1>4, <3>2
      <3>4. fat' = [[fat EXCEPT ![last] = r.got] EXCEPT ![r.got] = Eof]
        BY <1>2, <1>4
      <3> QED
        BY <2>2, <3>3, <3>4
    <2>5. r.got \in (InRange \ Foreign) \ Abstract!Owned
      BY <1>4, PoolOwned DEF Usable
    <2> QED
      BY <1>2, <2>2, <2>3, <2>5 DEF Abstract!Grow
  <1> QED
    BY <1>1, <1>3, <1>4

LEMMA OpenTruncatedStep ==
    ASSUME GoodNow, ~endUsed', NEW f \in Files, OpenTruncated(f)
    PROVE  Good(fat', held') /\ Abstract!Renew(f)
  <1> DEFINE first == held[f][1]
             h == [held EXCEPT ![f] = <<>>]
             cleared == ClearLinks(fat, firstFree, first)
             r == LinkFreeCluster(cleared.fat, cleared.firstFree, Free)
  <1>0. held[f] # <<>>
    BY DEF OpenTruncated
  <1>1. /\ cleared.firstFree \in Clusters /\ Good(cleared.fat, h) /\ h[f] = <<>>
        /\ first \in Usable /\ ~Owned(h, first)
    BY <1>0, Cleared DEF GoodNow
  <1>2. /\ held' = [held EXCEPT ![f] = IF r.got = Free THEN <<>> ELSE <<r.got>>]
        /\ fat' = r.fat /\ firstFree' = r.firstFree /\ res' = r.got
    BY DEF OpenTruncated
  <1> HIDE DEF cleared, first, h
  <1>3. /\ r.firstFree \in Clusters
        /\ r.got \in Usable /\ ~Owned(h, r.got)
        /\ r.fat = [cleared.fat EXCEPT ![r.got] = Eof]
    <2>0. ~UsesEnd(Free, r.got)
      BY DEF OpenTruncated, cleared, first
    <2>1. Allocated(cleared.fat, h, Free, r)
      BY <1>1, LinkSpec DEF Good
    <2>2. ~ \A u \in Usable : Owned(h, u)
      BY <1>1
    <2> HIDE DEF r
    <2> QED
      BY <2>0, <2>1, <2>2 DEF Allocated, Linked
  <1> HIDE DEF r
  <1>4. r.got # Free
    BY <1>3, UsableIsCluster DEF Free, First
  <1>5. held' = [held EXCEPT ![f] = <<r.got>>] /\ held' = [h EXCEPT ![f] = <<r.got>>]
    BY <1>2, <1>4 DEF h, GoodNow, Good
  <1>6. Good(fat', held')
    <2>1. \A u \in Usable : ~Owned(h, u) =>
             Good([cleared.fat EXCEPT ![u] = Eof], [h EXCEPT ![f] = <<u>>])
      BY <1>1, FirstCluster
    <2>2. Good([cleared.fat EXCEPT ![r.got] = Eof], [h EXCEPT ![f] = <<r.got>>])
      BY <1>3, <2>1
    <2>3. fat' = [cleared.fat EXCEPT ![r.got] = Eof]
      BY <1>2, <1>3
    <2> QED
      BY <1>5, <2>2, <2>3
  <1>8. r.got \in (InRange \ Foreign) \ UNION {{held[g][i] : i \in DOMAIN held[g]} : g \in Files \ {f}}
    <2>1. \A g \in Files \ {f} : h[g] = held[g]
      BY DEF h
    <2> QED
      BY <1>3, <2>1 DEF Owned, Owns, ClustersOf, Usable
  <1> QED
    BY <1>2, <1>5, <1>6, <1>8 DEF Abstract!Renew

LEMMA UnlinkStep ==
    ASSUME GoodNow, ~endUsed', NEW f \in Files, Unlink(f)
    PROVE  Good(fat', held') /\ Abstract!GiveUp(f)
  <1> DEFINE h == [held EXCEPT ![f] = <<>>]
             r == ClearLinks(fat, firstFree, held[f][1])
  <1>1. r.firstFree \in Clusters /\ Good(r.fat, h)
    BY Cleared DEF GoodNow, Unlink
  <1>2. fat' = r.fat /\ firstFree' = r.firstFree /\ held' = h /\ res' = Free
    BY DEF Unlink
  <1> HIDE DEF r
  <1>3. Good(fat', held')
    BY <1>1, <1>2
  <1> QED
    BY <1>2, <1>3 DEF Abstract!GiveUp

LEMMA NextStep ==
    ASSUME GoodNow, ~endUsed', [Next]_vars
    PROVE  Good(fat', held') /\ [Abstract!Next]_Abstract!vars
  <1>1. CASE UNCHANGED vars
    <2>1. Good(fat', held')
      BY <1>1 DEF vars, GoodNow, Good
    <2> QED
      BY <1>1, <2>1 DEF vars, Abstract!vars
  <1>2. ASSUME NEW f \in Files, Open(f) \/ Extend(f)
        PROVE  Good(fat', held') /\ Abstract!Next
    BY <1>2, OpenStep, ExtendStep DEF Abstract!Next
  <1>3. ASSUME NEW f \in Files, OpenTruncated(f)
        PROVE  Good(fat', held') /\ Abstract!Next
    BY <1>3, OpenTruncatedStep DEF Abstract!Next
  <1>4. ASSUME NEW f \in Files, Unlink(f)
        PROVE  Good(fat', held') /\ Abstract!Next
    BY <1>4, UnlinkStep DEF Abstract!Next
  <1> QED
    BY <1>1, <1>2, <1>3, <1>4 DEF Next

-----------------------------------------------------------------------------
(* What has hit a file at the end of the volume is not forgotten. *)
LEMMA EndStays == [Next]_vars /\ ~endUsed' => ~endUsed
  BY DEF Next, vars, Open, OpenTruncated, Extend, Unlink

LEMMA IInvStep == IInv /\ [Next]_vars => IInv'
  <1> SUFFICES ASSUME IInv, [Next]_vars PROVE IInv'
    OBVIOUS
  <1>1. TypeOK'
    BY StepTypes DEF IInv
  <1>2. ASSUME ~endUsed' PROVE Good(fat', held')
    <2>1. GoodNow
      BY <1>2, EndStays DEF IInv, GoodNow, TypeOK
    <2> QED
      BY <1>2, <2>1, NextStep
  <1>3. Good(fat, held)' = Good(fat', held')
    BY DEF Good, Disjoint, Matches, Link, Owns
  <1> QED
    BY <1>1, <1>2, <1>3 DEF IInv

(* The inductive invariant of the table: the types, and until a file goes  *)
(* on from lastCluster or gets the cluster above it, the agreement of the  *)
(* table with the clusters the files were given.  Nothing is assumed of    *)
(* the volume.                                                             *)
THEOREM Safety == Spec => []IInv
<1>1. Init => IInv
  BY InitTypes, InitGood DEF IInv
<1>2. IInv /\ [Next]_vars => IInv'
  BY IInvStep
<1> QED
  BY <1>1, <1>2, PTL DEF Spec

(* The table, the pointer and the lists of clusters keep their types, at   *)
(* the end of the volume too.                                              *)
THEOREM TypeCorrect == Spec => []TypeOK
<1>1. IInv => TypeOK
  BY DEF IInv
<1> QED
  BY <1>1, Safety, PTL

(* Whatever was created, extended, truncated and deleted, until a file     *)
(* goes on from lastCluster or gets the cluster above it: the chains in    *)
(* the table are the clusters the users of the files were given, in order, *)
(* and every other cluster is free.                                        *)
THEOREM TableAlwaysMatches == Spec => []TableMatches
<1>1. IInv => TableMatches
  BY DEF IInv, Good, TableMatches
<1> QED
  BY <1>1, Safety, PTL

(* Until then the table hands out each cluster once and refuses only when  *)
(* all of them, lastCluster included, are taken.                           *)
THEOREM Implements == Spec => ImplementsPool
<1>1. Init => Abstract!Init
  BY DEF Init, Abstract!Init
<1>2. IInv /\ [Next]_vars => [endUsed' \/ Abstract!Next]_Abstract!vars
  <2> SUFFICES ASSUME IInv, [Next]_vars, ~endUsed'
               PROVE  [Abstract!Next]_Abstract!vars
    OBVIOUS
  <2>1. GoodNow
    BY EndStays DEF IInv, GoodNow, TypeOK
  <2> QED
    BY <2>1, NextStep
<1> QED
  BY <1>1, <1>2, Safety, PTL DEF Spec, ImplementsPool

-----------------------------------------------------------------------------
(* The first of a set of places, and of one place. *)
LEMMA FirstIn ==
    ASSUME NEW S \in SUBSET Nat, S # {}
    PROVE  FirstOf(S) \in S /\ \A i \in S : FirstOf(S) <= i
  BY LowestIn DEF FirstOf, Lowest

LEMMA FirstOfOne == ASSUME NEW i \in Nat PROVE FirstOf({i}) = i
  BY FirstIn

(* A sequence of slots, as a function. *)
LEMMA SlotsAre ==
    ASSUME NEW s \in Seq(Slots)
    PROVE  /\ Len(s) \in Nat /\ DOMAIN s = 1 .. Len(s)
           /\ \A i \in 1 .. Len(s) : s[i] \in Slots
  OBVIOUS

LEMMA SlotsOf ==
    ASSUME NEW n \in Nat, NEW s \in [1 .. n -> Slots]
    PROVE  s \in Seq(Slots) /\ Len(s) = n /\ DOMAIN s = 1 .. n
  OBVIOUS

(* A slot of an entry is neither free nor an end marker. *)
LEMMA Kinds ==
    /\ Last \in Slots /\ FreeSlot \in Slots /\ Last # FreeSlot
    /\ FreeSlot.name = NoName /\ Last.name = NoName
    /\ \A n \in Names, k \in Nat, f \in DirFiles \cup {NoFile} :
          /\ [name |-> n, part |-> k, file |-> f] \in Slots
          /\ [name |-> n, part |-> k, file |-> f] \notin {Last, FreeSlot}
  BY DirectoryAssumption DEF Last, FreeSlot, Slots

(* The first end marker, or the place behind the last slot. *)
LEMMA MarkerIs ==
    ASSUME NEW s \in Seq(Slots)
    PROVE  /\ Marker(s) \in 1 .. Len(s) + 1
           /\ Marker(s) <= Len(s) => s[Marker(s)] = Last
           /\ \A j \in 1 .. Marker(s) - 1 : s[j] # Last
  <1> DEFINE ends == {i \in 1 .. Len(s) + 1 : SlotAt(s, i) = Last}
  <1>0. Len(s) \in Nat
    BY SlotsAre
  <1>1. Len(s) + 1 \in ends
    BY <1>0 DEF SlotAt
  <1>2. ends \in SUBSET Nat
    BY <1>0
  <1>3. FirstOf(ends) \in ends /\ \A i \in ends : FirstOf(ends) <= i
    <2> HIDE DEF ends
    <2> QED
      BY <1>1, <1>2, FirstIn
  <1> DEFINE m == FirstOf(ends)
  <1>4. m \in 1 .. Len(s) + 1 /\ SlotAt(s, m) = Last
    BY <1>3
  <1>5. \A j \in 1 .. m - 1 : s[j] # Last
    <2> SUFFICES ASSUME NEW j \in 1 .. m - 1, s[j] = Last PROVE FALSE
      OBVIOUS
    <2>1. j \in 1 .. Len(s) /\ SlotAt(s, j) = s[j] /\ ~(m <= j)
      BY <1>0, <1>4 DEF SlotAt
    <2>2. j \in ends
      BY <2>1, <1>0
    <2> QED
      BY <1>3, <2>1, <2>2
  <1> HIDE DEF m, ends
  <1>6. Marker(s) \in 1 .. Len(s) + 1 /\ SlotAt(s, Marker(s)) = Last /\ \A j \in 1 .. Marker(s) - 1 : s[j] # Last
    BY <1>4, <1>5 DEF Marker
  <1> QED
    BY <1>0, <1>6 DEF SlotAt

(* Slots in front of L are used, the one at L is not. *)
Limit(s, L) ==
    /\ L \in 1 .. Len(s) + 1
    /\ L <= Len(s) => s[L] = Last
    /\ \A j \in 1 .. L - 1 : s[j] # Last

(* The entry of n ends at i. *)
Ends(s, n, i) == s[i].name = n /\ s[i].part = 1 /\ HasName(s, i)

(* Entries are the ones in front of the first end marker. *)
LEMMA EntryIs ==
    ASSUME NEW s \in Seq(Slots), NEW L, Limit(s, L), NEW n \in Names, NEW i
    PROVE  i \in Entry(s, n) <=> i \in 1 .. L - 1 /\ Ends(s, n, i)
  <1>0. Len(s) \in Nat
    BY SlotsAre
  <1>1. \A k \in 1 .. Len(s) : InUse(s, k) <=> k < L
    BY <1>0 DEF InUse, Limit
  <1> QED
    BY <1>0, <1>1 DEF Entry, IsAlias, Ends, Limit

(* The entry of m is where it was, with its file.                          *)
SameEntry(s, t, m) ==
    /\ Entry(t, m) = Entry(s, m)
    /\ \A i \in Entry(s, m) : i \in DOMAIN t /\ t[i].file = s[i].file

Piece(n, k) == [name |-> n, part |-> k, file |-> NoFile]
Alias(n, f) == [name |-> n, part |-> 1, file |-> f]

(* t is s with an entry of n in a .. e, in slots that were deleted or      *)
(* behind the end marker.                                                  *)
Adds(s, t, K, L, n, f, a, e) ==
    /\ K \in 1 .. L /\ a \in 1 .. L - 1 /\ e \in 1 .. L - 1 /\ e + 1 = a + Size[n]
    /\ t[e] = Alias(n, f)
    /\ \A i \in a .. e - 1 : t[i] = Piece(n, e - i + 1)
    /\ \A i \in 1 .. L - 1 : i \notin a .. e => i < K /\ t[i] = s[i]
    /\ \A i \in a .. e : i < K => s[i] = FreeSlot

(* An entry has at least its alias. *)
LEMMA SizeIs == \A n \in Names : Size[n] \in Nat /\ Size[n] >= 1
  BY DirectoryAssumption

(* The slots of an entry, by what they hold. *)
LEMMA PieceIs ==
    /\ \A n, k : Piece(n, k).name = n /\ Piece(n, k).part = k
    /\ \A n, f : Alias(n, f).name = n /\ Alias(n, f).part = 1 /\ Alias(n, f).file = f
  BY DEF Piece, Alias

(* An alias has its long name if the parts are in front of it. *)
LEMMA HasNameIs ==
    ASSUME NEW s, NEW i, s[i].name \in Names
    PROVE  HasName(s, i) <=> \A k \in 2 .. Size[s[i].name] : i - k + 1 >= 1 /\ s[i - k + 1] = Piece(s[i].name, k)
  BY DEF HasName, Piece

(* If the pieces are the same in both, so is the entry.                    *)
LEMMA EndsKept ==
    ASSUME NEW s, NEW t, NEW m \in Names, NEW i \in Nat, t[i] = s[i],
           \A j \in 1 .. i, k \in 2 .. Size[m] :
              j = i - k + 1 /\ (t[j] = Piece(m, k) \/ s[j] = Piece(m, k)) => t[j] = s[j]
    PROVE  Ends(t, m, i) <=> Ends(s, m, i)
  <1>1. s[i].name = t[i].name /\ s[i].part = t[i].part
    OBVIOUS
  <1>2. CASE s[i].name = m
    <2>1. ASSUME NEW k \in 2 .. Size[m], i - k + 1 >= 1
          PROVE  t[i - k + 1] = Piece(m, k) <=> s[i - k + 1] = Piece(m, k)
      <3>1. i - k + 1 \in 1 .. i
        BY <2>1, SizeIs
      <3> QED
        BY <3>1
    <2>2. HasName(s, i) <=> \A k \in 2 .. Size[m] : i - k + 1 >= 1 /\ s[i - k + 1] = Piece(m, k)
      BY <1>2, HasNameIs
    <2>3. HasName(t, i) <=> \A k \in 2 .. Size[m] : i - k + 1 >= 1 /\ t[i - k + 1] = Piece(m, k)
      BY <1>1, <1>2, HasNameIs
    <2>4. HasName(t, i) <=> HasName(s, i)
      BY <2>1, <2>2, <2>3
    <2> QED
      BY <1>1, <2>4 DEF Ends
  <1>3. CASE s[i].name # m
    BY <1>1, <1>3 DEF Ends
  <1> QED
    BY <1>2, <1>3

(* A new entry changes no other ... *)
LEMMA AddedOthers ==
    ASSUME NEW s \in Seq(Slots), NEW t \in Seq(Slots), NEW K, NEW L, Limit(s, K), Limit(t, L),
           NEW n \in Names, NEW f \in DirFiles \cup {NoFile}, NEW a, NEW e, Adds(s, t, K, L, n, f, a, e),
           NEW m \in Names, m # n
    PROVE  SameEntry(s, t, m)
  <1>0. /\ K \in Nat /\ L \in Nat /\ a \in Nat /\ e \in Nat /\ K <= L /\ K >= 1
        /\ Len(s) \in Nat /\ Len(t) \in Nat /\ L <= Len(t) + 1
    BY SlotsAre DEF Adds, Limit
  <1>1. ASSUME NEW j \in a .. e PROVE t[j].name = n /\ (j < K => s[j].name = NoName)
    <2>1. t[j].name = n
      <3>1. CASE j = e
        BY <3>1, PieceIs DEF Adds
      <3>2. CASE j # e
        <4>1. j \in a .. e - 1
          BY <1>0, <3>2
        <4> QED
          BY <4>1, PieceIs DEF Adds
      <3> QED
        BY <3>1, <3>2
    <2> QED
      BY <2>1, Kinds DEF Adds
  <1>2. ASSUME NEW j \in 1 .. K - 1, t[j].name = m \/ s[j].name = m PROVE t[j] = s[j]
    <2>1. j \notin a .. e
      BY <1>0, <1>1, <1>2, DirectoryAssumption
    <2> QED
      BY <1>0, <2>1 DEF Adds
  <1>3. ASSUME NEW i \in 1 .. K - 1, t[i] = s[i] PROVE Ends(t, m, i) <=> Ends(s, m, i)
    <2>1. ASSUME NEW j \in 1 .. i, NEW k \in 2 .. Size[m], t[j] = Piece(m, k) \/ s[j] = Piece(m, k)
          PROVE  t[j] = s[j]
      <3>1. j \in 1 .. K - 1
        BY <1>0
      <3> QED
        BY <1>2, <2>1, <3>1, PieceIs
    <2>2. i \in Nat
      BY <1>0
    <2> QED
      BY <1>3, <2>1, <2>2, EndsKept
  <1>4. ASSUME NEW i \in 1 .. K - 1, Ends(s, m, i) PROVE t[i] = s[i] /\ Ends(t, m, i)
    <2>1. t[i] = s[i]
      BY <1>2, <1>4 DEF Ends
    <2> QED
      BY <1>3, <1>4, <2>1
  <1>5. ASSUME NEW i \in 1 .. L - 1, Ends(t, m, i) PROVE i \in 1 .. K - 1 /\ Ends(s, m, i)
    <2>1. t[i].name = m
      BY <1>5 DEF Ends
    <2>2. i \in 1 .. K - 1 /\ t[i] = s[i]
      BY <1>0, <1>1, <2>1 DEF Adds
    <2> QED
      BY <1>3, <1>5, <2>2
  <1>6. \A i : i \in Entry(t, m) <=> i \in Entry(s, m)
    BY <1>0, <1>4, <1>5, EntryIs
  <1>7. \A i \in Entry(s, m) : i \in DOMAIN t /\ t[i] = s[i]
    BY <1>0, <1>4, EntryIs, SlotsAre
  <1>8. Entry(t, m) = Entry(s, m)
    BY <1>6
  <1> QED
    BY <1>7, <1>8 DEF SameEntry

(* ... and is the only one with its name. *)
LEMMA AddedEntry ==
    ASSUME NEW s \in Seq(Slots), NEW t \in Seq(Slots), NEW K, NEW L, Limit(s, K), Limit(t, L),
           NEW n \in Names, NEW f \in DirFiles \cup {NoFile}, NEW a, NEW e, Adds(s, t, K, L, n, f, a, e),
           Entry(s, n) = {}
    PROVE  Entry(t, n) = {e} /\ t[e].file = f
  <1>0. /\ K \in Nat /\ L \in Nat /\ a \in Nat /\ e \in Nat /\ K <= L /\ K >= 1 /\ Size[n] \in Nat /\ Size[n] >= 1
        /\ Len(s) \in Nat /\ Len(t) \in Nat /\ L <= Len(t) + 1 /\ e \in 1 .. L - 1 /\ a >= 1 /\ e + 1 = a + Size[n]
    BY SlotsAre, SizeIs DEF Adds, Limit
  <1>1. t[e].name = n /\ t[e].part = 1 /\ t[e].file = f
    BY PieceIs DEF Adds
  <1>2. ASSUME NEW j \in a .. e, j # e PROVE t[j] = Piece(n, e - j + 1) /\ e - j + 1 # 1
    <2>1. j \in a .. e - 1
      BY <1>0, <1>2
    <2> QED
      BY <1>0, <2>1 DEF Adds
  <1>3. Ends(t, n, e)
    <2>1. ASSUME NEW k \in 2 .. Size[n] PROVE e - k + 1 >= 1 /\ t[e - k + 1] = Piece(n, k)
      <3>1. e - k + 1 \in a .. e /\ e - k + 1 # e /\ e - (e - k + 1) + 1 = k
        BY <1>0
      <3> QED
        BY <1>0, <1>2, <3>1
    <2>2. HasName(t, e)
      BY <1>1, <2>1, HasNameIs
    <2> QED
      BY <1>1, <2>2 DEF Ends
  <1>4. ASSUME NEW i \in 1 .. L - 1, Ends(t, n, i), i # e PROVE FALSE
    <2>1. t[i].name = n /\ t[i].part = 1 /\ HasName(t, i)
      BY <1>4 DEF Ends
    <2>2. i \notin a .. e
      BY <1>2, <1>4, <2>1, PieceIs
    <2>3. i \in 1 .. K - 1 /\ t[i] = s[i] /\ i \in Nat
      BY <1>0, <2>2 DEF Adds
    <2>4. ASSUME NEW j \in 1 .. i, NEW k \in 2 .. Size[n], j = i - k + 1
          PROVE  t[j] = s[j]
      <3>1. j \in 1 .. K - 1 /\ i = j + k - 1
        BY <1>0, <2>3, <2>4
      <3>2. t[j] = Piece(n, k)
        BY <2>1, <2>4, HasNameIs
      <3>3. j \notin a .. e
        <4> SUFFICES ASSUME j \in a .. e PROVE FALSE
          OBVIOUS
        <4>1. k # 1
          BY <1>0
        <4>2. j # e
          BY <1>1, <3>2, <4>1, PieceIs
        <4>3. e - j + 1 = k
          BY <1>2, <3>2, <4>2, PieceIs
        <4> QED
          BY <1>0, <1>4, <3>1, <4>3
      <3> QED
        BY <1>0, <3>1, <3>3 DEF Adds
    <2>5. Ends(s, n, i)
      BY <1>4, <2>3, <2>4, EndsKept
    <2> QED
      BY <2>3, <2>5, EntryIs
  <1>5. \A i : i \in Entry(t, n) <=> i = e
    BY <1>0, <1>3, <1>4, EntryIs
  <1> QED
    BY <1>1, <1>5

(* Nothing is added: the marker stays where it was. *)
LEMMA NothingAdded ==
    ASSUME NEW s \in Seq(Slots), NEW t \in Seq(Slots), NEW K, Limit(s, K), Limit(t, K),
           \A i \in 1 .. K - 1 : t[i] = s[i], NEW m \in Names
    PROVE  SameEntry(s, t, m)
  <1>0. K \in Nat /\ Len(s) \in Nat /\ Len(t) \in Nat /\ K <= Len(t) + 1
    BY SlotsAre DEF Limit
  <1>1. ASSUME NEW i \in 1 .. K - 1 PROVE Ends(t, m, i) <=> Ends(s, m, i)
    <2>1. i \in Nat /\ t[i] = s[i] /\ \A j \in 1 .. i : t[j] = s[j]
      BY <1>0
    <2> QED
      BY <2>1, EndsKept
  <1>2. \A i : i \in Entry(t, m) <=> i \in Entry(s, m)
    BY <1>1, EntryIs
  <1>3. \A i \in Entry(s, m) : i \in DOMAIN t /\ t[i] = s[i]
    BY <1>0, EntryIs, SlotsAre
  <1>4. Entry(t, m) = Entry(s, m)
    BY <1>2
  <1> QED
    BY <1>3, <1>4 DEF SameEntry

(* Removing an entry changes no other.                                     *)
LEMMA Removed ==
    ASSUME NEW s \in Seq(Slots), NEW n \in Names, NEW e, Entry(s, n) = {e}
    PROVE  LET t == RemoveEntry(s, n).slots IN
           /\ t \in Seq(Slots) /\ Len(t) = Len(s)
           /\ RemoveEntry(s, n).ok \in BOOLEAN
           /\ Entry(t, n) = {}
           /\ \A m \in Names \ {n} : SameEntry(s, t, m)
  <1> DEFINE t == RemoveEntry(s, n).slots
  <1>0. Len(s) \in Nat /\ Size[n] \in Nat /\ Size[n] >= 1 /\ DOMAIN s = 1 .. Len(s)
    BY SlotsAre, SizeIs
  <1>1. e \in 1 .. Len(s) /\ s[e].name = n /\ InUse(s, e) /\ s[e].part = 1 /\ HasName(s, e)
    BY DEF Entry, IsAlias
  <1>2. FirstOf(Entry(s, n)) = e
    BY <1>1, FirstOfOne
  <1>3. t = [i \in 1 .. Len(s) |-> IF e - Size[n] < i /\ i <= e THEN FreeSlot ELSE s[i]]
    BY <1>0, <1>2 DEF RemoveEntry
  <1>4. RemoveEntry(s, n).ok \in BOOLEAN
    BY DEF RemoveEntry
  <1> HIDE DEF t
  <1>5. t \in Seq(Slots) /\ Len(t) = Len(s) /\ DOMAIN t = 1 .. Len(s)
    <2>1. t \in [1 .. Len(s) -> Slots]
      BY <1>3, SlotsAre, Kinds
    <2> QED
      BY <1>0, <2>1, SlotsOf
  <1>6. \A i \in 1 .. Len(s) : t[i] = IF e - Size[n] < i /\ i <= e THEN FreeSlot ELSE s[i]
    BY <1>3
  (* What is freed is the entry of n. *)
  <1>7. ASSUME NEW i \in 1 .. Len(s), e - Size[n] < i, i <= e
        PROVE  s[i].name = n /\ s[i].part = e - i + 1 /\ s[i] # Last
    <2>1. CASE i = e
      BY <1>0, <1>1, <2>1 DEF InUse
    <2>2. CASE i # e
      <3> DEFINE k == e - i + 1
      <3>1. k \in 2 .. Size[n] /\ e - k + 1 = i
        BY <1>0, <1>1, <1>7, <2>2
      <3> HIDE DEF k
      <3>2. s[i] = Piece(n, k)
        BY <1>1, <3>1, HasNameIs
      <3>3. s[i].name = n /\ s[i].part = k
        BY <3>2, PieceIs
      <3>4. s[i] # Last
        BY <3>3, Kinds, DirectoryAssumption
      <3> QED
        BY <3>3, <3>4 DEF k
    <2> QED
      BY <2>1, <2>2
  <1>8. \A i \in 1 .. Len(s) : InUse(t, i) <=> InUse(s, i)
    <2>1. \A i \in 1 .. Len(s) : t[i] # Last <=> s[i] # Last
      BY <1>6, <1>7, Kinds
    <2> QED
      BY <1>0, <2>1 DEF InUse
  <1>9. t[e] = FreeSlot
    BY <1>0, <1>1, <1>6
  <1>10. Entry(t, n) = {}
    <2> SUFFICES ASSUME NEW i \in Entry(t, n) PROVE FALSE
      OBVIOUS
    <2>1. i \in 1 .. Len(s) /\ t[i].name = n /\ t[i].part = 1 /\ InUse(t, i) /\ HasName(t, i)
      BY <1>5 DEF Entry, IsAlias
    <2>2. ~(e - Size[n] < i /\ i <= e) /\ t[i] = s[i]
      BY <1>6, <2>1, Kinds, DirectoryAssumption
    <2>3. HasName(s, i)
      <3>1. ASSUME NEW k \in 2 .. Size[n] PROVE i - k + 1 >= 1 /\ s[i - k + 1] = Piece(n, k)
        <4>1. i - k + 1 >= 1 /\ t[i - k + 1] = Piece(n, k)
          BY <2>1, HasNameIs
        <4>2. i - k + 1 \in 1 .. Len(s)
          BY <1>0, <2>1, <4>1
        <4>3. t[i - k + 1] # FreeSlot
          BY <4>1, Kinds, PieceIs, DirectoryAssumption
        <4> QED
          BY <1>6, <4>1, <4>2, <4>3
      <3> QED
        BY <2>1, <2>2, <3>1, HasNameIs
    <2>4. i \in Entry(s, n)
      BY <1>8, <2>1, <2>2, <2>3 DEF Entry, IsAlias
    <2> QED
      BY <1>0, <1>1, <2>2, <2>4
  <1>11. ASSUME NEW m \in Names \ {n} PROVE SameEntry(s, t, m)
    <2>1. ASSUME NEW j \in 1 .. Len(s), t[j].name = m \/ s[j].name = m PROVE t[j] = s[j]
      BY <1>6, <1>7, <2>1, Kinds, DirectoryAssumption
    <2>2. ASSUME NEW i \in 1 .. Len(s), t[i] = s[i] PROVE Ends(t, m, i) <=> Ends(s, m, i)
      <3>1. ASSUME NEW j \in 1 .. i, NEW k \in 2 .. Size[m], t[j] = Piece(m, k) \/ s[j] = Piece(m, k)
            PROVE  t[j] = s[j]
        <4>1. j \in 1 .. Len(s)
          BY <1>0
        <4> QED
          BY <2>1, <3>1, <4>1, PieceIs
      <3> QED
        BY <2>2, <3>1, EndsKept
    <2>3. \A i \in 1 .. Len(s) : Ends(t, m, i) /\ InUse(t, i) <=> Ends(s, m, i) /\ InUse(s, i)
      BY <1>8, <2>1, <2>2 DEF Ends
    <2>4. Entry(t, m) = Entry(s, m)
      BY <1>5, <2>3 DEF Entry, IsAlias, Ends
    <2>5. \A i \in Entry(s, m) : i \in DOMAIN t /\ t[i] = s[i]
      BY <1>5, <2>1 DEF Entry
    <2> QED
      BY <2>4, <2>5 DEF SameEntry
  <1> QED
    BY <1>4, <1>5, <1>10, <1>11 DEF t

(* A directory grows by whole clusters, and never past its limit. *)
LEMMA RoundUp ==
    ASSUME NEW n \in Nat, NEW S \in Nat \ {0}, NEW C \in Nat, n <= S * C
    PROVE  LET r == ((n + S - 1) \div S) * S IN r \in Nat /\ n <= r /\ r <= S * C
  <1> DEFINE q == (n + S - 1) \div S
             p == q * S
             v == S * C
  <1>1. q \in Nat /\ p \in Nat /\ v \in Nat
    OBVIOUS
  <1>2. p <= n + S - 1 /\ n + S - 1 < p + S
    OBVIOUS
  <1>3. q <= C
    <2> SUFFICES ASSUME q >= C + 1 PROVE FALSE
      BY <1>1
    <2>1. p >= v + S
      <3>1. PICK d \in Nat : q = C + 1 + d
        <4>1. q - C - 1 \in Nat
          BY <1>1
        <4> QED
          BY <1>1, <4>1
      <3> HIDE DEF q
      <3>2. p = C * S + S + d * S
        BY <3>1
      <3> QED
        BY <3>2
    <2> HIDE DEF p, v, q
    <2>2. n <= v
      BY DEF v
    <2> QED
      BY <1>1, <1>2, <2>1, <2>2
  <1>4. p <= v
    <2>1. PICK d \in Nat : C = q + d
      <3>1. C - q \in Nat
        BY <1>1, <1>3
      <3> QED
        BY <1>1, <3>1
    <2> HIDE DEF q
    <2>2. v = q * S + d * S
      BY <1>1, <2>1
    <2> QED
      BY <1>1, <2>2
  <1> QED
    BY <1>1, <1>2, <1>4

(* What a directory has grown to: its slots, and end markers behind. *)
LEMMA GrownIs ==
    ASSUME NEW s \in Seq(Slots), Len(s) <= MaxSlots, NEW n \in Nat, n <= MaxSlots
    PROVE  LET t == Grown(s, n) IN
           /\ t \in Seq(Slots) /\ Len(t) \in Nat /\ n <= Len(t) /\ Len(s) <= Len(t) /\ Len(t) <= MaxSlots
           /\ DOMAIN t = 1 .. Len(t)
           /\ \A i \in 1 .. Len(t) : t[i] = SlotAt(s, i)
  <1> DEFINE up == ((n + SlotsPerCluster - 1) \div SlotsPerCluster) * SlotsPerCluster
             len == IF n <= Len(s) THEN Len(s) ELSE up
             t == Grown(s, n)
  <1>0. Len(s) \in Nat
    BY SlotsAre
  <1>1. up \in Nat /\ n <= up /\ up <= MaxSlots
    BY RoundUp, DirectoryAssumption DEF MaxSlots
  <1>2. t = [i \in 1 .. len |-> SlotAt(s, i)]
    BY DEF Grown
  <1> HIDE DEF t, up
  <1>3. len \in Nat /\ n <= len /\ Len(s) <= len /\ len <= MaxSlots
    BY <1>0, <1>1
  <1> HIDE DEF len
  <1>4. t \in [1 .. len -> Slots]
    <2>1. \A i \in 1 .. len : SlotAt(s, i) \in Slots
      BY <1>0, <1>3, Kinds, SlotsAre DEF SlotAt
    <2> QED
      BY <1>2, <2>1
  <1>5. t \in Seq(Slots) /\ Len(t) = len /\ DOMAIN t = 1 .. len
    BY <1>3, <1>4, SlotsOf
  <1> QED
    BY <1>2, <1>3, <1>5 DEF t

(* The slots of an entry of n in a .. e of s. *)
Filled(s, n, f, a, e) ==
    [i \in DOMAIN s |->
        IF i < a \/ e < i THEN s[i]
        ELSE IF i = e THEN [name |-> n, part |-> 1, file |-> f]
        ELSE [name |-> n, part |-> e - i + 1, file |-> NoFile]]

(* What AddEntry promises: the new entry is found, the others stay.        *)
EntryAdded(s, t, n, f, ok, end) ==
    /\ t \in Seq(Slots) /\ Len(t) <= MaxSlots /\ ok \in BOOLEAN
    /\ ok => Entry(t, n) = {end} /\ t[end].file = f /\ end \in 1 .. MaxSlots
    /\ ~ok => Entry(t, n) = {}
    /\ \A m \in Names \ {n} : SameEntry(s, t, m)

(* The slots that are written, and the ones that are not. *)
EntryFilled(s, n, f, a, e, t) ==
    /\ t \in Seq(Slots) /\ Len(t) = Len(s) /\ DOMAIN t = 1 .. Len(s)
    /\ \A i \in 1 .. Len(s) : i < a \/ e < i => t[i] = s[i]
    /\ \A i \in 1 .. Len(s) : a <= i /\ i < e => t[i] = Piece(n, e - i + 1)
    /\ e \in 1 .. Len(s) /\ a <= e => t[e] = Alias(n, f)
    /\ \A i \in 1 .. Len(s) : a <= i /\ i <= e => t[i] # Last

(* Filling writes the slots of the entry and no other. *)
LEMMA FilledIs ==
    ASSUME NEW s \in Seq(Slots), NEW n \in Names, NEW f \in DirFiles \cup {NoFile}, NEW a \in Nat, NEW e \in Nat,
           NEW t, t = Filled(s, n, f, a, e)
    PROVE  EntryFilled(s, n, f, a, e, t)
  <1>0. Len(s) \in Nat /\ DOMAIN s = 1 .. Len(s)
    BY SlotsAre
  <1>1. t = [i \in 1 .. Len(s) |-> IF i < a \/ e < i THEN s[i] ELSE IF i = e THEN Alias(n, f) ELSE Piece(n, e - i + 1)]
    BY <1>0 DEF Filled, Alias, Piece
  <1>2. ASSUME NEW i \in 1 .. Len(s), a <= i, i <= e
        PROVE  /\ Alias(n, f) \in Slots /\ Piece(n, e - i + 1) \in Slots
               /\ Alias(n, f) # Last /\ Piece(n, e - i + 1) # Last
    <2>1. e - i + 1 \in Nat
      BY <1>2
    <2> QED
      BY <2>1, Kinds DEF Alias, Piece
  <1>3. t \in [1 .. Len(s) -> Slots]
    BY <1>0, <1>1, <1>2, SlotsAre
  <1>4. t \in Seq(Slots) /\ Len(t) = Len(s) /\ DOMAIN t = 1 .. Len(s)
    BY <1>0, <1>3, SlotsOf
  <1> QED
    BY <1>0, <1>1, <1>2, <1>4 DEF EntryFilled

(* The entry is put into slots that others have left. *)
LEMMA AddedToGap ==
    ASSUME NEW s \in Seq(Slots), Len(s) <= MaxSlots, NEW n \in Names, NEW f \in DirFiles \cup {NoFile},
           Entry(s, n) = {}, Gaps(s, Size[n]) # {}
    PROVE  LET r == AddEntry(s, n, f) IN EntryAdded(s, r.slots, n, f, r.ok, r.dataEnd)
  <1> DEFINE K == Marker(s)
             a == FirstOf(Gaps(s, Size[n]))
             e == a + Size[n] - 1
             t == Filled(s, n, f, a, e)
  <1>0. Len(s) \in Nat /\ DOMAIN s = 1 .. Len(s) /\ Size[n] \in Nat /\ Size[n] >= 1
        /\ K \in 1 .. Len(s) + 1 /\ Limit(s, K)
    BY SlotsAre, SizeIs, MarkerIs DEF Limit
  <1>1. a \in 1 .. K - Size[n] /\ \A j \in a .. a + Size[n] - 1 : s[j] = FreeSlot
    <2>1. Gaps(s, Size[n]) \in SUBSET Nat
      BY <1>0 DEF Gaps
    <2>2. a \in Gaps(s, Size[n])
      BY <2>1, FirstIn
    <2> QED
      BY <2>2 DEF Gaps
  <1>2. AddEntry(s, n, f) = [ok |-> TRUE, dataStart |-> a, dataEnd |-> e, slots |-> t]
    <2> DEFINE y == TRUE
               v == IF y THEN t ELSE s
    <2>1. FindEntryGap(s, Size[n]) = [ok |-> y, dataStart |-> a, dataEnd |-> e, slots |-> s]
      BY DEF FindEntryGap
    <2>2. y = TRUE /\ v = t
      OBVIOUS
    <2> HIDE DEF a, y
    <2>3. AddEntry(s, n, f) = [ok |-> y, dataStart |-> a, dataEnd |-> e, slots |-> v]
      BY <2>1 DEF AddEntry, Filled
    <2> HIDE DEF t, v, e
    <2> QED
      BY <2>2, <2>3
  <1> HIDE DEF K, a, t
  <1>3. a \in Nat /\ K \in Nat /\ e \in Nat /\ 1 <= a /\ a <= e /\ e < K /\ K <= Len(s) + 1 /\ e \in 1 .. Len(s)
    BY <1>0, <1>1
  <1>4. /\ t \in Seq(Slots) /\ Len(t) = Len(s)
        /\ \A i \in 1 .. Len(s) : i < a \/ e < i => t[i] = s[i]
        /\ \A i \in 1 .. Len(s) : a <= i /\ i < e => t[i] = Piece(n, e - i + 1)
        /\ t[e] = Alias(n, f)
        /\ \A i \in 1 .. Len(s) : a <= i /\ i <= e => t[i] # Last
    <2>1. t = Filled(s, n, f, a, e)
      BY DEF t
    <2> HIDE DEF e, t
    <2>2. e \in 1 .. Len(s) /\ a <= e
      BY <1>3
    <2>3. EntryFilled(s, n, f, a, e, t)
      BY <1>3, <2>1, FilledIs
    <2> QED
      BY <2>2, <2>3 DEF EntryFilled
  <1>5. Limit(t, K)
    <2>1. /\ K \in 1 .. Len(s) + 1
          /\ K <= Len(s) => s[K] = Last
          /\ \A j \in 1 .. K - 1 : s[j] # Last
      BY <1>0 DEF Limit
    <2> HIDE DEF e
    <2>2. K <= Len(t) => t[K] = Last
      BY <1>3, <1>4, <2>1
    <2>3. \A j \in 1 .. K - 1 : t[j] # Last
      BY <1>3, <1>4, <2>1
    <2> QED
      BY <1>4, <2>1, <2>2, <2>3 DEF Limit
  <1>6. Adds(s, t, K, K, n, f, a, e)
    <2>1. e + 1 = a + Size[n] /\ a + Size[n] - 1 = e
      BY <1>0, <1>3
    <2>5. \A i \in a .. e : s[i] = FreeSlot
      BY <1>1, <2>1
    <2> HIDE DEF e
    <2>2. ASSUME NEW i \in 1 .. K - 1, i \notin a .. e PROVE i < K /\ t[i] = s[i]
      <3>1. i \in 1 .. Len(s) /\ (i < a \/ e < i) /\ i < K
        BY <1>0, <1>3, <2>2
      <3> QED
        BY <1>4, <3>1
    <2>3. ASSUME NEW i \in a .. e - 1 PROVE t[i] = Piece(n, e - i + 1)
      <3>1. i \in 1 .. Len(s) /\ a <= i /\ i < e
        BY <1>0, <1>3, <2>3
      <3> QED
        BY <1>4, <3>1
    <2>4. K \in 1 .. K /\ a \in 1 .. K - 1 /\ e \in 1 .. K - 1
      BY <1>3
    <2> QED
      BY <1>4, <2>1, <2>2, <2>3, <2>4, <2>5 DEF Adds
  <1>7. Entry(t, n) = {e} /\ t[e].file = f /\ \A m \in Names \ {n} : SameEntry(s, t, m)
    <2> HIDE DEF e
    <2>1. Entry(t, n) = {e} /\ t[e].file = f
      BY <1>0, <1>4, <1>5, <1>6, AddedEntry
    <2>2. ASSUME NEW m \in Names \ {n} PROVE SameEntry(s, t, m)
      BY <1>0, <1>4, <1>5, <1>6, <2>2, AddedOthers
    <2> QED
      BY <2>1, <2>2
  <1>8. MaxSlots \in Nat
    BY DirectoryAssumption DEF MaxSlots
  <1> QED
    BY <1>0, <1>2, <1>3, <1>4, <1>7, <1>8 DEF EntryAdded

(* ... or at the end marker, which goes behind it. *)
LEMMA AddedAtEnd ==
    ASSUME NEW s \in Seq(Slots), Len(s) <= MaxSlots, NEW n \in Names, NEW f \in DirFiles \cup {NoFile},
           Entry(s, n) = {}, Gaps(s, Size[n]) = {}, FreeBeforeMarker(s) = 0, Marker(s) <= MaxSlots
    PROVE  LET r == AddEntry(s, n, f) IN EntryAdded(s, r.slots, n, f, r.ok, r.dataEnd)
  <1> DEFINE K == Marker(s)
             e == K + Size[n] - 1
             ok == e + 1 <= MaxSlots
             g == Grown(s, IF ok THEN e + 1 ELSE MaxSlots)
             u == [i \in DOMAIN g |-> IF K < i /\ i <= e + 1 THEN Last ELSE g[i]]
             t == IF ok THEN Filled(u, n, f, K, e) ELSE u
  <1>0. /\ Len(s) \in Nat /\ DOMAIN s = 1 .. Len(s) /\ Size[n] \in Nat /\ Size[n] >= 1
        /\ K \in 1 .. Len(s) + 1 /\ Limit(s, K) /\ K <= MaxSlots /\ MaxSlots \in Nat
    BY SlotsAre, SizeIs, MarkerIs, DirectoryAssumption DEF Limit, MaxSlots
  <1>1. AddEntry(s, n, f) = [ok |-> ok, dataStart |-> K, dataEnd |-> e, slots |-> t]
    <2>1. K + Size[n] - FreeBeforeMarker(s) - 1 = e
      BY <1>0
    <2>2. FindEntryGap(s, Size[n]) = [ok |-> ok, dataStart |-> K, dataEnd |-> e, slots |-> u]
      BY <2>1 DEF FindEntryGap, GapAtEnd
    <2> HIDE DEF K, ok, u
    <2> QED
      BY <2>2 DEF AddEntry, Filled
  <1>2. K \in Nat /\ e \in Nat /\ K <= e /\ 1 <= K
    BY <1>0
  <1>3. /\ g \in Seq(Slots) /\ Len(g) \in Nat /\ Len(s) <= Len(g) /\ Len(g) <= MaxSlots /\ DOMAIN g = 1 .. Len(g)
        /\ K <= Len(g) /\ (ok => e + 1 <= Len(g))
        /\ \A i \in 1 .. Len(g) : g[i] = SlotAt(s, i)
    <2> DEFINE w == IF ok THEN e + 1 ELSE MaxSlots
    <2>1. w \in Nat /\ w <= MaxSlots /\ K <= w /\ (ok => e + 1 <= w)
      BY <1>0, <1>2
    <2>2. g = Grown(s, w)
      OBVIOUS
    <2> HIDE DEF w, g, ok, e, K
    <2> QED
      BY <1>2, <2>1, <2>2, <1>0, GrownIs
  <1> HIDE DEF g
  <1>4. /\ u \in Seq(Slots) /\ Len(u) = Len(g)
        /\ \A i \in 1 .. Len(g) : u[i] = IF K < i /\ i <= e + 1 THEN Last ELSE SlotAt(s, i)
    <2>1. u \in [1 .. Len(g) -> Slots]
      BY <1>3, Kinds, SlotsAre
    <2>2. u \in Seq(Slots) /\ Len(u) = Len(g)
      <3> HIDE DEF u
      <3> QED
        BY <1>3, <2>1, SlotsOf
    <2> QED
      BY <1>3, <2>2
  <1>5. \A i \in 1 .. K - 1 : i \in 1 .. Len(g) /\ u[i] = s[i] /\ s[i] # Last
    BY <1>0, <1>2, <1>3, <1>4 DEF SlotAt, Limit
  <1>6. u[K] = Last
    BY <1>0, <1>2, <1>3, <1>4 DEF SlotAt, Limit
  <1> HIDE DEF u, K
  <1>7. CASE ok
    <2>1. t = Filled(u, n, f, K, e)
      BY <1>7
    <2> HIDE DEF t, ok
    <2>2. /\ t \in Seq(Slots) /\ Len(t) = Len(g)
          /\ \A i \in 1 .. Len(g) : i < K \/ e < i => t[i] = u[i]
          /\ \A i \in 1 .. Len(g) : K <= i /\ i < e => t[i] = Piece(n, e - i + 1)
          /\ t[e] = Alias(n, f)
          /\ \A i \in 1 .. Len(g) : K <= i /\ i <= e => t[i] # Last
      <3>1. e \in 1 .. Len(u)
        BY <1>2, <1>3, <1>4, <1>7
      <3> HIDE DEF e, t
      <3>2. EntryFilled(u, n, f, K, e, t)
        BY <1>2, <1>4, <2>1, FilledIs
      <3>3. Len(u) = Len(g) /\ K <= e
        BY <1>2, <1>4
      <3> QED
        BY <3>1, <3>2, <3>3 DEF EntryFilled
    <2>3. e + 1 \in 1 .. Len(g) /\ u[e + 1] = Last /\ t[e + 1] = Last
      <3>1. e + 1 \in 1 .. Len(g)
        BY <1>2, <1>3, <1>7 DEF ok
      <3> HIDE DEF e
      <3>2. u[e + 1] = Last
        BY <1>2, <1>4, <3>1
      <3> QED
        BY <1>2, <2>2, <3>1, <3>2
    <2>4. Limit(t, e + 1)
      <3> HIDE DEF e
      <3>1. ASSUME NEW j \in 1 .. e PROVE t[j] # Last
        <4>1. j \in 1 .. Len(g)
          BY <1>2, <1>3, <2>3
        <4>2. CASE j < K
          BY <1>2, <1>5, <2>2, <4>1, <4>2
        <4>3. CASE K <= j
          <5>1. K <= j /\ j <= e
            BY <1>2, <4>3
          <5> QED
            BY <2>2, <4>1, <5>1
        <4> QED
          BY <1>2, <4>2, <4>3
      <3> QED
        BY <1>2, <1>3, <2>2, <2>3, <3>1 DEF Limit
    <2>5. Adds(s, t, K, e + 1, n, f, K, e)
      <3>1. e + 1 = K + Size[n]
        BY <1>0, <1>2
      <3> HIDE DEF e
      <3>2. ASSUME NEW i \in 1 .. e, i \notin K .. e PROVE i < K /\ t[i] = s[i]
        <4>1. i \in 1 .. K - 1 /\ i < K
          BY <1>2, <3>2
        <4> QED
          BY <1>5, <2>2, <4>1
      <3>3. ASSUME NEW i \in K .. e - 1 PROVE t[i] = Piece(n, e - i + 1)
        <4>1. i \in 1 .. Len(g) /\ K <= i /\ i < e
          BY <1>2, <1>3, <2>3, <3>3
        <4> QED
          BY <2>2, <4>1
      <3> QED
        BY <1>2, <2>2, <3>1, <3>2, <3>3 DEF Adds
    <2>6. Entry(t, n) = {e} /\ t[e].file = f /\ \A m \in Names \ {n} : SameEntry(s, t, m)
      <3> DEFINE L == e + 1
      <3>0. Limit(t, L) /\ Adds(s, t, K, L, n, f, K, e)
        BY <2>4, <2>5
      <3> HIDE DEF e, L
      <3>1. Entry(t, n) = {e} /\ t[e].file = f
        <4>1. s \in Seq(Slots) /\ t \in Seq(Slots) /\ Limit(s, K) /\ n \in Names /\ f \in DirFiles \cup {NoFile} /\ Entry(s, n) = {}
          BY <1>0, <2>2
        <4> QED
          BY <3>0, <4>1, AddedEntry
      <3>2. ASSUME NEW m \in Names \ {n} PROVE SameEntry(s, t, m)
        BY <1>0, <2>2, <3>0, <3>2, AddedOthers
      <3> QED
        BY <3>1, <3>2
    <2>7. e \in 1 .. MaxSlots
      BY <1>0, <1>2, <1>7 DEF ok
    <2> QED
      BY <1>1, <1>3, <1>7, <2>2, <2>6, <2>7 DEF EntryAdded
  <1>8. CASE ~ok
    <2>1. t = u
      BY <1>8
    <2> HIDE DEF t, ok
    <2>2. Limit(u, K)
      BY <1>0, <1>2, <1>3, <1>4, <1>5, <1>6 DEF Limit
    <2>3. \A m \in Names : SameEntry(s, u, m)
      BY <1>0, <1>4, <1>5, <2>2, NothingAdded
    <2>4. Entry(u, n) = {}
      BY <2>3 DEF SameEntry
    <2>5. AddEntry(s, n, f).slots = u /\ AddEntry(s, n, f).ok = FALSE
      BY <1>1, <1>8, <2>1
    <2> HIDE DEF e
    <2> QED
      BY <1>3, <1>4, <2>3, <2>4, <2>5 DEF EntryAdded
  <1> QED
    BY <1>7, <1>8

-----------------------------------------------------------------------------
(* Either way the new entry is found and the others stay. *)
LEMMA AddedIs ==
    ASSUME NEW s \in Seq(Slots), Len(s) <= MaxSlots, NEW n \in Names, NEW f \in DirFiles \cup {NoFile},
           Entry(s, n) = {}, Gaps(s, Size[n]) # {} \/ (FreeBeforeMarker(s) = 0 /\ Marker(s) <= MaxSlots)
    PROVE  LET r == AddEntry(s, n, f) IN EntryAdded(s, r.slots, n, f, r.ok, r.dataEnd)
  BY AddedToGap, AddedAtEnd

(* An open file knows the place of its entry. *)
OpenInv == \A f \in DirFiles : openAs[f] # NoName => dirEntry[f] \in Entry(slots, openAs[f])

(* What a listing has not shown yet is still in front of it. *)
Upcoming(n) ==
    /\ iter.inUse /\ iter.validEntry
    /\ \A i \in Entry(slots, n) : i > iter.dataEnd \/ (i = iter.dataEnd /\ iter.name = n)

ListInv ==
    /\ steady \subseteq Listed(slots)
    /\ \A n \in steady \ seen : Upcoming(n)

DirInv == SlotsTypeOK /\ NamesUnique /\ OpenInv /\ ListInv

(* The entry of a name, when names are unique. *)
LEMMA EntryOne ==
    ASSUME NEW s, Unique(s), NEW n \in Names, NEW e, e \in Entry(s, n)
    PROVE  Entry(s, n) = {e}
  <1>1. \A i \in Entry(s, n) : i = e
    BY DEF Unique
  <1> QED
    BY <1>1

(* It is an alias with its long name in front ... *)
LEMMA EntryInside ==
    ASSUME NEW s, NEW n, NEW e, e \in Entry(s, n)
    PROVE  e \in 1 .. Len(s) /\ s[e].name = n /\ s[e].part = 1 /\ HasName(s, e)
  BY DEF Entry, IsAlias

(* ... and the one a search finds. *)
LEMMA EntryFirst ==
    ASSUME NEW s, NEW n, NEW e, Entry(s, n) = {e}, s \in Seq(Slots)
    PROVE  FirstOf(Entry(s, n)) = e /\ e \in 1 .. Len(s) /\ s[e].file \in DirFiles \cup {NoFile}
  <1>1. e \in 1 .. Len(s) /\ e \in Nat
    <2>1. e \in Entry(s, n)
      OBVIOUS
    <2>2. e \in 1 .. Len(s)
      BY <2>1, EntryInside
    <2>3. Len(s) \in Nat
      BY SlotsAre
    <2> QED
      BY <2>2, <2>3
  <1>2. s[e] \in Slots
    BY <1>1, SlotsAre
  <1> QED
    BY <1>1, <1>2, FirstOfOne DEF Slots

(* Nothing but the name n has changed. *)
Others(n) == \A m \in Names \ {n} : SameEntry(slots, slots', m)

(* Creating a file adds its name, which has no file yet, or changes nothing. *)
LEMMA CreateDoes ==
    ASSUME DirInv, ~astray', NEW n \in Names, NEW f \in DirFiles, Create(n, f)
    PROVE  /\ slots' \in Seq(Slots) /\ Len(slots') <= MaxSlots /\ Others(n)
           /\ Entry(slots, n) = {} /\ openAs[f] = NoName /\ \A i \in DOMAIN slots : slots[i].file # f
           /\ UNCHANGED listing /\ result' \in BOOLEAN
           /\ result' => /\ Entry(slots', n) = {dirEntry'[f]} /\ slots'[dirEntry'[f]].file = NoFile
                         /\ openAs' = [openAs EXCEPT ![f] = n]
                         /\ \E e \in 1 .. MaxSlots : dirEntry' = [dirEntry EXCEPT ![f] = e]
           /\ ~result' => Entry(slots', n) = {} /\ UNCHANGED <<openAs, dirEntry>>
  <1> DEFINE r == AddEntry(slots, n, NoFile)
  <1>1. Entry(slots, n) = {} /\ openAs[f] = NoName /\ \A i \in DOMAIN slots : slots[i].file # f
    BY DEF Create, Listed
  <1>2. slots \in Seq(Slots) /\ Len(slots) <= MaxSlots /\ dirEntry \in [DirFiles -> 0 .. MaxSlots]
    BY DEF DirInv, SlotsTypeOK
  <1>3. Gaps(slots, Size[n]) # {} \/ (FreeBeforeMarker(slots) = 0 /\ Marker(slots) <= MaxSlots)
    <2>1. MaxSlots \in Nat /\ Marker(slots) \in Nat
      BY <1>2, MarkerIs, SlotsAre, DirectoryAssumption DEF MaxSlots
    <2>2. /\ Gaps(slots, Size[n]) # {} \/ FreeBeforeMarker(slots) = 0
          /\ Marker(slots) <= MaxSlots \/ Gaps(slots, Size[n]) # {}
      BY DEF Create, Misplaced
    <2>3. ~(Marker(slots) > MaxSlots) <=> Marker(slots) <= MaxSlots
      BY <2>1
    <2> QED
      BY <2>2, <2>3
  <1>4. EntryAdded(slots, r.slots, n, NoFile, r.ok, r.dataEnd)
    <2> HIDE DEF r
    <2>1. r = AddEntry(slots, n, NoFile)
      BY DEF r
    <2> QED
      BY <1>1, <1>2, <1>3, <2>1, AddedIs
  <1>5. /\ slots' = r.slots /\ result' = r.ok /\ UNCHANGED listing
        /\ dirEntry' = IF r.ok THEN [dirEntry EXCEPT ![f] = r.dataEnd] ELSE dirEntry
        /\ openAs' = IF r.ok THEN [openAs EXCEPT ![f] = n] ELSE openAs
    BY DEF Create
  <1> HIDE DEF r
  <1>6. slots' \in Seq(Slots) /\ Len(slots') <= MaxSlots /\ Others(n) /\ r.ok \in BOOLEAN
    BY <1>4, <1>5 DEF EntryAdded, Others
  <1>7. CASE r.ok
    <2>1. dirEntry' = [dirEntry EXCEPT ![f] = r.dataEnd] /\ openAs' = [openAs EXCEPT ![f] = n] /\ result'
      BY <1>5, <1>7
    <2>2. dirEntry'[f] = r.dataEnd
      BY <1>2, <2>1
    <2>3. Entry(slots', n) = {r.dataEnd} /\ slots'[r.dataEnd].file = NoFile /\ r.dataEnd \in 1 .. MaxSlots
      BY <1>4, <1>5, <1>7 DEF EntryAdded
    <2> QED
      BY <1>1, <1>5, <1>6, <2>1, <2>2, <2>3
  <1>8. CASE ~r.ok
    <2>1. dirEntry' = dirEntry /\ openAs' = openAs /\ ~result' /\ Entry(slots', n) = {}
      BY <1>4, <1>5, <1>8 DEF EntryAdded
    <2> QED
      BY <1>1, <1>5, <1>6, <2>1
  <1> QED
    BY <1>7, <1>8

(* Closing a file writes to its own entry and to no other. *)
LEMMA CloseDoes ==
    ASSUME DirInv, NEW f \in DirFiles, Close(f)
    PROVE  LET n == openAs[f] e == dirEntry[f] IN
           /\ n \in Names /\ Entry(slots, n) = {e} /\ slots' \in Seq(Slots) /\ Len(slots') = Len(slots)
           /\ Others(n) /\ Entry(slots', n) = {e} /\ slots'[e].file = f
  <1> DEFINE n == openAs[f]
             e == dirEntry[f]
  <1>1. n \in Names /\ slots \in Seq(Slots) /\ Unique(slots) /\ e \in Entry(slots, n)
    BY DEF Close, DirInv, SlotsTypeOK, NamesUnique, OpenInv
  <1>2. Entry(slots, n) = {e}
    <2> HIDE DEF e, n
    <2> QED
      BY <1>1, EntryOne
  <1>3. slots' = [slots EXCEPT ![e].file = f]
    <2>1. slots[e].name \in Names /\ NoName \notin Names
      BY <1>1, EntryInside, DirectoryAssumption
    <2>2. slots[e] \notin {FreeSlot, Last}
      BY <2>1 DEF FreeSlot, Last
    <2> QED
      BY <2>2 DEF Close
  <1> HIDE DEF e, n
  <1>4. Len(slots) \in Nat /\ DOMAIN slots = 1 .. Len(slots) /\ e \in 1 .. Len(slots) /\ slots[e].name = n /\ slots[e].part = 1
    BY <1>1, SlotsAre, EntryInside
  <1>5. \A i \in 1 .. Len(slots) : slots[i] \in Slots
    BY <1>1, SlotsAre
  <1>6. /\ slots' = [i \in 1 .. Len(slots) |-> slots'[i]]
        /\ \A i \in 1 .. Len(slots) : i # e => slots'[i] = slots[i]
        /\ slots'[e] = [slots[e] EXCEPT !.file = f]
    BY <1>1, <1>3, <1>4
  <1>7. slots'[e] \in Slots /\ slots'[e].name = n /\ slots'[e].part = 1 /\ slots'[e].file = f
    BY <1>4, <1>5, <1>6 DEF Slots
  <1>8. slots' \in Seq(Slots) /\ Len(slots') = Len(slots) /\ DOMAIN slots' = 1 .. Len(slots)
    <2>1. \A i \in 1 .. Len(slots) : slots'[i] \in Slots
      BY <1>5, <1>6, <1>7
    <2>2. slots' \in [1 .. Len(slots) -> Slots]
      BY <1>6, <2>1
    <2> QED
      BY <1>4, <2>2, SlotsOf
  <1>9. \A i \in 1 .. Len(slots) : InUse(slots', i) <=> InUse(slots, i)
    <2>1. slots[e] # Last /\ slots'[e] # Last
      BY <1>4, <1>7, DirectoryAssumption DEF Last
    <2>2. \A i \in 1 .. Len(slots) : slots'[i] # Last <=> slots[i] # Last
      BY <1>6, <2>1
    <2> QED
      BY <1>4, <2>2 DEF InUse
  <1>10. ASSUME NEW m \in Names, NEW i \in 1 .. Len(slots), slots[i].name = m
         PROVE  HasName(slots', i) <=> HasName(slots, i)
    <2>1. slots'[i].name = m
      BY <1>4, <1>6, <1>7, <1>10
    <2>2. ASSUME NEW k \in 2 .. Size[m], i - k + 1 >= 1
          PROVE  slots'[i - k + 1] = Piece(m, k) <=> slots[i - k + 1] = Piece(m, k)
      <3>1. i - k + 1 \in 1 .. Len(slots) /\ k # 1
        BY <1>4, <2>2, SizeIs
      <3>2. CASE i - k + 1 = e
        BY <1>4, <1>7, <3>1, <3>2, PieceIs
      <3>3. CASE i - k + 1 # e
        BY <1>6, <3>1, <3>3
      <3> QED
        BY <3>2, <3>3
    <2>3. HasName(slots, i) <=> \A k \in 2 .. Size[m] : i - k + 1 >= 1 /\ slots[i - k + 1] = Piece(m, k)
      BY <1>10, HasNameIs
    <2>4. HasName(slots', i) <=> \A k \in 2 .. Size[m] : i - k + 1 >= 1 /\ slots'[i - k + 1] = Piece(m, k)
      BY <2>1, HasNameIs
    <2> QED
      BY <2>2, <2>3, <2>4
  <1>11. ASSUME NEW m \in Names PROVE Entry(slots', m) = Entry(slots, m)
    <2>1. \A i \in 1 .. Len(slots) : slots'[i].name = slots[i].name /\ slots'[i].part = slots[i].part
      BY <1>4, <1>6, <1>7
    <2>2. \A i \in 1 .. Len(slots) : slots[i].name = m => (HasName(slots', i) <=> HasName(slots, i))
      BY <1>10
    <2> QED
      BY <1>8, <1>9, <2>1, <2>2 DEF Entry, IsAlias
  <1>12. Others(n)
    <2> SUFFICES ASSUME NEW m \in Names \ {n} PROVE SameEntry(slots, slots', m)
      BY DEF Others
    <2>1. ASSUME NEW i \in Entry(slots, m) PROVE i \in DOMAIN slots' /\ slots'[i].file = slots[i].file
      <3>1. i \in 1 .. Len(slots) /\ i # e
        BY <1>4, EntryInside
      <3> QED
        BY <1>6, <1>8, <3>1
    <2> QED
      BY <1>11, <2>1 DEF SameEntry
  <1>13. Entry(slots', n) = {e}
    BY <1>1, <1>2, <1>11
  <1> QED
    BY <1>1, <1>2, <1>7, <1>8, <1>12, <1>13 DEF n, e

(* Removing a file takes its name away. *)
LEMMA UnlinkDoes ==
    ASSUME DirInv, ~astray', NEW n \in Names, UnlinkFile(n)
    PROVE  /\ slots' \in Seq(Slots) /\ Len(slots') = Len(slots) /\ Others(n)
           /\ Entry(slots, n) # {} /\ Entry(slots', n) = {} /\ result' \in BOOLEAN
           /\ \A f \in DirFiles : openAs[f] # n
           /\ steady' = steady \ {n} /\ UNCHANGED <<dirEntry, openAs, iter, seen>>
  <1>1. Entry(slots, n) # {} /\ slots \in Seq(Slots) /\ Unique(slots)
    BY DEF UnlinkFile, Listed, DirInv, SlotsTypeOK, NamesUnique
  <1>2. PICK e : Entry(slots, n) = {e}
    BY <1>1, EntryOne
  <1>3. slots' = RemoveEntry(slots, n).slots /\ result' = RemoveEntry(slots, n).ok
    BY DEF UnlinkFile
  <1>4. \A f \in DirFiles : openAs[f] # n
    BY DEF UnlinkFile, ChangedOpen
  <1>5. /\ slots' \in Seq(Slots) /\ Len(slots') = Len(slots) /\ result' \in BOOLEAN
        /\ Entry(slots', n) = {} /\ Others(n)
    BY <1>1, <1>2, <1>3, Removed DEF Others
  <1> QED
    BY <1>1, <1>4, <1>5 DEF UnlinkFile

(* What two steps keep, both together keep. *)
LEMMA SameAgain ==
    ASSUME NEW s, NEW t, NEW u, NEW m, SameEntry(s, t, m), SameEntry(t, u, m)
    PROVE  SameEntry(s, u, m)
  BY DEF SameEntry

(* The new name has the file of the old one; if there is no room for it    *)
(* nothing has changed.                                                    *)
LEMMA RenameDoes ==
    ASSUME DirInv, ~astray', NEW n \in Names, NEW m \in Names, Rename(n, m)
    PROVE  /\ slots' \in Seq(Slots) /\ Len(slots') <= MaxSlots /\ result' \in BOOLEAN
           /\ n # m /\ Entry(slots, m) = {} /\ \A f \in DirFiles : openAs[f] # n
           /\ \A k \in Names \ {n, m} : SameEntry(slots, slots', k)
           /\ UNCHANGED <<dirEntry, openAs, iter, seen>>
           /\ \E e : Entry(slots, n) = {e} /\
                \/ /\ Entry(slots', n) = {} /\ steady' = steady \ {n}
                   /\ \E p : Entry(slots', m) = {p} /\ slots'[p].file = slots[e].file
                \/ /\ SameEntry(slots, slots', n) /\ Entry(slots', m) = {} /\ steady' = steady
  <1>1. /\ Entry(slots, n) # {} /\ Entry(slots, m) = {} /\ slots \in Seq(Slots) /\ Len(slots) <= MaxSlots
        /\ Unique(slots) /\ n # m
    BY DEF Rename, Listed, DirInv, SlotsTypeOK, NamesUnique
  <1>2. PICK e : Entry(slots, n) = {e}
    BY <1>1, EntryOne
  <1>3. FirstOf(Entry(slots, n)) = e /\ slots[e].file \in DirFiles \cup {NoFile}
    BY <1>1, <1>2, EntryFirst
  <1> DEFINE owner == slots[e].file
             r == AddEntry(slots, m, owner)
             t == r.slots
             w == RemoveEntry(t, n)
  <1>4. Gaps(slots, Size[m]) # {} \/ (FreeBeforeMarker(slots) = 0 /\ Marker(slots) <= MaxSlots)
    <2>1. MaxSlots \in Nat /\ Marker(slots) \in Nat
      BY <1>1, MarkerIs, SlotsAre, DirectoryAssumption DEF MaxSlots
    <2>2. /\ Gaps(slots, Size[m]) # {} \/ FreeBeforeMarker(slots) = 0
          /\ Marker(slots) <= MaxSlots \/ Gaps(slots, Size[m]) # {}
      BY DEF Rename, Misplaced
    <2>3. ~(Marker(slots) > MaxSlots) <=> Marker(slots) <= MaxSlots
      BY <2>1
    <2> QED
      BY <2>2, <2>3
  <1>5. EntryAdded(slots, t, m, owner, r.ok, r.dataEnd)
    <2> HIDE DEF owner
    <2>1. owner \in DirFiles \cup {NoFile}
      BY <1>3 DEF owner
    <2> QED
      BY <1>1, <1>4, <2>1, AddedIs
  <1>6. /\ slots' = IF r.ok THEN w.slots ELSE t
        /\ result' = (r.ok /\ w.ok)
        /\ steady' = IF r.ok THEN steady \ {n} ELSE steady
        /\ UNCHANGED <<dirEntry, openAs, iter, seen>>
    BY <1>3 DEF Rename
  <1>7. \A f \in DirFiles : openAs[f] # n
    BY DEF Rename, ChangedOpen
  <1> HIDE DEF r, t, owner
  <1>8. /\ t \in Seq(Slots) /\ Len(t) <= MaxSlots /\ r.ok \in BOOLEAN
        /\ \A k \in Names \ {m} : SameEntry(slots, t, k)
    BY <1>5 DEF EntryAdded
  <1>9. Entry(t, n) = {e} /\ t[e].file = owner
    BY <1>1, <1>2, <1>8 DEF SameEntry, owner
  <1>10. CASE r.ok
    <2>2. /\ w.slots \in Seq(Slots) /\ Len(w.slots) = Len(t) /\ w.ok \in BOOLEAN
          /\ Entry(w.slots, n) = {} /\ \A k \in Names \ {n} : SameEntry(t, w.slots, k)
      BY <1>8, <1>9, Removed
    <2> HIDE DEF w
    <2>1. slots' = w.slots /\ result' = w.ok /\ steady' = steady \ {n}
      BY <1>6, <1>10, <2>2
    <2>3. Entry(t, m) = {r.dataEnd} /\ t[r.dataEnd].file = owner
      BY <1>5, <1>10 DEF EntryAdded
    <2>4. SameEntry(t, slots', m)
      BY <1>1, <2>1, <2>2
    <2>5. Entry(slots', m) = {r.dataEnd} /\ slots'[r.dataEnd].file = owner
      BY <2>3, <2>4 DEF SameEntry
    <2>6. \A k \in Names \ {n, m} : SameEntry(slots, slots', k)
      BY <1>8, <2>1, <2>2, SameAgain
    <2>7. slots' \in Seq(Slots) /\ Len(slots') <= MaxSlots /\ result' \in BOOLEAN /\ Entry(slots', n) = {}
      BY <1>8, <2>1, <2>2
    <2> QED
      BY <1>1, <1>2, <1>6, <1>7, <2>1, <2>5, <2>6, <2>7 DEF owner
  <1>11. CASE ~r.ok
    <2>1. slots' = t /\ result' = FALSE /\ steady' = steady
      BY <1>6, <1>11
    <2>2. Entry(t, m) = {}
      BY <1>5, <1>11 DEF EntryAdded
    <2>3. SameEntry(slots, slots', n) /\ \A k \in Names \ {n, m} : SameEntry(slots, slots', k)
      BY <1>1, <1>8, <2>1
    <2> QED
      BY <1>1, <1>2, <1>6, <1>7, <1>8, <2>1, <2>2, <2>3
  <1> QED
    BY <1>10, <1>11

(* A listing goes to the next entry: none is passed over. *)
LEMMA NextEntryIs ==
    ASSUME SlotsTypeOK, NEW d \in Nat
    PROVE  LET next == NextEntry(d) IN
           /\ next \in [inUse : BOOLEAN, validEntry : BOOLEAN, dataEnd : 0 .. MaxSlots, name : Names \cup {NoName}]
           /\ next.inUse
           /\ \A n \in Names : \A i \in Entry(slots, n) : i > d =>
                 next.validEntry /\ (i > next.dataEnd \/ (i = next.dataEnd /\ next.name = n))
  <1> DEFINE next == NextEntry(d)
             found == EntriesAfter(slots, d)
             p == FirstOf(found)
  <1>1. /\ slots \in Seq(Slots) /\ Len(slots) \in Nat /\ Len(slots) <= MaxSlots /\ MaxSlots \in Nat
        /\ \A i \in 1 .. Len(slots) : slots[i] \in Slots
    BY SlotsAre, DirectoryAssumption DEF SlotsTypeOK, MaxSlots
  <1>2. found \subseteq (d + 1) .. Len(slots)
    BY DEF EntriesAfter
  <1>3. ASSUME NEW n \in Names, NEW i \in Entry(slots, n), i > d PROVE i \in found /\ HasName(slots, i) /\ slots[i].name = n
    BY <1>3 DEF Entry, EntriesAfter
  <1>4. CASE found = {}
    <2>1. next = [NoEntry EXCEPT !.inUse = TRUE]
      BY <1>4 DEF NextEntry
    <2>2. next = [inUse |-> TRUE, validEntry |-> FALSE, dataEnd |-> 0, name |-> NoName]
      BY <2>1 DEF NoEntry
    <2> HIDE DEF next, found
    <2> QED
      BY <1>1, <1>3, <1>4, <2>2 DEF next
  <1>5. CASE found # {}
    <2> DEFINE name == IF HasName(slots, p) THEN slots[p].name ELSE NoName
    <2>1. next = [inUse |-> TRUE, validEntry |-> TRUE, dataEnd |-> p, name |-> name]
      BY <1>5 DEF NextEntry
    <2>2. found \in SUBSET Nat
      BY <1>1, <1>2
    <2>3. p \in found /\ \A i \in found : p <= i
      <3> HIDE DEF found
      <3> QED
        BY <1>5, <2>2, FirstIn
    <2>4. p \in 1 .. Len(slots)
      BY <1>1, <1>2, <2>3
    <2> HIDE DEF p, found
    <2>5. name \in Names \cup {NoName}
      BY <1>1, <2>4 DEF Slots
    <2>6. ASSUME NEW n \in Names, NEW i \in Entry(slots, n), i > d PROVE i > p \/ (i = p /\ name = n)
      <3>1. i \in found /\ HasName(slots, i) /\ slots[i].name = n
        BY <1>3, <2>6
      <3>2. p <= i /\ i \in Nat
        BY <2>2, <2>3, <3>1
      <3>3. CASE i = p
        BY <3>1, <3>3
      <3>4. CASE i # p
        BY <2>4, <3>2, <3>4
      <3> QED
        BY <3>3, <3>4
    <2> HIDE DEF next, name
    <2>7. next.inUse /\ next.validEntry /\ next.dataEnd = p /\ next.name = name
      BY <2>1
    <2>8. next \in [inUse : BOOLEAN, validEntry : BOOLEAN, dataEnd : 0 .. MaxSlots, name : Names \cup {NoName}]
      BY <1>1, <2>1, <2>4, <2>5
    <2> QED
      BY <2>6, <2>7, <2>8 DEF next
  <1> QED
    BY <1>4, <1>5

-----------------------------------------------------------------------------
(* Names stay unique if those that changed have one entry at most. *)
LEMMA UniqueKept ==
    ASSUME NEW s, NEW t, Unique(s), NEW N, \A m \in Names \ N : SameEntry(s, t, m),
           \A n \in N : Entry(t, n) = {} \/ \E p : Entry(t, n) = {p}
    PROVE  Unique(t)
  <1> SUFFICES ASSUME NEW m \in Names, NEW i \in Entry(t, m), NEW j \in Entry(t, m) PROVE i = j
    BY DEF Unique
  <1>1. CASE m \in N
    BY <1>1
  <1>2. CASE m \notin N
    BY <1>2 DEF SameEntry, Unique
  <1> QED
    BY <1>1, <1>2

(* Open files and listings do not mind changes to other names. *)
LEMMA OpenKept ==
    ASSUME OpenInv, UNCHANGED <<dirEntry, openAs>>,
           \A f \in DirFiles : openAs[f] # NoName => Entry(slots', openAs[f]) = Entry(slots, openAs[f])
    PROVE  OpenInv'
  BY DEF OpenInv

LEMMA ListKept ==
    ASSUME ListInv, UNCHANGED <<iter, seen>>, steady' \subseteq steady,
           \A m \in steady' : Entry(slots', m) = Entry(slots, m)
    PROVE  ListInv'
  <1>1. steady' \subseteq Listed(slots')
    BY DEF ListInv, Listed
  <1>2. ASSUME NEW n \in (steady \ seen)' PROVE Upcoming(n)'
    <2>1. Upcoming(n)
      BY <1>2 DEF ListInv
    <2>2. Entry(slots', n) = Entry(slots, n)
      BY <1>2
    <2> QED
      BY <2>1, <2>2 DEF Upcoming
  <1> QED
    BY <1>1, <1>2 DEF ListInv

(* A volume that is mounted has each name once. *)
LEMMA DirInit == DirectoryInit => DirInv
  <1> SUFFICES ASSUME DirectoryInit PROVE DirInv
    OBVIOUS
  <1>1. slots \in Directories /\ slots \in Seq(Slots) /\ Len(slots) <= MaxSlots /\ MaxSlots \in Nat
    <2>1. slots \in Directories
      BY DEF DirectoryInit
    <2>2. SlotsPerCluster * MaxClusters \in Nat
      BY DirectoryAssumption
    <2>3. Len(slots) \in 1 .. MaxSlots
      BY <2>1, DirectoryAssumption
    <2> QED
      BY <2>1, <2>2, <2>3, DirectoryAssumption DEF MaxSlots
  <1>2. SlotsTypeOK
    BY <1>1 DEF DirectoryInit, SlotsTypeOK, NoEntry
  <1>3. NamesUnique
    BY <1>1, VolumesAssumption DEF NamesUnique
  <1>4. OpenInv /\ ListInv
    BY DEF DirectoryInit, OpenInv, ListInv
  <1> QED
    BY <1>2, <1>3, <1>4 DEF DirInv

(* Each call keeps the invariant. *)
LEMMA CreateKeeps ==
    ASSUME DirInv, ~astray', NEW n \in Names, NEW f \in DirFiles, Create(n, f) PROVE DirInv'
  <1>1. /\ slots' \in Seq(Slots) /\ Len(slots') <= MaxSlots /\ Others(n)
        /\ Entry(slots, n) = {} /\ openAs[f] = NoName
        /\ UNCHANGED listing /\ result' \in BOOLEAN
        /\ result' => /\ Entry(slots', n) = {dirEntry'[f]}
                      /\ openAs' = [openAs EXCEPT ![f] = n]
                      /\ \E e \in 1 .. MaxSlots : dirEntry' = [dirEntry EXCEPT ![f] = e]
        /\ ~result' => Entry(slots', n) = {} /\ UNCHANGED <<openAs, dirEntry>>
    BY CreateDoes
  <1>2. SlotsTypeOK'
    <2>1. dirEntry' \in [DirFiles -> 0 .. MaxSlots] /\ openAs' \in [DirFiles -> Names \cup {NoName}]
      <3>1. dirEntry \in [DirFiles -> 0 .. MaxSlots] /\ openAs \in [DirFiles -> Names \cup {NoName}]
        BY DEF DirInv, SlotsTypeOK
      <3>2. CASE result'
        <4>1. PICK e \in 1 .. MaxSlots : dirEntry' = [dirEntry EXCEPT ![f] = e]
          BY <1>1, <3>2
        <4>2. e \in 0 .. MaxSlots
          BY DirectoryAssumption DEF MaxSlots
        <4> QED
          BY <1>1, <3>1, <3>2, <4>1, <4>2
      <3>3. CASE ~result'
        BY <1>1, <3>1, <3>3
      <3> QED
        BY <3>2, <3>3
    <2> QED
      BY <1>1, <2>1 DEF DirInv, SlotsTypeOK, listing
  <1>3. NamesUnique'
    <2>1. \A k \in {n} : Entry(slots', k) = {} \/ \E p : Entry(slots', k) = {p}
      BY <1>1
    <2>2. Unique(slots)
      BY DEF DirInv, NamesUnique
    <2> QED
      BY <1>1, <2>1, <2>2, UniqueKept DEF NamesUnique, Others
  <1>4. \A m \in Names : Entry(slots, m) # {} => Entry(slots', m) = Entry(slots, m)
    BY <1>1 DEF Others, SameEntry
  <1>5. OpenInv'
    <2> SUFFICES ASSUME NEW g \in DirFiles, openAs'[g] # NoName PROVE dirEntry'[g] \in Entry(slots', openAs'[g])
      BY DEF OpenInv
    <2>0. openAs \in [DirFiles -> Names \cup {NoName}] /\ dirEntry \in [DirFiles -> 0 .. MaxSlots]
      BY DEF DirInv, SlotsTypeOK
    <2>1. CASE result' /\ g = f
      BY <1>1, <2>0, <2>1
    <2>2. CASE ~(result' /\ g = f)
      <3>1. openAs'[g] = openAs[g] /\ dirEntry'[g] = dirEntry[g]
        BY <1>1, <2>0, <2>2
      <3>2. openAs[g] \in Names /\ dirEntry[g] \in Entry(slots, openAs[g])
        BY <2>0, <3>1 DEF DirInv, OpenInv
      <3> QED
        BY <1>4, <3>1, <3>2
    <2> QED
      BY <2>1, <2>2
  <1>6. ListInv'
    <2>1. UNCHANGED <<iter, steady, seen>> /\ ListInv
      BY <1>1 DEF listing, DirInv
    <2>2. \A m \in steady' : Entry(slots', m) = Entry(slots, m)
      BY <1>4, <2>1 DEF ListInv, Listed
    <2> QED
      BY <2>1, <2>2, ListKept
  <1> QED
    BY <1>2, <1>3, <1>5, <1>6 DEF DirInv

LEMMA CloseKeeps == ASSUME DirInv, NEW f \in DirFiles, Close(f) PROVE DirInv'
  <1> DEFINE n == openAs[f]
             e == dirEntry[f]
  <1>1. /\ n \in Names /\ Entry(slots, n) = {e} /\ slots' \in Seq(Slots) /\ Len(slots') = Len(slots)
        /\ Others(n) /\ Entry(slots', n) = {e} /\ slots'[e].file = f
    BY CloseDoes
  <1>2. /\ openAs \in [DirFiles -> Names \cup {NoName}] /\ dirEntry \in [DirFiles -> 0 .. MaxSlots]
        /\ dirEntry' = [dirEntry EXCEPT ![f] = 0] /\ openAs' = [openAs EXCEPT ![f] = NoName]
        /\ UNCHANGED listing /\ result' = TRUE /\ MaxSlots \in Nat
    BY DirectoryAssumption DEF DirInv, SlotsTypeOK, Close, MaxSlots
  <1> HIDE DEF n, e
  <1>3. \A m \in Names : Entry(slots', m) = Entry(slots, m)
    BY <1>1 DEF Others, SameEntry
  <1>4. SlotsTypeOK'
    BY <1>1, <1>2 DEF DirInv, SlotsTypeOK, listing
  <1>5. NamesUnique'
    BY <1>3 DEF NamesUnique, Unique, DirInv
  <1>6. OpenInv'
    <2> SUFFICES ASSUME NEW g \in DirFiles, openAs'[g] # NoName PROVE dirEntry'[g] \in Entry(slots', openAs'[g])
      BY DEF OpenInv
    <2>1. openAs'[g] = openAs[g] /\ dirEntry'[g] = dirEntry[g] /\ openAs[g] \in Names
      BY <1>2
    <2>2. dirEntry[g] \in Entry(slots, openAs[g])
      BY <2>1 DEF DirInv, OpenInv
    <2> QED
      BY <1>3, <2>1, <2>2
  <1>7. ListInv'
    <2>1. UNCHANGED <<iter, steady, seen>> /\ ListInv /\ steady \subseteq Names
      BY <1>2 DEF listing, DirInv, SlotsTypeOK
    <2> QED
      BY <1>3, <2>1, ListKept
  <1> QED
    BY <1>4, <1>5, <1>6, <1>7 DEF DirInv

LEMMA UnlinkKeeps == ASSUME DirInv, ~astray', NEW n \in Names, UnlinkFile(n) PROVE DirInv'
  <1>1. /\ slots' \in Seq(Slots) /\ Len(slots') = Len(slots) /\ Others(n)
        /\ Entry(slots', n) = {} /\ result' \in BOOLEAN /\ \A f \in DirFiles : openAs[f] # n
        /\ steady' = steady \ {n} /\ UNCHANGED <<dirEntry, openAs, iter, seen>>
    BY UnlinkDoes
  <1>2. \A m \in Names \ {n} : Entry(slots', m) = Entry(slots, m)
    BY <1>1 DEF Others, SameEntry
  <1>3. SlotsTypeOK'
    BY <1>1 DEF DirInv, SlotsTypeOK
  <1>4. NamesUnique'
    <2>1. \A k \in {n} : Entry(slots', k) = {} \/ \E p : Entry(slots', k) = {p}
      BY <1>1
    <2>2. Unique(slots)
      BY DEF DirInv, NamesUnique
    <2> QED
      BY <1>1, <2>1, <2>2, UniqueKept DEF NamesUnique, Others
  <1>5. OpenInv'
    <2>1. \A f \in DirFiles : openAs[f] # NoName => openAs[f] \in Names \ {n}
      BY <1>1 DEF DirInv, SlotsTypeOK
    <2> QED
      BY <1>1, <1>2, <2>1, OpenKept DEF DirInv
  <1>6. ListInv'
    <2>1. steady' \subseteq Names \ {n} /\ steady' \subseteq steady
      BY <1>1 DEF DirInv, SlotsTypeOK
    <2> QED
      BY <1>1, <1>2, <2>1, ListKept DEF DirInv
  <1> QED
    BY <1>3, <1>4, <1>5, <1>6 DEF DirInv

LEMMA RenameKeeps ==
    ASSUME DirInv, ~astray', NEW n \in Names, NEW m \in Names, Rename(n, m) PROVE DirInv'
  <1>1. /\ slots' \in Seq(Slots) /\ Len(slots') <= MaxSlots /\ result' \in BOOLEAN
        /\ n # m /\ Entry(slots, m) = {} /\ \A f \in DirFiles : openAs[f] # n
        /\ \A k \in Names \ {n, m} : SameEntry(slots, slots', k)
        /\ UNCHANGED <<dirEntry, openAs, iter, seen>>
    BY RenameDoes
  <1>2. PICK e : Entry(slots, n) = {e} /\
                \/ /\ Entry(slots', n) = {} /\ steady' = steady \ {n}
                   /\ \E p : Entry(slots', m) = {p} /\ slots'[p].file = slots[e].file
                \/ /\ SameEntry(slots, slots', n) /\ Entry(slots', m) = {} /\ steady' = steady
    BY RenameDoes
  <1>3. \A k \in Names \ {n, m} : Entry(slots', k) = Entry(slots, k)
    BY <1>1 DEF SameEntry
  <1>4. SlotsTypeOK'
    BY <1>1, <1>2 DEF DirInv, SlotsTypeOK
  <1>5. NamesUnique'
    <2>1. Entry(slots', n) = {} \/ Entry(slots', n) = {e}
      BY <1>2 DEF SameEntry
    <2>2. \A k \in {n, m} : Entry(slots', k) = {} \/ \E p : Entry(slots', k) = {p}
      BY <1>2, <2>1
    <2>3. Unique(slots)
      BY DEF DirInv, NamesUnique
    <2> DEFINE N == {n, m}
    <2>4. (\A k \in Names \ N : SameEntry(slots, slots', k)) /\ \A k \in N : Entry(slots', k) = {} \/ \E p : Entry(slots', k) = {p}
      BY <1>1, <2>2
    <2> HIDE DEF N
    <2>5. Unique(slots')
      BY <2>3, <2>4, UniqueKept
    <2> QED
      BY <2>5 DEF NamesUnique
  <1>6. OpenInv'
    <2> SUFFICES ASSUME NEW f \in DirFiles, openAs[f] # NoName PROVE Entry(slots', openAs[f]) = Entry(slots, openAs[f])
      BY <1>1, OpenKept DEF DirInv
    <2>1. openAs[f] \in Names /\ Entry(slots, openAs[f]) # {}
      BY DEF DirInv, SlotsTypeOK, OpenInv
    <2> QED
      BY <1>1, <1>3, <2>1
  <1>7. ListInv'
    <2> SUFFICES ASSUME NEW k \in steady' PROVE steady' \subseteq steady /\ Entry(slots', k) = Entry(slots, k)
      BY <1>1, ListKept DEF DirInv, ListInv, SlotsTypeOK
    <2>1. k \in Names /\ k # m /\ steady' \subseteq steady
      BY <1>1, <1>2 DEF DirInv, ListInv, Listed
    <2>2. CASE k = n
      BY <1>2, <2>2 DEF SameEntry
    <2> QED
      BY <1>3, <2>1, <2>2
  <1> QED
    BY <1>4, <1>5, <1>6, <1>7 DEF DirInv

LEMMA OpenFileKeeps == ASSUME DirInv, NEW n \in Names, NEW f \in DirFiles, OpenFile(n, f) PROVE DirInv'
  <1>1. /\ slots \in Seq(Slots) /\ Unique(slots) /\ Entry(slots, n) # {}
        /\ openAs \in [DirFiles -> Names \cup {NoName}] /\ dirEntry \in [DirFiles -> 0 .. MaxSlots]
        /\ Len(slots) <= MaxSlots /\ MaxSlots \in Nat
    BY DirectoryAssumption DEF DirInv, SlotsTypeOK, NamesUnique, OpenFile, Listed, MaxSlots
  <1>2. PICK e : Entry(slots, n) = {e}
    BY <1>1, EntryOne
  <1>3. FirstOf(Entry(slots, n)) = e /\ e \in 1 .. Len(slots)
    BY <1>1, <1>2, EntryFirst
  <1>4. /\ dirEntry' = [dirEntry EXCEPT ![f] = e] /\ openAs' = [openAs EXCEPT ![f] = n]
        /\ result' = TRUE /\ UNCHANGED <<slots, listing>>
    BY <1>3 DEF OpenFile
  <1>5. SlotsTypeOK'
    <2>1. e \in 0 .. MaxSlots
      BY <1>1, <1>3, SlotsAre
    <2> QED
      BY <1>1, <1>4, <2>1 DEF DirInv, SlotsTypeOK, listing
  <1>6. OpenInv'
    <2> SUFFICES ASSUME NEW g \in DirFiles, openAs'[g] # NoName PROVE dirEntry'[g] \in Entry(slots', openAs'[g])
      BY DEF OpenInv
    <2>1. CASE g = f
      BY <1>1, <1>2, <1>4, <2>1
    <2>2. CASE g # f
      <3>1. openAs'[g] = openAs[g] /\ dirEntry'[g] = dirEntry[g] /\ slots' = slots
        BY <1>1, <1>4, <2>2
      <3> QED
        BY <3>1 DEF DirInv, OpenInv
    <2> QED
      BY <2>1, <2>2
  <1>7. NamesUnique'
    BY <1>4 DEF DirInv, NamesUnique
  <1>8. ListInv'
    <2>1. UNCHANGED <<iter, steady, seen, slots>>
      BY <1>4 DEF listing
    <2> QED
      BY <2>1, ListKept DEF DirInv
  <1> QED
    BY <1>5, <1>6, <1>7, <1>8 DEF DirInv

LEMMA RefusedKeeps == ASSUME DirInv, NEW n \in Names, CreateRefused(n) PROVE DirInv'
  <1>1. UNCHANGED <<slots, dirEntry, openAs, iter, steady, seen>> /\ result' = FALSE
    BY DEF CreateRefused, listing
  <1>2. ListInv'
    BY <1>1, ListKept DEF DirInv
  <1>3. OpenInv'
    BY <1>1, OpenKept DEF DirInv
  <1> QED
    BY <1>1, <1>2, <1>3 DEF DirInv, SlotsTypeOK, NamesUnique

LEMMA DirOpenKeeps == ASSUME DirInv, DirOpen PROVE DirInv'
  <1>1. iter' = NextEntry(0) /\ steady' = Listed(slots) /\ seen' = {} /\ result' = TRUE /\ UNCHANGED <<slots, dirEntry, openAs>>
    BY DEF DirOpen
  <1>2. /\ iter' \in [inUse : BOOLEAN, validEntry : BOOLEAN, dataEnd : 0 .. MaxSlots, name : Names \cup {NoName}]
        /\ iter'.inUse
        /\ \A n \in Names : \A i \in Entry(slots, n) : i > 0 =>
              iter'.validEntry /\ (i > iter'.dataEnd \/ (i = iter'.dataEnd /\ iter'.name = n))
    <2>1. SlotsTypeOK /\ 0 \in Nat
      BY DEF DirInv
    <2> QED
      BY <1>1, <2>1, NextEntryIs
  <1>3. SlotsTypeOK'
    BY <1>1, <1>2 DEF DirInv, SlotsTypeOK, Listed
  <1>4. ListInv'
    <2>1. ASSUME NEW n \in Listed(slots) PROVE Upcoming(n)'
      <3>1. n \in Names /\ Entry(slots, n) # {}
        BY DEF Listed
      <3>2. \A i \in Entry(slots, n) : i > 0
        BY SlotsAre DEF Entry, DirInv, SlotsTypeOK
      <3> QED
        BY <1>1, <1>2, <3>1, <3>2 DEF Upcoming
    <2> QED
      BY <1>1, <2>1 DEF ListInv
  <1>5. OpenInv' /\ NamesUnique'
    BY <1>1, OpenKept DEF DirInv, NamesUnique
  <1> QED
    BY <1>3, <1>4, <1>5 DEF DirInv

LEMMA DirNextKeeps == ASSUME DirInv, DirNext PROVE DirInv'
  <1>1. /\ seen' = seen \cup ({iter.name} \ {NoName}) /\ iter' = NextEntry(iter.dataEnd) /\ result' = TRUE
        /\ UNCHANGED <<slots, dirEntry, openAs, steady>>
    BY DEF DirNext
  <1>2. iter.dataEnd \in Nat /\ iter.name \in Names \cup {NoName}
    BY DirectoryAssumption DEF DirInv, SlotsTypeOK, MaxSlots
  <1>3. /\ iter' \in [inUse : BOOLEAN, validEntry : BOOLEAN, dataEnd : 0 .. MaxSlots, name : Names \cup {NoName}]
        /\ iter'.inUse
        /\ \A n \in Names : \A i \in Entry(slots, n) : i > iter.dataEnd =>
              iter'.validEntry /\ (i > iter'.dataEnd \/ (i = iter'.dataEnd /\ iter'.name = n))
    <2>1. SlotsTypeOK
      BY DEF DirInv
    <2> QED
      BY <1>1, <1>2, <2>1, NextEntryIs
  <1>4. SlotsTypeOK'
    BY <1>1, <1>2, <1>3 DEF DirInv, SlotsTypeOK
  <1>5. ListInv'
    <2>0. steady \subseteq Listed(slots) /\ steady \subseteq Names
      BY DEF DirInv, ListInv, SlotsTypeOK
    <2>1. ASSUME NEW n \in steady, n \notin seen' PROVE Upcoming(n)'
      <3>1. n \in Names /\ n # NoName /\ Entry(slots, n) # {} /\ n # iter.name /\ n \notin seen
        BY <1>1, <1>2, <2>0, <2>1, DirectoryAssumption DEF Listed
      <3>2. \A i \in Entry(slots, n) : i > iter.dataEnd
        BY <3>1 DEF DirInv, ListInv, Upcoming
      <3> QED
        BY <1>1, <1>3, <3>1, <3>2 DEF Upcoming
    <2> QED
      BY <1>1, <2>0, <2>1 DEF ListInv
  <1>6. OpenInv' /\ NamesUnique'
    BY <1>1, OpenKept DEF DirInv, NamesUnique
  <1> QED
    BY <1>4, <1>5, <1>6 DEF DirInv

LEMMA DirCloseKeeps == ASSUME DirInv, DirClose PROVE DirInv'
  <1>1. iter' = NoEntry /\ steady' = {} /\ seen' = {} /\ result' = TRUE /\ UNCHANGED <<slots, dirEntry, openAs>>
    BY DEF DirClose
  <1>2. SlotsTypeOK'
    <2>1. MaxSlots \in Nat
      BY DirectoryAssumption DEF MaxSlots
    <2> QED
      BY <1>1, <2>1 DEF DirInv, SlotsTypeOK, NoEntry
  <1>3. OpenInv' /\ NamesUnique'
    BY <1>1, OpenKept DEF DirInv, NamesUnique
  <1> QED
    BY <1>1, <1>2, <1>3 DEF DirInv, ListInv

LEMMA DirStep == DirInv /\ ~astray' /\ [DirectoryNext]_dirVars => DirInv'
  <1> SUFFICES ASSUME DirInv, ~astray', [DirectoryNext]_dirVars PROVE DirInv'
    OBVIOUS
  <1>1. ASSUME NEW n \in Names, NEW f \in DirFiles, Create(n, f) PROVE DirInv'
    BY <1>1, CreateKeeps
  <1>2. ASSUME NEW n \in Names, NEW f \in DirFiles, OpenFile(n, f) PROVE DirInv'
    BY <1>2, OpenFileKeeps
  <1>3. ASSUME NEW n \in Names, CreateRefused(n) PROVE DirInv'
    BY <1>3, RefusedKeeps
  <1>4. ASSUME NEW n \in Names, UnlinkFile(n) PROVE DirInv'
    BY <1>4, UnlinkKeeps
  <1>5. ASSUME NEW n \in Names, NEW m \in Names, Rename(n, m) PROVE DirInv'
    BY <1>5, RenameKeeps
  <1>6. ASSUME NEW f \in DirFiles, Close(f) PROVE DirInv'
    BY <1>6, CloseKeeps
  <1>7. ASSUME DirOpen \/ DirNext \/ DirClose PROVE DirInv'
    BY <1>7, DirOpenKeeps, DirNextKeeps, DirCloseKeeps
  <1>8. CASE UNCHANGED dirVars
    <2>1. UNCHANGED <<slots, dirEntry, openAs, iter, steady, seen, result>>
      BY <1>8 DEF dirVars, listing
    <2> QED
      BY <2>1, OpenKept, ListKept DEF DirInv, SlotsTypeOK, NamesUnique
  <1> QED
    BY <1>1, <1>2, <1>3, <1>4, <1>5, <1>6, <1>7, <1>8 DEF DirectoryNext

(* What has gone astray stays so. *)
LEMMA AstrayStep ==
    ASSUME [DirectoryNext]_dirVars
    PROVE  (astray => astray') /\ (astray \in BOOLEAN => astray' \in BOOLEAN)
  <1>1. CASE UNCHANGED dirVars
    BY <1>1 DEF dirVars
  <1>2. ASSUME NEW n \in Names, NEW f \in DirFiles, Create(n, f) \/ OpenFile(n, f)
        PROVE  astray' = astray \/ astray' = (astray \/ Misplaced(n))
    BY <1>2 DEF Create, OpenFile
  <1>3. ASSUME NEW n \in Names, CreateRefused(n) \/ UnlinkFile(n)
        PROVE  astray' = astray \/ astray' = (astray \/ ChangedOpen(n))
    BY <1>3 DEF CreateRefused, UnlinkFile
  <1>4. ASSUME NEW n \in Names, NEW m \in Names, Rename(n, m)
        PROVE  astray' = (astray \/ Misplaced(m) \/ ChangedOpen(n))
    BY <1>4 DEF Rename
  <1>5. ASSUME NEW f \in DirFiles, Close(f) PROVE astray' = astray
    BY <1>5 DEF Close
  <1>6. CASE DirOpen \/ DirNext \/ DirClose
    BY <1>6 DEF DirOpen, DirNext, DirClose
  <1> QED
    BY <1>1, <1>2, <1>3, <1>4, <1>5, <1>6 DEF DirectoryNext

(* At every step names are unique, open files know the place of their      *)
(* entry, and a listing has what it has not shown yet in front of it,      *)
(* whichever names there are, how long they are and how large the          *)
(* directory is: as long as no long name goes behind deleted entries at    *)
(* the end marker and no open file is removed or renamed.                  *)
THEOREM DirectoryInvariant == DirectorySpec => [](astray \in BOOLEAN /\ (~astray => DirInv))
  <1> DEFINE Kept == astray \in BOOLEAN /\ (~astray => DirInv)
  <1>1. DirectoryInit => Kept
    BY DirInit DEF DirectoryInit
  <1>2. Kept /\ [DirectoryNext]_dirVars => Kept'
    BY AstrayStep, DirStep
  <1> QED
    BY <1>1, <1>2, PTL DEF DirectorySpec

(* A directory stays one, no name is there twice and a listing that has    *)
(* ended has shown every name that was there all the time, until a long    *)
(* name goes behind deleted entries at the end marker or an open file is   *)
(* removed or renamed.                                                     *)
THEOREM DirectoryIsSound == DirectorySpec => []DirectorySound
  <1>1. DirInv => SlotsTypeOK /\ NamesUnique /\ ListingComplete
    BY DEF DirInv, ListInv, Upcoming, ListingComplete
  <1>2. astray \in BOOLEAN /\ (~astray => DirInv) => DirectorySound
    BY <1>1 DEF DirectorySound
  <1> QED
    BY <1>2, DirectoryInvariant, PTL

(* The place an open file remembers is the alias of its own entry, so that *)
(* _FAT_close_r writes there and nowhere else (fatfile.c:265), under the   *)
(* same condition.                                                         *)
THEOREM PlacesAreKept == DirectorySpec => [](~astray => EndIsAlias /\ OwnEntry)
  <1>1. DirInv => EndIsAlias /\ OwnEntry
    BY DEF DirInv, OpenInv, Entry, IsAlias, EndIsAlias, OwnEntry
  <1> QED
    BY <1>1, DirectoryInvariant, PTL

-----------------------------------------------------------------------------
(* The file of n, in any slots. *)
FileIn(s, n) ==
    IF Entry(s, n) = {} THEN Absent
    ELSE IF s[FirstOf(Entry(s, n))].file = NoFile THEN Unsaved ELSE s[FirstOf(Entry(s, n))].file

(* It is that of the only entry with the name. *)
LEMMA FileInIs ==
    ASSUME NEW s \in Seq(Slots), NEW n, NEW e, Entry(s, n) = {e}
    PROVE  /\ FileIn(s, n) = IF s[e].file = NoFile THEN Unsaved ELSE s[e].file
           /\ FileIn(s, n) # Absent
  <1>1. FirstOf(Entry(s, n)) = e /\ s[e].file \in DirFiles \cup {NoFile}
    BY EntryFirst
  <1>2. FileIn(s, n) = IF s[e].file = NoFile THEN Unsaved ELSE s[e].file
    BY <1>1 DEF FileIn
  <1> QED
    BY <1>1, <1>2, DirectoryAssumption

(* A name that is kept keeps its file. *)
LEMMA SameFile ==
    ASSUME NEW s \in Seq(Slots), NEW t, Unique(s), NEW m \in Names, SameEntry(s, t, m)
    PROVE  FileIn(t, m) = FileIn(s, m)
  <1>1. CASE Entry(s, m) = {}
    BY <1>1 DEF SameEntry, FileIn
  <1>2. CASE Entry(s, m) # {}
    <2>1. PICK e : Entry(s, m) = {e}
      BY <1>2, EntryOne
    <2>2. FirstOf(Entry(s, m)) = e /\ Entry(t, m) = Entry(s, m) /\ t[e].file = s[e].file
      BY <2>1, EntryFirst DEF SameEntry
    <2> QED
      BY <2>2 DEF FileIn
  <1> QED
    BY <1>1, <1>2

(* What the names are mapped to, before and after a step. *)
LEMMA FileOfIs ==
    /\ [n \in Names |-> FileOf(n)] = [n \in Names |-> FileIn(slots, n)]
    /\ [n \in Names |-> FileOf(n)]' = [n \in Names |-> FileIn(slots', n)]
  BY DEF FileOf, FileIn

(* What the table sees. *)
Dir == [n \in Names |-> FileIn(slots, n)]

(* The steps of the table, in terms of Dir. *)
LEMMA TableIs ==
    /\ [k \in Names |-> FileOf(k)] = Dir
    /\ [k \in Names |-> FileOf(k)]' = Dir'
  BY FileOfIs DEF Dir

LEMMA TableFiles ==
    ASSUME NEW n \in Names, NEW f \in DirFiles
    PROVE  /\ Table!Create(n, f) <=>
                 /\ openAs[f] = NoName
                 /\ Dir[n] = Absent /\ \A k \in Names : Dir[k] # f
                 /\ openAs' = [openAs EXCEPT ![f] = n]
                 /\ Dir' = [Dir EXCEPT ![n] = Unsaved]
           /\ Table!Open(n, f) <=>
                 /\ openAs[f] = NoName /\ Dir[n] = f
                 /\ openAs' = [openAs EXCEPT ![f] = n]
                 /\ Dir' = Dir
           /\ Table!Close(n, f) <=>
                 /\ openAs[f] = n
                 /\ openAs' = [openAs EXCEPT ![f] = NoName]
                 /\ Dir' = [Dir EXCEPT ![n] = f]
  BY TableIs DEF Table!Create, Table!Open, Table!Close

LEMMA TableNames ==
    ASSUME NEW n \in Names, NEW m \in Names
    PROVE  /\ Table!List <=> Dir' = Dir /\ openAs' = openAs
           /\ Table!Remove(n) <=>
                 /\ openAs' = openAs /\ \A g \in DirFiles : openAs[g] # n
                 /\ Dir[n] # Absent
                 /\ Dir' = [Dir EXCEPT ![n] = Absent]
           /\ Table!Rename(n, m) <=>
                 /\ openAs' = openAs /\ \A g \in DirFiles : openAs[g] # n
                 /\ Dir[n] # Absent /\ Dir[m] = Absent
                 /\ Dir' = [Dir EXCEPT ![n] = Absent, ![m] = Dir[n]]
  BY TableIs DEF Table!List, Table!vars, Table!Remove, Table!Rename, Table!IsOpen

(* Names that are kept, absent and present. *)
LEMMA DirIs ==
    ASSUME DirInv
    PROVE  /\ slots \in Seq(Slots) /\ Unique(slots)
           /\ \A m \in Names : SameEntry(slots, slots', m) => Dir'[m] = Dir[m]
           /\ \A m \in Names : Entry(slots, m) = {} => Dir[m] = Absent
           /\ \A m \in Names : Entry(slots, m) # {} => Dir[m] # Absent
           /\ \A m \in Names : Entry(slots', m) = {} => Dir'[m] = Absent
           /\ Dir = [m \in Names |-> Dir[m]] /\ Dir' = [m \in Names |-> Dir'[m]]
           /\ DOMAIN Dir = Names /\ DOMAIN Dir' = Names
           /\ \A m \in Names : Dir[m] = FileIn(slots, m) /\ Dir'[m] = FileIn(slots', m)
  <1>1. slots \in Seq(Slots) /\ Unique(slots)
    BY DEF DirInv, SlotsTypeOK, NamesUnique
  <1>2. \A m \in Names : Dir[m] = FileIn(slots, m) /\ Dir'[m] = FileIn(slots', m)
    BY DEF Dir
  <1>3. \A m \in Names : SameEntry(slots, slots', m) => Dir'[m] = Dir[m]
    BY <1>1, <1>2, SameFile
  <1>4. ASSUME NEW m \in Names, Entry(slots, m) # {} PROVE Dir[m] # Absent
    <2>1. PICK e : Entry(slots, m) = {e}
      BY <1>1, <1>4, EntryOne
    <2> QED
      BY <1>1, <1>2, <2>1, FileInIs
  <1>5. \A m \in Names : (Entry(slots, m) = {} => Dir[m] = Absent) /\ (Entry(slots', m) = {} => Dir'[m] = Absent)
    BY <1>2 DEF FileIn
  <1>6. Dir = [m \in Names |-> Dir[m]] /\ Dir' = [m \in Names |-> Dir'[m]] /\ DOMAIN Dir = Names /\ DOMAIN Dir' = Names
    BY DEF Dir
  <1> QED
    BY <1>1, <1>2, <1>3, <1>4, <1>5, <1>6

(* Each call is a step of the table: one that is refused a stutter. *)
LEMMA CreateMaps ==
    ASSUME DirInv, ~astray', NEW n \in Names, NEW f \in DirFiles, Create(n, f)
    PROVE  Table!Create(n, f) \/ Table!List
  <1>1. /\ slots' \in Seq(Slots) /\ Others(n)
        /\ Entry(slots, n) = {} /\ openAs[f] = NoName /\ \A i \in DOMAIN slots : slots[i].file # f
        /\ result' => /\ Entry(slots', n) = {dirEntry'[f]} /\ slots'[dirEntry'[f]].file = NoFile
                      /\ openAs' = [openAs EXCEPT ![f] = n]
        /\ ~result' => Entry(slots', n) = {} /\ UNCHANGED <<openAs, dirEntry>>
    BY CreateDoes
  <1>2. \A m \in Names \ {n} : Dir'[m] = Dir[m]
    BY <1>1, DirIs DEF Others
  <1>3. Dir[n] = Absent
    BY <1>1, DirIs
  <1>4. CASE result'
    <2>1. Dir'[n] = Unsaved
      <3> DEFINE e == dirEntry'[f]
      <3>1. Entry(slots', n) = {e} /\ slots'[e].file = NoFile
        BY <1>1, <1>4
      <3> HIDE DEF e
      <3>2. FileIn(slots', n) = Unsaved
        BY <1>1, <3>1, FileInIs
      <3> QED
        BY <3>2, DirIs
    <2>2. Dir' = [Dir EXCEPT ![n] = Unsaved]
      BY <1>2, <2>1, DirIs
    <2>3. ASSUME NEW k \in Names PROVE Dir[k] # f
      <3>1. CASE Entry(slots, k) = {}
        BY <3>1, DirIs, DirectoryAssumption
      <3>2. CASE Entry(slots, k) # {}
        <4>1. PICK e : Entry(slots, k) = {e}
          BY <3>2, DirIs, EntryOne
        <4>2. e \in DOMAIN slots
          BY <4>1, DirIs, EntryFirst, SlotsAre
        <4>3. slots[e].file # f
          BY <1>1, <4>2
        <4>4. Dir[k] = IF slots[e].file = NoFile THEN Unsaved ELSE slots[e].file
          <5>1. slots \in Seq(Slots) /\ Dir[k] = FileIn(slots, k)
            BY DirIs
          <5> QED
            BY <4>1, <5>1, FileInIs
        <4> QED
          BY <4>3, <4>4, DirectoryAssumption
      <3> QED
        BY <3>1, <3>2
    <2> QED
      BY <1>1, <1>3, <1>4, <2>2, <2>3, TableFiles
  <1>5. CASE ~result'
    <2>1. Dir'[n] = Dir[n]
      BY <1>1, <1>3, <1>5, DirIs
    <2>2. Dir' = Dir
      BY <1>2, <2>1, DirIs
    <2> QED
      BY <1>1, <1>5, <2>2, TableNames
  <1> QED
    BY <1>4, <1>5

LEMMA OpenMaps ==
    ASSUME DirInv, NEW n \in Names, NEW f \in DirFiles, OpenFile(n, f)
    PROVE  Table!Open(n, f)
  <1>1. Entry(slots, n) # {} /\ slots[FirstOf(Entry(slots, n))].file = f /\ slots' = slots /\ f # NoFile
    BY DirectoryAssumption DEF OpenFile, Listed
  <1>2. Dir[n] = f
    BY <1>1, DirIs DEF FileIn
  <1>3. Dir' = Dir
    BY <1>1 DEF Dir
  <1> QED
    BY <1>2, <1>3, TableFiles DEF OpenFile

LEMMA CloseMaps ==
    ASSUME DirInv, NEW f \in DirFiles, Close(f)
    PROVE  openAs[f] \in Names /\ Table!Close(openAs[f], f)
  <1> DEFINE n == openAs[f]
             e == dirEntry[f]
  <1>1. n \in Names /\ slots' \in Seq(Slots) /\ Others(n) /\ Entry(slots', n) = {e} /\ slots'[e].file = f
    BY CloseDoes
  <1>2. openAs' = [openAs EXCEPT ![f] = NoName]
    BY DEF Close
  <1>3. n = openAs[f]
    OBVIOUS
  <1> HIDE DEF n, e
  <1>4. \A m \in Names \ {n} : Dir'[m] = Dir[m]
    BY <1>1, DirIs DEF Others
  <1>5. Dir'[n] = f
    <2>1. FileIn(slots', n) = IF slots'[e].file = NoFile THEN Unsaved ELSE slots'[e].file
      BY <1>1, FileInIs
    <2> QED
      BY <1>1, <2>1, DirIs, DirectoryAssumption
  <1>6. Dir' = [Dir EXCEPT ![n] = f]
    BY <1>4, <1>5, DirIs
  <1> QED
    BY <1>1, <1>2, <1>3, <1>6, TableFiles

LEMMA UnlinkMaps ==
    ASSUME DirInv, ~astray', NEW n \in Names, UnlinkFile(n)
    PROVE  Table!Remove(n)
  <1>1. /\ Others(n) /\ Entry(slots, n) # {} /\ Entry(slots', n) = {}
        /\ \A f \in DirFiles : openAs[f] # n
        /\ openAs' = openAs
    BY UnlinkDoes
  <1>2. Dir[n] # Absent /\ Dir'[n] = Absent /\ \A m \in Names \ {n} : Dir'[m] = Dir[m]
    BY <1>1, DirIs DEF Others
  <1>3. Dir' = [Dir EXCEPT ![n] = Absent]
    BY <1>2, DirIs
  <1> QED
    BY <1>1, <1>2, <1>3, TableNames

LEMMA RenameMaps ==
    ASSUME DirInv, ~astray', NEW n \in Names, NEW m \in Names, Rename(n, m)
    PROVE  Table!Rename(n, m) \/ Table!List
  <1>1. /\ slots' \in Seq(Slots)
        /\ n # m /\ Entry(slots, m) = {} /\ \A f \in DirFiles : openAs[f] # n
        /\ \A k \in Names \ {n, m} : SameEntry(slots, slots', k)
        /\ openAs' = openAs
    BY RenameDoes
  <1>2. PICK e : Entry(slots, n) = {e} /\
                \/ /\ Entry(slots', n) = {} /\ steady' = steady \ {n}
                   /\ \E p : Entry(slots', m) = {p} /\ slots'[p].file = slots[e].file
                \/ /\ SameEntry(slots, slots', n) /\ Entry(slots', m) = {} /\ steady' = steady
    BY RenameDoes
  <1>3. \A k \in Names \ {n, m} : Dir'[k] = Dir[k]
    BY <1>1, DirIs
  <1>4. Dir[m] = Absent /\ Dir[n] # Absent
    BY <1>1, <1>2, DirIs
  <1>5. CASE Entry(slots', n) = {} /\ \E p : Entry(slots', m) = {p} /\ slots'[p].file = slots[e].file
    <2>1. PICK p : Entry(slots', m) = {p} /\ slots'[p].file = slots[e].file
      BY <1>5
    <2>2. FileIn(slots', m) = FileIn(slots, n)
      <3>1. FileIn(slots, n) = IF slots[e].file = NoFile THEN Unsaved ELSE slots[e].file
        <4>1. slots \in Seq(Slots)
          BY DirIs
        <4> QED
          BY <1>2, <4>1, FileInIs
      <3>2. FileIn(slots', m) = IF slots'[p].file = NoFile THEN Unsaved ELSE slots'[p].file
        BY <1>1, <2>1, FileInIs
      <3> QED
        BY <2>1, <3>1, <3>2
    <2>3. Dir'[m] = Dir[n] /\ Dir'[n] = Absent
      BY <1>5, <2>2, DirIs
    <2>4. Dir' = [Dir EXCEPT ![n] = Absent, ![m] = Dir[n]]
      BY <1>1, <1>3, <2>3, DirIs
    <2> QED
      BY <1>1, <1>4, <2>4, TableNames
  <1>6. CASE SameEntry(slots, slots', n) /\ Entry(slots', m) = {}
    <2>1. Dir'[n] = Dir[n] /\ Dir'[m] = Dir[m]
      BY <1>1, <1>6, DirIs
    <2>2. Dir' = Dir
      BY <1>3, <2>1, DirIs
    <2> QED
      BY <1>1, <2>2, TableNames
  <1> QED
    BY <1>2, <1>5, <1>6

LEMMA StepMaps == DirInv /\ ~astray' /\ [DirectoryNext]_dirVars => [Table!Next]_(Table!vars)
  <1> SUFFICES ASSUME DirInv, ~astray', [DirectoryNext]_dirVars PROVE Table!Next \/ UNCHANGED Table!vars
    OBVIOUS
  <1>1. ASSUME NEW n \in Names, NEW f \in DirFiles, Create(n, f) PROVE Table!Next
    BY <1>1, CreateMaps DEF Table!Next
  <1>2. ASSUME NEW n \in Names, NEW f \in DirFiles, OpenFile(n, f) PROVE Table!Next
    BY <1>2, OpenMaps DEF Table!Next
  <1>3. ASSUME NEW n \in Names, UnlinkFile(n) PROVE Table!Next
    BY <1>3, UnlinkMaps DEF Table!Next
  <1>4. ASSUME NEW n \in Names, NEW m \in Names, Rename(n, m) PROVE Table!Next
    BY <1>4, RenameMaps DEF Table!Next
  <1>5. ASSUME NEW f \in DirFiles, Close(f) PROVE Table!Next
    BY <1>5, CloseMaps DEF Table!Next
  <1>6. ASSUME slots' = slots, openAs' = openAs PROVE UNCHANGED Table!vars
    BY <1>6, FileOfIs DEF Table!vars
  <1>7. ASSUME NEW n \in Names, CreateRefused(n) PROVE UNCHANGED Table!vars
    BY <1>6, <1>7 DEF CreateRefused
  <1>8. ASSUME DirOpen \/ DirNext \/ DirClose \/ UNCHANGED dirVars PROVE UNCHANGED Table!vars
    <2>1. slots' = slots /\ openAs' = openAs
      BY <1>8 DEF DirOpen, DirNext, DirClose, dirVars
    <2> QED
      BY <1>6, <2>1
  <1> QED
    BY <1>1, <1>2, <1>3, <1>4, <1>5, <1>7, <1>8 DEF DirectoryNext

(* Names appear, disappear and change only as the calls say, and each has  *)
(* the file that was closed under it: the slots implement NameTable until  *)
(* a long name goes behind deleted entries at the end marker or an open    *)
(* file is removed or renamed.                                             *)
THEOREM DirectoryImplementsNames == DirectorySpec => ImplementsNames
  <1>1. /\ astray \in BOOLEAN /\ (~astray => DirInv)
        /\ [DirectoryNext]_dirVars
        => [astray' \/ Table!Next]_(Table!vars)
    BY StepMaps, AstrayStep
  <1> QED
    BY <1>1, DirectoryInvariant, PTL DEF DirectorySpec, ImplementsNames
-----------------------------------------------------------------------------
(* A file.                                                                 *)

Disciplined ==
    /\ ~SeeksToEnd /\ ~SeeksPastEnd /\ ~OverwritesToBoundary
    /\ ~GoesOnWhenFull /\ ~ReadsWhileAppending

(* Place p is that of the byte at offset o. *)
Designates(p, o) == IF AtEnd(p) THEN o = p.cluster * ClusterBytes ELSE p = At(o)

(* What Read, Write and Seek rely on. *)
PlacesAgree ==
    /\ currentPosition <= filesize
    /\ ~full => /\ Designates(rwPosition, currentPosition)
                /\ AtEnd(rwPosition) => currentPosition = filesize /\ ~append
                /\ append => Designates(appendPosition, filesize)

FileIInv == ChainFits /\ PlacesAgree

-----------------------------------------------------------------------------
(* Arithmetic.                                                             *)

(* Multiplication by a natural number is monotonic. *)
LEMMA MulMono ==
    ASSUME NEW a \in Nat, NEW b \in Nat, NEW n \in Nat, a <= b
    PROVE  a * n <= b * n
OBVIOUS

(* Quotient and remainder. *)
LEMMA DivMod ==
    ASSUME NEW x \in Nat, NEW n \in Nat \ {0}
    PROVE  /\ x \div n \in Nat
           /\ (x % n) \in 0 .. n - 1
           /\ x = n * (x \div n) + (x % n)
OBVIOUS

(* A sector number below l blocks of n sectors lies in one of them. *)
LEMMA DivBelow ==
    ASSUME NEW l \in Nat, NEW n \in Nat \ {0}, NEW x \in 0 .. l * n - 1
    PROVE  x \div n \in 0 .. l - 1
<1> DEFINE q == x \div n
<1>1. q \in Nat /\ n * q <= x
  BY DivMod
<1>2. CASE q >= l
  <2>1. l * n <= q * n
    BY <1>1, <1>2, MulMono
  <2> QED
    BY <2>1, <1>1
<1> QED
  BY <1>1, <1>2

(* Quotient and remainder are the only ones. *)
LEMMA DivModUnique ==
    ASSUME NEW n \in Nat \ {0}, NEW q \in Nat, NEW r \in 0 .. n - 1
    PROVE  (n * q + r) \div n = q /\ (n * q + r) % n = r
<1> DEFINE x == n * q + r
           k == x \div n
<1>1. n * q \in Nat /\ x \in Nat
  OBVIOUS
<1>2. k \in Nat /\ (x % n) \in 0 .. n - 1 /\ x = n * k + (x % n)
  BY <1>1, DivMod
<1> HIDE DEF x, k
<1>3. x = n * q + r
  BY DEF x
<1>4. ~(k < q)
  <2> SUFFICES ASSUME k < q PROVE FALSE
    OBVIOUS
  <2>1. (k + 1) * n <= q * n
    BY <1>2, MulMono
  <2>2. (k + 1) * n = n * k + n /\ q * n = n * q
    BY <1>2
  <2> QED
    BY <1>2, <1>3, <2>1, <2>2
<1>5. ~(q < k)
  <2> SUFFICES ASSUME q < k PROVE FALSE
    OBVIOUS
  <2>1. (q + 1) * n <= k * n
    BY <1>2, MulMono
  <2>2. (q + 1) * n = n * q + n /\ k * n = n * k
    BY <1>2
  <2> QED
    BY <1>2, <1>3, <2>1, <2>2
<1>6. k = q /\ (x % n) = r
  BY <1>2, <1>3, <1>4, <1>5
<1> QED
  BY <1>6 DEF k, x

(* Products of three, and of a sum. *)
LEMMA MulAssoc ==
    ASSUME NEW a \in Nat, NEW b \in Nat, NEW c \in Nat, NEW d \in Nat
    PROVE  (a * b) * c = a * (b * c) /\ a * (b * c) + a * d = a * (b * c + d)
OBVIOUS

LEMMA LesserOf ==
    ASSUME NEW a \in Nat, NEW b \in Nat, a <= b
    PROVE  Lesser(a, b) = a
BY DEF Lesser

(* Rounding up. *)
LEMMA Ceiling ==
    ASSUME NEW c \in Nat \ {0}, NEW x \in Nat
    PROVE  /\ (x + c - 1) \div c \in Nat
           /\ x <= ((x + c - 1) \div c) * c
           /\ \A k \in Nat : x <= k * c => (x + c - 1) \div c <= k
<1> DEFINE y == x + c - 1
           q == y \div c
           r == y % c
<1>1. y \in Nat /\ y = x + c - 1
  OBVIOUS
<1>2. q \in Nat /\ r \in 0 .. c - 1 /\ y = c * q + r
  BY <1>1, DivMod
<1> HIDE DEF y, q, r
<1>3. c * q = q * c /\ q * c \in Nat
  BY <1>2
<1>4. x <= q * c
  BY <1>1, <1>2, <1>3
<1>5. ASSUME NEW k \in Nat, x <= k * c PROVE q <= k
  <2> SUFFICES ASSUME k + 1 <= q PROVE FALSE
    BY <1>2
  <2>1. (k + 1) * c <= q * c
    BY <1>2, MulMono
  <2>2. (k + 1) * c = k * c + c /\ k * c \in Nat
    OBVIOUS
  <2> QED
    BY <1>1, <1>2, <1>3, <1>5, <2>1, <2>2
<1> QED
  BY <1>2, <1>4, <1>5 DEF q, y

(* The sizes of a volume. *)
LEMMA Volume ==
    /\ SectorBytes \in Nat \ {0} /\ SectorsPerCluster \in Nat \ {0}
    /\ ClusterBytes \in Nat \ {0} /\ ClusterBytes = SectorBytes * SectorsPerCluster
    /\ MaxChain \in Nat \ {0} /\ MaxSize \in Nat /\ MaxSize = MaxChain * ClusterBytes
    /\ MaxWrites \in Nat
<1>1. SectorBytes * SectorsPerCluster \in Nat \ {0}
  BY FileAssumption
<1>2. ClusterBytes \in Nat \ {0} /\ ClusterBytes = SectorBytes * SectorsPerCluster
  BY <1>1 DEF ClusterBytes
<1>3. MaxChain * ClusterBytes \in Nat
  BY <1>2, FileAssumption
<1> QED
  BY <1>2, <1>3, FileAssumption DEF MaxSize

LEMMA VolumeTypes ==
    /\ SectorBytes \in Nat \ {0} /\ SectorsPerCluster \in Nat \ {0} /\ ClusterBytes \in Nat \ {0}
    /\ MaxChain \in Nat \ {0} /\ MaxSize \in Nat /\ MaxWrites \in Nat
BY Volume

LEMMA LongestLength == Longest \in Lengths /\ Longest \in Nat
BY FileAssumption DEF Longest

(* The bytes of write k. *)
LEMMA Texts ==
    ASSUME NEW k \in Nat, NEW n \in Lengths
    PROVE  /\ n \in Nat \ {0} /\ Text(k, n) \in Seq(Nat) /\ Len(Text(k, n)) = n
           /\ \A i \in 1 .. n : Text(k, n)[i] \in Nat
           /\ Longest \in Nat
<1>1. n \in Nat \ {0} /\ Longest \in Nat
  BY FileAssumption, LongestLength
<1>2. \A i \in 1 .. n : k * Longest + i \in Nat
  BY <1>1
<1>3. [i \in 1 .. n |-> k * Longest + i] \in [1 .. n -> Nat]
  BY <1>2
<1>4. Text(k, n) \in [1 .. n -> Nat]
  BY <1>3 DEF Text
<1> HIDE DEF Text
<1>5. Text(k, n) \in Seq(Nat)
  BY <1>1, <1>4, SeqDef
<1>6. DOMAIN Text(k, n) = 1 .. n /\ Len(Text(k, n)) \in Nat
      /\ DOMAIN Text(k, n) = 1 .. Len(Text(k, n))
  BY <1>4, <1>5, LenProperties
<1>7. Len(Text(k, n)) = n
  BY <1>1, <1>6
<1> QED
  BY <1>1, <1>4, <1>5, <1>7

-----------------------------------------------------------------------------
(* Places.                                                                 *)

(* At and Offset are inverse; At never designates the end of a cluster. *)
LEMMA AtSpec ==
    ASSUME NEW o \in Nat
    PROVE  /\ At(o).cluster = o \div ClusterBytes + 1 /\ o \div ClusterBytes \in Nat
           /\ At(o).sector \in 0 .. SectorsPerCluster - 1
           /\ At(o).byte \in 0 .. SectorBytes - 1
           /\ At(o) = [cluster |-> At(o).cluster, sector |-> At(o).sector, byte |-> At(o).byte]
           /\ Offset(At(o)) = o /\ ~AtEnd(At(o))
<1> DEFINE q == o \div ClusterBytes
           r == o % ClusterBytes
           s == r \div SectorBytes
           b == r % SectorBytes
<1> USE VolumeTypes
<1>1. q \in Nat /\ r \in 0 .. ClusterBytes - 1 /\ o = ClusterBytes * q + r
  BY DivMod
<1> HIDE DEF q, r
<1>r. r \in Nat
  BY <1>1
<1>2. s \in Nat /\ b \in 0 .. SectorBytes - 1 /\ r = SectorBytes * s + b
  BY <1>r, DivMod
<1>3. s \in 0 .. SectorsPerCluster - 1
  <2>1. SectorsPerCluster * SectorBytes = SectorBytes * SectorsPerCluster
    OBVIOUS
  <2>2. r \in 0 .. SectorsPerCluster * SectorBytes - 1
    BY <1>1, <2>1, Volume
  <2> QED
    BY <2>2, DivBelow
<1> HIDE DEF s, b
<1>4. o = SectorBytes * (SectorsPerCluster * q + s) + b
  <2>1. ClusterBytes * q = SectorBytes * (SectorsPerCluster * q)
    BY <1>1, Volume, MulAssoc
  <2>2. SectorBytes * (SectorsPerCluster * q) + SectorBytes * s
          = SectorBytes * (SectorsPerCluster * q + s)
    BY <1>1, <1>2, MulAssoc
  <2>3. SectorBytes * (SectorsPerCluster * q) \in Nat /\ SectorBytes * s \in Nat
    BY <1>1, <1>2
  <2> QED
    BY <1>1, <1>2, <2>1, <2>2, <2>3
<1>5. o % SectorBytes = b
  <2>1. SectorsPerCluster * q + s \in Nat
    BY <1>1, <1>2
  <2> QED
    BY <1>2, <1>4, <2>1, DivModUnique
<1>6. At(o) = [cluster |-> q + 1, sector |-> s, byte |-> b]
  BY <1>5 DEF At, q, r, s
<1>7. Offset(At(o)) = (At(o).cluster - 1) * ClusterBytes + At(o).sector * SectorBytes + At(o).byte
  BY DEF Offset
<1>8. (q + 1 - 1) * ClusterBytes = ClusterBytes * q /\ s * SectorBytes = SectorBytes * s
      /\ ClusterBytes * q \in Nat /\ SectorBytes * s \in Nat
  BY <1>1, <1>2
<1>9. At(o).sector = s /\ At(o).cluster = q + 1 /\ At(o).byte = b
  BY <1>6
<1>10. Offset(At(o)) = o
  <2>1. (At(o).cluster - 1) * ClusterBytes = q * ClusterBytes
    BY <1>1, <1>9
  <2>2. q * ClusterBytes = ClusterBytes * q
    BY <1>1
  <2>3. At(o).sector * SectorBytes = SectorBytes * s /\ At(o).byte = b
    BY <1>2, <1>8, <1>9
  <2>4. Offset(At(o)) = ClusterBytes * q + SectorBytes * s + b
    BY <1>7, <2>1, <2>2, <2>3
  <2> QED
    BY <1>1, <1>2, <1>8, <2>4
<1> QED
  BY <1>1, <1>2, <1>3, <1>6, <1>9, <1>10 DEF AtEnd, q

(* Where a transfer begins. *)
LEMMA From ==
    ASSUME NEW o \in Nat, NEW p, Designates(p, o)
    PROVE  (IF AtEnd(p) THEN p.cluster * ClusterBytes ELSE Offset(p)) = o
BY AtSpec DEF Designates

(* A place inside the file, or behind a cluster. *)
LEMMA PlaceTypes ==
    ASSUME NEW o \in 0 .. MaxSize
    PROVE  /\ At(o) \in Positions
           /\ o % ClusterBytes = 0 /\ o > 0 =>
                LET p == [cluster |-> o \div ClusterBytes, sector |-> SectorsPerCluster, byte |-> 0]
                IN  p \in Positions /\ AtEnd(p) /\ Designates(p, o)
<1> USE VolumeTypes
<1>0. o \in Nat
  OBVIOUS
<1>1. o \div ClusterBytes \in Nat /\ (o % ClusterBytes) \in 0 .. ClusterBytes - 1 /\ o = ClusterBytes * (o \div ClusterBytes) + (o % ClusterBytes)
  BY <1>0, DivMod
<1> DEFINE q == o \div ClusterBytes
<1>2. q <= MaxChain
  <2> SUFFICES ASSUME MaxChain + 1 <= q PROVE FALSE
    BY <1>1
  <2>1. (MaxChain + 1) * ClusterBytes <= q * ClusterBytes
    BY <1>1, MulMono
  <2>2. (MaxChain + 1) * ClusterBytes = MaxSize + ClusterBytes /\ q * ClusterBytes = ClusterBytes * q /\ ClusterBytes * q \in Nat
    BY <1>1, Volume
  <2> QED
    BY <1>1, <2>1, <2>2
<1>3. At(o) \in Positions
  <2>1. At(o).cluster \in 1 .. MaxChain + 1
    <3>1. At(o).cluster = q + 1 /\ q \in Nat
      BY <1>0, AtSpec
    <3> HIDE DEF q
    <3> QED
      BY <1>2, <3>1
  <2>2. At(o).sector \in 0 .. SectorsPerCluster /\ At(o).byte \in 0 .. SectorBytes - 1
    BY <1>0, AtSpec
  <2>3. At(o) = [cluster |-> At(o).cluster, sector |-> At(o).sector, byte |-> At(o).byte]
    BY <1>0, AtSpec
  <2> QED
    BY <2>1, <2>2, <2>3 DEF Positions
<1>4. ASSUME o % ClusterBytes = 0, o > 0
      PROVE  /\ [cluster |-> q, sector |-> SectorsPerCluster, byte |-> 0] \in Positions
             /\ o = q * ClusterBytes
  <2>1. q # 0
    BY <1>1, <1>4
  <2>2. o = q * ClusterBytes
    BY <1>1, <1>4
  <2> QED
    BY <1>1, <1>2, <2>1, <2>2 DEF Positions
<1> QED
  BY <1>3, <1>4 DEF AtEnd, Designates

-----------------------------------------------------------------------------
(* The length of a chain.                                                  *)

LEMMA ChainLength ==
    ASSUME NEW n \in Nat
    PROVE  /\ ClustersFor(n) \in Nat \ {0} /\ n <= ClustersFor(n) * ClusterBytes
           /\ \A k \in Nat \ {0} : n <= k * ClusterBytes => ClustersFor(n) <= k
<1> DEFINE c == (n + ClusterBytes - 1) \div ClusterBytes
<1>1. c \in Nat /\ n <= c * ClusterBytes /\ \A k \in Nat : n <= k * ClusterBytes => c <= k
  BY VolumeTypes, Ceiling
<1>2. ClustersFor(n) = IF 1 > c THEN 1 ELSE c
  BY DEF ClustersFor, Greater
<1> HIDE DEF c
<1>3. CASE 1 > c
  BY <1>1, <1>2, <1>3, Volume
<1>4. CASE ~(1 > c)
  BY <1>1, <1>2, <1>4, Volume
<1> QED
  BY <1>3, <1>4

(* A longer file needs no fewer clusters, and one of a size that fits in k *)
(* clusters no more than k.                                                *)
LEMMA ChainGrows ==
    ASSUME NEW n \in Nat, NEW to \in Nat
    PROVE  Used(ClustersFor(n), to) = ClustersFor(Greater(n, to))
<1> DEFINE c(x) == (x + ClusterBytes - 1) \div ClusterBytes
<1>1. \A x \in Nat : c(x) \in Nat /\ x <= c(x) * ClusterBytes /\ \A k \in Nat : x <= k * ClusterBytes => c(x) <= k
  BY VolumeTypes, Ceiling
<1>2. \A x \in Nat : ClustersFor(x) = IF 1 > c(x) THEN 1 ELSE c(x)
  BY DEF ClustersFor, Greater
<1>3. Used(ClustersFor(n), to) = IF ClustersFor(n) > c(to) THEN ClustersFor(n) ELSE c(to)
  BY DEF Used, Greater
<1>4. \A x, y \in Nat : x <= y => c(x) <= c(y)
  <2> HIDE DEF c
  <2> SUFFICES ASSUME NEW x \in Nat, NEW y \in Nat, x <= y PROVE c(x) <= c(y)
    OBVIOUS
  <2>1. c(y) \in Nat /\ y <= c(y) * ClusterBytes
    BY <1>1
  <2>2. c(y) * ClusterBytes \in Nat
    BY <2>1, Volume
  <2>3. x <= c(y) * ClusterBytes
    BY <2>1, <2>2
  <2> QED
    BY <1>1, <2>1, <2>3
<1> HIDE DEF c
<1>5. CASE n > to
  BY <1>1, <1>2, <1>3, <1>4, <1>5 DEF Greater
<1>6. CASE ~(n > to)
  BY <1>1, <1>2, <1>3, <1>4, <1>6 DEF Greater
<1> QED
  BY <1>5, <1>6

(* _FAT_open_r: the end of the file is in the last cluster of its chain. *)
LEMMA EndSpec ==
    ASSUME NEW size \in 0 .. MaxSize
    PROVE  /\ EndOf(ClustersFor(size), size) \in Positions
           /\ Designates(EndOf(ClustersFor(size), size), size)
           /\ ClustersFor(size) \in 1 .. MaxChain
<1> DEFINE n == ClustersFor(size)
           q == size \div ClusterBytes
           r == size % ClusterBytes
<1> USE VolumeTypes
<1>0. size \in Nat
  OBVIOUS
<1>1. size \in Nat /\ q \in Nat /\ r \in 0 .. ClusterBytes - 1 /\ size = ClusterBytes * q + r
  BY <1>0, DivMod
<1>2. n \in Nat \ {0} /\ size <= n * ClusterBytes /\ \A k \in Nat \ {0} : size <= k * ClusterBytes => n <= k
  BY <1>1, ChainLength
<1>3. n <= MaxChain
  BY <1>1, <1>2, Volume
<1> HIDE DEF n, q, r
<1>4. ClusterBytes * q = q * ClusterBytes /\ q * ClusterBytes \in Nat /\ (q + 1) * ClusterBytes = q * ClusterBytes + ClusterBytes
  BY <1>1
<1>5. ASSUME NEW k \in Nat, k + 1 <= n PROVE ~(size <= k * ClusterBytes) \/ k = 0
  BY <1>2, <1>5
<1>6. CASE size > 0 /\ r = 0
  <2>1. q # 0 /\ size = q * ClusterBytes
    BY <1>1, <1>4, <1>6
  <2>2. n <= q
    BY <1>1, <1>2, <2>1
  <2>3. ~(n < q)
    <3> SUFFICES ASSUME n + 1 <= q PROVE FALSE
      BY <1>1, <1>2
    <3>1. (n + 1) * ClusterBytes <= q * ClusterBytes
      BY <1>1, <1>2, MulMono
    <3>2. (n + 1) * ClusterBytes = n * ClusterBytes + ClusterBytes /\ n * ClusterBytes \in Nat
      BY <1>2
    <3> QED
      BY <1>2, <1>4, <2>1, <3>1, <3>2
  <2>4. n = q
    BY <1>1, <1>2, <2>2, <2>3
  <2>5. (size % SectorBytes) \in 0 .. SectorBytes - 1
    BY <1>1, DivMod
  <2>6. EndOf(n, size) = [cluster |-> n, sector |-> SectorsPerCluster, byte |-> size % SectorBytes]
    BY <1>6 DEF EndOf, r
  <2>7. EndOf(n, size) \in Positions
    BY <1>2, <1>3, <2>5, <2>6 DEF Positions
  <2>8. AtEnd(EndOf(n, size)) /\ EndOf(n, size).cluster = n
    BY <2>6 DEF AtEnd
  <2> QED
    BY <1>2, <1>3, <2>1, <2>4, <2>7, <2>8 DEF Designates, n
<1>7. CASE ~(size > 0 /\ r = 0)
  <2>1. size <= (q + 1) * ClusterBytes
    BY <1>1, <1>4
  <2>2. n <= q + 1
    BY <1>1, <1>2, <2>1
  <2>3. ~(n <= q)
    <3> SUFFICES ASSUME n <= q PROVE FALSE
      OBVIOUS
    <3>1. n * ClusterBytes <= q * ClusterBytes
      BY <1>1, <1>2, MulMono
    <3>2. n * ClusterBytes \in Nat
      BY <1>2
    <3>3. r = 0 /\ size = q * ClusterBytes
      BY <1>1, <1>2, <1>4, <3>1, <3>2
    <3>4. size = 0
      BY <1>1, <1>7, <3>3
    <3>5. q = 0
      BY <1>1, <3>3, <3>4
    <3> QED
      BY <1>2, <3>5
  <2>4. n = q + 1
    BY <1>1, <1>2, <2>2, <2>3
  <2>5. EndOf(n, size) = At(size)
    BY <1>7, <2>4 DEF EndOf, At, q, r
  <2>6. At(size) \in Positions /\ ~AtEnd(At(size))
    BY <1>1, AtSpec, PlaceTypes
  <2>7. EndOf(n, size) \in Positions /\ Designates(EndOf(n, size), size)
    BY <2>5, <2>6 DEF Designates
  <2>8. n \in 1 .. MaxChain
    BY <1>2, <1>3
  <2> QED
    BY <2>7, <2>8 DEF n
<1> QED
  BY <1>6, <1>7

-----------------------------------------------------------------------------
(* The result w of the transfer of the k bytes d from offset o on. *)
TransferResult(w, o, k, d, appending) ==
    /\ w.done \in 0 .. k
    /\ w.clusters = ClustersFor(Greater(filesize, o + w.done))
    /\ w.clusters \in clusters .. clusters + room
    /\ w.data \in [1 .. MaxSize -> Nat \cup {Junk}]
    /\ \A i \in 1 .. MaxSize :
          /\ o < i /\ i <= o + w.done => w.data[i] = d[i - o]
          /\ i <= o => w.data[i] = data[i]
          /\ i > o + w.done /\ (appending => w.done < k) => w.data[i] = data[i]
    /\ w.position \in Positions
    /\ w.done = k => /\ Designates(w.position, o + k)
                     /\ AtEnd(w.position) => (o + k) % ClusterBytes = 0

(* The transfer of a write, from a place that designates o. *)
LEMMA Transfer ==
    ASSUME ChainFits, NEW o \in 0 .. filesize, NEW p, Designates(p, o),
           NEW k \in Nat \ {0}, NEW d \in Seq(Nat), Len(d) = k, o + k <= MaxSize,
           NEW appending \in BOOLEAN,
           NEW w, w = WrittenAt(data, clusters, p, d, appending)
    PROVE  TransferResult(w, o, k, d, appending)
<1> SUFFICES /\ w.done \in 0 .. k
             /\ w.clusters = ClustersFor(Greater(filesize, o + w.done))
             /\ w.clusters \in clusters .. clusters + room
             /\ w.data \in [1 .. MaxSize -> Nat \cup {Junk}]
             /\ \A i \in 1 .. MaxSize :
                   /\ o < i /\ i <= o + w.done => w.data[i] = d[i - o]
                   /\ i <= o => w.data[i] = data[i]
                   /\ i > o + w.done /\ (appending => w.done < k) => w.data[i] = data[i]
             /\ w.position \in Positions
             /\ w.done = k => /\ Designates(w.position, o + k)
                              /\ AtEnd(w.position) => (o + k) % ClusterBytes = 0
  BY DEF TransferResult
<1> DEFINE limit  == (clusters + room) * ClusterBytes
           done   == Lesser(Len(d), Greater(0, limit - o))
           to     == o + done
           sector == (to \div SectorBytes) * SectorBytes
           erases == appending /\ done = Len(d) /\ to % SectorBytes # 0 /\ sector > o
           C      == ClusterBytes
<1> USE VolumeTypes
<1>0. /\ o \in Nat /\ filesize \in 0 .. MaxSize /\ clusters \in 1 .. MaxChain
      /\ room \in 0 .. MaxChain - clusters /\ clusters = ClustersFor(filesize)
      /\ data \in [1 .. MaxSize -> Nat \cup {Junk}] /\ o <= filesize
      /\ clusters \in Nat /\ room \in Nat /\ filesize \in Nat
  BY DEF ChainFits, FileTypeOK
<1>1. (IF AtEnd(p) THEN p.cluster * ClusterBytes ELSE Offset(p)) = o
  BY <1>0, From
<1>2. /\ w.done = done
      /\ w.clusters = Lesser(Used(clusters, to), clusters + room)
      /\ w.data = [i \in 1 .. MaxSize |->
                     IF o < i /\ i <= to THEN d[i - o]
                     ELSE IF erases /\ to < i /\ i <= sector + SectorBytes THEN Zero
                     ELSE data[i]]
      /\ w.position = IF done < Len(d)
                        THEN [cluster |-> to \div C, sector |-> 0, byte |-> 0]
                      ELSE IF to % C = 0
                        THEN [cluster |-> to \div C, sector |-> SectorsPerCluster, byte |-> 0]
                        ELSE At(to)
  BY <1>1 DEF WrittenAt
<1>3. /\ filesize <= clusters * C /\ clusters * C \in Nat
      /\ clusters * C <= limit /\ limit \in Nat /\ limit <= MaxSize
  <2>1. filesize <= clusters * C
    BY <1>0, ChainLength
  <2>2. clusters + room \in Nat /\ clusters <= clusters + room /\ clusters + room <= MaxChain
    BY <1>0
  <2>3. clusters * C <= limit /\ limit <= MaxChain * C
    BY <1>0, <2>2, MulMono
  <2>4. clusters * C \in Nat /\ limit \in Nat
    BY <1>0, <2>2
  <2> QED
    BY <2>1, <2>3, <2>4, Volume
<1> HIDE DEF limit
<1>4. /\ done \in 0 .. k /\ to \in Nat /\ to <= limit /\ to \in 0 .. MaxSize
      /\ done < k => to = limit
  BY <1>0, <1>3 DEF Lesser, Greater
<1> HIDE DEF done, to, erases, sector
<1>5. /\ w.clusters = ClustersFor(Greater(filesize, to))
      /\ w.clusters \in clusters .. clusters + room
  <2> DEFINE g == Greater(filesize, to)
  <2>1. g \in Nat /\ g <= limit
    BY <1>0, <1>3, <1>4 DEF Greater
  <2>2. Used(clusters, to) = ClustersFor(g)
    BY <1>0, <1>4, ChainGrows
  <2> HIDE DEF g
  <2>3. ClustersFor(g) <= clusters + room /\ ClustersFor(g) \in Nat
    <3>1. clusters + room \in Nat \ {0}
      BY <1>0
    <3> QED
      BY <2>1, <3>1, ChainLength DEF limit
  <2>4. clusters <= ClustersFor(g)
    <3>0. g <= ClustersFor(g) * C /\ ClustersFor(g) \in Nat \ {0}
      BY <2>1, ChainLength
    <3>1. ClustersFor(g) * C \in Nat
      BY <3>0
    <3>2. filesize <= g
      BY <1>0, <1>4 DEF g, Greater
    <3>3. filesize <= ClustersFor(g) * C
      BY <1>0, <2>1, <3>0, <3>1, <3>2
    <3> QED
      BY <1>0, <3>0, <3>3, ChainLength
  <2>5. w.clusters = ClustersFor(g)
    <3>1. w.clusters = Lesser(ClustersFor(g), clusters + room)
      BY <1>2, <2>2
    <3>2. clusters + room \in Nat
      BY <1>0
    <3> QED
      BY <2>3, <3>1, <3>2, LesserOf
  <2> QED
    BY <1>0, <2>3, <2>4, <2>5 DEF g
<1>d. ASSUME NEW i \in 1 .. MaxSize
      PROVE  w.data[i] = IF o < i /\ i <= to THEN d[i - o]
                         ELSE IF erases /\ to < i /\ i <= sector + SectorBytes THEN Zero
                         ELSE data[i]
  BY <1>2
<1>w. w.data = [i \in 1 .. MaxSize |-> w.data[i]]
  BY <1>2
<1>6. \A i \in 1 .. k : d[i] \in Nat
  BY ElementOfSeq
<1>7. w.data \in [1 .. MaxSize -> Nat \cup {Junk}]
  <2>1. \A i \in 1 .. MaxSize : o < i /\ i <= to => d[i - o] \in Nat
    <3> SUFFICES ASSUME NEW i \in 1 .. MaxSize, o < i, i <= to PROVE i - o \in 1 .. k
      BY <1>6
    <3> QED
      BY <1>0, <1>4 DEF to
  <2>2. \A i \in 1 .. MaxSize : data[i] \in Nat \cup {Junk}
    BY <1>0
  <2>3. \A i \in 1 .. MaxSize : w.data[i] \in Nat \cup {Junk}
    BY <1>d, <2>1, <2>2 DEF Zero
  <2> QED
    BY <1>w, <2>3
<1>8. \A i \in 1 .. MaxSize :
         /\ o < i /\ i <= to => w.data[i] = d[i - o]
         /\ i <= o => w.data[i] = data[i]
         /\ i > to /\ (appending => done < k) => w.data[i] = data[i]
  <2>1. (appending => done < k) => ~erases
    BY <1>4 DEF erases
  <2>2. o <= to
    BY <1>0, <1>4 DEF to
  <2> QED
    BY <1>0, <1>d, <1>4, <2>1, <2>2
<1>9. CASE done < k
  <2>1. to = C * (clusters + room) + 0 /\ clusters + room \in Nat /\ 0 \in 0 .. C - 1
    BY <1>0, <1>4, <1>9 DEF limit
  <2>2. to \div C = clusters + room
    BY <2>1, DivModUnique
  <2>3. w.position = [cluster |-> clusters + room, sector |-> 0, byte |-> 0]
    BY <1>2, <1>9, <2>2
  <2>4. w.position \in Positions
    BY <1>0, <2>3 DEF Positions
  <2> QED
    BY <1>2, <1>4, <1>5, <1>7, <1>8, <1>9, <2>4 DEF to
<1>10. CASE done = k
  <2>1. to = o + k /\ to > 0 /\ ~(done < Len(d))
    BY <1>0, <1>10 DEF to
  <2>2. CASE to % C = 0
    <3>1. w.position = [cluster |-> to \div C, sector |-> SectorsPerCluster, byte |-> 0]
      BY <1>2, <2>1, <2>2
    <3>2. w.position \in Positions /\ Designates(w.position, to)
      BY <1>4, <2>1, <2>2, <3>1, PlaceTypes
    <3> QED
      BY <1>2, <1>4, <1>5, <1>7, <1>8, <2>1, <2>2, <3>2 DEF to
  <2>3. CASE to % C # 0
    <3>1. w.position = At(to)
      BY <1>2, <2>1, <2>3
    <3>2. w.position \in Positions /\ Designates(w.position, to) /\ ~AtEnd(w.position)
      BY <1>4, <3>1, AtSpec, PlaceTypes DEF Designates
    <3> QED
      BY <1>2, <1>4, <1>5, <1>7, <1>8, <2>1, <3>2 DEF to
  <2> QED
    BY <2>2, <2>3
<1> QED
  BY <1>4, <1>9, <1>10

-----------------------------------------------------------------------------
(* The file as a string of bytes.                                          *)

Contents == Nat \cup {Junk}

BytesOf(t, n) == [i \in 1 .. n |-> ByteAt(t, i)]

LEMMA FunctionIsSeq ==
    ASSUME NEW n \in Nat, NEW S, NEW f \in [1 .. n -> S]
    PROVE  f \in Seq(S) /\ Len(f) = n
<1>1. f \in Seq(S)
  BY SeqDef
<1>2. DOMAIN f = 1 .. n /\ DOMAIN f = 1 .. Len(f) /\ Len(f) \in Nat
  BY <1>1, LenProperties
<1> QED
  BY <1>1, <1>2

LEMMA BytesSpec ==
    ASSUME NEW n \in 0 .. MaxSize, NEW t \in [1 .. MaxSize -> Contents]
    PROVE  /\ BytesOf(t, n) \in [1 .. n -> Contents] /\ BytesOf(t, n) \in Seq(Contents)
           /\ Len(BytesOf(t, n)) = n
           /\ \A i \in 1 .. n : BytesOf(t, n)[i] = t[i] /\ t[i] \in Contents
<1>1. n \in Nat /\ \A i \in 1 .. n : i \in 1 .. MaxSize /\ t[i] \in Contents
  BY VolumeTypes
<1>2. \A i \in 1 .. n : ByteAt(t, i) = t[i]
  BY <1>1 DEF ByteAt
<1>3. BytesOf(t, n) \in [1 .. n -> Contents] /\ \A i \in 1 .. n : BytesOf(t, n)[i] = t[i]
  BY <1>1, <1>2 DEF BytesOf
<1> QED
  BY <1>1, <1>3, FunctionIsSeq

LEMMA BytesNow == Bytes = BytesOf(data, filesize) /\ Bytes' = BytesOf(data', filesize')
BY DEF Bytes, BytesOf

(* A beginning of a text. *)
LEMMA Beginning ==
    ASSUME NEW d \in Seq(Nat), NEW n \in 0 .. Len(d)
    PROVE  /\ SubSeq(d, 1, n) \in Seq(Contents) /\ Len(SubSeq(d, 1, n)) = n
           /\ \A i \in 1 .. n : SubSeq(d, 1, n)[i] = d[i]
<1>0. Len(d) \in Nat /\ n \in Nat
  BY LenProperties
<1>1. \A i \in 1 .. n : d[i] \in Contents
  BY <1>0, ElementOfSeq DEF Contents
<1>2. /\ SubSeq(d, 1, n) \in Seq(Contents)
      /\ Len(SubSeq(d, 1, n)) = IF 1 <= n THEN n - 1 + 1 ELSE 0
      /\ \A i \in 1 .. n - 1 + 1 : SubSeq(d, 1, n)[i] = d[1 + i - 1]
  BY <1>0, <1>1, SubSeqProperties
<1>3. \A i \in 1 .. n : SubSeq(d, 1, n)[i] = d[i]
  <2> SUFFICES ASSUME NEW i \in 1 .. n PROVE SubSeq(d, 1, n)[i] = d[i]
    OBVIOUS
  <2>1. i \in 1 .. n - 1 + 1 /\ 1 + i - 1 = i
    BY <1>0
  <2> QED
    BY <1>2, <2>1
<1> QED
  BY <1>0, <1>2, <1>3

-----------------------------------------------------------------------------
LEMMA FileInitIInv == FileInit => FileIInv
<1> SUFFICES ASSUME FileInit PROVE FileIInv
  OBVIOUS
<1> USE VolumeTypes DEF FileInit
<1>0. filesize \in Sizes /\ Sizes \subseteq 0 .. MaxSize
  BY FileAssumption
<1>1. filesize \in 0 .. MaxSize /\ filesize \in Nat /\ Longest \in Nat
  BY <1>0, LongestLength
<1>2. data \in [1 .. MaxSize -> Nat \cup {Junk}]
  <2>1. (MaxWrites + 1) * Longest \in Nat
    BY <1>1
  <2> QED
    BY <1>1, <2>1
<1>3. clusters \in 1 .. MaxChain /\ EndOf(clusters, filesize) \in Positions
      /\ Designates(EndOf(clusters, filesize), filesize)
  BY <1>1, EndSpec
<1>4. At(0) \in Positions /\ ~AtEnd(At(0))
  <2>1. 0 \in Nat /\ 0 \in 0 .. MaxSize
    OBVIOUS
  <2> QED
    BY <2>1, AtSpec, PlaceTypes
<1>5. ChainFits
  <2>1. /\ room \in 0 .. MaxChain - clusters /\ clusters = ClustersFor(filesize)
        /\ currentPosition \in 0 .. MaxSize /\ writes \in 0 .. MaxWrites
        /\ append \in BOOLEAN /\ full \in BOOLEAN /\ got \in Seq(Nat \cup {Junk})
    <3>1. room \in 0 .. MaxChain - clusters /\ clusters = ClustersFor(filesize)
      OBVIOUS
    <3>2. currentPosition \in 0 .. MaxSize /\ writes \in 0 .. MaxWrites
      OBVIOUS
    <3>3. append \in BOOLEAN /\ full \in BOOLEAN
      OBVIOUS
    <3>4. got \in Seq(Nat \cup {Junk})
      BY EmptySeq
    <3> QED
      BY <3>1, <3>2, <3>3, <3>4
  <2>2. rwPosition \in Positions /\ appendPosition \in Positions
    BY <1>3, <1>4
  <2> QED
    BY <1>1, <1>2, <1>3, <2>1, <2>2 DEF ChainFits, FileTypeOK
<1>6. PlacesAgree
  BY <1>1, <1>3, <1>4 DEF PlacesAgree, Designates
<1> QED
  BY <1>5, <1>6 DEF FileIInv

(* _FAT_read_r returns the bytes at the position. *)
LEMMA ReadStep ==
    ASSUME Disciplined, FileIInv, NEW n \in Lengths, Read(n)
    PROVE  FileIInv' /\ AsBytes!Next
<1> DEFINE len  == Lesser(n, filesize - currentPosition)
           to   == currentPosition + len
           last == to \div ClusterBytes >= clusters
           end  == [cluster |-> to \div ClusterBytes, sector |-> SectorsPerCluster, byte |-> 0]
<1> USE VolumeTypes
<1>0. /\ ~append /\ ~full /\ currentPosition < filesize
      /\ UNCHANGED <<data, clusters, room, filesize, appendPosition, append, full, writes>>
      /\ n \in Nat \ {0}
  BY FileAssumption DEF Disciplined, Read, disc
<1>t. /\ FileTypeOK /\ clusters = ClustersFor(filesize)
      /\ filesize \in 0 .. MaxSize /\ currentPosition \in Nat /\ clusters \in Nat \ {0}
      /\ filesize \in Nat
  BY DEF FileIInv, ChainFits, FileTypeOK
<1>1. Designates(rwPosition, currentPosition) /\ ~AtEnd(rwPosition)
  <2>1. /\ Designates(rwPosition, currentPosition)
        /\ AtEnd(rwPosition) => currentPosition = filesize
    <3>1. PlacesAgree
      BY DEF FileIInv
    <3>2. ~full
      BY <1>0
    <3> QED
      BY <3>1, <3>2 DEF PlacesAgree
  <2>2. currentPosition # filesize
    BY <1>0, <1>t
  <2> QED
    BY <2>1, <2>2
<1>2. Offset(rwPosition) = currentPosition
  BY <1>1, <1>t, From
<1>3. /\ got' = [i \in 1 .. len |-> ByteAt(data, currentPosition + i)]
      /\ rwPosition' = IF to % ClusterBytes = 0 /\ last THEN end ELSE At(to)
      /\ currentPosition' = to
  BY <1>1, <1>2, <1>t DEF Read
<1>4. /\ len \in Nat \ {0} /\ to \in Nat /\ to <= filesize /\ to > 0 /\ to \in 0 .. MaxSize
      /\ to = currentPosition + len
      /\ to = IF currentPosition + n < filesize THEN currentPosition + n ELSE filesize
  BY <1>0, <1>t DEF Lesser
<1> HIDE DEF len, to
<1>5. Bytes' = Bytes /\ Bytes = BytesOf(data, filesize) /\ data \in [1 .. MaxSize -> Contents]
  BY <1>0, <1>1, <1>t, BytesNow DEF FileTypeOK, Contents
<1>6. /\ Bytes \in Seq(Contents) /\ Len(Bytes) = filesize
      /\ \A i \in 1 .. filesize : Bytes[i] = data[i] /\ data[i] \in Contents
  BY <1>t, <1>5, BytesSpec
<1>7. \A i \in 1 .. len : /\ currentPosition + i \in 1 .. filesize
                         /\ ByteAt(data, currentPosition + i) = Bytes[currentPosition + i]
                         /\ Bytes[currentPosition + i] \in Contents
  <2> SUFFICES ASSUME NEW i \in 1 .. len
               PROVE  /\ currentPosition + i \in 1 .. filesize
                      /\ ByteAt(data, currentPosition + i) = Bytes[currentPosition + i]
                      /\ Bytes[currentPosition + i] \in Contents
    OBVIOUS
  <2>1. currentPosition + i \in 1 .. filesize /\ currentPosition + i \in 1 .. MaxSize
    BY <1>t, <1>4
  <2> QED
    BY <1>6, <2>1 DEF ByteAt
<1>8. got' \in [1 .. len -> Contents]
  BY <1>3, <1>7
<1>9. got' \in Seq(Contents) /\ Len(got') = len /\ got' \in Seq(Nat \cup {Junk})
  BY <1>4, <1>8, FunctionIsSeq DEF Contents
<1>10. got' = SubSeq(Bytes, currentPosition + 1, to)
  <2> DEFINE sub == SubSeq(Bytes, currentPosition + 1, to)
             m   == currentPosition + 1
  <2>0. m \in Int /\ to \in Int /\ m <= to /\ to - m + 1 = len
    BY <1>t, <1>4
  <2>1. \A i \in m .. to : Bytes[i] \in Contents
    <3>1. \A i \in m .. to : i \in 1 .. filesize
      BY <1>t, <1>4
    <3> QED
      BY <1>6, <3>1
  <2> HIDE DEF m
  <2>2. /\ SubSeq(Bytes, m, to) \in Seq(Contents)
        /\ Len(SubSeq(Bytes, m, to)) = IF m <= to THEN to - m + 1 ELSE 0
        /\ \A i \in 1 .. to - m + 1 : SubSeq(Bytes, m, to)[i] = Bytes[m + i - 1]
    BY <2>0, <2>1, SubSeqProperties
  <2>3. /\ sub \in Seq(Contents) /\ Len(sub) = len
        /\ \A i \in 1 .. len : sub[i] = Bytes[m + i - 1]
    BY <2>0, <2>2 DEF m
  <2> HIDE DEF sub
  <2>4. \A i \in 1 .. len : got'[i] = sub[i]
    <3> SUFFICES ASSUME NEW i \in 1 .. len PROVE got'[i] = sub[i]
      OBVIOUS
    <3>1. m + i - 1 = currentPosition + i
      BY <1>t DEF m
    <3>2. got'[i] = ByteAt(data, currentPosition + i)
      BY <1>3
    <3> QED
      BY <1>7, <2>3, <3>1, <3>2
  <2>5. got' = sub
    BY <1>9, <2>3, <2>4, SeqEqual
  <2> QED
    BY <2>5 DEF sub
<1>11. AsBytes!Read(n)
  BY <1>3, <1>4, <1>5, <1>6, <1>9, <1>10 DEF AsBytes!Read
<1>12. CASE to % ClusterBytes = 0 /\ last
  <2>1. rwPosition' = end /\ end \in Positions /\ AtEnd(end) /\ Designates(end, to)
    BY <1>3, <1>4, <1>12, PlaceTypes
  <2>2. to = filesize
    <3> DEFINE q == to \div ClusterBytes
    <3>1. q \in Nat /\ to = ClusterBytes * q + (to % ClusterBytes) /\ q >= clusters
      BY <1>4, <1>12, DivMod
    <3> HIDE DEF q
    <3>2. clusters * ClusterBytes <= q * ClusterBytes
      BY <1>t, <3>1, MulMono
    <3>3. filesize <= clusters * ClusterBytes
      BY <1>t, ChainLength
    <3>4. clusters * ClusterBytes \in Nat /\ q * ClusterBytes = ClusterBytes * q
          /\ ClusterBytes * q \in Nat /\ to = ClusterBytes * q
      BY <1>t, <1>12, <3>1
    <3> QED
      BY <1>t, <1>4, <3>2, <3>3, <3>4
  <2>3. FileTypeOK'
    BY <1>0, <1>1, <1>t, <1>3, <1>4, <1>9, <2>1 DEF FileTypeOK
  <2>4. ChainFits' /\ PlacesAgree'
    BY <1>0, <1>1, <1>t, <1>3, <2>1, <2>2, <2>3 DEF ChainFits, PlacesAgree
  <2> QED
    BY <1>11, <2>4 DEF FileIInv, AsBytes!Next
<1>13. CASE ~(to % ClusterBytes = 0 /\ last)
  <2>1. /\ rwPosition' = At(to) /\ At(to) \in Positions /\ ~AtEnd(At(to))
        /\ Designates(At(to), to)
    BY <1>3, <1>4, <1>13, AtSpec, PlaceTypes DEF Designates
  <2>2. FileTypeOK'
    BY <1>0, <1>1, <1>t, <1>3, <1>4, <1>9, <2>1 DEF FileTypeOK
  <2>3. ChainFits' /\ PlacesAgree'
    BY <1>0, <1>1, <1>t, <1>3, <1>4, <2>1, <2>2 DEF ChainFits, PlacesAgree
  <2> QED
    BY <1>11, <2>3 DEF FileIInv, AsBytes!Next
<1> QED
  BY <1>12, <1>13

-----------------------------------------------------------------------------
(* What Transfer says of a write of d from o on, done by this step. *)
Transferred(w, o, d) ==
    /\ w.done \in 0 .. Len(d)
    /\ data' = w.data /\ clusters' = w.clusters /\ room' = room - (w.clusters - clusters)
    /\ full' = (w.done < Len(d)) /\ writes' = writes + 1 /\ got' = <<>>
    /\ filesize' = Greater(filesize, o + w.done)
    /\ w.clusters = ClustersFor(filesize')
    /\ w.clusters \in clusters .. clusters + room
    /\ w.data \in [1 .. MaxSize -> Nat \cup {Junk}]
    /\ \A i \in 1 .. filesize' :
          w.data[i] = IF o < i /\ i <= o + w.done THEN d[i - o] ELSE data[i]

(* What a write leaves of the types and of the length of the chain. *)
LEMMA WriteKeepsChain ==
    ASSUME ChainFits, writes < MaxWrites,
           NEW d \in Seq(Nat), NEW o \in 0 .. filesize, o + Len(d) <= MaxSize,
           NEW w, Transferred(w, o, d),
           append' = append, currentPosition' \in 0 .. MaxSize,
           rwPosition' \in Positions, appendPosition' \in Positions
    PROVE  /\ ChainFits'
           /\ filesize' \in 0 .. MaxSize /\ filesize <= filesize' /\ o + w.done <= filesize'
<1> USE VolumeTypes
<1>0. /\ FileTypeOK /\ filesize \in Nat /\ filesize \in 0 .. MaxSize /\ clusters \in 1 .. MaxChain
      /\ room \in 0 .. MaxChain - clusters /\ writes \in 0 .. MaxWrites /\ o \in Nat
      /\ Len(d) \in Nat /\ w.done \in 0 .. Len(d)
  BY LenProperties DEF ChainFits, FileTypeOK, Transferred
<1>1. filesize' = Greater(filesize, o + w.done)
  BY DEF Transferred
<1>2. filesize' \in 0 .. MaxSize /\ filesize <= filesize' /\ o + w.done <= filesize'
  BY <1>0, <1>1 DEF Greater
<1>3. clusters' \in 1 .. MaxChain /\ room' \in 0 .. MaxChain - clusters'
  BY <1>0 DEF Transferred
<1>4. writes' \in 0 .. MaxWrites
  BY <1>0 DEF Transferred
<1>5. full' \in BOOLEAN /\ append' \in BOOLEAN
  BY <1>0 DEF Transferred, FileTypeOK
<1>6. got' \in Seq(Nat \cup {Junk})
  BY EmptySeq DEF Transferred
<1>7. data' \in [1 .. MaxSize -> Nat \cup {Junk}] /\ clusters' = ClustersFor(filesize')
  BY DEF Transferred
<1>8. FileTypeOK'
  BY <1>2, <1>3, <1>4, <1>5, <1>6, <1>7 DEF FileTypeOK
<1> QED
  BY <1>2, <1>7, <1>8 DEF ChainFits

(* The bytes after a write. *)
LEMMA WriteBytes ==
    ASSUME ChainFits, ChainFits',
           NEW d \in Seq(Nat), NEW o \in 0 .. filesize,
           NEW w, Transferred(w, o, d), filesize <= filesize', o + w.done <= filesize'
    PROVE  /\ Bytes \in Seq(Contents) /\ Len(Bytes) = filesize
           /\ Bytes' \in Seq(Contents) /\ Len(Bytes') = filesize'
           /\ Bytes' \in [1 .. filesize' -> Contents]
           /\ \A i \in 1 .. filesize' :
                 Bytes'[i] = IF o < i /\ i <= o + w.done THEN d[i - o] ELSE Bytes[i]
<1> USE VolumeTypes
<1>0. /\ filesize \in 0 .. MaxSize /\ filesize' \in 0 .. MaxSize /\ o \in Nat
      /\ filesize \in Nat /\ filesize' \in Nat
      /\ data \in [1 .. MaxSize -> Contents] /\ data' \in [1 .. MaxSize -> Contents]
      /\ w.done \in Nat
  <2>1. FileTypeOK /\ FileTypeOK'
    BY DEF ChainFits
  <2>2. w.done \in Nat
    BY LenProperties DEF Transferred
  <2> QED
    BY <2>1, <2>2 DEF FileTypeOK, Contents
<1>1. /\ Bytes \in Seq(Contents) /\ Len(Bytes) = filesize
      /\ \A i \in 1 .. filesize : Bytes[i] = data[i]
  BY <1>0, BytesNow, BytesSpec
<1>2. /\ Bytes' \in [1 .. filesize' -> Contents] /\ Bytes' \in Seq(Contents) /\ Len(Bytes') = filesize'
      /\ \A i \in 1 .. filesize' : Bytes'[i] = data'[i]
  BY <1>0, BytesNow, BytesSpec
<1>3. ASSUME NEW i \in 1 .. filesize'
      PROVE  Bytes'[i] = IF o < i /\ i <= o + w.done THEN d[i - o] ELSE Bytes[i]
  <2>1. Bytes'[i] = IF o < i /\ i <= o + w.done THEN d[i - o] ELSE data[i]
    BY <1>2 DEF Transferred
  <2>2. CASE o < i /\ i <= o + w.done
    BY <2>1, <2>2
  <2>3. CASE ~(o < i /\ i <= o + w.done)
    <3>1. filesize' = Greater(filesize, o + w.done)
      BY DEF Transferred
    <3>2. i \in 1 .. filesize
      BY <1>0, <2>3, <3>1 DEF Greater
    <3> QED
      BY <1>1, <2>1, <2>3, <3>2
  <2> QED
    BY <2>2, <2>3
<1> QED
  BY <1>1, <1>2, <1>3

(* The text of a write is one of the abstract texts. *)
LEMMA IsText ==
    ASSUME writes \in 0 .. MaxWrites, writes < MaxWrites, NEW n \in Lengths
    PROVE  Text(writes, n) \in {Text(k, m) : k \in 0 .. MaxWrites - 1, m \in Lengths}
<1>1. writes \in 0 .. MaxWrites - 1
  BY VolumeTypes
<1> QED
  BY <1>1

(* _FAT_write_r of a file that appends. *)
LEMMA WriteAtEndStep ==
    ASSUME Disciplined, FileIInv, NEW n \in Lengths, WriteAtEnd(n)
    PROVE  FileIInv' /\ AsBytes!Next
<1> DEFINE d == Text(writes, n)
           w == WrittenAt(data, clusters, appendPosition, d, TRUE)
<1> USE VolumeTypes
<1>0. /\ append /\ ~full /\ writes < MaxWrites /\ filesize + n <= MaxSize
      /\ append' = append /\ currentPosition' = currentPosition /\ rwPosition' = rwPosition
      /\ data' = w.data /\ clusters' = w.clusters /\ room' = room - (w.clusters - clusters)
      /\ full' = (w.done < Len(d)) /\ writes' = writes + 1 /\ got' = <<>>
      /\ appendPosition' = w.position /\ filesize' = filesize + w.done
  BY DEF Disciplined, WriteAtEnd, Stored
<1>1. /\ ChainFits /\ FileTypeOK /\ filesize \in Nat /\ filesize \in 0 .. filesize
      /\ filesize \in 0 .. MaxSize /\ writes \in 0 .. MaxWrites
      /\ currentPosition \in 0 .. MaxSize /\ rwPosition \in Positions
  BY DEF FileIInv, ChainFits, FileTypeOK
<1>2. /\ Designates(rwPosition, currentPosition) /\ ~AtEnd(rwPosition)
      /\ Designates(appendPosition, filesize) /\ currentPosition <= filesize
  BY <1>0 DEF FileIInv, PlacesAgree
<1>3. n \in Nat \ {0} /\ d \in Seq(Nat) /\ Len(d) = n /\ writes \in Nat
  BY <1>1, Texts
<1> HIDE DEF d
<1>4. w = WrittenAt(data, clusters, appendPosition, d, TRUE)
  OBVIOUS
<1> HIDE DEF w
<1>5. /\ w.done \in 0 .. n
      /\ w.clusters = ClustersFor(Greater(filesize, filesize + w.done))
      /\ w.clusters \in clusters .. clusters + room
      /\ w.data \in [1 .. MaxSize -> Nat \cup {Junk}]
      /\ \A i \in 1 .. MaxSize :
            /\ filesize < i /\ i <= filesize + w.done => w.data[i] = d[i - filesize]
            /\ i <= filesize => w.data[i] = data[i]
      /\ w.position \in Positions
      /\ w.done = n => Designates(w.position, filesize + n)
  <2>1. TransferResult(w, filesize, n, d, TRUE)
    BY <1>0, <1>1, <1>2, <1>3, <1>4, Transfer, TRUE \in BOOLEAN
  <2> QED
    BY <2>1 DEF TransferResult
<1>6. filesize' = Greater(filesize, filesize + w.done) /\ filesize' \in 0 .. MaxSize
  BY <1>0, <1>1, <1>3, <1>5 DEF Greater
<1>7. Transferred(w, filesize, d)
  <2>1. \A i \in 1 .. filesize' :
           w.data[i] = IF filesize < i /\ i <= filesize + w.done THEN d[i - filesize] ELSE data[i]
    <3> SUFFICES ASSUME NEW i \in 1 .. filesize'
                 PROVE  w.data[i] = IF filesize < i /\ i <= filesize + w.done THEN d[i - filesize]
                                    ELSE data[i]
      OBVIOUS
    <3>1. i \in 1 .. MaxSize /\ (i <= filesize \/ (filesize < i /\ i <= filesize + w.done))
      BY <1>0, <1>1, <1>3, <1>5, <1>6
    <3> QED
      BY <1>1, <1>5, <3>1
  <2> QED
    BY <1>0, <1>3, <1>5, <1>6, <2>1 DEF Transferred
<1>8. ChainFits' /\ filesize <= filesize' /\ filesize + w.done <= filesize'
  BY <1>0, <1>1, <1>3, <1>5, <1>7, WriteKeepsChain
<1>9. PlacesAgree'
  <2>1. ~full' => w.done = n
    <3>1. w.done < Len(d) => full'
      BY <1>0, Zenon
    <3> QED
      BY <1>3, <1>5, <3>1
  <2>2. currentPosition' <= filesize'
    BY <1>0, <1>1, <1>2, <1>6, <1>8
  <2>3. ~full' => Designates(appendPosition', filesize')
    BY <1>0, <1>5, <2>1
  <2> QED
    BY <1>0, <1>2, <2>2, <2>3 DEF PlacesAgree
<1>10. /\ Bytes \in Seq(Contents) /\ Len(Bytes) = filesize
       /\ Bytes' \in Seq(Contents) /\ Len(Bytes') = filesize'
       /\ \A i \in 1 .. filesize' :
             Bytes'[i] = IF filesize < i /\ i <= filesize + w.done THEN d[i - filesize] ELSE Bytes[i]
  BY <1>1, <1>3, <1>7, <1>8, WriteBytes
<1>11. CASE w.done = 0
  <2>1. filesize' = filesize
    BY <1>0, <1>1, <1>11
  <2>2. \A i \in 1 .. Len(Bytes) : Bytes'[i] = Bytes[i]
    BY <1>1, <1>10, <1>11, <2>1
  <2>3. Bytes' = Bytes
    BY <1>10, <2>1, <2>2, SeqEqual
  <2>4. AsBytes!Seek(currentPosition)
    BY <1>0, <2>3 DEF AsBytes!Seek
  <2> QED
    BY <1>1, <1>8, <1>9, <2>4 DEF FileIInv, AsBytes!Next
<1>12. CASE w.done # 0
  <2> DEFINE e == SubSeq(d, 1, w.done)
  <2>1. e \in Seq(Contents) /\ Len(e) = w.done /\ \A i \in 1 .. w.done : e[i] = d[i]
    BY <1>3, <1>5, Beginning
  <2> HIDE DEF e
  <2>2. /\ Bytes \o e \in Seq(Contents) /\ Len(Bytes \o e) = filesize'
        /\ \A i \in 1 .. filesize' :
              (Bytes \o e)[i] = IF i <= filesize THEN Bytes[i] ELSE e[i - filesize]
    <3>1. /\ Bytes \o e \in Seq(Contents) /\ Len(Bytes \o e) = Len(Bytes) + Len(e)
          /\ \A i \in 1 .. Len(Bytes) + Len(e) :
                (Bytes \o e)[i] = IF i <= Len(Bytes) THEN Bytes[i] ELSE e[i - Len(Bytes)]
      BY <1>10, <2>1, ConcatProperties
    <3>2. Len(Bytes) + Len(e) = filesize'
      BY <1>0, <1>10, <2>1
    <3> QED
      BY <1>10, <3>1, <3>2
  <2>3. \A i \in 1 .. Len(Bytes') : Bytes'[i] = (Bytes \o e)[i]
    <3> SUFFICES ASSUME NEW i \in 1 .. filesize' PROVE Bytes'[i] = (Bytes \o e)[i]
      BY <1>10
    <3>1. CASE i <= filesize
      <4>1. ~(filesize < i)
        BY <1>1, <3>1
      <4>2. Bytes'[i] = Bytes[i]
        BY <1>10, <4>1
      <4>3. (Bytes \o e)[i] = Bytes[i]
        BY <2>2, <3>1
      <4> QED
        BY <4>2, <4>3
    <3>2. CASE ~(i <= filesize)
      <4>1. i - filesize \in 1 .. w.done /\ filesize < i /\ i <= filesize + w.done
        BY <1>0, <1>1, <1>3, <1>5, <1>6, <3>2
      <4> QED
        BY <1>10, <2>1, <2>2, <3>2, <4>1
    <3> QED
      BY <3>1, <3>2
  <2>4. Bytes' = Bytes \o SubSeq(d, 1, w.done)
    BY <1>10, <2>2, <2>3, SeqEqual DEF e
  <2>5. w.done \in 1 .. Len(d)
    BY <1>3, <1>5, <1>12
  <2>6. AsBytes!WriteAtEnd(d)
    BY <1>0, <2>4, <2>5 DEF AsBytes!WriteAtEnd
  <2> QED
    BY <1>0, <1>1, <1>8, <1>9, <2>6, IsText DEF FileIInv, AsBytes!Next, d
<1> QED
  BY <1>11, <1>12

(* _FAT_write_r at the position, which is never behind the end. *)
LEMMA WriteStep ==
    ASSUME Disciplined, FileIInv, NEW n \in Lengths, Write(n)
    PROVE  FileIInv' /\ AsBytes!Next
<1> DEFINE d == Text(writes, n)
           o == currentPosition
           appending == o + n > filesize
           w == WrittenAt(data, clusters, rwPosition, d, appending)
<1> USE VolumeTypes
<1>1. /\ ChainFits /\ FileTypeOK /\ filesize \in Nat /\ o \in Nat
      /\ filesize \in 0 .. MaxSize /\ writes \in 0 .. MaxWrites
      /\ appendPosition \in Positions
  BY DEF FileIInv, ChainFits, FileTypeOK
<1>2. /\ o <= filesize /\ ~full
      /\ Designates(rwPosition, o)
  BY DEF FileIInv, PlacesAgree, Disciplined, Write
<1>3. n \in Nat \ {0} /\ d \in Seq(Nat) /\ Len(d) = n /\ writes \in Nat
  BY <1>1, Texts
<1>0. /\ ~append /\ writes < MaxWrites /\ o + n <= MaxSize
      /\ (o + n) % ClusterBytes = 0 => o + n >= filesize
      /\ append' = append /\ appendPosition' = appendPosition
      /\ data' = w.data /\ clusters' = w.clusters /\ room' = room - (w.clusters - clusters)
      /\ full' = (w.done < Len(d)) /\ writes' = writes + 1 /\ got' = <<>>
      /\ rwPosition' = w.position /\ currentPosition' = o + w.done
      /\ filesize' = Greater(filesize, currentPosition')
  <2>1. ~(currentPosition > filesize)
    BY <1>1, <1>2
  <2> QED
    BY <2>1 DEF Disciplined, Write, Stored
<1>a. appending \in BOOLEAN /\ o \in 0 .. filesize
  BY <1>1, <1>2
<1> HIDE DEF d, appending
<1>4. w = WrittenAt(data, clusters, rwPosition, d, appending)
  OBVIOUS
<1> HIDE DEF w
<1>5. TransferResult(w, o, n, d, appending)
  BY <1>0, <1>1, <1>2, <1>3, <1>4, <1>a, Transfer
<1>6. /\ w.done \in 0 .. n /\ w.position \in Positions
      /\ w.done = n => /\ Designates(w.position, o + n)
                       /\ AtEnd(w.position) => (o + n) % ClusterBytes = 0
  BY <1>5 DEF TransferResult
<1>7. filesize' = Greater(filesize, o + w.done) /\ filesize' \in 0 .. MaxSize
  BY <1>0, <1>1, <1>3, <1>6 DEF Greater
<1>8. Transferred(w, o, d)
  <2>0. filesize' \in Nat /\ filesize' = IF filesize > o + w.done THEN filesize ELSE o + w.done
    BY <1>1, <1>7 DEF Greater
  <2>1. ASSUME NEW i \in 1 .. filesize'
        PROVE  w.data[i] = IF o < i /\ i <= o + w.done THEN d[i - o] ELSE data[i]
    <3>0. i \in 1 .. MaxSize
      BY <1>7
    <3>r. /\ o < i /\ i <= o + w.done => w.data[i] = d[i - o]
          /\ i <= o => w.data[i] = data[i]
          /\ i > o + w.done /\ (appending => w.done < n) => w.data[i] = data[i]
      BY <1>5, <3>0 DEF TransferResult
    <3>1. CASE i <= o + w.done
      BY <1>1, <3>r, <3>1
    <3>2. CASE ~(i <= o + w.done)
      <4>1. i > o + w.done /\ i <= filesize
        BY <1>1, <1>6, <2>0, <3>2
      <4>2. appending => w.done < n
        BY <1>1, <1>3, <1>6, <4>1 DEF appending
      <4> QED
        BY <3>r, <3>2, <4>1, <4>2
    <3> QED
      BY <3>1, <3>2
  <2> QED
    BY <1>0, <1>3, <1>5, <1>7, <2>1 DEF Transferred, TransferResult
<1>9. ChainFits' /\ filesize <= filesize' /\ o + w.done <= filesize'
  <2>1. currentPosition' \in 0 .. MaxSize
    BY <1>0, <1>1, <1>3, <1>6
  <2> QED
    BY <1>0, <1>1, <1>3, <1>6, <1>8, <1>a, <2>1, WriteKeepsChain
<1>10. PlacesAgree'
  <2>1. ~full' => w.done = n
    <3>1. w.done < Len(d) => full'
      BY <1>0, Zenon
    <3> QED
      BY <1>3, <1>6, <3>1
  <2>2. currentPosition' <= filesize'
    BY <1>0, <1>9
  <2>3. ~full' => Designates(rwPosition', currentPosition')
    BY <1>0, <1>6, <2>1
  <2>4. ~full' => (AtEnd(rwPosition') => currentPosition' = filesize')
    <3> SUFFICES ASSUME ~full', AtEnd(rwPosition') PROVE currentPosition' = filesize'
      OBVIOUS
    <3>1. o + n >= filesize /\ w.done = n
      BY <1>0, <1>6, <2>1
    <3> QED
      BY <1>0, <1>1, <1>3, <3>1 DEF Greater
  <2>5. ~append'
    BY <1>0
  <2> QED
    BY <2>2, <2>3, <2>4, <2>5 DEF PlacesAgree
<1>11. /\ Bytes \in Seq(Contents) /\ Len(Bytes) = filesize
       /\ Bytes' \in Seq(Contents) /\ Len(Bytes') = filesize'
       /\ Bytes' \in [1 .. filesize' -> Contents]
       /\ \A i \in 1 .. filesize' :
             Bytes'[i] = IF o < i /\ i <= o + w.done THEN d[i - o] ELSE Bytes[i]
  BY <1>1, <1>3, <1>8, <1>9, <1>a, WriteBytes
<1>12. CASE w.done = 0
  <2>1. filesize' = filesize /\ currentPosition' = o
    BY <1>0, <1>1, <1>2, <1>12 DEF Greater
  <2>2. \A i \in 1 .. Len(Bytes) : Bytes'[i] = Bytes[i]
    BY <1>1, <1>11, <1>12, <2>1
  <2>3. Bytes' = Bytes
    BY <1>11, <2>1, <2>2, SeqEqual
  <2>4. AsBytes!Seek(o) /\ o \in 0 .. MaxSize
    BY <1>0, <1>1, <2>1, <2>3 DEF AsBytes!Seek, FileTypeOK
  <2> QED
    BY <1>9, <1>10, <2>4 DEF FileIInv, AsBytes!Next
<1>13. CASE w.done # 0
  <2> DEFINE e == SubSeq(d, 1, w.done)
  <2>1. Len(e) = w.done /\ \A i \in 1 .. w.done : e[i] = d[i]
    BY <1>3, <1>6, Beginning
  <2> HIDE DEF e
  <2>2. (IF Len(Bytes) > o + Len(e) THEN Len(Bytes) ELSE o + Len(e)) = filesize'
    BY <1>7, <1>11, <2>1 DEF Greater
  <2>3. AsBytes!Overlay(o, e) =
          [i \in 1 .. filesize' |->
              IF o < i /\ i <= o + Len(e) THEN e[i - o]
              ELSE IF i <= Len(Bytes) THEN Bytes[i] ELSE Zero]
    BY <2>2 DEF AsBytes!Overlay
  <2>4. \A i \in 1 .. filesize' :
           Bytes'[i] = IF o < i /\ i <= o + Len(e) THEN e[i - o]
                       ELSE IF i <= Len(Bytes) THEN Bytes[i] ELSE Zero
    <3> SUFFICES ASSUME NEW i \in 1 .. filesize'
                 PROVE  Bytes'[i] = IF o < i /\ i <= o + Len(e) THEN e[i - o]
                                    ELSE IF i <= Len(Bytes) THEN Bytes[i] ELSE Zero
      OBVIOUS
    <3>0. Bytes'[i] = IF o < i /\ i <= o + w.done THEN d[i - o] ELSE Bytes[i]
      BY <1>11
    <3>1. CASE o < i /\ i <= o + w.done
      <4>1. i - o \in 1 .. w.done
        BY <1>1, <1>6, <1>7, <3>1
      <4> QED
        BY <2>1, <3>0, <3>1, <4>1
    <3>2. CASE ~(o < i /\ i <= o + w.done)
      <4>1. i <= filesize
        BY <1>1, <1>2, <1>6, <1>7, <3>2 DEF Greater
      <4> QED
        BY <1>11, <2>1, <3>0, <3>2, <4>1
    <3> QED
      BY <3>1, <3>2
  <2>5. Bytes' = AsBytes!Overlay(o, SubSeq(d, 1, w.done))
    BY <1>11, <2>3, <2>4 DEF e
  <2>6. w.done \in 1 .. Len(d)
    BY <1>3, <1>6, <1>13
  <2>7. AsBytes!Write(d)
    BY <1>0, <2>5, <2>6 DEF AsBytes!Write
  <2> QED
    BY <1>0, <1>1, <1>9, <1>10, <2>7, IsText DEF FileIInv, AsBytes!Next, d
<1> QED
  BY <1>12, <1>13

(* _FAT_seek_r inside the file finds the cluster of the position, counted  *)
(* from the current one or from the first.                                 *)
LEMMA SeekStep ==
    ASSUME Disciplined, FileIInv, NEW p \in 0 .. MaxSize, Seek(p)
    PROVE  FileIInv' /\ AsBytes!Next
<1> USE VolumeTypes
<1>0. /\ ~full /\ p <= filesize
      /\ p = filesize => p = currentPosition
      /\ currentPosition' = p /\ got' = <<>>
      /\ UNCHANGED <<data, clusters, room, filesize, appendPosition, append, full, writes>>
      /\ rwPosition' = IF p >= filesize THEN rwPosition
                       ELSE IF ClusterOf(p) > clusters
                         THEN [cluster |-> clusters, sector |-> SectorsPerCluster, byte |-> 0]
                       ELSE [At(p) EXCEPT !.cluster = ClusterOf(p)]
  <2>1. filesize \in Nat /\ p \in Nat
    BY DEF FileIInv, ChainFits, FileTypeOK
  <2>2. ~(p > filesize)
    BY DEF Disciplined, Seek
  <2> QED
    BY <2>1, <2>2 DEF Disciplined, Seek, disc
<1>1. /\ FileTypeOK /\ ChainFits /\ clusters = ClustersFor(filesize) /\ clusters \in Nat \ {0}
      /\ filesize \in 0 .. MaxSize /\ currentPosition \in Nat /\ p \in Nat /\ filesize \in Nat
  BY DEF FileIInv, ChainFits, FileTypeOK
<1>2. /\ Designates(rwPosition, currentPosition)
      /\ AtEnd(rwPosition) => currentPosition = filesize /\ ~append
      /\ append => Designates(appendPosition, filesize)
      /\ currentPosition <= filesize
  BY <1>0 DEF FileIInv, PlacesAgree
<1>3. Bytes' = Bytes
  BY <1>0, BytesNow
<1>4. AsBytes!Next
  BY <1>0, <1>3 DEF AsBytes!Seek, AsBytes!Next
<1>5. got' \in Seq(Nat \cup {Junk})
  BY <1>0, EmptySeq
<1>6. CASE p = filesize
  <2>1. rwPosition' = rwPosition /\ p = currentPosition
    BY <1>0, <1>1, <1>6
  <2>2. FileTypeOK'
    BY <1>0, <1>1, <1>5, <2>1 DEF FileTypeOK
  <2>3. ChainFits' /\ PlacesAgree'
    BY <1>0, <1>1, <1>2, <2>1, <2>2 DEF ChainFits, PlacesAgree
  <2> QED
    BY <1>4, <2>3 DEF FileIInv
<1>7. CASE p # filesize
  <2> DEFINE C == ClusterBytes
  <2>0. p < filesize
    BY <1>0, <1>1, <1>7
  <2>1. p \div C \in Nat /\ currentPosition \div C \in Nat
    BY <1>1, DivMod
  <2>2. ClusterOf(p) = p \div C + 1
    <3>1. CASE p >= currentPosition
      <4>1. ~AtEnd(rwPosition)
        BY <1>1, <1>2, <2>0, <3>1
      <4>2. rwPosition = At(currentPosition)
        BY <1>2, <4>1 DEF Designates
      <4>3. rwPosition.cluster = currentPosition \div C + 1
        BY <1>1, <4>2, AtSpec
      <4>4. ClusterOf(p) = rwPosition.cluster + p \div C - currentPosition \div C
        BY <3>1 DEF ClusterOf
      <4> QED
        BY <2>1, <4>3, <4>4
    <3>2. CASE ~(p >= currentPosition)
      BY <2>1, <3>2 DEF ClusterOf
    <3> QED
      BY <3>1, <3>2
  <2>3. p \div C < clusters
    <3>1. filesize <= clusters * C /\ clusters * C \in Nat
      BY <1>1, ChainLength
    <3>2. p \in 0 .. clusters * C - 1
      BY <1>1, <2>0, <3>1
    <3>3. p \div C \in 0 .. clusters - 1
      BY <1>1, <3>2, DivBelow
    <3> QED
      BY <1>1, <3>3
  <2>4. [At(p) EXCEPT !.cluster = ClusterOf(p)] = At(p)
    BY <1>1, <2>2, AtSpec
  <2>5. rwPosition' = At(p) /\ At(p) \in Positions /\ ~AtEnd(At(p)) /\ Designates(At(p), p)
    <3>1. ~(p >= filesize) /\ ~(ClusterOf(p) > clusters)
      BY <1>1, <2>0, <2>1, <2>2, <2>3
    <3> QED
      BY <1>0, <1>1, <2>4, <3>1, AtSpec, PlaceTypes DEF Designates
  <2>6. FileTypeOK'
    BY <1>0, <1>1, <1>5, <2>5 DEF FileTypeOK
  <2>7. ChainFits' /\ PlacesAgree'
    BY <1>0, <1>1, <1>2, <2>5, <2>6 DEF ChainFits, PlacesAgree
  <2> QED
    BY <1>4, <2>7 DEF FileIInv
<1> QED
  BY <1>6, <1>7

(* Closed and opened again. *)
LEMMA ReopenStep ==
    ASSUME FileIInv, NEW appends \in BOOLEAN, Reopen(appends)
    PROVE  FileIInv' /\ AsBytes!Next
<1> USE VolumeTypes
<1>0. /\ filesize' = filesize /\ currentPosition' = 0 /\ rwPosition' = At(0)
      /\ appendPosition' = EndOf(clusters, filesize) /\ append' = appends /\ full' = FALSE
      /\ got' = <<>> /\ UNCHANGED <<data, clusters, room, writes>>
  BY DEF Reopen, Opened, disc
<1>1. /\ FileTypeOK /\ clusters = ClustersFor(filesize) /\ filesize \in 0 .. MaxSize
      /\ 0 \in 0 .. MaxSize /\ 0 \in Nat /\ filesize \in Nat
  BY DEF FileIInv, ChainFits, FileTypeOK
<1>2. At(0) \in Positions /\ ~AtEnd(At(0)) /\ Designates(At(0), 0)
  BY <1>1, AtSpec, PlaceTypes DEF Designates
<1>3. EndOf(clusters, filesize) \in Positions /\ Designates(EndOf(clusters, filesize), filesize)
  BY <1>1, EndSpec
<1>4. FileTypeOK'
  <2>1. got' \in Seq(Nat \cup {Junk}) /\ full' \in BOOLEAN
    BY <1>0, EmptySeq
  <2> QED
    BY <1>0, <1>1, <1>2, <1>3, <2>1 DEF FileTypeOK
<1>5. ChainFits' /\ PlacesAgree'
  BY <1>0, <1>1, <1>2, <1>3, <1>4 DEF ChainFits, PlacesAgree
<1>6. AsBytes!Seek(0)
  BY <1>0, BytesNow DEF AsBytes!Seek
<1> QED
  BY <1>1, <1>5, <1>6 DEF FileIInv, AsBytes!Next

(* Opened with O_TRUNC. *)
LEMMA TruncateStep ==
    ASSUME FileIInv, NEW appends \in BOOLEAN, ReopenTruncated(appends)
    PROVE  FileIInv' /\ AsBytes!Next
<1> USE VolumeTypes
<1>0. /\ filesize' = 0 /\ currentPosition' = 0 /\ rwPosition' = At(0)
      /\ appendPosition' = EndOf(1, 0) /\ append' = appends /\ full' = FALSE
      /\ got' = <<>> /\ writes' = writes
      /\ data' = [i \in 1 .. MaxSize |-> Junk] /\ clusters' = 1 /\ room' = room + clusters - 1
  BY DEF ReopenTruncated, Opened
<1>1. FileTypeOK /\ 0 \in 0 .. MaxSize /\ 0 \in Nat
  BY DEF FileIInv, ChainFits
<1>2. At(0) \in Positions /\ ~AtEnd(At(0)) /\ Designates(At(0), 0)
  BY <1>1, AtSpec, PlaceTypes DEF Designates
<1>3. ClustersFor(0) = 1
  <2>1. 0 <= 1 * ClusterBytes /\ 1 \in Nat \ {0}
    OBVIOUS
  <2>2. ClustersFor(0) \in Nat \ {0} /\ ClustersFor(0) <= 1
    BY <1>1, <2>1, ChainLength
  <2> QED
    BY <2>2
<1>4. EndOf(1, 0) \in Positions /\ Designates(EndOf(1, 0), 0)
  BY <1>1, <1>3, EndSpec
<1>5. FileTypeOK'
  <2>1. got' \in Seq(Nat \cup {Junk}) /\ full' \in BOOLEAN
    BY <1>0, EmptySeq
  <2>2. room' \in 0 .. MaxChain - clusters' /\ clusters' \in 1 .. MaxChain
    BY <1>0, <1>1 DEF FileTypeOK
  <2>3. data' \in [1 .. MaxSize -> Nat \cup {Junk}]
    BY <1>0
  <2> QED
    BY <1>0, <1>1, <1>2, <1>4, <2>1, <2>2, <2>3 DEF FileTypeOK
<1>6. ChainFits' /\ PlacesAgree'
  BY <1>0, <1>1, <1>2, <1>3, <1>4, <1>5 DEF ChainFits, PlacesAgree
<1>7. Bytes' = <<>>
  <2>1. data' \in [1 .. MaxSize -> Contents]
    BY <1>0 DEF Contents
  <2>2. Bytes' \in Seq(Contents) /\ Len(Bytes') = 0
    BY <1>0, <1>1, <2>1, BytesNow, BytesSpec
  <2> QED
    BY <2>2, EmptySeq
<1>8. AsBytes!Truncate
  BY <1>0, <1>7 DEF AsBytes!Truncate
<1> QED
  BY <1>6, <1>8 DEF FileIInv, AsBytes!Next

LEMMA FileNextStep ==
    ASSUME Disciplined, FileIInv, [FileNext]_fileVars
    PROVE  FileIInv' /\ [AsBytes!Next]_AsBytes!vars
<1>1. ASSUME NEW n \in Lengths, Read(n) PROVE FileIInv' /\ AsBytes!Next
  BY <1>1, ReadStep
<1>2. ASSUME NEW n \in Lengths, Write(n) PROVE FileIInv' /\ AsBytes!Next
  BY <1>2, WriteStep
<1>3. ASSUME NEW n \in Lengths, WriteAtEnd(n) PROVE FileIInv' /\ AsBytes!Next
  BY <1>3, WriteAtEndStep
<1>4. ASSUME NEW p \in 0 .. MaxSize, Seek(p) PROVE FileIInv' /\ AsBytes!Next
  BY <1>4, SeekStep
<1>5. ASSUME NEW appends \in BOOLEAN, Reopen(appends) PROVE FileIInv' /\ AsBytes!Next
  BY <1>5, ReopenStep
<1>6. ASSUME NEW appends \in BOOLEAN, ReopenTruncated(appends) PROVE FileIInv' /\ AsBytes!Next
  BY <1>6, TruncateStep
<1>7. CASE UNCHANGED fileVars
  <2>1. /\ UNCHANGED <<data, clusters, room, filesize, currentPosition, rwPosition>>
        /\ UNCHANGED <<appendPosition, append, full, writes, got>>
    BY <1>7 DEF fileVars, disc, file
  <2>2. UNCHANGED AsBytes!vars
    BY <2>1, BytesNow DEF AsBytes!vars
  <2> QED
    BY <2>1, <2>2 DEF FileIInv, ChainFits, FileTypeOK, PlacesAgree
<1> QED
  BY <1>1, <1>2, <1>3, <1>4, <1>5, <1>6, <1>7 DEF FileNext

-----------------------------------------------------------------------------
(* The chain always has the clusters the size needs and no more, whatever  *)
(* is written, cut short and truncated (_FAT_open_r takes its last cluster *)
(* for the one the file ends in).                                          *)
THEOREM ChainsFit == ASSUME Disciplined PROVE FileSpec => []ChainFits
<1>1. FileIInv => ChainFits
  BY DEF FileIInv
<1>2. FileIInv /\ [FileNext]_fileVars => FileIInv'
  BY FileNextStep
<1> QED
  BY <1>1, <1>2, FileInitIInv, PTL DEF FileSpec

(* In whatever clusters and sectors the transfers end, the file is the     *)
(* string of bytes that was written to it (fatfile.c:282-777).             *)
THEOREM FileIsBytes == ASSUME Disciplined PROVE FileSpec => ImplementsFile
<1>1. FileIInv /\ [FileNext]_fileVars => FileIInv' /\ [AsBytes!Next]_AsBytes!vars
  BY FileNextStep
<1> QED
  BY <1>1, FileInitIInv, PTL DEF FileSpec, ImplementsFile, AsBytes!Spec
=============================================================================
