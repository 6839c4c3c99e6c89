------------------------------ MODULE FatFile ------------------------------
(***************************************************************************)
(* An open file of libfat (fatfile.c).  The code finds a byte by three     *)
(* numbers it carries along with the position in the file: a cluster, a    *)
(* sector in it and a byte in that.  A cluster is its place in the chain   *)
(* here (FatTable shows that chains are what their files were given), the  *)
(* volume has room for a number of further ones.                           *)
(*                                                                         *)
(* The last five constants say what the user of the file does; the code    *)
(* does not survive any of them.                                           *)
(***************************************************************************)
EXTENDS Integers, Sequences

CONSTANTS SectorBytes,           \* BYTES_PER_READ
          SectorsPerCluster,
          MaxChain,              \* of the file: the room of the volume
          MaxWrites,             \* bound
          Lengths,               \* of reads and writes
          Sizes,                 \* of the file when first opened
          SeeksToEnd,            \* to the position after the last byte
          SeeksPastEnd,
          OverwritesToBoundary,  \* up to the end of a cluster inside the file
          GoesOnWhenFull,        \* after a write that was cut short
          ReadsWhileAppending

ClusterBytes == SectorBytes * SectorsPerCluster
MaxSize      == MaxChain * ClusterBytes

Zero == 0
Junk == -1       \* whatever is in a place the file has not written

ASSUME FileAssumption ==
    /\ SectorBytes \in Nat \ {0} /\ SectorsPerCluster \in Nat \ {0}
    /\ MaxChain \in Nat \ {0} /\ MaxWrites \in Nat
    /\ Lengths \subseteq Nat \ {0} /\ \E n \in Lengths : \A m \in Lengths : m <= n
    /\ Sizes \subseteq 0 .. MaxSize
    /\ {SeeksToEnd, SeeksPastEnd, OverwritesToBoundary,
        GoesOnWhenFull, ReadsWhileAppending} \subseteq BOOLEAN

Lesser(a, b)  == IF a < b THEN a ELSE b
Greater(a, b) == IF a > b THEN a ELSE b

Longest == CHOOSE n \in Lengths : \A m \in Lengths : m <= n

(* The text of write number k; no byte is written twice. *)
Text(k, n) == [i \in 1 .. n |-> k * Longest + i]

VARIABLES
  data,         \* the bytes in the clusters of the chain, one after the other
  clusters,     \* how many the chain has
  room,         \* free clusters of the volume
  filesize, currentPosition, rwPosition, appendPosition, append,
  full,         \* the last write was cut short
  writes,       \* number of writes, bounded by MaxWrites
  got           \* what the last read returned

disc == <<data, clusters, room>>
file == <<filesize, currentPosition, rwPosition, appendPosition, append>>
fileVars == <<disc, file, full, writes, got>>

Positions == [cluster : 1 .. MaxChain + 1, sector : 0 .. SectorsPerCluster, byte : 0 .. SectorBytes - 1]

FileTypeOK ==
    /\ data \in [1 .. MaxSize -> Nat \cup {Junk}]
    /\ clusters \in 1 .. MaxChain /\ room \in 0 .. MaxChain - clusters
    /\ filesize \in 0 .. MaxSize /\ currentPosition \in 0 .. MaxSize
    /\ rwPosition \in Positions /\ appendPosition \in Positions
    /\ append \in BOOLEAN /\ full \in BOOLEAN
    /\ writes \in 0 .. MaxWrites /\ got \in Seq(Nat \cup {Junk})

-----------------------------------------------------------------------------
(* The place of a byte, and the byte at a place. *)
At(o) == [cluster |-> o \div ClusterBytes + 1,
          sector  |-> (o % ClusterBytes) \div SectorBytes,
          byte    |-> o % SectorBytes]
Offset(p) == (p.cluster - 1) * ClusterBytes + p.sector * SectorBytes + p.byte
AtEnd(p) == p.sector = SectorsPerCluster
ByteAt(t, i) == IF i \in 1 .. MaxSize THEN t[i] ELSE Junk

(* Where _FAT_open_r appends to a chain of n clusters. *)
EndOf(n, size) ==
    [cluster |-> n,
     sector  |-> IF size > 0 /\ size % ClusterBytes = 0 THEN SectorsPerCluster
                 ELSE (size % ClusterBytes) \div SectorBytes,
     byte    |-> size % SectorBytes]

ClustersFor(size) == Greater(1, (size + ClusterBytes - 1) \div ClusterBytes)

Opened(n, size, appends) ==
    /\ filesize' = size
    /\ currentPosition' = 0
    /\ rwPosition' = At(0)
    /\ appendPosition' = EndOf(n, size)
    /\ append' = appends

FileInit ==
    /\ filesize \in Sizes
    /\ data = [i \in 1 .. MaxSize |-> IF i <= filesize THEN (MaxWrites + 1) * Longest + i ELSE Junk]
    /\ clusters = ClustersFor(filesize)
    /\ room \in 0 .. MaxChain - clusters
    /\ currentPosition = 0
    /\ rwPosition = At(0)
    /\ appendPosition = EndOf(clusters, filesize)
    /\ append \in BOOLEAN
    /\ full = FALSE /\ writes = 0 /\ got = <<>>

-----------------------------------------------------------------------------
(* _FAT_read_r.  A read that starts behind the last sector of a cluster    *)
(* and wants less than a sector does not go on to the next cluster first.  *)
Read(n) ==
    /\ ~append \/ ReadsWhileAppending
    /\ ~full \/ GoesOnWhenFull
    /\ currentPosition < filesize
    /\ LET len  == Lesser(n, filesize - currentPosition)
           from == IF AtEnd(rwPosition) THEN rwPosition.cluster * ClusterBytes ELSE Offset(rwPosition)
           to   == from + len
           last == to \div ClusterBytes >= clusters
       IN  /\ got' = [i \in 1 .. len |->
                        IF AtEnd(rwPosition) /\ len < SectorBytes THEN Junk ELSE ByteAt(data, from + i)]
           /\ rwPosition' = IF to % ClusterBytes = 0 /\ last
                              THEN [cluster |-> to \div ClusterBytes, sector |-> SectorsPerCluster, byte |-> 0]
                              ELSE At(to)
           /\ currentPosition' = currentPosition + len
    /\ UNCHANGED <<disc, filesize, appendPosition, append, full, writes>>

(* file_extend_r: zeros from the end of the file to the position; also the *)
(* cluster after the last zero is taken.  It looks for the end in the last *)
(* cluster, even when that is filled.                                      *)
Extended ==
    LET from  == (clusters - 1) * ClusterBytes + (filesize % ClusterBytes)
        to    == from + currentPosition - filesize
        need  == Greater(clusters, to \div ClusterBytes + 1)
        n     == Lesser(need, clusters + room)
    IN  [ok       |-> n = need,
         data     |-> [i \in 1 .. MaxSize |->
                         IF from < i /\ i <= Lesser(to, n * ClusterBytes) THEN Zero ELSE data[i]],
         clusters |-> n,
         position |-> At(to)]

(* Mutant of Used: the next cluster is taken as soon as one is full. *)
UsedEagerly(n, to) == Greater(n, to \div ClusterBytes + 1)

(* The length of a chain of n clusters written up to offset to. *)
Used(n, to) == Greater(n, (to + ClusterBytes - 1) \div ClusterBytes)

(* The transfer of _FAT_write_r, d to place p of a chain of n clusters     *)
(* with the contents t: how many bytes were written, where it ended.  When *)
(* no cluster is left the place is the first byte of the last cluster.     *)
WrittenAt(t, n, p, d, appending) ==
    LET limit  == (clusters + room) * ClusterBytes
        from   == IF AtEnd(p) THEN p.cluster * ClusterBytes ELSE Offset(p)
        done   == Lesser(Len(d), Greater(0, limit - from))
        to     == from + done
        sector == (to \div SectorBytes) * SectorBytes
        erases == appending /\ done = Len(d) /\ to % SectorBytes # 0 /\ sector > from
    IN  [done     |-> done,
         clusters |-> Lesser(Used(n, to), clusters + room),
         data     |-> [i \in 1 .. MaxSize |->
                         IF from < i /\ i <= to THEN d[i - from]
                         ELSE IF erases /\ to < i /\ i <= sector + SectorBytes THEN Zero
                         ELSE t[i]],
         position |-> IF done < Len(d)
                        THEN [cluster |-> to \div ClusterBytes, sector |-> 0, byte |-> 0]
                      ELSE IF to % ClusterBytes = 0
                        THEN [cluster |-> to \div ClusterBytes, sector |-> SectorsPerCluster, byte |-> 0]
                        ELSE At(to)]

Stored(w, d) ==
    /\ data' = w.data
    /\ clusters' = w.clusters
    /\ room' = room - (w.clusters - clusters)
    /\ full' = (w.done < Len(d))
    /\ writes' = writes + 1
    /\ got' = <<>>
    /\ UNCHANGED append

(* _FAT_write_r of a file opened with O_APPEND. *)
WriteAtEnd(n) ==
    /\ append /\ writes < MaxWrites
    /\ ~full \/ GoesOnWhenFull
    /\ filesize + n <= MaxSize
    /\ LET d == Text(writes, n)
           w == WrittenAt(data, clusters, appendPosition, d, TRUE)
       IN  /\ Stored(w, d)
           /\ appendPosition' = w.position
           /\ filesize' = filesize + w.done
    /\ UNCHANGED <<currentPosition, rwPosition>>

(* _FAT_write_r at the position, after the file has been extended to it. *)
Write(n) ==
    /\ ~append /\ writes < MaxWrites
    /\ ~full \/ GoesOnWhenFull
    /\ currentPosition + n <= MaxSize
    /\ (currentPosition + n) % ClusterBytes = 0 =>
          currentPosition + n >= filesize \/ OverwritesToBoundary
    /\ LET d  == Text(writes, n)
           x  == IF currentPosition > filesize THEN Extended
                 ELSE [ok |-> TRUE, data |-> data, clusters |-> clusters, position |-> rwPosition]
           w  == IF x.ok THEN WrittenAt(x.data, x.clusters, x.position, d, currentPosition + n > filesize)
                 ELSE [done |-> 0, clusters |-> x.clusters, data |-> x.data, position |-> rwPosition]
       IN  /\ Stored(w, d)
           /\ rwPosition' = w.position
           /\ currentPosition' = currentPosition + w.done
           /\ filesize' = IF x.ok THEN Greater(filesize, currentPosition') ELSE filesize
    /\ UNCHANGED appendPosition

(* Mutant of ClusterOf: going back does not begin at the first cluster. *)
ClusterOfAhead(p) ==
    IF p >= currentPosition
      THEN rwPosition.cluster + p \div ClusterBytes - currentPosition \div ClusterBytes
      ELSE rwPosition.cluster

ClusterOf(p) ==
    IF p >= currentPosition
      THEN rwPosition.cluster + p \div ClusterBytes - currentPosition \div ClusterBytes
      ELSE 1 + p \div ClusterBytes

(* _FAT_seek_r.  The place is set only for a position inside the file; the *)
(* cluster is counted from the current one when going forward.             *)
Seek(p) ==
    /\ ~full \/ GoesOnWhenFull
    /\ p = filesize => SeeksToEnd \/ p = currentPosition
    /\ p > filesize => SeeksPastEnd
    /\ rwPosition' = IF p >= filesize THEN rwPosition
                     ELSE IF ClusterOf(p) > clusters
                       THEN [cluster |-> clusters, sector |-> SectorsPerCluster, byte |-> 0]
                     ELSE [At(p) EXCEPT !.cluster = ClusterOf(p)]
    /\ currentPosition' = p
    /\ got' = <<>>
    /\ UNCHANGED <<disc, filesize, appendPosition, append, full, writes>>

(* _FAT_close_r puts the size into the directory, _FAT_open_r takes it. *)
Reopen(appends) ==
    /\ Opened(clusters, filesize, appends)
    /\ full' = FALSE /\ got' = <<>>
    /\ UNCHANGED <<disc, writes>>

(* With O_TRUNC. *)
ReopenTruncated(appends) ==
    /\ data' = [i \in 1 .. MaxSize |-> Junk]
    /\ clusters' = 1 /\ room' = room + clusters - 1
    /\ Opened(1, 0, appends)
    /\ full' = FALSE /\ got' = <<>>
    /\ UNCHANGED writes

FileNext ==
    \/ \E n \in Lengths : Read(n) \/ Write(n) \/ WriteAtEnd(n)
    \/ \E p \in 0 .. MaxSize : Seek(p)
    \/ \E appends \in BOOLEAN : Reopen(appends) \/ ReopenTruncated(appends)

FileSpec == FileInit /\ [][FileNext]_fileVars

-----------------------------------------------------------------------------
Bytes == [i \in 1 .. filesize |-> ByteAt(data, i)]

AsBytes == INSTANCE ByteFile WITH
    bytes <- Bytes, pos <- currentPosition, MaxPos <- MaxSize,
    Texts <- {Text(k, n) : k \in 0 .. MaxWrites - 1, n \in Lengths}

(* Reads and writes of any length, seeks inside the file, appending and    *)
(* closing and opening again: the file is the string of bytes written to   *)
(* it, in whatever clusters and sectors the transfers end.                 *)
ImplementsFile == AsBytes!Spec

(* The chain has the clusters the size needs and no more: _FAT_open_r      *)
(* takes its last cluster for the one the file ends in.                    *)
ChainFits == FileTypeOK /\ clusters = ClustersFor(filesize)

Wrote == writes' # writes

(* fatfile.c:546: the write goes to the position.  What is there then is   *)
(* what was written.                                                       *)
WritesAtPosition ==
    [][Wrote /\ ~append =>
          \A i \in currentPosition + 1 .. currentPosition' :
              Bytes'[i] = Text(writes, Longest)[i - currentPosition]]_fileVars

(* fatfile.c:420: extending a file gives it its new size; the bytes it had *)
(* stay.                                                                   *)
ExtendingKeeps ==
    [][Wrote /\ currentPosition > filesize => \A i \in 1 .. filesize : Bytes'[i] = Bytes[i]]_fileVars

(* fatfile.c:747: the cluster of a position inside the file is the one in  *)
(* which that position is.                                                 *)
SeeksToCluster ==
    [][currentPosition' < filesize /\ currentPosition' # currentPosition /\ ~Wrote /\ got' = <<>>
          => rwPosition' = At(currentPosition')]_fileVars

(* fatfile.c:564: a write that gets no cluster is aborted.  No write       *)
(* changes what comes before the place it is for.                          *)
WritesKeepBefore ==
    [][Wrote => \A i \in 1 .. Lesser(filesize, IF append THEN filesize ELSE currentPosition) :
                    Bytes'[i] = Bytes[i]]_fileVars

(* fatfile.c:681: appending does not affect the read pointer.  A read      *)
(* returns the bytes at the position.                                      *)
ReadsAtPosition ==
    [][got' # <<>> => got' = SubSeq(Bytes, currentPosition + 1, currentPosition')]_fileVars
=============================================================================
