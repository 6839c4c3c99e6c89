------------------------- MODULE SectorCacheProofs -------------------------
(***************************************************************************)
(* Proofs about the sector cache and about the adapters below it.          *)
(*                                                                         *)
(* The cache, for every number of pages and sectors: the invariants of     *)
(* SectorCache, for each sector until it is spoiled, and that the cache    *)
(* implements WriteBackDisc as long as no sector is, whatever the disc     *)
(* refuses.  A sector is spoiled when a load into its page fails or when   *)
(* it is written past the page it is on; no other assumption is made.      *)
(*                                                                         *)
(* The adapters (Cards), for cards of every size, every limit of attempts  *)
(* and of late answers and every adapter: a read that succeeds returns the *)
(* sectors that were asked for, a write changes no sector but its own, and *)
(* a card is ready for the next call after one that succeeded.             *)
(***************************************************************************)
EXTENDS SectorCache, Cards, TLAPS

(* The inductive invariant. *)
HeldCached ==
    \A p \in Pages : /\ held[p] \in Cached \cup {Free}
                     /\ held[p] = Free => ~dirty[p]

Coherent ==
    \A s \in Sectors \ spoiled :
        /\ \A p \in Pages : held[p] = s => data[p] = latest[s]
        /\ (\A p \in Pages : held[p] = s => ~dirty[p]) => disc[s] = latest[s]

IInv == TypeOK /\ HeldCached /\ OnePagePerSector /\ Coherent

(* What the initialisation gives. *)
LEMMA InitIInv == Init => IInv
  <1> SUFFICES ASSUME Init PROVE IInv
    OBVIOUS
  <1> USE CacheAssumption
  <1>1. [o \in Offsets |-> Zero] \in Contents
    BY DEF Contents
  <1>2. TypeOK
    BY <1>1 DEF Init, TypeOK
  <1>3. HeldCached /\ OnePagePerSector /\ Coherent
    BY DEF Init, HeldCached, OnePagePerSector, Coherent, Sectors
  <1> QED
    BY <1>2, <1>3 DEF IInv

(* A page written back: only its own sector changes on the disc, to what   *)
(* the page holds.                                                         *)
LEMMA WrittenBackContents ==
    ASSUME IInv, NEW p \in Pages
    PROVE  /\ WrittenBack(p) \in [Sectors -> Contents]
           /\ \A t \in Sectors : held[p] # t => WrittenBack(p)[t] = disc[t]
           /\ \A t \in Sectors : held[p] = t =>
                 WrittenBack(p)[t] = IF dirty[p] THEN data[p] ELSE disc[t]
  BY CacheAssumption DEF IInv, TypeOK, HeldCached, WrittenBack, Sectors

(* What _FAT_cache_getSector leaves behind. *)
LEMMA Swapped ==
    ASSUME IInv, NEW s \in Cached, NEW p \in Pages, NEW c \in Contents, GetSector(s, p, c)
    PROVE  /\ disc' \in [Sectors -> Contents]
           /\ held' = [held EXCEPT ![p] = s]
           /\ count' \in [Pages -> Nat]
           /\ \A q \in Pages : q # p => held[q] # s
           /\ s \notin spoiled => c = latest[s]
           /\ s \notin spoiled /\ held[p] # s => disc'[s] = latest[s]
           /\ held[p] = s => disc'[s] = disc[s]
           /\ \A t \in Sectors \ spoiled :
                 t # s /\ (\A q \in Pages : q # p /\ held[q] = t => ~dirty[q])
                   => disc'[t] = latest[t]
           /\ \A t \in Sectors \ spoiled : disc'[t] = disc[t] \/ disc'[t] = latest[t]
  <1> USE CacheAssumption
  <1>t. s \in Sectors
    BY DEF Sectors
  <1>c. count' \in [Pages -> Nat]
    BY DEF GetSector, IInv, TypeOK
  <1>1. CASE held[p] = s /\ c = data[p] /\ UNCHANGED <<disc, held>>
    <2>1. disc' \in [Sectors -> Contents] /\ held' = [held EXCEPT ![p] = s]
      BY <1>1 DEF IInv, TypeOK
    <2>2. \A q \in Pages : q # p => held[q] # s
      BY <1>1, <1>t DEF IInv, OnePagePerSector, Sectors
    <2>3. s \notin spoiled => c = latest[s]
      BY <1>1, <1>t DEF IInv, Coherent
    <2>4. \A t \in Sectors \ spoiled :
             t # s /\ (\A q \in Pages : q # p /\ held[q] = t => ~dirty[q])
               => disc'[t] = latest[t]
      BY <1>1 DEF IInv, Coherent
    <2> QED
      BY <1>1, <1>c, <2>1, <2>2, <2>3, <2>4
  <1>2. CASE /\ \A q \in Pages : held[q] # s
             /\ p = Victim /\ c = WrittenBack(p)[s]
             /\ disc' = WrittenBack(p)
             /\ held' = [held EXCEPT ![p] = s]
    <2>1. disc' \in [Sectors -> Contents]
      BY <1>2, WrittenBackContents
    <2>2. c = disc[s] /\ disc'[s] = disc[s]
      BY <1>2, <1>t, WrittenBackContents
    <2>3. s \notin spoiled => disc[s] = latest[s]
      BY <1>2, <1>t DEF IInv, Coherent
    <2>4. ASSUME NEW t \in Sectors \ spoiled, t # s,
                 \A q \in Pages : q # p /\ held[q] = t => ~dirty[q]
          PROVE  disc'[t] = latest[t]
      <3>1. CASE held[p] = t /\ dirty[p]
        BY <1>2, <2>4, <3>1, WrittenBackContents DEF IInv, Coherent
      <3>2. CASE ~(held[p] = t /\ dirty[p])
        <4>1. \A q \in Pages : held[q] = t => ~dirty[q]
          BY <2>4, <3>2
        <4> QED
          BY <1>2, <2>4, <3>2, <4>1, WrittenBackContents DEF IInv, Coherent
      <3> QED
        BY <3>1, <3>2
    <2>5. ASSUME NEW t \in Sectors \ spoiled
          PROVE  disc'[t] = disc[t] \/ disc'[t] = latest[t]
      BY <1>2, <2>5, WrittenBackContents DEF IInv, Coherent
    <2> QED
      BY <1>2, <1>c, <2>1, <2>2, <2>3, <2>4, <2>5
  <1> QED
    BY <1>1, <1>2 DEF GetSector

-----------------------------------------------------------------------------
(* The three calls on a cached sector: the page they use holds s           *)
(* afterwards, and its contents are what the callers wrote.                *)
LEMMA PageUsed ==
    ASSUME IInv, NEW s \in Cached, NEW p \in Pages, NEW c \in Contents, GetSector(s, p, c),
           NEW d \in Contents, data' = [data EXCEPT ![p] = d],
           dirty' \in [Pages -> BOOLEAN],
           \A q \in Pages : q # p => dirty'[q] = dirty[q],
           latest' \in [Sectors -> Contents],
           \A t \in Sectors : t # s => latest'[t] = latest[t],
           s \notin spoiled => latest'[s] = d,
           dirty'[p] \/ (latest' = latest /\ (dirty[p] => held[p] # s)),
           UNCHANGED spoiled, flushed' = "no",
           res' \in [sector : Sectors, offset : Offsets, value : Values] \cup {None}
    PROVE  IInv'
  <1> USE CacheAssumption
  <1>s. s \in Sectors /\ s # Free
    BY DEF Sectors
  <1>1. TypeOK'
    <2>1. disc' \in [Sectors -> Contents] /\ count' \in [Pages -> Nat]
      BY Swapped
    <2>2. held' \in [Pages -> Sectors \cup {Free}]
      BY <1>s, Swapped DEF IInv, TypeOK
    <2>3. data' \in [Pages -> Contents]
      BY DEF IInv, TypeOK
    <2>4. flushed' \in {"no", "cut", "all"} /\ spoiled' \subseteq Sectors
      BY DEF IInv, TypeOK
    <2> QED
      BY <2>1, <2>2, <2>3, <2>4 DEF TypeOK
  <1>2. HeldCached'
    BY <1>s, Swapped DEF IInv, TypeOK, HeldCached
  <1>3. OnePagePerSector'
    BY <1>s, Swapped DEF IInv, TypeOK, OnePagePerSector
  <1>4. Coherent'
    <2> SUFFICES ASSUME NEW t \in Sectors \ spoiled
                 PROVE  /\ \A q \in Pages : held'[q] = t => data'[q] = latest'[t]
                        /\ (\A q \in Pages : held'[q] = t => ~dirty'[q]) => disc'[t] = latest'[t]
      BY DEF Coherent
    <2>h. \A q \in Pages : held'[q] = IF q = p THEN s ELSE held[q]
      BY Swapped DEF IInv, TypeOK
    <2>d. \A q \in Pages : data'[q] = IF q = p THEN d ELSE data[q]
      BY DEF IInv, TypeOK
    <2>1. CASE t = s
      <3>1. \A q \in Pages : held'[q] = s => data'[q] = latest'[s]
        BY <2>1, <2>h, <2>d, Swapped
      <3>2. ASSUME \A q \in Pages : held'[q] = s => ~dirty'[q]
            PROVE  disc'[s] = latest'[s]
        <4>1. ~dirty'[p] /\ latest' = latest /\ (dirty[p] => held[p] # s)
          BY <2>h, <3>2
        <4>2. CASE held[p] = s
          <5>1. \A q \in Pages : held[q] = s => ~dirty[q]
            BY <4>1, <4>2, Swapped
          <5> QED
            BY <1>s, <2>1, <4>1, <4>2, <5>1, Swapped DEF IInv, Coherent
        <4>3. CASE held[p] # s
          BY <2>1, <4>1, <4>3, Swapped
        <4> QED
          BY <4>2, <4>3
      <3> QED
        BY <2>1, <3>1, <3>2
    <2>2. CASE t # s
      <3>1. \A q \in Pages : held'[q] = t => data'[q] = latest'[t]
        BY <2>2, <2>h, <2>d DEF IInv, Coherent
      <3>2. ASSUME \A q \in Pages : held'[q] = t => ~dirty'[q]
            PROVE  disc'[t] = latest'[t]
        <4>1. \A q \in Pages : q # p /\ held[q] = t => ~dirty[q]
          BY <2>h, <3>2
        <4> QED
          BY <2>2, <4>1, Swapped
      <3> QED
        BY <3>1, <3>2
    <2> QED
      BY <2>1, <2>2
  <1> QED
    BY <1>1, <1>2, <1>3, <1>4 DEF IInv

LEMMA ReadStep ==
    ASSUME IInv, NEW s \in Cached, NEW o \in Offsets, ReadPartialSector(s, o)
    PROVE  IInv'
  <1>1. PICK p \in Pages, c \in Contents :
          /\ GetSector(s, p, c)
          /\ data' = [data EXCEPT ![p] = c]
          /\ dirty' = [dirty EXCEPT ![p] = @ /\ held[p] = s]
          /\ res' = [sector |-> s, offset |-> o, value |-> c[o]]
          /\ flushed' = "no"
          /\ UNCHANGED <<latest, spoiled>>
    BY DEF ReadPartialSector
  <1>2. /\ dirty' \in [Pages -> BOOLEAN]
        /\ \A q \in Pages : q # p => dirty'[q] = dirty[q]
        /\ dirty'[p] \/ (latest' = latest /\ (dirty[p] => held[p] # s))
    BY <1>1 DEF IInv, TypeOK
  <1>3. res' \in [sector : Sectors, offset : Offsets, value : Values] \cup {None}
    BY <1>1 DEF Sectors, Contents
  <1>4. latest' \in [Sectors -> Contents]
    BY <1>1 DEF IInv, TypeOK
  <1>5. s \notin spoiled => latest'[s] = c
    BY <1>1, Swapped
  <1> QED
    BY <1>1, <1>2, <1>3, <1>4, <1>5, PageUsed

LEMMA WriteStep ==
    ASSUME IInv, NEW s \in Cached, NEW o \in Offsets, NEW v \in Values,
           WritePartialSector(s, o, v) \/ EraseWritePartialSector(s, o, v)
    PROVE  IInv'
  <1> DEFINE new == [q \in Offsets |-> IF q = o THEN v ELSE Zero]
  <1>n. new \in Contents
    BY CacheAssumption DEF Contents
  <1>s. s \in Sectors
    BY DEF Sectors
  <1>1. CASE WritePartialSector(s, o, v)
    <2>1. PICK p \in Pages, c \in Contents :
            /\ GetSector(s, p, c)
            /\ data' = [data EXCEPT ![p] = [c EXCEPT ![o] = v]]
            /\ dirty' = [dirty EXCEPT ![p] = TRUE]
            /\ latest' = [latest EXCEPT ![s][o] = v]
            /\ res' = None /\ flushed' = "no"
            /\ UNCHANGED spoiled
      BY <1>1 DEF WritePartialSector
    <2>2. [c EXCEPT ![o] = v] \in Contents
      BY DEF Contents
    <2>3. /\ latest' \in [Sectors -> Contents]
          /\ \A t \in Sectors : t # s => latest'[t] = latest[t]
      BY <1>s, <2>1 DEF IInv, TypeOK, Contents
    <2>4. s \notin spoiled => latest'[s] = [c EXCEPT ![o] = v]
      <3>1. s \notin spoiled => c = latest[s]
        BY <2>1, Swapped
      <3>2. latest'[s] = [latest[s] EXCEPT ![o] = v]
        BY <1>s, <2>1 DEF IInv, TypeOK
      <3> QED
        BY <3>1, <3>2
    <2>5. /\ dirty' \in [Pages -> BOOLEAN] /\ dirty'[p]
          /\ \A q \in Pages : q # p => dirty'[q] = dirty[q]
      BY <2>1 DEF IInv, TypeOK
    <2> QED
      BY <2>1, <2>2, <2>3, <2>4, <2>5, PageUsed
  <1>2. CASE EraseWritePartialSector(s, o, v)
    <2>1. PICK p \in Pages, c \in Contents :
            /\ GetSector(s, p, c)
            /\ data' = [data EXCEPT ![p] = new]
            /\ dirty' = [dirty EXCEPT ![p] = TRUE]
            /\ latest' = [latest EXCEPT ![s] = new]
            /\ res' = None /\ flushed' = "no"
            /\ UNCHANGED spoiled
      BY <1>2 DEF EraseWritePartialSector
    <2>2. /\ dirty' \in [Pages -> BOOLEAN] /\ dirty'[p]
          /\ \A q \in Pages : q # p => dirty'[q] = dirty[q]
      BY <2>1 DEF IInv, TypeOK
    <2>3. /\ latest' \in [Sectors -> Contents] /\ latest'[s] = new
          /\ \A t \in Sectors : t # s => latest'[t] = latest[t]
      BY <1>n, <1>s, <2>1 DEF IInv, TypeOK
    <2> QED
      BY <1>n, <2>1, <2>2, <2>3, PageUsed
  <1> QED
    BY <1>1, <1>2

(* A page that could not be filled spoils the sector it held, no other. *)
LEMMA FailStep ==
    ASSUME IInv, NEW s \in Cached, SaveFails(s) \/ LoadFails(s)
    PROVE  IInv'
  <1>1. CASE SaveFails(s)
    BY <1>1 DEF SaveFails, pageVars, IInv, TypeOK, HeldCached, OnePagePerSector, Coherent
  <1>2. CASE LoadFails(s)
    <2>1. PICK p \in Pages, c \in Contents :
            /\ disc' = WrittenBack(p)
            /\ dirty' = [dirty EXCEPT ![p] = FALSE]
            /\ data' = [data EXCEPT ![p] = c]
            /\ spoiled' = spoiled \cup ({held[p]} \ {Free})
            /\ res' = None /\ flushed' = "no"
            /\ UNCHANGED <<held, count, latest>>
      BY <1>2 DEF LoadFails
    <2>2. TypeOK'
      <3>1. spoiled' \subseteq Sectors
        BY <2>1 DEF IInv, TypeOK
      <3> QED
        BY <2>1, <3>1, WrittenBackContents DEF IInv, TypeOK
    <2>3. HeldCached' /\ OnePagePerSector'
      BY <2>1 DEF IInv, TypeOK, HeldCached, OnePagePerSector
    <2>4. Coherent'
      <3> SUFFICES ASSUME NEW t \in Sectors \ spoiled'
                   PROVE  /\ \A q \in Pages : held[q] = t => data'[q] = latest[t]
                          /\ (\A q \in Pages : held[q] = t => ~dirty'[q]) => disc'[t] = latest[t]
        BY <2>1 DEF Coherent
      <3>1. t \notin spoiled /\ held[p] # t
        BY <2>1, CacheAssumption DEF Sectors
      <3>2. \A q \in Pages : held[q] = t => data'[q] = data[q] /\ dirty'[q] = dirty[q]
        BY <2>1, <3>1 DEF IInv, TypeOK
      <3>3. disc'[t] = disc[t]
        BY <2>1, <3>1, WrittenBackContents
      <3> QED
        BY <3>1, <3>2, <3>3 DEF IInv, Coherent
    <2> QED
      BY <2>2, <2>3, <2>4 DEF IInv
  <1> QED
    BY <1>1, <1>2

(* A flush of the pages before n: their sectors are on the disc, the rest  *)
(* of the disc is as it was.                                               *)
LEMMA FlushedDisc ==
    ASSUME IInv, Flush
    PROVE  /\ TypeOK'
           /\ \E n \in 0 .. NumPages :
                /\ n < NumPages => DiscFails
                /\ flushed' = IF n < NumPages THEN "cut" ELSE "all"
                /\ \A s \in Sectors :
                     \/ \E p \in Pages : p < n /\ held[p] = s /\ dirty[p] /\ disc'[s] = data[p]
                     \/ disc'[s] = disc[s] /\ \A p \in Pages : p < n /\ held[p] = s => ~dirty[p]
                /\ \A p \in Pages : IF p < n THEN ~dirty'[p] ELSE dirty'[p] = dirty[p]
           /\ UNCHANGED <<held, data, latest, spoiled>>
  <1> DEFINE saved(n, s) == {p \in 0 .. n - 1 : dirty[p] /\ held[p] = s}
  <1>1. PICK n \in 0 .. NumPages :
          /\ n < NumPages => DiscFails /\ dirty[n]
          /\ disc' = [s \in Sectors |-> IF saved(n, s) = {} THEN disc[s]
                                        ELSE data[CHOOSE p \in saved(n, s) : TRUE]]
          /\ count' = [p \in Pages |-> IF p < n THEN 0 ELSE count[p]]
          /\ dirty' = [p \in Pages |-> p >= n /\ dirty[p]]
          /\ res' = None /\ flushed' = IF n < NumPages THEN "cut" ELSE "all"
          /\ UNCHANGED <<held, data, latest, spoiled>>
    BY DEF Flush
  <1>2. \A s \in Sectors : saved(n, s) # {} =>
           \E p \in Pages : p < n /\ held[p] = s /\ dirty[p] /\ disc'[s] = data[p]
    <2> SUFFICES ASSUME NEW s \in Sectors, saved(n, s) # {}
                 PROVE  \E p \in Pages : p < n /\ held[p] = s /\ dirty[p] /\ disc'[s] = data[p]
      OBVIOUS
    <2> DEFINE q == CHOOSE p \in saved(n, s) : TRUE
    <2>1. q \in saved(n, s)
      OBVIOUS
    <2>2. disc'[s] = data[q]
      BY <1>1
    <2>3. q \in Pages /\ q < n
      BY <2>1, CacheAssumption DEF Pages
    <2> QED
      BY <2>1, <2>2, <2>3
  <1>3. \A s \in Sectors : saved(n, s) = {} =>
           disc'[s] = disc[s] /\ \A p \in Pages : p < n /\ held[p] = s => ~dirty[p]
    BY <1>1, CacheAssumption DEF Pages
  <1>4. TypeOK'
    <2>1. disc' \in [Sectors -> Contents]
      <3>1. \A s \in Sectors : disc'[s] \in Contents
        BY <1>2, <1>3 DEF IInv, TypeOK
      <3> QED
        BY <1>1, <3>1
    <2>2. count' \in [Pages -> Nat]
      BY <1>1 DEF IInv, TypeOK
    <2>3. dirty' \in [Pages -> BOOLEAN]
      BY <1>1 DEF IInv, TypeOK
    <2> QED
      BY <1>1, <2>1, <2>2, <2>3 DEF IInv, TypeOK
  <1>5. \A p \in Pages : IF p < n THEN ~dirty'[p] ELSE dirty'[p] = dirty[p]
    <2> SUFFICES ASSUME NEW p \in Pages
                 PROVE  IF p < n THEN ~dirty'[p] ELSE dirty'[p] = dirty[p]
      OBVIOUS
    <2>1. (p < n) = ~(p >= n)
      BY DEF Pages
    <2>2. dirty[p] \in BOOLEAN /\ dirty'[p] = (p >= n /\ dirty[p])
      BY <1>1 DEF IInv, TypeOK
    <2> QED
      BY <2>1, <2>2, Zenon
  <1>6. \A s \in Sectors :
           \/ \E p \in Pages : p < n /\ held[p] = s /\ dirty[p] /\ disc'[s] = data[p]
           \/ disc'[s] = disc[s] /\ \A p \in Pages : p < n /\ held[p] = s => ~dirty[p]
    BY <1>2, <1>3
  <1> HIDE DEF saved
  <1> QED
    BY <1>1, <1>4, <1>5, <1>6

LEMMA FlushStep ==
    ASSUME IInv, Flush
    PROVE  IInv'
  <1>1. PICK n \in 0 .. NumPages :
                /\ \A s \in Sectors :
                     \/ \E p \in Pages : p < n /\ held[p] = s /\ dirty[p] /\ disc'[s] = data[p]
                     \/ disc'[s] = disc[s] /\ \A p \in Pages : p < n /\ held[p] = s => ~dirty[p]
                /\ \A p \in Pages : IF p < n THEN ~dirty'[p] ELSE dirty'[p] = dirty[p]
    BY FlushedDisc
  <1>2. /\ TypeOK'
        /\ UNCHANGED <<held, data, latest, spoiled>>
    BY FlushedDisc
  <1>3. HeldCached' /\ OnePagePerSector'
    BY <1>1, <1>2 DEF IInv, HeldCached, OnePagePerSector
  <1>4. Coherent'
    <2> SUFFICES ASSUME NEW s \in Sectors \ spoiled,
                        \A p \in Pages : held[p] = s => ~dirty'[p]
                 PROVE  disc'[s] = latest[s]
      BY <1>2 DEF IInv, Coherent
    <2>1. CASE \E p \in Pages : p < n /\ held[p] = s /\ dirty[p] /\ disc'[s] = data[p]
      BY <2>1 DEF IInv, Coherent
    <2>2. CASE disc'[s] = disc[s] /\ \A p \in Pages : p < n /\ held[p] = s => ~dirty[p]
      <3>1. \A p \in Pages : p < n \/ p >= n
        BY DEF Pages
      <3>2. \A p \in Pages : held[p] = s => ~dirty[p]
        BY <1>1, <2>2, <3>1
      <3> QED
        BY <2>2, <3>2 DEF IInv, Coherent
    <2> QED
      BY <1>1, <2>1, <2>2
  <1> QED
    BY <1>2, <1>3, <1>4 DEF IInv

LEMMA InvalidateStep ==
    ASSUME IInv, Invalidate
    PROVE  IInv'
  <1>1. TypeOK'
    BY DEF Invalidate, IInv, TypeOK
  <1>2. HeldCached' /\ OnePagePerSector'
    BY DEF Invalidate, HeldCached, OnePagePerSector
  <1>3. Coherent'
    BY CacheAssumption DEF Invalidate, Coherent, Sectors
  <1> QED
    BY <1>1, <1>2, <1>3 DEF IInv

LEMMA DirectReadStep ==
    ASSUME IInv, NEW s \in Direct, NEW o \in Offsets, DirectRead(s, o)
    PROVE  IInv'
  <1>1. res' \in [sector : Sectors, offset : Offsets, value : Values]
    BY DEF DirectRead, IInv, TypeOK, Contents, Sectors
  <1>2. /\ UNCHANGED <<disc, held, count, dirty, data, latest, spoiled>>
        /\ flushed' = "no"
    BY DEF DirectRead, pageVars
  <1>3. TypeOK'
    BY <1>1, <1>2 DEF IInv, TypeOK
  <1> QED
    BY <1>2, <1>3 DEF IInv, HeldCached, OnePagePerSector, Coherent

(* A sector written past the cache is on no page, or it is spoiled. *)
LEMMA DirectWriteStep ==
    ASSUME IInv, NEW s \in Direct, NEW c \in Contents, DirectWrite(s, c)
    PROVE  IInv'
  <1>s. s \in Sectors
    BY DEF Sectors
  <1>1. /\ UNCHANGED <<held, count, dirty, data>>
        /\ disc' = [disc EXCEPT ![s] = c] /\ latest' = [latest EXCEPT ![s] = c]
        /\ res' = None /\ flushed' = "no"
        /\ spoiled' = IF Holding(s) = {} THEN spoiled ELSE spoiled \cup {s}
    BY DEF DirectWrite, pageVars
  <1>2. TypeOK'
    BY <1>s, <1>1 DEF IInv, TypeOK
  <1>3. HeldCached' /\ OnePagePerSector'
    BY <1>1 DEF IInv, HeldCached, OnePagePerSector
  <1>4. Coherent'
    <2> SUFFICES ASSUME NEW t \in Sectors \ spoiled'
                 PROVE  /\ \A p \in Pages : held[p] = t => data[p] = latest'[t]
                        /\ (\A p \in Pages : held[p] = t => ~dirty[p]) => disc'[t] = latest'[t]
      BY <1>1 DEF Coherent
    <2>1. CASE t = s
      <3>1. Holding(s) = {}
        BY <1>1, <2>1
      <3> QED
        BY <1>s, <1>1, <2>1, <3>1 DEF Holding, IInv, TypeOK
    <2>2. CASE t # s
      <3>1. t \notin spoiled /\ disc'[t] = disc[t] /\ latest'[t] = latest[t]
        BY <1>s, <1>1, <2>2 DEF IInv, TypeOK
      <3> QED
        BY <3>1 DEF IInv, Coherent
    <2> QED
      BY <2>1, <2>2
  <1> QED
    BY <1>2, <1>3, <1>4 DEF IInv

LEMMA NextIInv ==
    ASSUME IInv, [Next]_vars
    PROVE  IInv'
  <1>1. ASSUME NEW s \in Cached, NEW o \in Offsets, ReadPartialSector(s, o)
        PROVE  IInv'
    BY <1>1, ReadStep
  <1>2. ASSUME NEW s \in Cached, NEW o \in Offsets, NEW v \in Values,
               WritePartialSector(s, o, v) \/ EraseWritePartialSector(s, o, v)
        PROVE  IInv'
    BY <1>2, WriteStep
  <1>3. ASSUME NEW s \in Cached, SaveFails(s) \/ LoadFails(s)
        PROVE  IInv'
    BY <1>3, FailStep
  <1>4. ASSUME NEW s \in Direct, NEW o \in Offsets, DirectRead(s, o)
        PROVE  IInv'
    BY <1>4, DirectReadStep
  <1>5. ASSUME NEW s \in Direct, NEW c \in Contents, DirectWrite(s, c)
        PROVE  IInv'
    BY <1>5, DirectWriteStep
  <1>6. CASE UNCHANGED vars
    BY <1>6 DEF vars, pageVars, IInv, TypeOK, HeldCached, OnePagePerSector, Coherent
  <1> QED
    BY <1>1, <1>2, <1>3, <1>4, <1>5, <1>6, FlushStep, InvalidateStep DEF Next

-----------------------------------------------------------------------------
(* The invariant of the cache, for every number of pages and sectors,      *)
(* whatever the disc refuses and whichever sectors are transferred past    *)
(* the cache: what a page holds is the latest contents of its sector, and  *)
(* so is the disc for a sector without a dirty page, until that sector is  *)
(* spoiled.                                                                *)
THEOREM Safety == Spec => []IInv
<1>1. Init => IInv
  BY InitIInv
<1>2. IInv /\ [Next]_vars => IInv'
  BY NextIInv
<1> QED
  BY <1>1, <1>2, PTL DEF Spec

(* Every variable of the cache keeps its type, also when sectors are       *)
(* transferred past the pages they are on.                                 *)
THEOREM TypeCorrect == Spec => []TypeOK
<1>1. IInv => TypeOK
  BY DEF IInv
<1> QED
  BY <1>1, Safety, PTL

(* _FAT_cache_getSector never puts a sector on a second page, also when it *)
(* fails half way.                                                         *)
THEOREM NoSecondPage == Spec => []OnePagePerSector
<1>1. IInv => OnePagePerSector
  BY DEF IInv
<1> QED
  BY <1>1, Safety, PTL

(* Under the invariant the contents the next access finds are the latest.  *)
LEMMA CurrentIsLatest ==
    ASSUME IInv, NEW s \in Sectors \ spoiled
    PROVE  Current(s) = latest[s]
  <1>1. CASE Holding(s) = {}
    BY <1>1 DEF Current, Holding, IInv, Coherent
  <1>2. CASE Holding(s) # {}
    <2> DEFINE q == CHOOSE p \in Holding(s) : TRUE
    <2>1. q \in Holding(s)
      BY <1>2
    <2>2. q \in Pages /\ held[q] = s
      BY <2>1 DEF Holding
    <2>3. data[q] = latest[s]
      BY <2>2 DEF IInv, Coherent
    <2> QED
      BY <1>2, <2>3 DEF Current
  <1> QED
    BY <1>1, <1>2

(* A refused write, a full cache, a flush cut short, another sector that   *)
(* is spoiled: as long as a sector is not spoiled itself, what was written *)
(* to it last is on a page or on the disc.                                 *)
THEOREM WritesKept == Spec => []NothingLost
<1>1. IInv => NothingLost
  <2> SUFFICES ASSUME IInv, NEW s \in Sectors \ spoiled
               PROVE  /\ Current(s) = latest[s]
                      /\ (\A p \in Holding(s) : ~dirty[p]) => disc[s] = latest[s]
    BY DEF NothingLost
  <2>1. (\A p \in Holding(s) : ~dirty[p]) => disc[s] = latest[s]
    BY DEF Holding, IInv, Coherent
  <2> QED
    BY <2>1, CurrentIsLatest
<1> QED
  BY <1>1, Safety, PTL

-----------------------------------------------------------------------------
(* The refinement.  While no sector is spoiled the contents the callers    *)
(* see are latest, in every state.                                         *)
NoneSpoiled == IInv /\ spoiled = {}

LEMMA SeenIsLatest ==
    ASSUME NoneSpoiled
    PROVE  [s \in Sectors |-> Current(s)] = latest
  BY CurrentIsLatest DEF NoneSpoiled, IInv, TypeOK

LEMMA SeenIsLatestNext ==
    ASSUME NoneSpoiled'
    PROVE  [s \in Sectors |-> Current(s)]' = latest'
  <1>1. ASSUME NEW s \in Sectors
        PROVE  Current(s)' = latest'[s]
    <2>1. CASE Holding(s)' = {}
      BY <2>1 DEF Current, Holding, NoneSpoiled, IInv, Coherent
    <2>2. CASE Holding(s)' # {}
      <3> DEFINE q == CHOOSE p \in Holding(s)' : TRUE
      <3>1. q \in Holding(s)'
        BY <2>2
      <3>2. q \in Pages /\ held'[q] = s
        BY <3>1 DEF Holding
      <3>3. data'[q] = latest'[s]
        BY <3>2 DEF NoneSpoiled, IInv, Coherent
      <3> QED
        BY <2>2, <3>3 DEF Current
    <2> QED
      BY <2>1, <2>2
  <1> QED
    BY <1>1 DEF NoneSpoiled, IInv, TypeOK

(* A call on a cached sector writes back other sectors at most. *)
LEMMA Spilled ==
    ASSUME NoneSpoiled, NEW s \in Cached, NEW p \in Pages, NEW c \in Contents, GetSector(s, p, c)
    PROVE  Abstract!Spill
  <1> DEFINE mem == [t \in Sectors |-> Current(t)]
             back == {t \in Sectors : disc'[t] = latest[t]}
  <1>1. mem = latest
    BY SeenIsLatest
  <1>2. \A t \in Sectors : disc'[t] = IF t \in back THEN latest[t] ELSE disc[t]
    BY Swapped DEF NoneSpoiled
  <1>3. disc' = [t \in Sectors |-> IF t \in back THEN mem[t] ELSE disc[t]]
    BY <1>1, <1>2, Swapped DEF NoneSpoiled
  <1> QED
    BY <1>3 DEF Abstract!Spill

LEMMA StepRefines ==
    ASSUME NoneSpoiled, NoneSpoiled', [Next]_vars
    PROVE  [Abstract!Next]_Abstract!vars
  <1> DEFINE mem == [t \in Sectors |-> Current(t)]
  <1>m. mem = latest /\ mem' = latest'
    BY SeenIsLatest, SeenIsLatestNext
  <1>t. latest \in [Sectors -> Contents] /\ disc \in [Sectors -> Contents]
    BY DEF NoneSpoiled, IInv, TypeOK
  <1>c. Cached \subseteq Sectors /\ Direct \subseteq Sectors
    BY DEF Sectors
  <1>1. ASSUME NEW s \in Cached, NEW o \in Offsets, ReadPartialSector(s, o)
        PROVE  Abstract!Read(s, o)
    <2>1. PICK p \in Pages, c \in Contents :
            /\ GetSector(s, p, c)
            /\ res' = [sector |-> s, offset |-> o, value |-> c[o]]
            /\ flushed' = "no"
            /\ UNCHANGED latest
      BY <1>1 DEF ReadPartialSector
    <2>2. c = latest[s]
      BY <2>1, Swapped DEF NoneSpoiled
    <2>3. Abstract!Spill
      BY <2>1, Spilled
    <2> QED
      BY <1>m, <1>c, <2>1, <2>2, <2>3 DEF Abstract!Read
  <1>2. ASSUME NEW s \in Cached, NEW o \in Offsets, NEW v \in Values, WritePartialSector(s, o, v)
        PROVE  Abstract!Write(s, o, v)
    <2>1. PICK p \in Pages, c \in Contents :
            /\ GetSector(s, p, c)
            /\ latest' = [latest EXCEPT ![s][o] = v]
            /\ res' = None /\ flushed' = "no"
      BY <1>2 DEF WritePartialSector
    <2>2. Abstract!Spill
      BY <2>1, Spilled
    <2> QED
      BY <1>m, <2>1, <2>2 DEF Abstract!Write
  <1>3. ASSUME NEW s \in Cached, NEW o \in Offsets, NEW v \in Values, EraseWritePartialSector(s, o, v)
        PROVE  Abstract!EraseWrite(s, o, v)
    <2>1. PICK p \in Pages, c \in Contents :
            /\ GetSector(s, p, c)
            /\ latest' = [latest EXCEPT ![s] = [q \in Offsets |-> IF q = o THEN v ELSE Zero]]
            /\ res' = None /\ flushed' = "no"
      BY <1>3 DEF EraseWritePartialSector
    <2>2. Abstract!Spill
      BY <2>1, Spilled
    <2> QED
      BY <1>m, <2>1, <2>2 DEF Abstract!EraseWrite
  <1>f. ASSUME disc' \in [Sectors -> Contents], latest' = latest, res' = None, flushed' # "all",
               \A t \in Sectors : disc'[t] = disc[t] \/ disc'[t] = latest[t]
        PROVE  Abstract!Refused
    <2> DEFINE back == {t \in Sectors : disc'[t] = latest[t]}
    <2>1. disc' = [t \in Sectors |-> IF t \in back THEN mem[t] ELSE disc[t]]
      BY <1>m, <1>f
    <2> QED
      BY <1>m, <1>f, <2>1 DEF Abstract!Refused, Abstract!Spill
  <1>4. ASSUME NEW s \in Cached, SaveFails(s) \/ LoadFails(s)
        PROVE  Abstract!Refused
    <2>1. CASE SaveFails(s)
      BY <1>f, <1>t, <2>1 DEF SaveFails
    <2>2. CASE LoadFails(s)
      <3>1. PICK p \in Pages, c \in Contents :
              /\ disc' = WrittenBack(p)
              /\ spoiled' = spoiled \cup ({held[p]} \ {Free})
              /\ res' = None /\ flushed' = "no"
              /\ UNCHANGED <<held, count, latest>>
        BY <2>2 DEF LoadFails
      <3>2. held[p] = Free
        BY <3>1 DEF NoneSpoiled
      <3>3. disc' = disc
        BY <3>1, <3>2 DEF WrittenBack
      <3> QED
        BY <1>f, <1>t, <3>1, <3>3
    <2> QED
      BY <1>4, <2>1, <2>2
  <1>5. CASE Flush
    <2>1. PICK n \in 0 .. NumPages :
             /\ flushed' = IF n < NumPages THEN "cut" ELSE "all"
             /\ \A s \in Sectors :
                  \/ \E p \in Pages : p < n /\ held[p] = s /\ dirty[p] /\ disc'[s] = data[p]
                  \/ disc'[s] = disc[s] /\ \A p \in Pages : p < n /\ held[p] = s => ~dirty[p]
      BY <1>5, FlushedDisc DEF NoneSpoiled
    <2>2. disc' \in [Sectors -> Contents] /\ latest' = latest
      BY <1>5, FlushedDisc DEF NoneSpoiled, TypeOK
    <2>3. res' = None
      BY <1>5 DEF Flush
    <2>4. CASE n = NumPages
      <3>1. \A p \in Pages : p < n
        BY <2>4, CacheAssumption DEF Pages
      <3>2. \A s \in Sectors : disc'[s] = latest[s]
        BY <2>1, <3>1 DEF NoneSpoiled, IInv, Coherent
      <3>3. disc' = latest
        BY <1>t, <2>2, <3>2
      <3>4. flushed' = "all"
        BY <2>1, <2>4, CacheAssumption
      <3>5. Abstract!Flush
        BY <1>m, <2>2, <2>3, <3>3, <3>4 DEF Abstract!Flush
      <3> QED
        BY <3>5 DEF Abstract!Next
    <2>5. CASE n # NumPages
      <3>1. \A s \in Sectors : disc'[s] = disc[s] \/ disc'[s] = latest[s]
        BY <2>1 DEF NoneSpoiled, IInv, Coherent
      <3>2. flushed' # "all"
        BY <2>1, <2>5, CacheAssumption
      <3> QED
        BY <1>f, <2>2, <2>3, <3>1, <3>2 DEF Abstract!Next
    <2> QED
      BY <2>4, <2>5
  <1>6. CASE Invalidate
    BY <1>6, <1>m DEF Invalidate, Abstract!Invalidate, Abstract!Next
  <1>7. ASSUME NEW s \in Direct, NEW o \in Offsets, DirectRead(s, o)
        PROVE  Abstract!DirectRead(s, o)
    BY <1>7, <1>m DEF DirectRead, Abstract!DirectRead
  <1>8. ASSUME NEW s \in Direct, NEW c \in Contents, DirectWrite(s, c)
        PROVE  Abstract!DirectWrite(s, c)
    BY <1>8, <1>m DEF DirectWrite, Abstract!DirectWrite
  <1>9. CASE UNCHANGED vars
    BY <1>9, <1>m DEF vars, pageVars, Abstract!vars
  <1>10. CASE Next
    <2>1. ASSUME NEW s \in Cached, NEW o \in Offsets, ReadPartialSector(s, o)
          PROVE  Abstract!Next
      BY <1>c, <1>1, <2>1 DEF Abstract!Next
    <2>2. ASSUME NEW s \in Cached, NEW o \in Offsets, NEW v \in Values,
                 WritePartialSector(s, o, v) \/ EraseWritePartialSector(s, o, v)
          PROVE  Abstract!Next
      BY <1>c, <1>2, <1>3, <2>2 DEF Abstract!Next
    <2>3. ASSUME NEW s \in Direct, NEW o \in Offsets, DirectRead(s, o)
          PROVE  Abstract!Next
      BY <1>c, <1>7, <2>3 DEF Abstract!Next
    <2>4. ASSUME NEW s \in Direct, NEW c \in Contents, DirectWrite(s, c)
          PROVE  Abstract!Next
      BY <1>c, <1>8, <2>4 DEF Abstract!Next, Contents, Abstract!Contents
    <2> QED
      BY <1>10, <1>4, <1>5, <1>6, <2>1, <2>2, <2>3, <2>4 DEF Next, Abstract!Next
  <1> QED
    BY <1>9, <1>10

(* While no sector is spoiled the cache is a disc that writes back late:   *)
(* reads return what was written last, a flush that reaches its end leaves *)
(* it all on the disc, and a write the disc refuses loses nothing.         *)
THEOREM Implements == Spec => ImplementsWriteBack
<1>1. Init => Abstract!Init
  <2> SUFFICES ASSUME Init PROVE Abstract!Init
    OBVIOUS
  <2>1. NoneSpoiled
    BY InitIInv DEF NoneSpoiled, Init
  <2>2. [s \in Sectors |-> Current(s)] = latest
    BY <2>1, SeenIsLatest
  <2>3. latest \in [Sectors -> [Offsets -> Values]]
    BY <2>1 DEF NoneSpoiled, IInv, TypeOK, Contents
  <2> QED
    BY <2>2, <2>3 DEF Init, Abstract!Init, Abstract!Contents
<1>2. IInv /\ IInv' /\ [Next]_vars => [spoiled' # {} \/ Abstract!Next]_Abstract!vars
  <2> SUFFICES ASSUME IInv, IInv', [Next]_vars, spoiled' = {}
               PROVE  [Abstract!Next]_Abstract!vars
    OBVIOUS
  <2>s. NoneSpoiled'
    BY DEF NoneSpoiled
  <2>1. CASE Invalidate
    BY <2>1, <2>s, SeenIsLatestNext DEF Invalidate, Abstract!Invalidate, Abstract!Next
  <2>2. CASE spoiled = {}
    <3>1. NoneSpoiled
      BY <2>2 DEF NoneSpoiled
    <3> QED
      BY <2>s, <3>1, StepRefines
  <2> QED
    BY <2>1, <2>2 DEF Next, vars, ReadPartialSector, WritePartialSector, EraseWritePartialSector,
                      SaveFails, LoadFails, Flush, DirectRead, DirectWrite
<1> QED
  BY <1>1, <1>2, Safety, PTL DEF Spec, ImplementsWriteBack

-----------------------------------------------------------------------------
(* The adapters.                                                           *)
(*                                                                         *)
(* CardsInv: the types; at which step a call may be and what it has done   *)
(* so far (CallOK); what each block may hold (Kept: what the calls before  *)
(* owe, or what this call writes); what a read has delivered (Reads); and  *)
(* for each adapter what its card then is.                                 *)
(* Types.                                                                  *)

Places == Calls \cup {"done", "init", "app", "opcond", "cid", "rca", "select", "width", "status", "data", "stop",
                      "send", "programming", "rcv", "reset", "poll", "blocklen", "block", "token", "busy", "copy"}
States == {"off", "idle", "ready", "ident", "stby", "tran", "data", "rcv", "prg"}
Sums   == {Crc16(v) : v \in Nat}
CallRecs == [fn : Calls, s : Blocks, n : 0 .. MaxBlocks, i : 0 .. MaxBlocks, at : Places, ok : BOOLEAN,
             rsp : {"none", "app", "op", "tran"}, tries : 0 .. Tries, crc : Sums]
PendRecs == [block : Blocks, value : BlockContents]
CardRecs == [state : States, pos : Nat, left : 0 .. Many, wide : BOOLEAN, pend : PendRecs]
PortRecs == [media : BOOLEAN, addressed : BOOLEAN]

CallTypes ==
    /\ kind \in Kinds /\ started \in BOOLEAN /\ clean \in BOOLEAN /\ written \in 0 .. MaxWritten
    /\ op \in CallRecs
CardTypes ==
    /\ present \in BOOLEAN /\ late \in 0 .. Lateness
    /\ card \in CardRecs /\ port \in PortRecs
DataTypes ==
    /\ memory \in [Blocks -> BlockContents] /\ owed \in [Blocks -> SUBSET BlockContents]
    /\ buf \in Seq(BlockContents)
    /\ sram \in [marked : BOOLEAN, cells : [Cells -> BlockContents]]

-----------------------------------------------------------------------------
(* What all adapters have in common.                                       *)

Running == ~At("done")
Reading == op.fn = "readSectors" /\ Running
Writing == op.fn = "writeSectors" /\ Running
Idles   == card.pend = Nothing
CurrentBlock == op.s + op.i
Pends(b) == card.pend = [block |-> b, value |-> DataFor(b)]

(* A call is about blocks of the card, and each block that was read is in  *)
(* the buffer.                                                             *)
CallOK ==
    /\ Running => /\ op.n >= 1 /\ op.s + op.n <= LastBlock + 1 /\ op.i <= op.n
                  /\ At("stop") \/ op.i < op.n
                  /\ op.fn = "startUp" <=> ~started
    /\ op.at \in Calls => op.fn = op.at /\ (op.i = 0 \/ (At("writeSectors") /\ kind \in SdKinds) \/ kind = "ak")
    /\ op.i > 0 => Reading \/ Writing
    /\ Len(buf) <= MaxBlocks
    /\ Reading => Len(buf) = op.i
    /\ Running /\ ~Reading => buf = <<>>
    /\ At("opcond") => op.tries < Tries

(* A card that sends, or takes a counted number of blocks, has one left.   *)
LeftOK == card.state = "data" \/ (kind \in CfKinds /\ card.state = "rcv") => card.left >= 1

GoneOK == ~present => Idles /\ (kind \notin Soldered => card.state = "off")

(* What a block may hold while a call runs.                                *)
Owe(b) == owed[b] \cup IF Writing /\ b \in Transfers THEN {DataFor(b)} ELSE {}

(* A call that writes knows what it has written, but for NinjaDS, when the *)
(* write before it has failed, and a CF card that did not take the command. *)
Knows == Writing /\ (kind \in {"njsd"} \cup CfKinds => clean)

(* What is on the card, or on its way: a CompactFlash card may report that *)
(* it has taken a block before it has programmed it.                       *)
Put(b) == memory[b] = DataFor(b) \/ (kind \in CfKinds /\ Pends(b))
(* A card programs a block of the call only, and that as it was sent.      *)
OwnOnly == Idles \/ (card.pend.block \in Transfers /\ Pends(card.pend.block))

(* The blocks of the card, and the one it programs.                        *)
Kept ==
    kind # "fcsr" /\ (present \/ kind \in Confirms) =>
      /\ \A b \in Blocks : memory[b] \in Owe(b) \/ (kind \in CfKinds /\ ~Idles /\ card.pend.block = b)
      /\ Idles \/ card.pend.value \in Owe(card.pend.block)
      /\ Knows => /\ \A b \in op.s .. op.s + op.i - 1 : Put(b)
                  /\ op.i > 0 => OwnOnly

(* A read that nothing has disturbed.                                      *)
Undisturbed == /\ kind # "fcsr" /\ (present \/ kind \in Notices)
               /\ kind \in SdKinds \cup CfKinds => clean
Reads ==
    Undisturbed =>
      /\ Reading => /\ \A j \in 1 .. op.i : buf[j] = memory[op.s + j - 1]
                    /\ op.i > 0 => Idles
      /\ At("done") /\ op.fn = "readSectors" /\ Served =>
           /\ buf = [j \in 1 .. op.n |-> memory[op.s + j - 1]]
           /\ Idles

Common == CallTypes /\ CardTypes /\ DataTypes /\ CallOK /\ LeftOK /\ GoneOK /\ Kept /\ Reads

-----------------------------------------------------------------------------
(* Each adapter: which step of a call it may be at, and what the card then *)
(* is.  Ready is what CardsSound says of an SD card between two calls.     *)

Ready    == card.state = "tran" /\ card.wide /\ port.addressed
Settled  == clean /\ started /\ present
Stored   == memory[CurrentBlock] = Value
Starting == {"init", "app", "opcond", "cid", "rca", "select", "width", "status"}

SdFlow ==
    /\ started \/ op.at \notin {"done", "startUp"} => port.media
    /\ kind = "njsd" => port.media
    /\ op.at \in Calls \cup {"done", "data", "stop", "send", "programming"} \cup Starting
    /\ op.at \in {"data", "stop"} => Reading
    /\ op.at \in {"send", "programming"} => Writing
    /\ op.at \in Starting => op.fn \in {"startUp", "clearStatus"} /\ (kind = "njsd" => op.fn = "startUp")
    /\ At("stop") => op.i = op.n
    /\ Idles \/ card.state = "prg"

(* The start, command by command: with the right address the card goes     *)
(* along, and the last answer shows it.                                    *)
SdStart ==
    /\ port.addressed /\ present =>
         /\ At("select") => card.state = "stby"
         /\ At("width")  => card.state = "tran"
         /\ At("status") => card.state = "tran" /\ card.wide

SdReady ==
    Settled =>
      /\ op.at \in Calls \cup {"done"} => Ready
      /\ op.at \in {"data", "stop"} => card.state = "data" /\ card.wide /\ port.addressed
      /\ op.at \in {"send", "programming"} => card.wide /\ port.addressed
      /\ At("data") => /\ card.pos = CurrentBlock
                       /\ IF kind = "njsd" THEN card.left = IF LastOne THEN 1 ELSE Many
                          ELSE card.left = IF op.n = 1 THEN 1 ELSE Many

SdWrite ==
    /\ At("send") /\ present => card.state = "rcv" /\ card.pos = CurrentBlock
    /\ At("programming") /\ present /\ Knows =>
         \/ card.state = "prg" /\ Pends(CurrentBlock)
         \/ card.state = "tran" /\ Stored
    /\ kind = "m3sd" /\ op.at \in {"writeSectors", "send"} => op.crc = Crc16(Value)
    /\ kind = "m3sd" /\ At("programming") /\ ~LastOne => op.crc = Crc16(Value + 1)

SdOK == kind \in SdKinds => SdFlow /\ SdStart /\ SdReady /\ SdWrite

(* What is left of the last command a CF card took lies on the card.       *)
Within == card.state \in {"data", "rcv"} => card.left <= MaxBlocks /\ card.pos + card.left <= LastBlock + 1

CfOK == kind \in CfKinds =>
    /\ started \/ op.at \notin {"done", "startUp"} => port.media
    /\ kind \in {"mpcf", "mmcf"} => port.media
    /\ op.at \in Calls \cup {"done", "data", "rcv"}
    /\ At("data") => Reading
    /\ At("rcv") => Writing
    /\ Within
    /\ At("data") /\ present /\ clean =>
         card.state = "data" /\ card.pos = CurrentBlock /\ card.left = op.n - op.i /\ Idles
    /\ At("rcv") /\ present /\ clean =>
         /\ card.state = "rcv" /\ card.pos = CurrentBlock /\ card.left = op.n - op.i
         /\ Idles \/ (op.i > 0 /\ Pends(CurrentBlock - 1))

NeoOK == kind = "nmmc" =>
    /\ op.at \in Calls \cup {"done", "reset", "poll", "blocklen", "block", "token", "busy", "stop"}
    /\ op.at \in {"poll", "blocklen", "block", "token", "busy", "stop"} => port.media
    /\ op.at \in {"reset", "blocklen"} => op.fn = "startUp"
    /\ At("poll") => op.fn \in {"startUp", "clearStatus", "shutdown"}
    /\ At("block") => Reading
    /\ op.at \in {"token", "busy", "stop"} => Writing
    /\ At("stop") => LastOne
    /\ Idles \/ At("busy")
    /\ Settled /\ op.at \in Calls \cup {"done", "block"} => card.state = "tran"
    /\ present =>
         /\ At("blocklen") => card.state = "tran"
         /\ At("token") => card.state = "rcv" /\ card.pos = CurrentBlock
         /\ At("busy") => card.state = "rcv" /\ card.pos = CurrentBlock + 1 /\ (Pends(CurrentBlock) \/ (Idles /\ Stored))
         /\ At("stop") => card.state = "rcv" /\ Stored

AkOK == kind = "ak" =>
    /\ started \/ op.at \notin {"done", "startUp"} => port.media
    /\ op.at \in Calls \cup {"done", "busy"}
    /\ At("busy") => Writing
    /\ present => \/ card.state = "tran" /\ Idles
                  \/ card.state = "prg" /\ At("busy") /\ Pends(CurrentBlock)

(* The other two need one step for each call.                              *)
RestOK == kind \in {"ak2", "efa2"} => Idles /\ op.at \in Calls \cup {"done"}

(* FCSR: what a block holds is in the RAM once that is filled.             *)
Holds(b) == IF sram.marked /\ Overlaid(b) /\ ~At("copy") THEN sram.cells[Cell(RegionOf(b), b)] ELSE memory[b]
FcsrOK == kind = "fcsr" =>
    /\ Idles /\ op.i = 0
    /\ op.at \in Calls \cup {"done", "copy"}
    /\ started \/ At("copy") => sram.marked
    /\ At("copy") => op.fn = "startUp"
    /\ ~CutsInCopy => \A b \in Blocks : Holds(b) \in Owe(b)
    /\ At("done") /\ op.fn = "readSectors" /\ op.ok /\ Served => buf = [j \in 1 .. op.n |-> Content(op.s + j - 1)]

CardsInv == Common /\ SdOK /\ CfOK /\ NeoOK /\ AkOK /\ RestOK /\ FcsrOK

-----------------------------------------------------------------------------
(* The steps of a call.                                                    *)

(* What a step of a call that goes on leaves alone.                        *)
GoesOn ==
    /\ op' \in CallRecs /\ op'.fn = op.fn /\ op'.s = op.s /\ op'.n = op.n /\ op'.at # "done"
    /\ UNCHANGED <<kind, written, started, clean, owed>>
Stays    == GoesOn /\ op'.i = op.i
Advances == GoesOn /\ op'.i = op.i + 1

LEMMA CallFields ==
    ASSUME op \in CallRecs
    PROVE  /\ op.fn \in Calls /\ op.s \in Blocks /\ op.n \in 0 .. MaxBlocks /\ op.i \in 0 .. MaxBlocks /\ op.at \in Places
           /\ op.tries \in 0 .. Tries /\ op.crc \in Sums /\ op.rsp \in {"none", "app", "op", "tran"}
           /\ op.ok \in BOOLEAN
BY DEF CallRecs

LEMMA NumbersAre ==
    ASSUME op \in CallRecs
    PROVE  /\ op.s \in Nat /\ op.n \in Nat /\ op.i \in Nat /\ op.tries \in Nat /\ op.n <= MaxBlocks
           /\ LastBlock \in Nat /\ MaxBlocks \in Nat /\ MaxBlocks >= 1 /\ Tries \in Nat /\ Tries >= 1
           /\ Lateness \in Nat /\ MaxWritten \in Nat
<1>1. LastBlock \in Nat /\ MaxBlocks \in Nat \ {0} /\ Tries \in Nat \ {0} /\ Lateness \in Nat /\ MaxWritten \in Nat
  BY CardAssumption
<1>2. op.s \in 0 .. LastBlock /\ op.n \in 0 .. MaxBlocks /\ op.i \in 0 .. MaxBlocks /\ op.tries \in 0 .. Tries
  BY CallFields DEF Blocks
<1> QED
  BY <1>1, <1>2

LEMMA GoToIs ==
    ASSUME op \in CallRecs, NEW a \in Places, a # "done", GoTo(a)
    PROVE  Stays /\ op'.at = a /\ op'.tries = 0 /\ op'.rsp = op.rsp /\ op'.crc = op.crc
<1>1. op' = [op EXCEPT !.at = a, !.tries = 0] /\ 0 \in 0 .. Tries
  BY NumbersAre DEF GoTo
<1>2. op' \in CallRecs
  BY <1>1 DEF CallRecs
<1>3. op'.fn = op.fn /\ op'.s = op.s /\ op'.n = op.n /\ op'.i = op.i /\ op'.at = a
      /\ op'.tries = 0 /\ op'.rsp = op.rsp /\ op'.crc = op.crc
  BY <1>1 DEF CallRecs
<1> QED
  BY <1>2, <1>3 DEF GoTo, Stays, GoesOn

LEMMA NextIs ==
    ASSUME op \in CallRecs, op.i < op.n, NEW a \in Places, a # "done", NextBlock(a)
    PROVE  Advances /\ op'.at = a /\ op'.tries = 0 /\ op'.rsp = op.rsp /\ op'.crc = op.crc
<1>1. op' = [op EXCEPT !.at = a, !.i = @ + 1, !.tries = 0] /\ 0 \in 0 .. Tries /\ op.i + 1 \in 0 .. MaxBlocks
  BY NumbersAre DEF NextBlock
<1>2. op' \in CallRecs
  BY <1>1 DEF CallRecs
<1>3. op'.fn = op.fn /\ op'.s = op.s /\ op'.n = op.n /\ op'.i = op.i + 1 /\ op'.at = a
      /\ op'.tries = 0 /\ op'.rsp = op.rsp /\ op'.crc = op.crc
  BY <1>1 DEF CallRecs
<1> QED
  BY <1>2, <1>3 DEF NextBlock, Advances, GoesOn

LEMMA TryIs ==
    ASSUME op \in CallRecs, op.tries < Tries, NEW a \in Places, a # "done", TryAgain(a)
    PROVE  Stays /\ op'.at = a /\ op'.tries = op.tries + 1 /\ op'.rsp = op.rsp /\ op'.crc = op.crc
<1>1. op' = [op EXCEPT !.at = a, !.tries = @ + 1] /\ op.tries + 1 \in 0 .. Tries
  BY NumbersAre DEF TryAgain
<1>2. op' \in CallRecs
  BY <1>1 DEF CallRecs
<1>3. op'.fn = op.fn /\ op'.s = op.s /\ op'.n = op.n /\ op'.i = op.i /\ op'.at = a
      /\ op'.tries = op.tries + 1 /\ op'.rsp = op.rsp /\ op'.crc = op.crc
  BY <1>1 DEF CallRecs
<1> QED
  BY <1>2, <1>3 DEF TryAgain, Stays, GoesOn

LEMMA NoCallIs ==
    /\ NoCall \in CallRecs /\ NoCall.fn = "shutdown" /\ NoCall.s = 0 /\ NoCall.n = 0 /\ NoCall.i = 0
    /\ NoCall.at = "done" /\ NoCall.rsp = "none" /\ NoCall.tries = 0 /\ NoCall.crc = Crc16(New)
<1>1. 0 \in Blocks /\ 0 \in 0 .. MaxBlocks /\ 0 \in 0 .. Tries /\ Crc16(New) \in Sums
  BY CardAssumption DEF Blocks, Sums, New
<1>2. "shutdown" \in Calls /\ "done" \in Places /\ TRUE \in BOOLEAN /\ "none" \in {"none", "app", "op", "tran"}
  BY DEF Calls, Places
<1> DEFINE y == TRUE
           c == Crc16(New)
<1>3. c \in Sums /\ y \in BOOLEAN
  BY <1>1
<1>4. NoCall = [fn |-> "shutdown", s |-> 0, n |-> 0, i |-> 0, at |-> "done", ok |-> y, rsp |-> "none", tries |-> 0, crc |-> c]
  BY Zenon DEF NoCall
<1> HIDE DEF y, c
<1>5. NoCall \in CallRecs
  BY <1>1, <1>2, <1>3, <1>4 DEF CallRecs
<1>6. /\ NoCall.fn = "shutdown" /\ NoCall.s = 0 /\ NoCall.n = 0 /\ NoCall.i = 0
      /\ NoCall.at = "done" /\ NoCall.rsp = "none" /\ NoCall.tries = 0 /\ NoCall.crc = c
  BY <1>4
<1> QED
  BY <1>5, <1>6 DEF c

(* A call that ends.                                                       *)
LEMMA ReturnIs ==
    ASSUME CallTypes, NEW ok \in BOOLEAN, Return(ok)
    PROVE  /\ op' \in CallRecs /\ op'.at = "done" /\ op'.i = 0 /\ op'.rsp = "none" /\ op'.tries = 0
           /\ op'.fn \in {"shutdown", "readSectors"} /\ (op'.fn = "readSectors" <=> ok /\ op.fn = "readSectors")
           /\ op'.fn = "readSectors" => op'.s = op.s /\ op'.n = op.n
           /\ started' \in BOOLEAN /\ started' = IF op.fn = "startUp" THEN ok ELSE started /\ op.fn # "shutdown"
           /\ clean' \in BOOLEAN /\ clean' = IF op.fn \in Restores THEN ok /\ Known ELSE clean /\ (ok \/ op.fn = "isInserted")
           /\ UNCHANGED <<kind, written>>
<1>1. op \in CallRecs /\ started \in BOOLEAN /\ clean \in BOOLEAN
  BY DEF CallTypes
<1>2. CASE ok /\ op.fn = "readSectors"
  <2>1. op' = [NoCall EXCEPT !.fn = "readSectors", !.s = op.s, !.n = op.n] /\ "readSectors" \in Calls
    BY <1>2 DEF Return, Calls
  <2>2. op' \in CallRecs
    BY <1>1, <2>1, NoCallIs DEF CallRecs
  <2>3. /\ op'.at = "done" /\ op'.i = 0 /\ op'.rsp = "none" /\ op'.tries = 0
        /\ op'.fn = "readSectors" /\ op'.s = op.s /\ op'.n = op.n
    BY <2>1, NoCallIs DEF CallRecs
  <2> QED
    BY <1>1, <1>2, <2>2, <2>3 DEF Return
<1>3. CASE ~(ok /\ op.fn = "readSectors")
  <2>1. op' = NoCall
    BY <1>3 DEF Return
  <2> QED
    BY <1>1, <1>3, <2>1, NoCallIs DEF Return
<1> QED
  BY <1>2, <1>3

-----------------------------------------------------------------------------
(* The blocks.                                                             *)

LEMMA DataIs ==
    ASSUME CallTypes, NEW b \in Transfers
    PROVE  /\ b \in Nat /\ DataFor(b) \in Nat /\ DataFor(b) >= New /\ DataFor(b) # Junk
           /\ b <= LastBlock => b \in Blocks
           /\ DataFor(b) \in BlockContents
<1>1. op.s \in Nat /\ op.n \in Nat /\ op.n <= MaxBlocks /\ MaxBlocks \in Nat /\ LastBlock \in Nat
  BY NumbersAre DEF CallTypes
<1>2. b \in op.s .. op.s + op.n - 1
  BY DEF Transfers
<1>3. b \in Nat /\ b - op.s \in 0 .. MaxBlocks /\ DataFor(b) = New + (b - op.s)
  BY <1>1, <1>2 DEF DataFor
<1> QED
  BY <1>1, <1>3 DEF BlockContents, New, Junk, Blocks

(* The next block of the call.                                             *)
LEMMA CurrentIs ==
    ASSUME CallTypes, CallOK, Running, op.i < op.n
    PROVE  /\ CurrentBlock \in Transfers /\ CurrentBlock \in Blocks /\ Value = DataFor(CurrentBlock)
           /\ CurrentBlock \in Nat /\ CurrentBlock <= LastBlock
           /\ Transfers \subseteq Blocks
<1>1. op.s \in Nat /\ op.n \in Nat /\ op.i \in Nat /\ MaxBlocks \in Nat /\ LastBlock \in Nat /\ op.s + op.n <= LastBlock + 1
  BY NumbersAre DEF CallTypes, CallOK
<1> QED
  BY <1>1 DEF CurrentBlock, Transfers, Blocks, Value

LEMMA OnTheCard ==
    ASSUME CallTypes, CallOK, Running
    PROVE  Transfers \subseteq Blocks
<1>1. op.s \in Nat /\ op.n \in Nat /\ LastBlock \in Nat /\ op.s + op.n <= LastBlock + 1
  BY NumbersAre DEF CallTypes, CallOK
<1> QED
  BY <1>1 DEF Transfers, Blocks

LEMMA NothingIs == Nothing.block = 0 /\ Nothing.value = Junk /\ Nothing \in PendRecs
<1>1. 0 \in Blocks /\ Junk \in BlockContents
  BY CardAssumption DEF Blocks, BlockContents
<1> QED
  BY <1>1 DEF Nothing, PendRecs

LEMMA PendIs ==
    ASSUME CallTypes, NEW b \in Transfers, Pends(b)
    PROVE  ~Idles /\ card.pend.block = b /\ card.pend.value = DataFor(b)
<1>1. DataFor(b) # Junk
  BY DataIs
<1> QED
  BY <1>1, NothingIs DEF Pends, Idles

LEMMA PendRec ==
    ASSUME NEW b \in Blocks, NEW v \in BlockContents
    PROVE  /\ [block |-> b, value |-> v] \in PendRecs
           /\ [block |-> b, value |-> v].block = b /\ [block |-> b, value |-> v].value = v
BY DEF PendRecs

(* The card between two steps: it was left alone, or it is there and has   *)
(* changed its state.  It may have been given the next block.              *)
CardMoves ==
    card' = card \/ (present /\ card' \in CardRecs /\ LeftOK')
Given == Writing /\ Idles /\ op.i < op.n /\ card'.pend = [block |-> CurrentBlock, value |-> Value]
Around ==
    /\ UNCHANGED <<present, memory, sram>> /\ late' \in 0 .. Lateness /\ port' \in PortRecs /\ CardMoves
    /\ card'.pend = card.pend \/ Given

LEMMA AroundHolds ==
    ASSUME CardTypes, LeftOK, GoneOK, Around, kind' = kind
    PROVE  CardTypes' /\ LeftOK' /\ GoneOK'
<1>1. CASE card' = card
  BY <1>1 DEF CardTypes, LeftOK, GoneOK, Around, Idles
<1>2. CASE present /\ card' \in CardRecs /\ LeftOK'
  BY <1>2 DEF CardTypes, GoneOK, Around, Idles
<1> QED
  BY <1>1, <1>2 DEF Around, CardMoves

LEMMA SameCall ==
    ASSUME Running, GoesOn
    PROVE  /\ Running' /\ (Reading' <=> Reading) /\ (Writing' <=> Writing) /\ (Knows' <=> Knows)
           /\ Transfers' = Transfers /\ \A b : DataFor(b)' = DataFor(b) /\ Owe(b)' = Owe(b)
<1>1. Running' /\ (Reading' <=> Reading) /\ (Writing' <=> Writing) /\ (Knows' <=> Knows)
  BY DEF Running, Reading, Writing, At, GoesOn, Knows
<1>2. Transfers' = Transfers /\ owed' = owed
  BY DEF Transfers, GoesOn
<1>3. ASSUME NEW b PROVE DataFor(b)' = DataFor(b) /\ Owe(b)' = Owe(b)
  <2>1. DataFor(b)' = DataFor(b)
    BY DEF DataFor, GoesOn
  <2> QED
    BY <1>1, <1>2, <2>1 DEF Owe
<1> QED
  BY <1>1, <1>2, <1>3

(* The block the card is given.                                            *)
LEMMA GivenIs ==
    ASSUME CallTypes, CallOK, Given
    PROVE  /\ CurrentBlock \in Transfers /\ CurrentBlock \in Blocks /\ Writing
           /\ card'.pend.block = CurrentBlock /\ card'.pend.value = DataFor(CurrentBlock)
           /\ card'.pend = [block |-> CurrentBlock, value |-> DataFor(CurrentBlock)]
           /\ DataFor(CurrentBlock) \in Owe(CurrentBlock)
           /\ ~Idles'
<1>1. CurrentBlock \in Transfers /\ CurrentBlock \in Blocks /\ Value = DataFor(CurrentBlock)
  BY CurrentIs DEF Given, Writing
<1>2. DataFor(CurrentBlock) \in BlockContents /\ DataFor(CurrentBlock) # Junk
  BY <1>1, DataIs
<1>3. card'.pend = [block |-> CurrentBlock, value |-> DataFor(CurrentBlock)]
  BY <1>1 DEF Given
<1>4. card'.pend.block = CurrentBlock /\ card'.pend.value = DataFor(CurrentBlock)
  BY <1>1, <1>2, <1>3, PendRec
<1>5. ~Idles'
  BY <1>2, <1>4, NothingIs DEF Idles
<1> QED
  BY <1>1, <1>3, <1>4, <1>5 DEF Given, Owe

LEMMA StaysKept ==
    ASSUME Common, Running, Stays, Around
    PROVE  Kept'
<1>1. /\ Running' /\ (Reading' <=> Reading) /\ (Writing' <=> Writing) /\ (Knows' <=> Knows)
      /\ Transfers' = Transfers /\ \A b : DataFor(b)' = DataFor(b) /\ Owe(b)' = Owe(b)
  BY SameCall DEF Stays
<1>2. UNCHANGED <<kind, present, memory>> /\ op'.i = op.i /\ op'.s = op.s
  BY DEF Stays, GoesOn, Around
<1> SUFFICES ASSUME kind # "fcsr", present \/ kind \in Confirms
             PROVE  /\ \A b \in Blocks : memory[b] \in Owe(b) \/ (kind \in CfKinds /\ ~Idles' /\ card'.pend.block = b)
                    /\ Idles' \/ card'.pend.value \in Owe(card'.pend.block)
                    /\ Knows => /\ \A b \in op.s .. op.s + op.i - 1 : Put(b)'
                                /\ op.i > 0 => OwnOnly'
  BY <1>1, <1>2 DEF Kept
<1>3. /\ \A b \in Blocks : memory[b] \in Owe(b) \/ (kind \in CfKinds /\ ~Idles /\ card.pend.block = b)
      /\ Idles \/ card.pend.value \in Owe(card.pend.block)
      /\ Knows => /\ \A b \in op.s .. op.s + op.i - 1 : Put(b)
                  /\ op.i > 0 => OwnOnly
  BY DEF Common, Kept
<1>4. CASE card'.pend = card.pend
  <2>1. (Idles' <=> Idles) /\ (OwnOnly' <=> OwnOnly) /\ \A b : Put(b)' <=> Put(b)
    BY <1>1, <1>2, <1>4 DEF Idles, Pends, Put, OwnOnly
  <2> QED
    BY <1>3, <1>4, <2>1
<1>5. CASE Given
  <2>1. /\ CurrentBlock \in Transfers /\ CurrentBlock \in Blocks /\ card'.pend.block = CurrentBlock /\ card'.pend.value = DataFor(CurrentBlock)
        /\ DataFor(CurrentBlock) \in Owe(CurrentBlock) /\ card'.pend = [block |-> CurrentBlock, value |-> DataFor(CurrentBlock)]
    BY <1>5, GivenIs DEF Common
  <2>2. OwnOnly'
    BY <1>1, <2>1 DEF Pends, OwnOnly
  <2>3. ASSUME Knows, NEW b \in op.s .. op.s + op.i - 1
        PROVE  Put(b)'
    <3>1. b \in Transfers
      <4>1. op.s \in Nat /\ op.i \in Nat /\ op.n \in Nat /\ op.i < op.n
        BY <1>5, NumbersAre DEF Given, Common, CallTypes
      <4> QED
        BY <2>3, <4>1 DEF Transfers
    <3>2. ~Pends(b)
      BY <1>5, <3>1, PendIs DEF Given, Common
    <3>3. memory[b] = DataFor(b)
      BY <1>3, <2>3, <3>2 DEF Put
    <3> QED
      BY <1>1, <1>2, <3>3 DEF Put
  <2> QED
    BY <1>3, <1>5, <2>1, <2>2, <2>3 DEF Given
<1> QED
  BY <1>4, <1>5 DEF Around

LEMMA StayHolds ==
    ASSUME Common, Running, Stays, Around, UNCHANGED buf,
           op'.at = "stop" \/ op.i < op.n,
           op'.at \in Calls => op'.at = op.fn /\ (op.i = 0 \/ (op'.at = "writeSectors" /\ kind \in SdKinds) \/ kind = "ak"),
           op'.at = "opcond" => op'.tries < Tries
    PROVE  Common'
<1>1. CallTypes' /\ DataTypes'
  BY DEF Common, CallTypes, DataTypes, Stays, GoesOn, Around
<1>2. CardTypes' /\ LeftOK' /\ GoneOK'
  BY AroundHolds DEF Common, Stays, GoesOn
<1>3. /\ Running' /\ (Reading' <=> Reading) /\ (Writing' <=> Writing)
  BY SameCall DEF Stays
<1>4. CallOK'
  BY <1>3 DEF Common, CallOK, Stays, GoesOn, Running, At
<1>5. Kept'
  BY StaysKept
<1>6. Reads'
  <2>1. UNCHANGED <<kind, present, memory, clean, buf>> /\ op'.s = op.s /\ op'.i = op.i /\ ~At("done")'
    BY DEF Stays, GoesOn, Around, At
  <2>2. Reading => card'.pend = card.pend
    BY DEF Around, Given, Reading, Writing
  <2> QED
    BY <1>3, <2>1, <2>2 DEF Common, Reads, Undisturbed, Idles
<1> QED
  BY <1>1, <1>2, <1>4, <1>5, <1>6 DEF Common

(* A step to the next block.                                               *)
Delivers ==
    Knows /\ kind # "fcsr" /\ (present \/ kind \in Confirms) =>
      \/ Stored /\ Idles /\ card'.pend = card.pend
      \/ kind \in CfKinds /\ Given

LEMMA BlocksOfCall ==
    ASSUME Common, Running, op.i < op.n, Around, Delivers, Knows, kind # "fcsr", present \/ kind \in Confirms
    PROVE  /\ \A b \in op.s .. op.s + op.i : memory[b] = DataFor(b)
                 \/ (kind \in CfKinds /\ card'.pend = [block |-> b, value |-> DataFor(b)])
           /\ \/ Idles'
              \/ card'.pend.block \in Transfers /\ card'.pend = [block |-> card'.pend.block, value |-> DataFor(card'.pend.block)]
<1>1. \A b \in op.s .. op.s + op.i - 1 : Put(b)
  BY DEF Common, Kept
<1>2. op.s \in Nat /\ op.i \in Nat /\ op.n \in Nat /\ op.i < op.n
  BY NumbersAre DEF Common, CallTypes
<1>3. \A b \in op.s .. op.s + op.i : b \in Transfers /\ (b = CurrentBlock \/ b \in op.s .. op.s + op.i - 1)
  BY <1>2 DEF Transfers, CurrentBlock
<1>4. ASSUME Idles, NEW b \in op.s .. op.s + op.i - 1 PROVE memory[b] = DataFor(b)
  <2>1. b \in Transfers
    BY <1>2 DEF Transfers
  <2> QED
    BY <1>1, <1>4, <2>1, PendIs DEF Common, Put
<1>5. Value = DataFor(CurrentBlock)
  BY CurrentIs DEF Common
<1>6. CASE Stored /\ Idles /\ card'.pend = card.pend
  <2>1. memory[CurrentBlock] = DataFor(CurrentBlock) /\ Idles'
    BY <1>5, <1>6 DEF Stored, Idles
  <2> QED
    BY <1>3, <1>4, <1>6, <2>1
<1>7. CASE kind \in CfKinds /\ Given
  <2>1. Idles /\ CurrentBlock \in Transfers /\ card'.pend.block = CurrentBlock
        /\ card'.pend = [block |-> CurrentBlock, value |-> DataFor(CurrentBlock)]
    BY <1>7, GivenIs DEF Common, Given
  <2> QED
    BY <1>3, <1>4, <1>7, <2>1
<1> QED
  BY <1>6, <1>7 DEF Delivers

LEMMA BlocksAllowed ==
    ASSUME Common, Running, Around, kind # "fcsr", present \/ kind \in Confirms
    PROVE  /\ \A b \in Blocks : memory[b] \in Owe(b) \/ (kind \in CfKinds /\ ~Idles' /\ card'.pend.block = b)
           /\ Idles' \/ card'.pend.value \in Owe(card'.pend.block)
<1>1. /\ \A b \in Blocks : memory[b] \in Owe(b) \/ (kind \in CfKinds /\ ~Idles /\ card.pend.block = b)
      /\ Idles \/ card.pend.value \in Owe(card.pend.block)
  BY DEF Common, Kept
<1>2. CASE card'.pend = card.pend
  BY <1>1, <1>2 DEF Idles
<1>3. CASE Given
  <2>1. card'.pend.block = CurrentBlock /\ card'.pend.value = DataFor(CurrentBlock) /\ DataFor(CurrentBlock) \in Owe(CurrentBlock)
    BY <1>3, GivenIs DEF Common
  <2> QED
    BY <1>1, <1>3, <2>1 DEF Given
<1> QED
  BY <1>2, <1>3 DEF Around

(* A step of a read adds a block to the buffer.                            *)
Gets == \E v \in BlockContents : Got(v) /\ (Undisturbed => v = memory[CurrentBlock] /\ Idles)

LEMMA GotIs ==
    ASSUME Common, Reading, op.i < op.n, Gets
    PROVE  /\ buf' \in Seq(BlockContents) /\ Len(buf') = op.i + 1
           /\ Undisturbed => Idles /\ \A j \in 1 .. op.i + 1 : buf'[j] = memory[op.s + j - 1]
<1>1. PICK v \in BlockContents : buf' = Append(buf, v) /\ (Undisturbed => v = memory[CurrentBlock] /\ Idles)
  BY DEF Gets, Got
<1>2. buf \in Seq(BlockContents) /\ Len(buf) = op.i /\ op.i \in Nat /\ op.s \in Nat
  BY NumbersAre DEF Common, DataTypes, CallTypes, CallOK
<1>3. /\ buf' \in Seq(BlockContents) /\ Len(buf') = op.i + 1 /\ buf'[op.i + 1] = v
      /\ \A j \in 1 .. op.i : buf'[j] = buf[j]
  BY <1>1, <1>2
<1>4. ASSUME Undisturbed, NEW j \in 1 .. op.i + 1 PROVE buf'[j] = memory[op.s + j - 1]
  <2>1. CASE j = op.i + 1
    <3>1. op.s + j - 1 = CurrentBlock
      BY <1>2, <2>1 DEF CurrentBlock
    <3> QED
      BY <1>1, <1>3, <1>4, <2>1, <3>1
  <2>2. CASE j \in 1 .. op.i
    BY <1>3, <1>4, <2>2 DEF Common, Reads
  <2> QED
    BY <1>2, <2>1, <2>2
<1> QED
  BY <1>1, <1>3, <1>4

LEMMA AdvanceHolds ==
    ASSUME Common, Running, op.i < op.n, Advances, Around, Delivers,
           op'.at = "stop" \/ op.i + 1 < op.n,
           op'.at \in Calls => op'.at = op.fn /\ ((op'.at = "writeSectors" /\ kind \in SdKinds) \/ kind = "ak"),
           op'.at # "opcond",
           (Reading /\ Gets) \/ (Writing /\ buf' = buf)
    PROVE  Common'
<1>1. /\ Running' /\ (Reading' <=> Reading) /\ (Writing' <=> Writing) /\ (Knows' <=> Knows)
      /\ Transfers' = Transfers /\ \A b : DataFor(b)' = DataFor(b) /\ Owe(b)' = Owe(b)
  BY SameCall DEF Advances
<1>2. UNCHANGED <<kind, present, memory, clean, started, written, owed, sram>>
      /\ op'.i = op.i + 1 /\ op'.s = op.s /\ op'.n = op.n /\ op'.fn = op.fn /\ op' \in CallRecs
  BY DEF Advances, GoesOn, Around
<1>3. op.s \in Nat /\ op.i \in Nat /\ op.n \in Nat /\ op.n <= MaxBlocks /\ MaxBlocks \in Nat
  BY NumbersAre DEF Common, CallTypes
<1>4. buf' \in Seq(BlockContents) /\ (Reading => Len(buf') = op.i + 1) /\ (Writing => buf' = buf)
  BY GotIs DEF Common, DataTypes, Reading, Writing
<1>5. CallTypes' /\ DataTypes'
  BY <1>2, <1>4 DEF Common, CallTypes, DataTypes
<1>6. CardTypes' /\ LeftOK' /\ GoneOK'
  BY <1>2, AroundHolds DEF Common
<1>7. CallOK'
  <2>1. Running' => /\ op'.n >= 1 /\ op'.s + op'.n <= LastBlock + 1 /\ op'.i <= op'.n
                    /\ op'.at = "stop" \/ op'.i < op'.n
                    /\ op'.fn = "startUp" <=> ~started'
    BY <1>2, <1>3 DEF Common, CallOK
  <2>2. (Reading => Len(buf') <= MaxBlocks) /\ (Writing => Len(buf') <= MaxBlocks)
    BY <1>3, <1>4 DEF Common, CallOK
  <2>3. op'.at \in Calls => op'.fn = op'.at /\ (op'.i = 0 \/ (op'.at = "writeSectors" /\ kind' \in SdKinds) \/ kind' = "ak")
    BY <1>2
  <2> QED
    BY <1>1, <1>2, <1>4, <2>1, <2>2, <2>3 DEF CallOK, At, Common, Reading, Writing
<1>8. Kept'
  <2> SUFFICES ASSUME kind # "fcsr", present \/ kind \in Confirms
               PROVE  /\ \A b \in Blocks : memory[b] \in Owe(b) \/ (kind \in CfKinds /\ ~Idles' /\ card'.pend.block = b)
                      /\ Idles' \/ card'.pend.value \in Owe(card'.pend.block)
                      /\ Knows => (\A b \in op.s .. op.s + (op.i + 1) - 1 : Put(b)') /\ OwnOnly'
    BY <1>1, <1>2 DEF Kept
  <2>1. op.s + (op.i + 1) - 1 = op.s + op.i
    BY <1>3
  <2>2. ASSUME Knows
        PROVE  (\A b \in op.s .. op.s + op.i : Put(b)') /\ OwnOnly'
    <3>1. /\ \A b \in op.s .. op.s + op.i : memory[b] = DataFor(b)
                 \/ (kind \in CfKinds /\ card'.pend = [block |-> b, value |-> DataFor(b)])
          /\ \/ Idles'
             \/ card'.pend.block \in Transfers /\ card'.pend = [block |-> card'.pend.block, value |-> DataFor(card'.pend.block)]
      BY <2>2, BlocksOfCall
    <3> QED
      BY <1>1, <1>2, <3>1 DEF Put, Pends, OwnOnly
  <2> QED
    BY <2>1, <2>2, BlocksAllowed
<1>9. Reads'
  <2>1. ~At("done")' /\ (Reading => card'.pend = card.pend)
    BY <1>1 DEF Running, At, Around, Given, Reading, Writing
  <2>2. Undisturbed' <=> Undisturbed
    BY <1>2 DEF Undisturbed
  <2>3. ASSUME Reading, Undisturbed
        PROVE  Idles' /\ \A j \in 1 .. op.i + 1 : buf'[j] = memory[op.s + j - 1]
    BY <2>1, <2>3, GotIs DEF Idles, Reading, Writing
  <2> QED
    BY <1>1, <1>2, <2>1, <2>2, <2>3 DEF Reads
<1> QED
  BY <1>5, <1>6, <1>7, <1>8, <1>9 DEF Common

(* A call that ends.                                                       *)
LEMMA Filled ==
    ASSUME Common, Reading, Undisturbed, buf' \in Seq(BlockContents),
           \/ op.i = op.n /\ buf' = buf
           \/ op.i + 1 = op.n /\ Gets
    PROVE  buf' = [j \in 1 .. op.n |-> memory[op.s + j - 1]]
<1>1. op.s \in Nat /\ op.i \in Nat /\ op.n \in Nat
  BY NumbersAre DEF Common, CallTypes
<1>2. Len(buf') = op.n /\ \A j \in 1 .. op.n : buf'[j] = memory[op.s + j - 1]
  <2>1. CASE op.i = op.n /\ buf' = buf
    BY <2>1 DEF Common, CallOK, Reads
  <2>2. CASE op.i + 1 = op.n /\ Gets
    <3>1. op.i < op.n
      BY <1>1, <2>2
    <3>2. Len(buf') = op.i + 1 /\ \A j \in 1 .. op.i + 1 : buf'[j] = memory[op.s + j - 1]
      BY <2>2, <3>1, GotIs
    <3> QED
      BY <2>2, <3>2
  <2> QED
    BY <2>1, <2>2
<1>3. DOMAIN buf' = 1 .. op.n /\ buf' = [j \in DOMAIN buf' |-> buf'[j]]
  BY <1>1, <1>2
<1> QED
  BY <1>2, <1>3

(* What a successful call must have done.                                  *)
Completes(ok) ==
    /\ ok /\ Knows /\ kind # "fcsr" /\ (present \/ kind \in Confirms) => LastOne /\ Delivers
    /\ ok /\ Reading /\ Served /\ Undisturbed =>
         buf' = [j \in 1 .. op.n |-> memory[op.s + j - 1]] /\ Idles /\ card'.pend = card.pend

LEMMA OwedIs ==
    ASSUME CallTypes, CallOK, DataTypes, Running, NEW ok \in BOOLEAN, Return(ok)
    PROVE  /\ owed' \in [Blocks -> SUBSET BlockContents]
           /\ ~(ok /\ Knows) => \A b \in Blocks : owed'[b] = Owe(b)
           /\ ok /\ Knows => \A b \in Blocks : owed'[b] = IF b \in Transfers THEN {DataFor(b)} ELSE owed[b]
<1>1. owed \in [Blocks -> SUBSET BlockContents] /\ \A b \in Transfers : DataFor(b) \in BlockContents
  BY DataIs DEF DataTypes
<1>2. CASE op.fn # "writeSectors"
  BY <1>1, <1>2 DEF Return, Owe, Writing, Knows
<1>3. CASE op.fn = "writeSectors"
  <2>1. /\ Sure(ok) <=> (ok /\ Knows)
        /\ \A b \in Blocks : Owe(b) = owed[b] \cup IF b \in Transfers THEN {DataFor(b)} ELSE {}
    BY <1>3 DEF Sure, Knows, Writing, Owe
  <2>2. owed' = [b \in Blocks |-> IF b \notin Transfers THEN owed[b]
                                  ELSE (IF Sure(ok) THEN {} ELSE owed[b]) \cup {DataFor(b)}]
    BY <1>3 DEF Return
  <2>3. ASSUME NEW b \in Blocks
        PROVE  /\ owed'[b] \in SUBSET BlockContents
               /\ owed'[b] = IF b \notin Transfers THEN owed[b] ELSE IF Sure(ok) THEN {DataFor(b)} ELSE owed[b] \cup {DataFor(b)}
    BY <1>1, <2>2
  <2>4. owed' \in [Blocks -> SUBSET BlockContents]
    BY <2>2, <2>3
  <2> QED
    BY <2>1, <2>3, <2>4
<1> QED
  BY <1>2, <1>3

LEMMA Ended ==
    ASSUME CallTypes, NEW ok \in BOOLEAN, Return(ok)
    PROVE  /\ ~Running' /\ ~Reading' /\ ~Writing' /\ ~Knows' /\ At("done")' /\ CallTypes'
           /\ \A b : Owe(b)' = owed'[b]
<1>1. op' \in CallRecs /\ op'.at = "done" /\ started' \in BOOLEAN /\ clean' \in BOOLEAN /\ UNCHANGED <<kind, written>>
  BY ReturnIs
<1>2. ~Running' /\ ~Reading' /\ ~Writing' /\ ~Knows' /\ At("done")'
  BY <1>1 DEF Running, Reading, Writing, Knows, At
<1>3. CallTypes'
  BY <1>1 DEF CallTypes
<1> QED
  BY <1>2, <1>3 DEF Owe

LEMMA ReturnCallOK ==
    ASSUME CallTypes, NEW ok \in BOOLEAN, Return(ok), buf' \in Seq(BlockContents), Len(buf') <= MaxBlocks
    PROVE  CallOK'
<1>1. op'.at = "done" /\ op'.i = 0
  BY ReturnIs
<1> QED
  BY <1>1, Ended DEF CallOK, At, Calls

LEMMA ReturnKept ==
    ASSUME Common, Running, NEW ok \in BOOLEAN, Return(ok), Around, Completes(ok)
    PROVE  Kept'
<1>1. ~Knows' /\ \A b : Owe(b)' = owed'[b]
  BY Ended DEF Common
<1>2. UNCHANGED <<kind, present, memory>>
  BY ReturnIs DEF Around, Common
<1> SUFFICES ASSUME kind # "fcsr", present \/ kind \in Confirms
             PROVE  /\ \A b \in Blocks : memory[b] \in owed'[b] \/ (kind \in CfKinds /\ ~Idles' /\ card'.pend.block = b)
                    /\ Idles' \/ card'.pend.value \in owed'[card'.pend.block]
  BY <1>1, <1>2 DEF Kept
<1>3. CardTypes'
  BY <1>2, AroundHolds DEF Common
<1>4. card'.pend.block \in Blocks
  BY <1>3 DEF CardTypes, CardRecs, PendRecs
<1>5. CASE ~(ok /\ Knows)
  <2>1. \A b \in Blocks : owed'[b] = Owe(b)
    BY <1>5, OwedIs DEF Common
  <2> QED
    BY <1>4, <2>1, BlocksAllowed
<1>6. CASE ok /\ Knows
  <2>1. \A b \in Blocks : owed'[b] = IF b \in Transfers THEN {DataFor(b)} ELSE owed[b]
    BY <1>6, OwedIs DEF Common
  <2>2. op.s \in Nat /\ op.n \in Nat /\ op.i \in Nat /\ op.i + 1 = op.n /\ Delivers
    BY <1>6, NumbersAre DEF Completes, LastOne, Common, CallTypes
  <2>3. /\ \A b \in op.s .. op.s + op.i : memory[b] = DataFor(b)
             \/ (kind \in CfKinds /\ card'.pend = [block |-> b, value |-> DataFor(b)])
        /\ \/ Idles'
           \/ card'.pend.block \in Transfers /\ card'.pend = [block |-> card'.pend.block, value |-> DataFor(card'.pend.block)]
    BY <1>6, <2>2, BlocksOfCall
  <2>4. Transfers = op.s .. op.s + op.i
    BY <2>2 DEF Transfers
  <2>5. Idles' \/ card'.pend.value \in owed'[card'.pend.block]
    <3>1. CASE Idles'
      BY <3>1
    <3>2. CASE card'.pend.block \in Transfers /\ card'.pend = [block |-> card'.pend.block, value |-> DataFor(card'.pend.block)]
      <4> DEFINE q == card'.pend.block
                 v == DataFor(q)
      <4>1. v \in BlockContents /\ q \in Blocks /\ q \in Transfers
        BY <1>4, <3>2, DataIs DEF Common
      <4>2. card'.pend = [block |-> q, value |-> v]
        BY <3>2
      <4>3. owed'[q] = {v}
        BY <2>1, <4>1
      <4> HIDE DEF v
      <4>4. card'.pend.value = v
        BY <4>1, <4>2, PendRec
      <4> QED
        BY <4>3, <4>4
    <3> QED
      BY <2>3, <3>1, <3>2
  <2>6. ASSUME NEW b \in Blocks
        PROVE  memory[b] \in owed'[b] \/ (kind \in CfKinds /\ ~Idles' /\ card'.pend.block = b)
    <3>1. CASE b \notin Transfers
      BY <2>1, <3>1, BlocksAllowed DEF Owe
    <3>2. CASE b \in Transfers
      <4>1. CASE memory[b] = DataFor(b)
        BY <2>1, <3>2, <4>1
      <4>2. CASE kind \in CfKinds /\ card'.pend = [block |-> b, value |-> DataFor(b)]
        <5>1. DataFor(b) \in BlockContents /\ DataFor(b) # Junk
          BY <3>2, DataIs DEF Common
        <5>2. card'.pend.block = b /\ card'.pend.value = DataFor(b)
          BY <4>2, <5>1, PendRec
        <5>3. ~Idles'
          BY <5>1, <5>2, NothingIs DEF Idles
        <5> QED
          BY <4>2, <5>2, <5>3
      <4> QED
        BY <2>3, <2>4, <3>2, <4>1, <4>2
    <3> QED
      BY <3>1, <3>2
  <2> QED
    BY <2>5, <2>6
<1> QED
  BY <1>5, <1>6

LEMMA ReturnHolds ==
    ASSUME Common, Running, NEW ok \in BOOLEAN, Return(ok), Around, Completes(ok),
           buf' \in Seq(BlockContents), Len(buf') <= MaxBlocks
    PROVE  Common'
<1>1. UNCHANGED <<kind, present, memory, sram>>
  BY ReturnIs DEF Around, Common
<1>2. CallTypes' /\ CallOK'
  BY Ended, ReturnCallOK DEF Common
<1>3. DataTypes'
  BY <1>1, OwedIs DEF Common, DataTypes
<1>4. CardTypes' /\ LeftOK' /\ GoneOK'
  BY <1>1, AroundHolds DEF Common
<1>5. Kept'
  BY ReturnKept
<1>6. Reads'
  <2> SUFFICES ASSUME kind # "fcsr", kind \in SdKinds \cup CfKinds => clean', present \/ kind \in Notices,
                      op'.fn = "readSectors", Served'
               PROVE  buf' = [j \in 1 .. op'.n |-> memory[op'.s + j - 1]] /\ Idles'
    BY <1>1, Ended DEF Reads, Undisturbed, Common
  <2>1. ok /\ op.fn = "readSectors" /\ op'.s = op.s /\ op'.n = op.n
    BY ReturnIs DEF Common
  <2>2. kind \in SdKinds \cup CfKinds => clean
    <3>1. op.fn \notin Restores
      BY <2>1 DEF Restores
    <3> QED
      BY <2>1, <3>1, ReturnIs DEF Common
  <2>3. Served
    BY <1>1, <2>1 DEF Served, Transfers
  <2> QED
    BY <2>1, <2>2, <2>3 DEF Completes, Reading, Undisturbed, Idles
<1> QED
  BY <1>2, <1>3, <1>4, <1>5, <1>6 DEF Common

-----------------------------------------------------------------------------
(* The steps that no adapter makes.                                        *)

LEMMA CallIs ==
    ASSUME CallTypes, Call
    PROVE  /\ At("done") /\ Running' /\ op' \in CallRecs /\ op'.at = op'.fn /\ op'.at \in Calls /\ op'.i = 0 /\ op'.n >= 1
           /\ op'.s + op'.n <= LastBlock + 1 /\ op'.crc = Crc16(New) /\ op'.rsp = "none" /\ op'.tries = 0
           /\ op'.fn = "startUp" <=> ~started
           /\ written' \in 0 .. MaxWritten /\ buf' = <<>>
           /\ UNCHANGED <<kind, present, memory, card, late, port, started, clean, owed>>
<1>1. op \in CallRecs /\ written \in 0 .. MaxWritten /\ started \in BOOLEAN
  BY DEF CallTypes
<1>2. PICK fn \in IF started THEN Calls \ {"startUp"} ELSE {"startUp"}, s \in Blocks, n \in 1 .. MaxBlocks :
         /\ IF fn \in {"readSectors", "writeSectors"} THEN s + n <= LastBlock + 1 ELSE s = 0 /\ n = 1
         /\ written' = IF fn = "writeSectors" THEN written + n ELSE written
         /\ written' <= MaxWritten
         /\ op' = [NoCall EXCEPT !.fn = fn, !.s = s, !.n = n, !.at = fn]
  BY DEF Call
<1>3. fn \in Calls /\ (fn = "startUp" <=> ~started)
  BY <1>1, <1>2 DEF Calls
<1>4. LastBlock \in Nat /\ MaxBlocks \in Nat /\ MaxWritten \in Nat /\ s \in 0 .. LastBlock /\ n \in 1 .. MaxBlocks
  BY <1>1, NumbersAre DEF Blocks
<1>5. s + n <= LastBlock + 1
  <2>1. CASE fn \in {"readSectors", "writeSectors"}
    BY <1>2, <2>1
  <2>2. CASE fn \notin {"readSectors", "writeSectors"}
    <3>1. s = 0 /\ n = 1
      BY <1>2, <2>2
    <3> QED
      BY <1>4, <3>1
  <2> QED
    BY <2>1, <2>2
<1>6. written' \in 0 .. MaxWritten
  BY <1>1, <1>2, <1>4
<1>7. fn \in Places /\ fn # "done"
  BY <1>3 DEF Places, Calls
<1>8. op' \in CallRecs /\ op'.fn = fn /\ op'.s = s /\ op'.n = n /\ op'.at = fn /\ op'.i = 0
      /\ op'.crc = Crc16(New) /\ op'.rsp = "none" /\ op'.tries = 0
  <2>1. op' = [NoCall EXCEPT !.fn = fn, !.s = s, !.n = n, !.at = fn] /\ n \in 0 .. MaxBlocks /\ NoCall \in CallRecs
    BY <1>2, <1>4, NoCallIs
  <2> DEFINE c == Crc16(New)
  <2>2. NoCall.i = 0 /\ NoCall.crc = c /\ NoCall.rsp = "none" /\ NoCall.tries = 0
    BY NoCallIs
  <2> HIDE DEF c
  <2>3. op' \in CallRecs
    BY <1>3, <1>7, <2>1 DEF CallRecs
  <2>4. op'.fn = fn /\ op'.s = s /\ op'.n = n /\ op'.at = fn /\ op'.i = 0
        /\ op'.crc = c /\ op'.rsp = "none" /\ op'.tries = 0
    BY <2>1, <2>2 DEF CallRecs
  <2> QED
    BY <2>3, <2>4 DEF c
<1>9. Running'
  BY <1>7, <1>8 DEF Running, At
<1> QED
  BY <1>3, <1>4, <1>5, <1>6, <1>8, <1>9 DEF Call, cardVars

LEMMA CallHolds ==
    ASSUME Common, Call, UNCHANGED sram
    PROVE  Common'
<1>1. /\ At("done") /\ Running' /\ op' \in CallRecs /\ op'.at = op'.fn /\ op'.i = 0 /\ op'.n >= 1
      /\ op'.s + op'.n <= LastBlock + 1
      /\ op'.fn = "startUp" <=> ~started
      /\ written' \in 0 .. MaxWritten /\ buf' = <<>> /\ op'.at \in Calls
      /\ UNCHANGED <<kind, present, memory, card, late, port, started, clean, owed>>
  BY CallIs DEF Common
<1>2. CallTypes' /\ CardTypes' /\ LeftOK' /\ GoneOK'
  BY <1>1 DEF Common, CallTypes, CardTypes, LeftOK, GoneOK, Idles
<1>3. DataTypes'
  <2>1. <<>> \in Seq(BlockContents)
    OBVIOUS
  <2> QED
    BY <1>1, <2>1 DEF Common, DataTypes
<1>4. CallOK'
  <2>1. op'.n \in Nat /\ MaxBlocks \in Nat /\ Len(<<>>) = 0 /\ ~(op'.at = "opcond")
    BY <1>1, NumbersAre, CardAssumption DEF Calls, CallRecs
  <2> QED
    BY <1>1, <2>1 DEF CallOK, At
<1>5. Kept'
  <2>1. (OwnOnly' <=> OwnOnly') /\ \A b : Owe(b) = owed[b] /\ owed[b] \in SUBSET Owe(b)'
    BY <1>1 DEF Owe, Writing, Running
  <2>2. Idles' <=> Idles
    BY <1>1 DEF Idles
  <2>3. op'.s \in Nat /\ op'.s .. op'.s + 0 - 1 = {} /\ ~(op'.i > 0)
    <3>1. op'.s \in Nat
      BY <1>1, CardAssumption DEF CallRecs, Blocks
    <3> QED
      BY <1>1, <3>1
  <2> QED
    BY <1>1, <2>1, <2>2, <2>3 DEF Common, Kept
<1>6. Reads'
  <2>1. 1 .. 0 = {} /\ ~(op'.i > 0) /\ ~At("done")'
    BY <1>1 DEF Running
  <2> QED
    BY <1>1, <2>1 DEF Reads
<1> QED
  BY <1>2, <1>3, <1>4, <1>5, <1>6 DEF Common

LEMMA CardOnIs ==
    /\ CardOn(kind) \in CardRecs /\ CardOn(kind).pend = Nothing /\ CardOn(kind).left = 0
    /\ CardOn(kind).state \in {"off", "tran"} /\ (kind \notin SdKinds \cup {"nmmc"} => CardOn(kind).state = "tran")
<1> DEFINE no == FALSE
           st == IF kind \in SdKinds \cup {"nmmc"} THEN "off" ELSE "tran"
<1>1. st \in {"off", "tran"} /\ st \in States /\ 0 \in 0 .. Many /\ no \in BOOLEAN /\ Nothing \in PendRecs
      /\ (kind \notin SdKinds \cup {"nmmc"} => st = "tran")
  BY NothingIs, CardAssumption DEF States, Many
<1>2. CardOn(kind) = [state |-> st, pos |-> 0, left |-> 0, wide |-> no, pend |-> Nothing]
  BY Zenon DEF CardOn
<1> HIDE DEF no, st
<1>3. CardOn(kind) \in CardRecs /\ CardOn(kind).pend = Nothing /\ CardOn(kind).left = 0 /\ CardOn(kind).state = st
  BY <1>1, <1>2 DEF CardRecs
<1> QED
  BY <1>1, <1>3

(* A card that is put back to a state of its own.                          *)
LEMMA ResetIs ==
    ASSUME NEW s \in {"off", "idle", "tran"}, card' = [CardOn(kind) EXCEPT !.state = s]
    PROVE  card' \in CardRecs /\ card'.state = s /\ card'.pend = Nothing
<1>1. s \in States
  BY DEF States
<1> QED
  BY <1>1, CardOnIs DEF CardRecs

LEMMA PullHolds ==
    ASSUME Common, Pull, UNCHANGED sram
    PROVE  /\ Common' /\ ~present' /\ card'.pend = Nothing /\ card'.state = "off"
           /\ UNCHANGED <<kind, memory, late, port, op, buf, written, started, clean, owed>>
<1>1. /\ UNCHANGED <<kind, memory, late, port, op, buf, written, started, clean, owed, sram>>
      /\ present' = FALSE /\ kind \notin Soldered /\ card' = [CardOn(kind) EXCEPT !.state = "off"]
  BY DEF Pull, callVars
<1>2. card' \in CardRecs /\ card'.state = "off" /\ card'.pend = Nothing
  BY <1>1, ResetIs
<1>3. CallTypes' /\ CardTypes' /\ DataTypes' /\ LeftOK' /\ GoneOK'
  BY <1>1, <1>2 DEF Common, CallTypes, CardTypes, DataTypes, LeftOK, GoneOK, Idles
<1>4. CallOK'
  BY <1>1 DEF Common, CallOK, Running, Reading, Writing, At
<1>5. Kept'
  <2>1. /\ Knows' <=> Knows
        /\ \A b : DataFor(b)' = DataFor(b)
        /\ \A b : Owe(b)' = Owe(b)
    BY <1>1 DEF Knows, Writing, Running, At, Owe, DataFor, Transfers
  <2> SUFFICES ASSUME kind # "fcsr", kind \in Confirms
               PROVE  /\ \A b \in Blocks : memory[b] \in Owe(b)
                      /\ Idles'
                      /\ Knows => (\A b \in op.s .. op.s + op.i - 1 : memory[b] = DataFor(b)) /\ OwnOnly'
    BY <1>1, <2>1 DEF Kept, Put
  <2>2. kind \notin CfKinds
    BY DEF CfKinds, Confirms, SdKinds, Soldered
  <2> QED
    BY <1>2, <2>2 DEF Common, Kept, Put, Idles, OwnOnly
<1>6. Reads'
  BY <1>1, <1>2 DEF Common, Reads, Undisturbed, Reading, Running, At, Served, Transfers, Idles
<1> QED
  BY <1>1, <1>2, <1>3, <1>4, <1>5, <1>6 DEF Common

LEMMA PowerHolds ==
    ASSUME Common, PowerCycle, UNCHANGED sram
    PROVE  /\ Common' /\ card'.pend = Nothing /\ ~started' /\ ~clean' /\ op'.at = "done" /\ op'.fn = "shutdown" /\ op'.i = 0
           /\ op'.rsp = "none" /\ port' = PortOn(kind) /\ card'.state = (IF present THEN CardOn(kind).state ELSE "off")
           /\ ~Running' /\ ~Writing'
           /\ UNCHANGED <<kind, present, memory, late>>
           /\ \A b \in Blocks : Owe(b) \subseteq Owe(b)'
<1>1. /\ UNCHANGED <<kind, present, memory, late, written, sram>>
      /\ card' = [CardOn(kind) EXCEPT !.state = IF present THEN @ ELSE "off"] /\ port' = PortOn(kind)
      /\ op' = NoCall /\ buf' = <<>> /\ started' = FALSE /\ clean' = FALSE
  BY DEF PowerCycle
<1>2. card' \in CardRecs /\ card'.pend = Nothing /\ card'.state = (IF present THEN CardOn(kind).state ELSE "off")
  <2> DEFINE s == IF present THEN CardOn(kind).state ELSE "off"
  <2>1. card' = [CardOn(kind) EXCEPT !.state = s] /\ s \in {"off", "idle", "tran"}
    BY <1>1, CardOnIs
  <2> HIDE DEF s
  <2>2. card' \in CardRecs /\ card'.pend = Nothing /\ card'.state = s
    BY <2>1, ResetIs
  <2> QED
    BY <2>2 DEF s
<1>3. op' \in CallRecs /\ op'.at = "done" /\ op'.fn = "shutdown" /\ op'.i = 0 /\ op'.rsp = "none"
  BY <1>1, NoCallIs
<1>4. ~Running' /\ ~Reading' /\ ~Writing' /\ ~Knows'
  BY <1>3 DEF Running, Reading, Writing, Knows, At
<1>5. port' \in PortRecs
  <2> DEFINE m == kind \in {"njsd", "mpcf", "mmcf", "ak2"}
             a == FALSE
  <2>1. port' = [media |-> m, addressed |-> a]
    BY <1>1, Zenon DEF PortOn
  <2>2. m \in BOOLEAN /\ a \in BOOLEAN
    OBVIOUS
  <2> HIDE DEF m, a
  <2> QED
    BY <2>1, <2>2 DEF PortRecs
<1>6. /\ \A b \in Blocks : owed[b] \subseteq Lost[b] /\ Lost[b] \in SUBSET BlockContents
      /\ kind \in CfKinds /\ ~Idles => memory[card.pend.block] \in Lost[card.pend.block]
  <2>1. card.pend.block \in Blocks /\ memory \in [Blocks -> BlockContents] /\ owed \in [Blocks -> SUBSET BlockContents]
    BY DEF Common, CardTypes, CardRecs, PendRecs, DataTypes
  <2> QED
    BY <2>1 DEF Lost, Idles
<1>7. /\ \A b \in Blocks : owed'[b] = Lost[b] \cup IF Writing /\ b \in Transfers THEN {DataFor(b)} ELSE {}
      /\ owed' \in [Blocks -> SUBSET BlockContents]
      /\ \A b \in Blocks : Owe(b)' = owed'[b]
  <2>1. \A b \in Transfers : DataFor(b) \in BlockContents
    BY DataIs DEF Common
  <2>2. owed' = [b \in Blocks |-> Lost[b] \cup IF Writing /\ b \in Transfers THEN {DataFor(b)} ELSE {}]
    BY DEF PowerCycle, Writing, Running
  <2> QED
    BY <1>4, <1>6, <2>1, <2>2 DEF Owe
<1>8. CallTypes' /\ DataTypes' /\ CardTypes'
  <2>1. <<>> \in Seq(BlockContents)
    OBVIOUS
  <2> QED
    BY <1>1, <1>2, <1>3, <1>5, <1>7, <2>1 DEF Common, CallTypes, DataTypes, CardTypes
<1>9. LeftOK' /\ GoneOK'
  BY <1>1, <1>2, CardOnIs DEF LeftOK, GoneOK, Idles
<1>10. CallOK'
  <2>1. Len(<<>>) = 0 /\ MaxBlocks \in Nat
    BY NumbersAre DEF Common, CallTypes
  <2> QED
    BY <1>1, <1>3, <1>4, <2>1 DEF CallOK, At, Calls
<1>11. \A b \in Blocks : Owe(b) \subseteq Owe(b)'
  BY <1>6, <1>7 DEF Owe
<1>12. Kept'
  BY <1>1, <1>2, <1>4, <1>6, <1>7, <1>11 DEF Common, Kept, Idles
<1>13. Reads'
  BY <1>3, <1>4 DEF Reads
<1> QED
  BY <1>1, <1>2, <1>3, <1>4, <1>8, <1>9, <1>10, <1>11, <1>12, <1>13 DEF Common

LEMMA ProgrammedHolds ==
    ASSUME Common, Programmed, UNCHANGED sram
    PROVE  /\ Common' /\ present /\ ~Idles /\ card'.pend = Nothing /\ card' \in CardRecs
           /\ card'.state = (IF card.state = "prg" THEN "tran" ELSE card.state)
           /\ card'.pos = card.pos /\ card'.left = card.left /\ card'.wide = card.wide
           /\ memory'[card.pend.block] = card.pend.value
           /\ UNCHANGED <<kind, present, late, port, op, buf, written, started, clean, owed>>
<1>1. /\ UNCHANGED <<kind, present, late, port, op, buf, written, started, clean, owed, sram>> /\ present /\ ~Idles
      /\ memory' = [memory EXCEPT ![card.pend.block] = card.pend.value]
      /\ card' = [card EXCEPT !.pend = Nothing, !.state = IF @ = "prg" THEN "tran" ELSE @]
  BY DEF Programmed, callVars, Idles
<1>2. card \in CardRecs /\ memory \in [Blocks -> BlockContents] /\ card.pend.block \in Blocks /\ card.pend.value \in BlockContents
  BY DEF Common, CardTypes, CardRecs, PendRecs, DataTypes
<1>3. /\ card' \in CardRecs /\ card'.pend = Nothing /\ card'.state = (IF card.state = "prg" THEN "tran" ELSE card.state)
      /\ card'.pos = card.pos /\ card'.left = card.left /\ card'.wide = card.wide
  BY <1>1, <1>2, NothingIs DEF CardRecs, States
<1>4. /\ memory' \in [Blocks -> BlockContents] /\ memory'[card.pend.block] = card.pend.value
      /\ \A b \in Blocks : b # card.pend.block => memory'[b] = memory[b]
  BY <1>1, <1>2
<1>5. CallTypes' /\ CardTypes' /\ DataTypes' /\ LeftOK' /\ GoneOK'
  BY <1>1, <1>3, <1>4 DEF Common, CallTypes, CardTypes, DataTypes, LeftOK, GoneOK, Idles
<1>6. CallOK'
  BY <1>1 DEF Common, CallOK, Running, Reading, Writing, At
<1>7. Kept'
  <2>1. /\ (Knows' <=> Knows) /\ (Running' <=> Running)
        /\ \A b : DataFor(b)' = DataFor(b)
        /\ \A b : Owe(b)' = Owe(b)
    BY <1>1 DEF Knows, Writing, Running, At, Owe, DataFor, Transfers
  <2> SUFFICES ASSUME kind # "fcsr"
               PROVE  /\ \A b \in Blocks : memory'[b] \in Owe(b)
                      /\ Idles'
                      /\ Knows => (\A b \in op.s .. op.s + op.i - 1 : memory'[b] = DataFor(b)) /\ OwnOnly'
    BY <1>1, <2>1 DEF Kept, Put
  <2>2. /\ \A b \in Blocks : memory[b] \in Owe(b) \/ card.pend.block = b
        /\ card.pend.value \in Owe(card.pend.block)
        /\ Knows => /\ \A b \in op.s .. op.s + op.i - 1 : Put(b)
                    /\ op.i > 0 => OwnOnly
    BY <1>1 DEF Common, Kept
  <2>3. ASSUME Knows, NEW b \in op.s .. op.s + op.i - 1
        PROVE  memory'[b] = DataFor(b)
    <3>1. op.i > 0 /\ b \in Transfers /\ b \in Blocks
      <4>1. op.s \in Nat /\ op.i \in Nat /\ op.n \in Nat /\ op.i <= op.n
        BY <2>3, NumbersAre DEF Common, CallTypes, CallOK, Knows, Writing
      <4>2. Transfers \subseteq Blocks
        BY <2>3, OnTheCard DEF Common, Knows, Writing
      <4> QED
        BY <4>1, <4>2 DEF Transfers
    <3>2. card.pend.block \in Transfers /\ Pends(card.pend.block)
      BY <1>1, <2>2, <2>3, <3>1 DEF OwnOnly
    <3>3. card.pend.value = DataFor(card.pend.block)
      BY <3>2, PendIs DEF Common
    <3>4. CASE b = card.pend.block
      BY <1>4, <3>3, <3>4
    <3>5. CASE b # card.pend.block
      <4>1. ~Pends(b)
        BY <3>1, <3>5, PendIs DEF Common
      <4> QED
        BY <1>4, <2>2, <2>3, <3>1, <3>5, <4>1 DEF Put
    <3> QED
      BY <3>4, <3>5
  <2> QED
    BY <1>3, <1>4, <2>2, <2>3 DEF Idles, OwnOnly
<1>8. Reads'
  <2>1. Undisturbed' <=> Undisturbed
    BY <1>1 DEF Undisturbed
  <2>2. Undisturbed /\ Reading => ~(op.i > 0)
    BY <1>1 DEF Common, Reads
  <2>3. ~(op.i > 0) => op.i = 0 /\ 1 .. op.i = {}
    BY NumbersAre DEF Common, CallTypes
  <2>4. ~(Undisturbed /\ At("done") /\ op.fn = "readSectors" /\ Served)
    BY <1>1 DEF Common, Reads
  <2> QED
    BY <1>1, <2>1, <2>2, <2>3, <2>4 DEF Reads, Reading, Running, At, Served, Transfers
<1> QED
  BY <1>1, <1>3, <1>4, <1>5, <1>6, <1>7, <1>8 DEF Common

LEMMA TimesOutIs ==
    ASSUME CardTypes, NEW never, TimesOut(never)
    PROVE  late' \in 0 .. Lateness /\ (never \/ late > 0)
<1>1. late \in 0 .. Lateness /\ Lateness \in Nat
  BY CardAssumption DEF CardTypes
<1> QED
  BY <1>1 DEF TimesOut

LEMMA MediaIs ==
    ASSUME port \in PortRecs, NEW m \in BOOLEAN, port' = [port EXCEPT !.media = m]
    PROVE  port' \in PortRecs /\ port'.media = m /\ port'.addressed = port.addressed
BY DEF PortRecs

(* A call that ends and is no transfer, or a transfer that fails.          *)
LEMMA QuietReturn ==
    ASSUME Common, Running, NEW ok \in BOOLEAN, Return(ok), UNCHANGED <<present, memory, card, buf, sram>>,
           late' \in 0 .. Lateness, port' \in PortRecs, ~(ok /\ (Reading \/ Writing))
    PROVE  Common'
<1>1. Around /\ Completes(ok)
  BY DEF Around, CardMoves, Completes, Knows
<1>2. buf' \in Seq(BlockContents) /\ Len(buf') <= MaxBlocks
  BY DEF Common, DataTypes, CallOK
<1> QED
  BY <1>1, <1>2, ReturnHolds

LEMMA AtCall ==
    ASSUME CallOK, NEW a \in Calls, At(a)
    PROVE  op.fn = a /\ Running /\ (op.i = 0 \/ (a = "writeSectors" /\ kind \in SdKinds) \/ kind = "ak")
           /\ (Reading <=> a = "readSectors") /\ (Writing <=> a = "writeSectors")
BY DEF CallOK, At, Running, Reading, Writing, Calls

LEMMA KindIs == CallTypes => kind \in Kinds
BY DEF CallTypes

-----------------------------------------------------------------------------
(* CompactFlash.                                                           *)

(* A call that ends leaves no claim but that the adapter is set.           *)
LEMMA CfEnds ==
    ASSUME CallTypes, kind \in CfKinds, NEW ok \in BOOLEAN, Return(ok), port'.media, Within'
    PROVE  CfOK'
<1>1. op'.at = "done"
  BY ReturnIs
<1> QED
  BY <1>1 DEF CfOK, At

LEMMA CfStarts ==
    ASSUME Common, CfOK, kind \in CfKinds, M3cfStartup \/ SccfStartup \/ MpcfStartup \/ MmcfStartup
    PROVE  Common' /\ CfOK'
<1>1. At("startUp") /\ Return(present) /\ UNCHANGED <<cardVars, buf, sram>>
  BY DEF M3cfStartup, SccfStartup, MpcfStartup, MmcfStartup, CfStartup
<1>2. op.fn = "startUp" /\ Running /\ ~Reading /\ ~Writing
  BY <1>1, AtCall DEF Common, Calls
<1>3. port' \in PortRecs /\ port'.media
  <2>1. port \in PortRecs
    BY DEF Common, CardTypes
  <2>2. CASE M3cfStartup \/ SccfStartup
    BY <2>1, <2>2, MediaIs DEF M3cfStartup, SccfStartup, M3ChangeMode, ScChangeMode
  <2>3. CASE MpcfStartup \/ MmcfStartup
    BY <2>1, <2>3 DEF MpcfStartup, MmcfStartup, CfOK
  <2> QED
    BY <2>2, <2>3
<1>4. present \in BOOLEAN /\ late' \in 0 .. Lateness
  BY <1>1 DEF Common, CardTypes, cardVars
<1>5. Within'
  BY <1>1 DEF CfOK, Within, cardVars
<1> QED
  BY <1>1, <1>2, <1>3, <1>4, <1>5, QuietReturn, CfEnds DEF cardVars, Common

LEMMA BusyIs ==
    ASSUME CardTypes, BusyForLong
    PROVE  late' \in 0 .. Lateness /\ present
<1>1. late \in 0 .. Lateness /\ Lateness \in Nat
  BY CardAssumption DEF CardTypes
<1> QED
  BY <1>1 DEF BusyForLong, Busy, Reached

LEMMA CfOthers ==
    ASSUME Common, CfOK, kind \in CfKinds, CfIsInserted \/ CfClearStatus
    PROVE  Common' /\ CfOK'
<1>1. PICK a \in {"isInserted", "clearStatus", "shutdown"} : At(a)
  BY DEF CfIsInserted, CfClearStatus
<1>2. Running /\ ~Reading /\ ~Writing /\ port.media /\ port \in PortRecs
  <2>1. a \in Calls
    BY DEF Calls
  <2> QED
    BY <1>1, <2>1, AtCall DEF Common, CfOK, At, CardTypes
<1>3. PICK ok \in BOOLEAN : Return(ok)
  BY DEF CfIsInserted, CfClearStatus, Reached, Idle
<1>4. late' \in 0 .. Lateness
  <2>1. late \in 0 .. Lateness
    BY DEF Common, CardTypes
  <2>2. late' = late \/ BusyForLong \/ TimesOut(~Reached)
    BY DEF CfIsInserted, CfClearStatus, cardVars
  <2> QED
    BY <2>1, <2>2, BusyIs, TimesOutIs DEF Common
<1>5. UNCHANGED <<present, memory, card, buf, sram, port>>
  BY DEF CfIsInserted, CfClearStatus, cardVars
<1>6. Within'
  BY <1>5 DEF CfOK, Within
<1> QED
  BY <1>2, <1>3, <1>4, <1>5, <1>6, QuietReturn, CfEnds DEF Common

LEMMA AfterSentIs ==
    ASSUME card \in CardRecs, card.left >= 1
    PROVE  /\ AfterSent \in CardRecs /\ AfterSent.pend = card.pend /\ AfterSent.wide = card.wide
           /\ card.left = 1 => AfterSent.state = "tran" /\ AfterSent.left = 0
           /\ card.left # 1 => /\ AfterSent.state = card.state /\ AfterSent.pos = card.pos + 1 /\ AfterSent.left >= 1
                               /\ AfterSent.left = IF card.left = Many THEN Many ELSE card.left - 1
<1>1. card.left \in 0 .. Many /\ Many \in Nat /\ card.pos \in Nat
  BY CardAssumption DEF CardRecs, Many
<1>2. CASE card.left = 1
  <2>1. AfterSent = [card EXCEPT !.pos = 0, !.left = 0, !.state = "tran"] /\ "tran" \in States /\ 0 \in 0 .. Many
    BY <1>1, <1>2 DEF AfterSent, States
  <2> QED
    BY <1>2, <2>1 DEF CardRecs
<1>3. CASE card.left # 1
  <2> DEFINE l == IF card.left = Many THEN Many ELSE card.left - 1
             p == card.pos + 1
  <2>1. AfterSent = [card EXCEPT !.pos = p, !.left = l]
    BY <1>3 DEF AfterSent
  <2>2. l \in 0 .. Many /\ p \in Nat /\ l >= 1
    BY <1>1, <1>3
  <2> HIDE DEF l, p
  <2>3. AfterSent \in CardRecs /\ AfterSent.pend = card.pend /\ AfterSent.wide = card.wide
        /\ AfterSent.state = card.state /\ AfterSent.pos = p /\ AfterSent.left = l
    BY <2>1, <2>2 DEF CardRecs
  <2> QED
    BY <1>3, <2>2, <2>3 DEF l, p
<1> QED
  BY <1>2, <1>3

(* The card is told what comes, and how many blocks.                       *)
LEMMA CountIs ==
    ASSUME CallTypes, CallOK, Running
    PROVE  Counted(op.n) = op.n /\ op.n \in 0 .. Many
BY NumbersAre DEF CallTypes, CallOK, Counted, CountRegister, Many

(* What is left after a block lies on the card, and so did the block.      *)
LEMMA SentWithin ==
    ASSUME card \in CardRecs, card.state \in {"data", "rcv"}, card.left >= 1, Within,
           card'.state = AfterSent.state, card'.left = AfterSent.left, card'.pos = AfterSent.pos
    PROVE  Within' /\ card.pos \in Blocks
<1>1. card.left \in Nat /\ card.pos \in Nat /\ MaxBlocks \in Nat /\ LastBlock \in Nat
  BY CardAssumption DEF CardRecs, Many
<1>2. card.left <= MaxBlocks /\ card.pos + card.left <= LastBlock + 1
  BY DEF Within
<1>3. card.pos \in Blocks
  BY <1>1, <1>2 DEF Blocks
<1>4. CASE card.left = 1
  BY <1>3, <1>4, AfterSentIs DEF Within
<1>5. CASE card.left # 1
  <2>1. card'.pos = card.pos + 1 /\ card'.left = card.left - 1
    BY <1>1, <1>2, <1>5, AfterSentIs DEF Many
  <2> QED
    BY <1>1, <1>2, <1>3, <2>1 DEF Within
<1> QED
  BY <1>4, <1>5

LEMMA CfGivenIs ==
    ASSUME op \in CallRecs, NEW a \in {"data", "rcv"}, NEW taken, CfGiven(a, taken)
    PROVE  /\ op' \in CallRecs /\ op'.fn = op.fn /\ op'.s = op.s /\ op'.n = op.n /\ op'.i = op.i /\ op'.at = a
           /\ UNCHANGED <<kind, written, started, owed>> /\ clean' = taken
<1>1. op' = [op EXCEPT !.at = a, !.tries = 0] /\ 0 \in 0 .. Tries /\ a \in Places
  BY NumbersAre DEF CfGiven, Places
<1>2. op' \in CallRecs
  BY <1>1 DEF CallRecs
<1>3. op'.fn = op.fn /\ op'.s = op.s /\ op'.n = op.n /\ op'.i = op.i /\ op'.at = a
  BY <1>1 DEF CallRecs
<1> QED
  BY <1>2, <1>3 DEF CfGiven

(* Nothing has been transferred yet: it does not matter what is known of   *)
(* the command.                                                            *)
LEMMA CfTold ==
    ASSUME Common, kind \in CfKinds, Running, op.i = 0, op.i < op.n, NEW s \in {"data", "rcv"}, NEW taken \in BOOLEAN,
           CfGiven(s, taken), Around, card'.pend = card.pend, UNCHANGED buf
    PROVE  Common'
<1>1. /\ op' \in CallRecs /\ op'.fn = op.fn /\ op'.s = op.s /\ op'.n = op.n /\ op'.i = 0 /\ op'.at = s
      /\ UNCHANGED <<kind, written, started, owed>> /\ clean' = taken
  BY CfGivenIs DEF Common, CallTypes
<1>2. UNCHANGED <<present, memory, sram, buf>>
  BY DEF Around
<1>3. CallTypes' /\ DataTypes'
  BY <1>1, <1>2 DEF Common, CallTypes, DataTypes
<1>4. CardTypes' /\ LeftOK' /\ GoneOK'
  BY <1>1, AroundHolds DEF Common
<1>5. Running' /\ (Reading' <=> Reading) /\ (Writing' <=> Writing) /\ ~At("done")'
  BY <1>1 DEF Running, Reading, Writing, At
<1>6. CallOK'
  <2>1. op'.at \notin Calls /\ op'.at # "opcond" /\ op'.at # "stop"
    BY <1>1 DEF Calls
  <2> QED
    BY <1>1, <1>2, <1>5, <2>1 DEF Common, CallOK, At
<1>7. Kept'
  <2>1. \A b : Owe(b)' = Owe(b)
    BY <1>1, <1>5 DEF Owe, Transfers, DataFor
  <2>2. (Idles' <=> Idles) /\ card'.pend = card.pend
    BY DEF Idles
  <2>3. op'.s .. op'.s + op'.i - 1 = {} /\ ~(op'.i > 0)
    BY <1>1, NumbersAre DEF Common, CallTypes
  <2> QED
    BY <1>1, <1>2, <2>1, <2>2, <2>3 DEF Common, Kept
<1>8. Reads'
  <2>1. 1 .. op'.i = {} /\ ~(op'.i > 0)
    BY <1>1
  <2> QED
    BY <1>5, <2>1 DEF Reads
<1> QED
  BY <1>3, <1>4, <1>6, <1>7, <1>8 DEF Common

LEMMA CfCommands ==
    ASSUME Common, CfOK, kind \in CfKinds, NEW s \in {"data", "rcv"}, CfCommand(s), UNCHANGED <<present, memory, port, buf, sram>>,
           \/ s = "data" /\ At("readSectors")
           \/ s = "rcv" /\ At("writeSectors")
    PROVE  Common' /\ CfOK'
<1>1. /\ Running /\ op.i = 0 /\ port.media /\ port \in PortRecs /\ op \in CallRecs /\ card \in CardRecs /\ late \in 0 .. Lateness
      /\ (s = "data" <=> Reading) /\ (s = "rcv" <=> Writing) /\ (Reading \/ Writing) /\ op.i < op.n /\ op.s \in Nat /\ op.n \in Nat
  <2>1. kind \notin SdKinds /\ kind # "ak"
    BY DEF CfKinds, SdKinds
  <2>2. Running /\ op.i = 0 /\ (s = "data" <=> Reading) /\ (s = "rcv" <=> Writing)
    BY <2>1, AtCall DEF Common, Calls
  <2>3. port.media /\ ~At("stop")
    BY <2>2 DEF CfOK, At, Running
  <2> QED
    BY <2>2, <2>3, NumbersAre DEF Common, CallTypes, CardTypes, CallOK
<1>2. ASSUME NEW taken \in BOOLEAN, CfGiven(s, taken)
      PROVE  /\ UNCHANGED <<kind, started>> /\ op'.at = s /\ op'.i = 0 /\ op'.n = op.n /\ op'.s = op.s /\ clean' = taken
             /\ (Reading' <=> Reading) /\ (Writing' <=> Writing)
  <2>1. /\ op'.fn = op.fn /\ op'.s = op.s /\ op'.n = op.n /\ op'.i = 0 /\ op'.at = s
        /\ UNCHANGED <<kind, started>> /\ clean' = taken
    BY <1>1, <1>2, CfGivenIs
  <2>2. (Reading' <=> Reading) /\ (Writing' <=> Writing)
    BY <1>1, <2>1 DEF Running, Reading, Writing, At
  <2> QED
    BY <2>1, <2>2
<1>3. CASE Idle /\ CfGiven(s, TRUE) /\ UNCHANGED late /\ card' = [card EXCEPT !.state = s, !.pos = op.s, !.left = Counted(op.n)]
  <2>1. /\ card' \in CardRecs /\ card'.state = s /\ card'.pos = op.s /\ card'.left = op.n /\ card'.pend = card.pend
        /\ op.n >= 1 /\ present /\ Idles
    <3>1. Counted(op.n) = op.n /\ op.n \in 0 .. Many /\ op.n >= 1 /\ s \in States
      BY <1>1, CountIs DEF Common, CallOK, States
    <3>2. card' = [card EXCEPT !.state = s, !.pos = op.s, !.left = op.n]
      BY <1>3, <3>1
    <3> QED
      BY <1>1, <1>3, <3>1, <3>2 DEF CardRecs, Idle, Reached, Idles
  <2>2. Around
    BY <1>1, <1>3, <2>1 DEF Around, CardMoves, LeftOK
  <2>3. Common'
    BY <1>1, <1>3, <2>1, <2>2, CfTold
  <2>4. CfOK'
    <3>1. /\ UNCHANGED <<kind, started>> /\ op'.at = s /\ op'.i = 0 /\ op'.n = op.n /\ op'.s = op.s
          /\ (Reading' <=> Reading) /\ (Writing' <=> Writing)
      BY <1>2, <1>3
    <3>2. CurrentBlock' = op.s /\ op'.n - op'.i = op.n
      BY <1>1, <3>1, NumbersAre DEF CurrentBlock
    <3>3. Idles'
      BY <2>1 DEF Idles
    <3>4. Within'
      BY <1>1, <2>1, NumbersAre DEF Within, Common, CallOK
    <3> QED
      BY <1>1, <2>1, <3>1, <3>2, <3>3, <3>4 DEF CfOK, At
  <2> QED
    BY <2>3, <2>4
<1>4. CASE BusyForLong /\ CfGiven(s, FALSE) /\ UNCHANGED card
  <2>1. late' \in 0 .. Lateness
    BY <1>4, BusyIs DEF Common
  <2>2. Around
    BY <1>1, <1>4, <2>1 DEF Around, CardMoves
  <2> DEFINE no == FALSE
  <2>3. no \in BOOLEAN /\ CfGiven(s, no)
    BY <1>4
  <2> HIDE DEF no
  <2>4. Common'
    BY <1>1, <1>4, <2>2, <2>3, CfTold
  <2>5. CfOK'
    <3>1. /\ UNCHANGED <<kind, started>> /\ op'.at = s /\ (Reading' <=> Reading) /\ (Writing' <=> Writing) /\ clean' = no
      BY <1>2, <2>3
    <3>2. ~clean'
      BY <3>1 DEF no
    <3>3. Within'
      BY <1>4 DEF CfOK, Within
    <3> QED
      BY <1>1, <3>1, <3>2, <3>3 DEF CfOK, At
  <2> QED
    BY <2>4, <2>5
<1>5. CASE TimesOut(~Reached) /\ Return(FALSE) /\ UNCHANGED card
  <2>1. late' \in 0 .. Lateness
    BY <1>5, TimesOutIs DEF Common
  <2>2. Within'
    BY <1>5 DEF CfOK, Within
  <2> QED
    BY <1>1, <1>5, <2>1, <2>2, QuietReturn, CfEnds DEF Common
<1> QED
  BY <1>3, <1>4, <1>5 DEF CfCommand

LEMMA CfAt ==
    ASSUME Common, CfOK, kind \in CfKinds, At("data") \/ At("rcv")
    PROVE  /\ Running /\ (Reading <=> At("data")) /\ (Writing <=> At("rcv")) /\ port.media /\ port \in PortRecs
           /\ op \in CallRecs /\ card \in CardRecs
           /\ late \in 0 .. Lateness /\ op.i < op.n /\ op.s \in Nat /\ op.i \in Nat /\ op.n \in Nat /\ op.n <= MaxBlocks
           /\ MaxBlocks \in Nat /\ clean \in BOOLEAN
BY NumbersAre DEF CfOK, At, Running, Reading, Writing, Common, CallTypes, CardTypes, CallOK

(* A block that is read.                                                   *)
LEMMA CfReadsOne ==
    ASSUME Common, CfOK, kind \in CfKinds, At("data"), Around, card'.pend = card.pend, Gets, Within', UNCHANGED port,
           clean => Idles,
           clean /\ ~LastOne => card'.state = "data" /\ card'.pos = CurrentBlock + 1 /\ card'.left = op.n - op.i - 1,
           IF LastOne THEN Return(TRUE) ELSE NextBlock("data")
    PROVE  Common' /\ CfOK'
<1>1. /\ Running /\ Reading /\ ~Writing /\ port.media /\ op \in CallRecs
      /\ op.i < op.n /\ op.s \in Nat /\ op.i \in Nat /\ op.n \in Nat /\ op.n <= MaxBlocks
  BY CfAt DEF At
<1>2. CASE LastOne
  <2>1. op.i + 1 = op.n
    BY <1>2 DEF LastOne
  <2>2. buf' \in Seq(BlockContents) /\ Len(buf') <= MaxBlocks
    BY <1>1, <2>1, GotIs
  <2>3. Completes(TRUE)
    <3>1. Undisturbed => buf' = [j \in 1 .. op.n |-> memory[op.s + j - 1]]
      BY <1>1, <2>1, <2>2, Filled
    <3> QED
      BY <1>1, <3>1 DEF Completes, Knows, Undisturbed
  <2>4. Return(TRUE)
    BY <1>2
  <2>5. Common'
    BY <1>1, <2>2, <2>3, <2>4, ReturnHolds
  <2> QED
    BY <1>1, <2>4, <2>5, CfEnds DEF Common
<1>3. CASE ~LastOne
  <2>1. op.i + 1 < op.n /\ NextBlock("data")
    BY <1>1, <1>3 DEF LastOne
  <2>2. Advances /\ op'.at = "data"
    <3>1. "data" \in Places /\ "data" # "done"
      BY DEF Places
    <3> QED
      BY <1>1, <2>1, <3>1, NextIs
  <2>3. Common'
    <3>1. ~(op'.at \in Calls) /\ op'.at # "opcond" /\ Delivers
      BY <1>1, <2>2 DEF Calls, Delivers, Knows
    <3> QED
      BY <1>1, <2>1, <2>2, <3>1, AdvanceHolds
  <2>4. CfOK'
    <3>1. /\ UNCHANGED <<kind, started, clean>> /\ op'.i = op.i + 1 /\ op'.n = op.n /\ op'.s = op.s /\ Reading'
      BY <1>1, <2>2, SameCall DEF Advances, GoesOn
    <3>2. CurrentBlock' = CurrentBlock + 1 /\ op'.n - op'.i = op.n - op.i - 1
      BY <1>1, <3>1 DEF CurrentBlock
    <3>3. clean => Idles'
      BY DEF Idles
    <3> QED
      BY <1>1, <1>3, <2>2, <3>1, <3>2, <3>3 DEF CfOK, At
  <2> QED
    BY <2>3, <2>4
<1> QED
  BY <1>2, <1>3

LEMMA CfReads ==
    ASSUME Common, CfOK, kind \in CfKinds, CfReadSectors
    PROVE  Common' /\ CfOK'
<1>1. UNCHANGED <<present, memory, port, sram>>
  BY DEF CfReadSectors
<1>2. CASE At("readSectors") /\ CfCommand("data") /\ UNCHANGED buf
  BY <1>1, <1>2, CfCommands
<1>3. ASSUME At("data")
      PROVE  /\ Running /\ Reading /\ ~Writing /\ port.media /\ port \in PortRecs /\ op \in CallRecs /\ card \in CardRecs
             /\ late \in 0 .. Lateness /\ op.i < op.n /\ op.s \in Nat /\ op.i \in Nat /\ op.n \in Nat /\ op.n <= MaxBlocks
             /\ MaxBlocks \in Nat /\ Within
             /\ present /\ clean => card.state = "data" /\ card.pos = CurrentBlock /\ card.left = op.n - op.i /\ Idles
  BY <1>3, CfAt DEF At, CfOK
<1>4. CASE At("data") /\ Streaming /\ Got(Sent) /\ card' = AfterSent /\ UNCHANGED late
           /\ (IF LastOne THEN Return(TRUE) ELSE NextBlock("data"))
  <2>1. /\ present /\ card.state = "data" /\ card.left >= 1 /\ card.pos \in Blocks
        /\ clean => card.pos = CurrentBlock /\ card.left = op.n - op.i /\ Idles
    BY <1>3, <1>4 DEF Common, LeftOK, Streaming, InState, Reached
  <2>2. /\ card' \in CardRecs /\ card'.pend = card.pend
        /\ card.left = 1 => card'.state = "tran" /\ card'.left = 0
        /\ card.left # 1 => /\ card'.state = card.state /\ card'.pos = card.pos + 1 /\ card'.left >= 1
                            /\ card'.left = IF card.left = Many THEN Many ELSE card.left - 1
    BY <1>3, <1>4, <2>1, AfterSentIs
  <2>3. Around
    BY <1>1, <1>3, <1>4, <2>1, <2>2 DEF Around, CardMoves, LeftOK
  <2>4. Gets
    <3>1. Sent = memory[card.pos] /\ Sent \in BlockContents
      BY <2>1 DEF Sent, CfKinds, SdKinds, Common, DataTypes
    <3>2. Undisturbed => Sent = memory[CurrentBlock] /\ Idles
      BY <2>1, <3>1 DEF Undisturbed
    <3> QED
      BY <1>4, <3>1, <3>2 DEF Gets
  <2>5. Within'
    BY <1>3, <1>4, <2>1, SentWithin
  <2>6. clean /\ ~LastOne => card'.state = "data" /\ card'.pos = CurrentBlock + 1 /\ card'.left = op.n - op.i - 1
    <3>1. clean /\ ~LastOne => card.left # 1 /\ card.left # Many
      BY <1>3, <1>4, <2>1 DEF LastOne, Many
    <3> QED
      BY <2>1, <2>2, <3>1
  <2> QED
    BY <1>1, <1>4, <2>1, <2>2, <2>3, <2>4, <2>5, <2>6, CfReadsOne
<1>5. CASE At("data") /\ CfReadyFor("rcv") /\ Got(Junk) /\ UNCHANGED <<card, late>>
           /\ (IF LastOne THEN Return(TRUE) ELSE NextBlock("data"))
  <2>1. present /\ card.state = "rcv"
    BY <1>5 DEF CfReadyFor, InState, Reached
  <2>2. ~clean
    BY <1>3, <1>5, <2>1
  <2>3. Around
    BY <1>1, <1>3, <1>5 DEF Around, CardMoves
  <2>4. Gets
    <3>1. Junk \in BlockContents
      BY DEF BlockContents
    <3> QED
      BY <1>5, <2>2, <3>1 DEF Gets, Undisturbed
  <2>5. Within'
    BY <1>3, <1>5 DEF Within
  <2> QED
    BY <1>1, <1>5, <2>2, <2>3, <2>4, <2>5, CfReadsOne
<1>6. CASE At("data") /\ TimesOut(~Streaming) /\ Return(FALSE) /\ UNCHANGED <<card, buf>>
  <2>1. late' \in 0 .. Lateness
    BY <1>6, TimesOutIs DEF Common
  <2>2. Within'
    BY <1>3, <1>6 DEF Within
  <2> QED
    BY <1>1, <1>3, <1>6, <2>1, <2>2, QuietReturn, CfEnds DEF Common
<1> QED
  BY <1>2, <1>4, <1>5, <1>6 DEF CfReadSectors

(* A block that is written for the command of this call, or that the card  *)
(* throws away.                                                            *)
LEMMA CfWritesOne ==
    ASSUME Common, CfOK, kind \in CfKinds, At("rcv"), Around, Delivers, Within', UNCHANGED <<port, buf>>,
           clean /\ ~LastOne => /\ card'.state = "rcv" /\ card'.pos = CurrentBlock + 1 /\ card'.left = op.n - op.i - 1
                                /\ card'.pend = [block |-> CurrentBlock, value |-> DataFor(CurrentBlock)],
           CfLast
    PROVE  Common' /\ CfOK'
<1>1. /\ Running /\ Writing /\ ~Reading /\ port.media /\ op \in CallRecs
      /\ op.i < op.n /\ op.s \in Nat /\ op.i \in Nat /\ op.n \in Nat /\ op.n <= MaxBlocks
  BY CfAt DEF At
<1>2. CASE LastOne
  <2>1. Completes(TRUE) /\ Return(TRUE)
    BY <1>1, <1>2 DEF Completes, CfLast
  <2>2. buf' \in Seq(BlockContents) /\ Len(buf') <= MaxBlocks
    BY DEF Common, DataTypes, CallOK
  <2>3. Common'
    BY <1>1, <2>1, <2>2, ReturnHolds
  <2> QED
    BY <1>1, <2>1, <2>3, CfEnds DEF Common
<1>3. CASE ~LastOne
  <2>1. op.i + 1 < op.n /\ NextBlock("rcv")
    BY <1>1, <1>3 DEF LastOne, CfLast
  <2>2. Advances /\ op'.at = "rcv"
    <3>1. "rcv" \in Places /\ "rcv" # "done"
      BY DEF Places
    <3> QED
      BY <1>1, <2>1, <3>1, NextIs
  <2>3. Common'
    <3>1. ~(op'.at \in Calls) /\ op'.at # "opcond"
      BY <2>2 DEF Calls
    <3> QED
      BY <1>1, <2>1, <2>2, <3>1, AdvanceHolds
  <2>4. CfOK'
    <3>1. /\ UNCHANGED <<kind, started, clean>> /\ op'.i = op.i + 1 /\ op'.n = op.n /\ op'.s = op.s /\ Writing'
          /\ \A b : DataFor(b)' = DataFor(b)
      BY <1>1, <2>2, SameCall DEF Advances, GoesOn
    <3>2. CurrentBlock' = CurrentBlock + 1 /\ CurrentBlock' - 1 = CurrentBlock /\ op'.n - op'.i = op.n - op.i - 1 /\ op'.i > 0
      BY <1>1, <3>1 DEF CurrentBlock
    <3>3. clean => Pends(CurrentBlock - 1)'
      BY <1>3, <3>1, <3>2 DEF Pends
    <3> QED
      BY <1>1, <1>3, <2>2, <3>1, <3>2, <3>3 DEF CfOK, At
  <2> QED
    BY <2>3, <2>4
<1> QED
  BY <1>2, <1>3

(* A block that is written for a command the card did not take.            *)
LEMMA CfStrays ==
    ASSUME Common, CfOK, kind \in CfKinds, At("rcv"), ~clean, CfStray, UNCHANGED <<present, memory, port, buf, sram, late>>,
           present, Idles, card' \in CardRecs, LeftOK', Within', card.pos \in Blocks, card'.pend = [block |-> card.pos, value |-> Value]
    PROVE  Common' /\ CfOK'
<1>1. /\ Running /\ Writing /\ ~Reading /\ port.media /\ op \in CallRecs
      /\ op.i < op.n /\ op.s \in Nat /\ op.i \in Nat /\ op.n \in Nat /\ op.n <= MaxBlocks /\ MaxBlocks \in Nat
  BY CfAt DEF At
<1>2. UNCHANGED <<kind, written, started, clean>>
  BY DEF CfStray
<1>3. Value \in BlockContents /\ \A b \in Transfers : DataFor(b) \in BlockContents
  BY <1>1, CurrentIs, DataIs DEF Common
<1>4. /\ op' \in CallRecs /\ op'.at \in {"rcv", "done"} /\ (op'.i = 0 \/ (op'.i = op.i + 1 /\ op'.at = "rcv"))
      /\ op'.at = "rcv" => /\ op'.fn = op.fn /\ op'.s = op.s /\ op'.n = op.n /\ ~LastOne /\ op'.i = op.i + 1
      /\ op'.at = "done" => op'.fn = "shutdown" /\ op'.i = 0 /\ LastOne
  <2>1. CASE LastOne
    BY <2>1, NoCallIs DEF CfStray
  <2>2. CASE ~LastOne
    <3>1. op' = [op EXCEPT !.at = "rcv", !.i = @ + 1, !.tries = 0] /\ 0 \in 0 .. Tries /\ op.i + 1 \in 0 .. MaxBlocks
          /\ "rcv" \in Places
      BY <1>1, <2>2, NumbersAre DEF CfStray, Places
    <3> QED
      BY <1>1, <2>2, <3>1 DEF CallRecs
  <2> QED
    BY <2>1, <2>2
<1>5. /\ owed' \in [Blocks -> SUBSET BlockContents] /\ Value \in owed'[card.pos]
      /\ \A b \in Blocks : b # card.pos => Owe(b) \subseteq Owe(b)'
      /\ \A b \in Blocks : owed'[b] \subseteq Owe(b)'
  <2>1. owed \in [Blocks -> SUBSET BlockContents]
    BY DEF Common, DataTypes
  <2>2. owed' = [b \in Blocks |-> owed[b] \cup IF b = card.pos THEN {Value} ELSE
                                      IF LastOne /\ b \in Transfers THEN {DataFor(b)} ELSE {}]
    BY DEF CfStray
  <2>3. owed' \in [Blocks -> SUBSET BlockContents] /\ Value \in owed'[card.pos]
    BY <1>3, <2>1, <2>2
  <2>4. ASSUME NEW b \in Blocks, b # card.pos
        PROVE  Owe(b) \subseteq Owe(b)'
    <3>1. CASE LastOne
      BY <2>2, <2>4, <3>1 DEF Owe
    <3>2. CASE ~LastOne
      <4>1. op'.at = "rcv" /\ op'.fn = op.fn /\ op'.s = op.s /\ op'.n = op.n
        BY <1>4, <3>2
      <4>2. Writing' /\ Transfers' = Transfers /\ DataFor(b)' = DataFor(b)
        BY <1>1, <4>1 DEF Writing, Running, At, Transfers, DataFor
      <4> QED
        BY <1>1, <2>2, <2>4, <4>2 DEF Owe
    <3> QED
      BY <3>1, <3>2
  <2>5. \A b \in Blocks : owed'[b] \subseteq Owe(b)'
    BY DEF Owe
  <2> QED
    BY <2>3, <2>4, <2>5
<1>6. CallTypes' /\ DataTypes'
  BY <1>2, <1>4, <1>5 DEF Common, CallTypes, DataTypes
<1>7. CardTypes' /\ GoneOK'
  BY DEF Common, CardTypes, GoneOK
<1>8. CallOK'
  <2>1. buf = <<>> /\ Len(buf) <= MaxBlocks /\ op.n >= 1 /\ op.s + op.n <= LastBlock + 1 /\ (op.fn = "startUp" <=> ~started)
        /\ op.fn = "writeSectors"
    BY <1>1 DEF Common, CallOK, Writing
  <2>2. CASE op'.at = "done"
    BY <1>4, <2>1, <2>2 DEF CallOK, Running, Reading, Writing, At, Calls
  <2>3. CASE op'.at = "rcv"
    <3>1. op'.i < op'.n
      BY <1>1, <1>4, <2>3 DEF LastOne
    <3> QED
      BY <1>1, <1>2, <1>4, <2>1, <2>3, <3>1 DEF CallOK, Running, Reading, Writing, At, Calls
  <2> QED
    BY <1>4, <2>2, <2>3
<1>9. card'.pend.block = card.pos /\ card'.pend.value = Value /\ ~Idles'
  <2>1. card'.pend.block = card.pos /\ card'.pend.value = Value
    BY <1>3, PendRec
  <2>2. Value # Junk
    BY <1>1, CurrentIs, DataIs DEF Common
  <2> QED
    BY <2>1, <2>2, NothingIs DEF Idles
<1>10. Kept'
  <2>1. ~Knows'
    BY <1>2 DEF Knows
  <2> SUFFICES ASSUME kind # "fcsr", present \/ kind \in Confirms
               PROVE  /\ \A b \in Blocks : memory[b] \in Owe(b)' \/ card'.pend.block = b
                      /\ (card.pend.value \in Owe(card.pend.block))'
    BY <1>2, <1>9, <2>1 DEF Kept
  <2>2. ASSUME NEW b \in Blocks, card'.pend.block # b
        PROVE  memory[b] \in Owe(b)'
    <3>1. memory[b] \in Owe(b)
      BY DEF Common, Kept
    <3> QED
      BY <1>5, <1>9, <2>2, <3>1
  <2>3. (card.pend.value \in Owe(card.pend.block))'
    <3>1. (card.pend.value \in owed[card.pend.block])'
      BY <1>5, <1>9
    <3> QED
      BY <3>1 DEF Owe
  <2> QED
    BY <1>9, <2>2, <2>3
<1>11. Reads'
  BY <1>2 DEF Reads, Undisturbed
<1>12. CfOK'
  <2>1. op'.at = "rcv" => Writing'
    BY <1>1, <1>4 DEF Writing, Running, At
  <2> QED
    BY <1>1, <1>2, <1>4, <2>1 DEF CfOK, At
<1> QED
  BY <1>6, <1>7, <1>8, <1>10, <1>11, <1>12 DEF Common

LEMMA CfWrites ==
    ASSUME Common, CfOK, kind \in CfKinds, CfWriteSectors
    PROVE  Common' /\ CfOK'
<1>1. UNCHANGED <<present, memory, port, buf, sram>>
  BY DEF CfWriteSectors
<1>2. CASE At("writeSectors") /\ CfCommand("rcv")
  BY <1>1, <1>2, CfCommands
<1>3. ASSUME At("rcv")
      PROVE  /\ Running /\ Writing /\ ~Reading /\ port.media /\ port \in PortRecs /\ op \in CallRecs /\ card \in CardRecs
             /\ late \in 0 .. Lateness /\ op.i < op.n /\ op.s \in Nat /\ op.i \in Nat /\ op.n \in Nat /\ op.n <= MaxBlocks
             /\ MaxBlocks \in Nat /\ Within
             /\ present /\ clean => card.state = "rcv" /\ card.pos = CurrentBlock /\ card.left = op.n - op.i
  BY <1>3, CfAt DEF At, CfOK
<1>4. CASE At("rcv") /\ CfReadyFor("rcv") /\ UNCHANGED late
           /\ card' = [AfterSent EXCEPT !.pend = [block |-> card.pos, value |-> Value]]
           /\ (IF clean THEN CfLast ELSE CfStray)
  <2>1. /\ present /\ card.state = "rcv" /\ Idles /\ card.left >= 1
        /\ CurrentBlock \in Blocks /\ CurrentBlock \in Transfers /\ Value = DataFor(CurrentBlock) /\ Value \in BlockContents
        /\ clean => card.pos = CurrentBlock /\ card.left = op.n - op.i
    BY <1>3, <1>4, CurrentIs, DataIs DEF Common, LeftOK, CfReadyFor, InState, Reached, Idle, Idles
  <2>2. card.pos \in Blocks
    <3>1. card.pos \in Nat /\ card.left \in Nat /\ LastBlock \in Nat
      BY <1>3, <1>4, CardAssumption DEF CardRecs, Many
    <3> QED
      BY <1>3, <1>4, <2>1, <3>1 DEF Within, Blocks
  <2>3. /\ card' \in CardRecs /\ card'.pend = [block |-> card.pos, value |-> Value]
        /\ card'.state = AfterSent.state /\ card'.left = AfterSent.left /\ card'.pos = AfterSent.pos
    <3>1. [block |-> card.pos, value |-> Value] \in PendRecs
      BY <2>1, <2>2, PendRec
    <3> DEFINE q == [block |-> card.pos, value |-> Value]
    <3>2. card' = [AfterSent EXCEPT !.pend = q] /\ q \in PendRecs
      BY <1>4, <3>1
    <3> HIDE DEF q
    <3>3. AfterSent \in CardRecs
      BY <1>3, <1>4, <2>1, AfterSentIs
    <3>4. card' \in CardRecs /\ card'.pend = q /\ card'.state = AfterSent.state /\ card'.left = AfterSent.left
          /\ card'.pos = AfterSent.pos
      BY <3>2, <3>3 DEF CardRecs
    <3> QED
      BY <3>4 DEF q
  <2>4. /\ card.left = 1 => card'.state = "tran" /\ card'.left = 0
        /\ card.left # 1 => /\ card'.state = card.state /\ card'.pos = card.pos + 1 /\ card'.left >= 1
                            /\ card'.left = IF card.left = Many THEN Many ELSE card.left - 1
    BY <1>3, <1>4, <2>1, <2>3, AfterSentIs
  <2>5. Within' /\ LeftOK'
    <3>1. Within'
      BY <1>3, <1>4, <2>1, <2>3, SentWithin
    <3> QED
      BY <2>4, <3>1 DEF LeftOK
  <2>6. CASE clean
    <3>1. Around /\ Given
      BY <1>1, <1>3, <1>4, <2>1, <2>3, <2>5, <2>6 DEF Around, CardMoves, Given
    <3>2. Delivers
      BY <3>1 DEF Delivers
    <3>3. ~LastOne => /\ card'.state = "rcv" /\ card'.pos = CurrentBlock + 1 /\ card'.left = op.n - op.i - 1
                      /\ card'.pend = [block |-> CurrentBlock, value |-> DataFor(CurrentBlock)]
      <4>1. ~LastOne => card.left # 1 /\ card.left # Many
        BY <1>3, <1>4, <2>1, <2>6 DEF LastOne, Many
      <4> QED
        BY <2>1, <2>3, <2>4, <2>6, <4>1
    <3>4. CfLast
      BY <1>4, <2>6
    <3> QED
      BY <1>1, <1>4, <2>5, <3>1, <3>2, <3>3, <3>4, CfWritesOne
  <2>7. CASE ~clean
    <3>1. CfStray
      BY <1>4, <2>7
    <3> QED
      BY <1>1, <1>4, <2>1, <2>2, <2>3, <2>5, <2>7, <3>1, CfStrays
  <2> QED
    BY <2>6, <2>7
<1>5. CASE At("rcv") /\ CfReadyFor("data") /\ CfLast /\ UNCHANGED <<card, late>>
  <2>1. present /\ card.state = "data"
    BY <1>5 DEF CfReadyFor, InState, Reached
  <2>2. ~clean
    BY <1>3, <1>5, <2>1
  <2>3. Around
    BY <1>1, <1>3, <1>5 DEF Around, CardMoves
  <2>4. Delivers
    BY <2>2 DEF Delivers, Knows
  <2>5. Within'
    BY <1>3, <1>5 DEF Within
  <2> QED
    BY <1>1, <1>5, <2>2, <2>3, <2>4, <2>5, CfWritesOne
<1>6. CASE At("rcv") /\ TimesOut(~InState("rcv")) /\ Return(FALSE) /\ UNCHANGED card
  <2>1. late' \in 0 .. Lateness
    BY <1>6, TimesOutIs DEF Common
  <2>2. Within'
    BY <1>3, <1>6 DEF Within
  <2> QED
    BY <1>1, <1>3, <1>6, <2>1, <2>2, QuietReturn, CfEnds DEF Common
<1> QED
  BY <1>2, <1>4, <1>5, <1>6 DEF CfWriteSectors

LEMMA CfOutside ==
    ASSUME Common, CfOK, kind \in CfKinds, Call \/ Pull \/ Programmed \/ PowerCycle, UNCHANGED sram
    PROVE  CfOK'
<1>1. CASE Call
  <2>1. /\ At("done") /\ op'.at \in Calls /\ UNCHANGED <<kind, present, card, port, started>>
        /\ op'.fn = "startUp" <=> ~started
        /\ op'.at = op'.fn
    BY <1>1, CallIs DEF Common
  <2>2. Within'
    BY <2>1 DEF CfOK, Within
  <2> QED
    BY <2>1, <2>2 DEF CfOK, At, Calls
<1>2. CASE Pull
  <2>1. card'.state = "off" /\ ~present' /\ UNCHANGED <<kind, port, op, started>>
    BY <1>2, PullHolds
  <2>2. Within'
    BY <2>1 DEF Within
  <2> QED
    BY <2>1, <2>2 DEF CfOK, At, Reading, Writing, Running
<1>3. CASE Programmed
  <2>1. /\ present /\ ~Idles /\ card'.pend = Nothing
        /\ card'.state = (IF card.state = "prg" THEN "tran" ELSE card.state)
        /\ card'.pos = card.pos /\ card'.left = card.left
        /\ UNCHANGED <<kind, present, port, op, started, clean>>
    BY <1>3, ProgrammedHolds
  <2>2. CurrentBlock' = CurrentBlock /\ Idles' /\ (Reading' <=> Reading) /\ (Writing' <=> Writing)
    BY <2>1 DEF CurrentBlock, Idles, Reading, Writing, Running, At
  <2>3. Within'
    BY <2>1 DEF CfOK, Within
  <2> QED
    BY <2>1, <2>2, <2>3 DEF CfOK, At
<1>4. CASE PowerCycle
  <2>1. ~started' /\ op'.at = "done" /\ port' = PortOn(kind) /\ kind' = kind
        /\ card'.state = (IF present THEN CardOn(kind).state ELSE "off")
    BY <1>4, PowerHolds
  <2>3. Within'
    BY <2>1, CardOnIs DEF Within
  <2>2. kind \in {"mpcf", "mmcf"} => PortOn(kind).media
    <3> DEFINE m == kind \in {"njsd", "mpcf", "mmcf", "ak2"}
               a == FALSE
    <3>1. PortOn(kind) = [media |-> m, addressed |-> a]
      BY Zenon DEF PortOn
    <3>2. PortOn(kind).media = m
      BY <3>1
    <3> QED
      BY <3>2
  <2> QED
    BY <2>1, <2>2, <2>3 DEF CfOK, At
<1> QED
  BY <1>1, <1>2, <1>3, <1>4

-----------------------------------------------------------------------------
(* Neo MMC.                                                                *)

(* A call that ends: nothing is claimed unless it succeeded.               *)
LEMMA NeoEnds ==
    ASSUME CallTypes, kind = "nmmc", NEW ok \in BOOLEAN, Return(ok), Idles',
           clean' /\ started' /\ present' => card'.state = "tran"
    PROVE  NeoOK'
<1>1. op'.at = "done" /\ ~At("poll")' /\ ~At("block")' /\ ~At("stop")' /\ ~At("busy")' /\ ~At("blocklen")' /\ ~At("token")'
  BY ReturnIs DEF At
<1> QED
  BY <1>1 DEF NeoOK, Settled, Calls

LEMMA NeoOutside ==
    ASSUME Common, NeoOK, kind = "nmmc", Call \/ Pull \/ Programmed \/ PowerCycle, UNCHANGED sram
    PROVE  NeoOK'
<1>1. CASE Call
  <2>1. /\ At("done") /\ op'.at \in Calls /\ UNCHANGED <<kind, present, card, port, started, clean>>
    BY <1>1, CallIs DEF Common
  <2> QED
    BY <2>1 DEF NeoOK, At, Calls, Settled, Idles
<1>2. CASE Pull
  BY <1>2, PullHolds DEF NeoOK, At, Reading, Writing, Running, LastOne, Idles, Settled
<1>3. CASE Programmed
  <2>1. /\ present /\ ~Idles /\ card'.pend = Nothing
        /\ card'.state = (IF card.state = "prg" THEN "tran" ELSE card.state)
        /\ card'.pos = card.pos /\ card'.left = card.left
        /\ memory'[card.pend.block] = card.pend.value
        /\ UNCHANGED <<kind, present, port, op, started, clean>>
    BY <1>3, ProgrammedHolds
  <2>2. CurrentBlock' = CurrentBlock /\ Value' = Value /\ Idles' /\ (Reading' <=> Reading) /\ (Writing' <=> Writing) /\ (LastOne' <=> LastOne)
    BY <2>1 DEF CurrentBlock, Idles, Reading, Writing, Running, At, Value, DataFor, LastOne
  <2>3. At("busy") /\ card.state = "rcv" /\ card.pos = CurrentBlock + 1 /\ Pends(CurrentBlock) /\ Writing /\ port.media
    BY <2>1 DEF NeoOK, At
  <2>4. Stored'
    <3>1. op.i < op.n
      BY <2>3 DEF Common, CallOK, At, Running
    <3>2. CurrentBlock \in Transfers /\ Value = DataFor(CurrentBlock)
      BY <2>3, <3>1, CurrentIs DEF Common, Writing
    <3>3. card.pend.block = CurrentBlock /\ card.pend.value = Value
      BY <2>3, <3>2, PendIs DEF Common
    <3> QED
      BY <2>1, <2>2, <3>3 DEF Stored
  <2>5. op.at = "busy" /\ op'.at = "busy"
    BY <2>1, <2>3 DEF At
  <2> QED
    BY <2>1, <2>2, <2>3, <2>4, <2>5 DEF NeoOK, At, Calls, Settled
<1>4. CASE PowerCycle
  <2>1. ~started' /\ op'.at = "done" /\ kind' = kind /\ card'.pend = Nothing
    BY <1>4, PowerHolds
  <2> QED
    BY <2>1 DEF NeoOK, At, Settled, Calls, Idles
<1> QED
  BY <1>1, <1>2, <1>3, <1>4

LEMMA Basics ==
    ASSUME Common
    PROVE  /\ op \in CallRecs /\ port \in PortRecs /\ card \in CardRecs /\ late \in 0 .. Lateness
           /\ present \in BOOLEAN /\ clean \in BOOLEAN /\ started \in BOOLEAN /\ buf \in Seq(BlockContents)
           /\ op.s \in Nat /\ op.i \in Nat /\ op.n \in Nat /\ op.n <= MaxBlocks /\ op.tries \in Nat
           /\ Len(buf) <= MaxBlocks /\ CallTypes /\ CardTypes /\ DataTypes /\ CallOK
           /\ Running /\ ~At("stop") => op.i < op.n
BY NumbersAre DEF Common, CallTypes, CardTypes, DataTypes, CallOK

LEMMA MediaSet ==
    ASSUME port \in PortRecs, NEW m \in BOOLEAN, EnableMMC(m)
    PROVE  port' \in PortRecs /\ port'.media = m
BY MediaIs DEF EnableMMC

(* A call that fails.                                                      *)
LEMMA NeoFails ==
    ASSUME Common, NeoOK, kind = "nmmc", Running, Return(FALSE), port' \in PortRecs, UNCHANGED <<present, memory, card, buf, sram>>,
           late' \in 0 .. Lateness, Idles, op.fn # "isInserted"
    PROVE  Common' /\ NeoOK'
<1>1. Common'
  BY QuietReturn
<1>2. ~clean' /\ Idles'
  BY ReturnIs, Basics DEF Idles
<1> QED
  BY <1>1, <1>2, NeoEnds, Basics

(* A step that leaves the card alone, or changes its state only.           *)
LEMMA NeoStays ==
    ASSUME Common, NeoOK, kind = "nmmc", Running, Idles, NEW a \in {"reset", "poll", "blocklen", "block", "stop", "token"}, Stays, op'.at = a,
           UNCHANGED <<present, memory, buf, sram>>, late' \in 0 .. Lateness, port' \in PortRecs,
           card' = card \/ (present /\ card' \in CardRecs /\ LeftOK'), card'.pend = card.pend,
           a = "stop" \/ op.i < op.n
    PROVE  Common'
<1>1. Around
  BY DEF Around, CardMoves
<1>2. ~(op'.at \in Calls) /\ op'.at # "opcond"
  BY DEF Calls
<1> QED
  BY <1>1, <1>2, StayHolds

LEMMA NeoStarts ==
    ASSUME Common, NeoOK, kind = "nmmc", NmmcInit \/ NmmcIsInserted \/ NmmcStartUp
    PROVE  Common' /\ NeoOK'
<1> USE Basics
<1>1. CASE NmmcInit
  <2>1. /\ Running /\ op.fn = "startUp" /\ Idles /\ UNCHANGED <<present, memory, card, late, port, buf, sram>> /\ op.i < op.n
    BY <1>1, AtCall DEF NmmcInit, Calls, NeoOK, At, cardVars
  <2>2. CASE GoTo("reset")
    <3>1. Stays /\ op'.at = "reset"
      BY <2>2, GoToIs DEF Places
    <3>2. Common'
      BY <2>1, <3>1, NeoStays
    <3>3. kind' = kind /\ op'.fn = "startUp" /\ Idles'
      BY <2>1, <3>1 DEF Stays, GoesOn, Idles
    <3> QED
      BY <3>1, <3>2, <3>3 DEF NeoOK, At, Calls
  <2>3. CASE Return(FALSE)
    BY <2>1, <2>3, NeoFails
  <2> QED
    BY <1>1, <2>2, <2>3 DEF NmmcInit
<1>2. CASE NmmcIsInserted
  <2>1. /\ Running /\ op.fn = "isInserted" /\ Idles /\ UNCHANGED <<present, memory, card, late, buf, sram>> /\ ~Reading /\ ~Writing
        /\ clean /\ started /\ present => card.state = "tran"
    BY <1>2, AtCall DEF NmmcIsInserted, Calls, NeoOK, At, cardVars, Settled
  <2>2. PICK ok \in BOOLEAN : Return(ok) /\ EnableMMC(ok)
    BY <1>2 DEF NmmcIsInserted, Ends
  <2>3. Common'
    BY <2>1, <2>2, MediaSet, QuietReturn
  <2>4. Idles' /\ (clean' /\ started' /\ present' => card'.state = "tran")
    <3>1. clean' /\ started' => clean /\ started
      BY <2>1, <2>2, ReturnIs DEF Restores
    <3> QED
      BY <2>1, <3>1 DEF Idles
  <2> QED
    BY <2>2, <2>3, <2>4, NeoEnds
<1>3. CASE NmmcStartUp
  <2>1. /\ Running /\ op.fn = "startUp" /\ Idles /\ UNCHANGED <<present, memory, card, late, buf, sram>> /\ ~Reading /\ ~Writing
        /\ present => card.state = "tran"
    BY <1>3 DEF NmmcStartUp, NeoOK, At, cardVars, Running, Reading, Writing
  <2>2. PICK ok \in BOOLEAN : Return(ok)
    BY <1>3 DEF NmmcStartUp, Ends, InState, Reached
  <2>3. EnableMMC(FALSE)
    BY <1>3 DEF NmmcStartUp, Ends
  <2>4. Common' /\ Idles'
    BY <2>1, <2>2, <2>3, MediaSet, QuietReturn DEF Idles
  <2> QED
    BY <2>1, <2>2, <2>4, NeoEnds
<1> QED
  BY <1>1, <1>2, <1>3

LEMMA NeoClears ==
    ASSUME Common, NeoOK, kind = "nmmc", NmmcClearStatus
    PROVE  Common' /\ NeoOK'
<1> USE Basics
<1>1. UNCHANGED <<present, memory, late, buf, sram>>
  BY DEF NmmcClearStatus
<1>2. CASE /\ At("reset") \/ At("clearStatus") \/ At("shutdown")
           /\ IF present THEN GoTo("poll") /\ EnableMMC(TRUE) ELSE Ends(FALSE)
           /\ card' = IF present THEN [CardOn(kind) EXCEPT !.state = "idle"] ELSE card
  <2>1. /\ Running /\ op.fn \in {"startUp", "clearStatus", "shutdown"} /\ Idles /\ op.i < op.n /\ ~Reading /\ ~Writing
    BY <1>2, AtCall DEF Calls, NeoOK, At, Running, Reading, Writing
  <2>2. CASE present
    <3>1. Stays /\ op'.at = "poll" /\ EnableMMC(TRUE) /\ card' = [CardOn(kind) EXCEPT !.state = "idle"]
      BY <1>2, <2>2, GoToIs DEF Places
    <3>2. card' \in CardRecs /\ card'.state = "idle" /\ card'.pend = Nothing /\ card'.pend = card.pend
      BY <2>1, <3>1, ResetIs DEF Idles
    <3>3. LeftOK' /\ port' \in PortRecs /\ port'.media = TRUE /\ Idles'
      BY <3>1, <3>2, MediaSet DEF LeftOK, Idles
    <3>4. Common'
      BY <1>1, <2>1, <2>2, <3>1, <3>2, <3>3, NeoStays
    <3>5. kind' = kind /\ op'.fn = op.fn
      BY <3>1 DEF Stays, GoesOn
    <3> QED
      BY <2>1, <3>1, <3>3, <3>4, <3>5 DEF NeoOK, At, Calls
  <2>3. CASE ~present
    BY <1>1, <1>2, <2>1, <2>3, MediaSet, NeoFails DEF Ends
  <2> QED
    BY <2>2, <2>3
<1>3. ASSUME At("poll")
      PROVE  Running /\ op.fn \in {"startUp", "clearStatus", "shutdown"} /\ Idles /\ op.i < op.n /\ ~Reading /\ ~Writing /\ port.media
  BY <1>3 DEF NeoOK, At, Running, Reading, Writing
<1>4. CASE At("poll") /\ op.tries = Tries /\ Ends(FALSE) /\ UNCHANGED card
  BY <1>1, <1>3, <1>4, MediaSet, NeoFails DEF Ends
<1>5. CASE /\ At("poll") /\ op.tries < Tries /\ InState("idle") /\ card' = [card EXCEPT !.state = "tran"]
           /\ IF op.fn = "startUp" THEN GoTo("blocklen") /\ EnableMMC(TRUE) ELSE Ends(TRUE)
  <2>1. /\ card' \in CardRecs /\ card'.state = "tran" /\ card'.pend = card.pend /\ present
        /\ LeftOK' /\ Idles'
    <3>1. card' \in CardRecs /\ card'.state = "tran" /\ card'.pend = card.pend /\ present
      BY <1>5 DEF CardRecs, States, InState, Reached
    <3> QED
      BY <1>3, <1>5, <3>1 DEF LeftOK, Idles, CfKinds
  <2>2. CASE op.fn = "startUp"
    <3>1. Stays /\ op'.at = "blocklen" /\ EnableMMC(TRUE)
      BY <1>5, <2>2, GoToIs DEF Places
    <3>2. port' \in PortRecs /\ port'.media = TRUE
      BY <3>1, MediaSet
    <3>3. Common'
      BY <1>1, <1>3, <1>5, <2>1, <3>1, <3>2, NeoStays
    <3>4. kind' = kind /\ op'.fn = op.fn
      BY <3>1 DEF Stays, GoesOn
    <3> QED
      BY <2>1, <2>2, <3>1, <3>2, <3>3, <3>4 DEF NeoOK, At, Calls
  <2>3. CASE op.fn # "startUp"
    <3>1. Return(TRUE) /\ EnableMMC(FALSE)
      BY <1>5, <2>3 DEF Ends
    <3>2. Around /\ Completes(TRUE)
      BY <1>1, <1>3, <1>5, <2>1, <3>1, MediaSet DEF Around, CardMoves, Completes, Knows
    <3>3. Common'
      BY <1>1, <1>3, <1>5, <3>1, <3>2, ReturnHolds
    <3> QED
      BY <2>1, <3>1, <3>3, NeoEnds
  <2> QED
    BY <2>2, <2>3
<1>6. CASE At("poll") /\ op.tries < Tries /\ TryAgain("poll") /\ UNCHANGED <<card, port>>
  <2>1. Stays /\ op'.at = "poll"
    BY <1>6, TryIs DEF Places
  <2>2. Common'
    BY <1>1, <1>3, <1>6, <2>1, NeoStays
  <2>3. kind' = kind /\ op'.fn = op.fn /\ Idles'
    BY <1>3, <1>6, <2>1 DEF Stays, GoesOn, Idles
  <2> QED
    BY <1>3, <1>6, <2>1, <2>2, <2>3 DEF NeoOK, At, Calls
<1> QED
  BY <1>2, <1>4, <1>5, <1>6 DEF NmmcClearStatus

LEMMA NeoReads ==
    ASSUME Common, NeoOK, kind = "nmmc", NmmcReadSectors
    PROVE  Common' /\ NeoOK'
<1> USE Basics
<1>1. UNCHANGED <<present, memory, card, sram>>
  BY DEF NmmcReadSectors
<1>2. CASE At("readSectors") /\ GoTo("block") /\ EnableMMC(TRUE) /\ UNCHANGED <<late, buf>>
  <2>1. Running /\ op.fn = "readSectors" /\ Idles /\ Reading /\ op.i < op.n /\ (Settled => card.state = "tran")
    BY <1>2, AtCall DEF NeoOK, At, Calls
  <2>2. Stays /\ op'.at = "block" /\ port' \in PortRecs /\ port'.media = TRUE
    BY <1>2, GoToIs, MediaSet DEF Places
  <2>3. Common'
    BY <1>1, <1>2, <2>1, <2>2, NeoStays
  <2>4. kind' = kind /\ Reading' /\ Idles' /\ (Settled' <=> Settled)
    BY <1>1, <2>1, <2>2, SameCall DEF Stays, GoesOn, Idles, Settled
  <2> QED
    BY <1>1, <2>1, <2>2, <2>3, <2>4 DEF NeoOK, At, Calls
<1>3. ASSUME At("block")
      PROVE  Running /\ op.fn = "readSectors" /\ Idles /\ Reading /\ ~Writing /\ op.i < op.n /\ port.media
             /\ (Settled => card.state = "tran")
  BY <1>3 DEF NeoOK, At, Running, Reading, Writing
<1>4. CASE At("block") /\ InState("tran") /\ Got(memory[op.s + op.i]) /\ UNCHANGED late
           /\ (IF LastOne THEN Ends(TRUE) ELSE NextBlock("block") /\ UNCHANGED port)
  <2>1. Gets
    <3>1. CurrentBlock \in Blocks
      BY <1>3, <1>4, CurrentIs
    <3> QED
      BY <1>3, <1>4, <3>1 DEF Gets, CurrentBlock, DataTypes
  <2>2. card.state = "tran" /\ present
    BY <1>4 DEF InState, Reached
  <2>3. CASE LastOne
    <3>1. op.i + 1 = op.n /\ Return(TRUE) /\ EnableMMC(FALSE)
      BY <1>4, <2>3 DEF LastOne, Ends
    <3>2. buf' \in Seq(BlockContents) /\ Len(buf') <= MaxBlocks
      BY <1>3, <1>4, <2>1, <3>1, GotIs
    <3>3. Completes(TRUE)
      <4>1. Undisturbed => buf' = [j \in 1 .. op.n |-> memory[op.s + j - 1]]
        BY <1>3, <1>4, <2>1, <3>1, <3>2, Filled
      <4> QED
        BY <1>1, <1>3, <1>4, <4>1 DEF Completes, Knows
    <3>4. Around
      BY <1>1, <1>4, <3>1, MediaSet DEF Around, CardMoves
    <3>5. Common'
      BY <1>3, <1>4, <3>1, <3>2, <3>3, <3>4, ReturnHolds
    <3> QED
      BY <1>1, <1>3, <1>4, <2>2, <3>1, <3>5, NeoEnds DEF Idles
  <2>4. CASE ~LastOne
    <3>1. op.i + 1 < op.n /\ NextBlock("block") /\ UNCHANGED port
      BY <1>3, <1>4, <2>4 DEF LastOne
    <3>2. Advances /\ op'.at = "block"
      BY <1>3, <1>4, <3>1, NextIs DEF Places
    <3>3. Common'
      <4>1. ~(op'.at \in Calls) /\ op'.at # "opcond" /\ Delivers /\ Around
        BY <1>1, <1>3, <1>4, <3>1, <3>2 DEF Calls, Delivers, Knows, Around, CardMoves
      <4> QED
        BY <1>3, <1>4, <2>1, <3>1, <3>2, <4>1, AdvanceHolds
    <3>4. kind' = kind /\ Reading' /\ Idles'
      BY <1>1, <1>3, <1>4, <3>2, SameCall DEF Advances, GoesOn, Idles
    <3> QED
      BY <1>1, <1>3, <1>4, <2>2, <3>1, <3>2, <3>3, <3>4 DEF NeoOK, At, Calls
  <2> QED
    BY <2>3, <2>4
<1>5. CASE At("block") /\ NoResponse("tran") /\ Ends(FALSE) /\ UNCHANGED buf
  <2>1. late' \in 0 .. Lateness
    BY <1>5, TimesOutIs DEF NoResponse
  <2> QED
    BY <1>1, <1>3, <1>5, <2>1, MediaSet, NeoFails DEF Ends
<1> QED
  BY <1>2, <1>4, <1>5 DEF NmmcReadSectors

LEMMA NeoWrites ==
    ASSUME Common, NeoOK, kind = "nmmc", NmmcWriteSectors
    PROVE  Common' /\ NeoOK'
<1> USE Basics
<1>1. UNCHANGED <<present, memory, buf, sram>>
  BY DEF NmmcWriteSectors
<1>2. ASSUME At("writeSectors")
      PROVE  Running /\ Writing /\ ~Reading /\ Idles /\ op.fn = "writeSectors" /\ op.i = 0 /\ op.i < op.n
  BY <1>2, AtCall DEF Calls, NeoOK, At, SdKinds
<1>3. ASSUME op.at \in {"token", "busy", "stop"}
      PROVE  /\ Running /\ Writing /\ ~Reading /\ op.fn = "writeSectors" /\ port.media /\ op.i < op.n
             /\ At("token") => Idles
             /\ At("stop") => Idles /\ LastOne
  BY <1>3 DEF NeoOK, At, Running, Reading, Writing, LastOne
<1>4. CASE /\ At("writeSectors") /\ present /\ card.state = "tran" /\ GoTo("token") /\ EnableMMC(TRUE)
           /\ card' = [card EXCEPT !.state = "rcv", !.pos = op.s] /\ UNCHANGED late
  <2>1. Stays /\ op'.at = "token" /\ port' \in PortRecs /\ port'.media = TRUE
    BY <1>4, GoToIs, MediaSet DEF Places
  <2>2. card' \in CardRecs /\ card'.state = "rcv" /\ card'.pos = op.s /\ card'.pend = card.pend
    BY <1>4 DEF CardRecs, States
  <2>3. LeftOK'
    BY <1>4, <2>1, <2>2 DEF LeftOK, CfKinds, Stays, GoesOn
  <2>4. Common'
    BY <1>1, <1>2, <1>4, <2>1, <2>2, <2>3, NeoStays
  <2>5. kind' = kind /\ Writing' /\ Idles' /\ CurrentBlock' = op.s
    BY <1>2, <1>4, <2>1, <2>2, SameCall DEF Stays, GoesOn, Idles, CurrentBlock
  <2> QED
    BY <1>4, <2>1, <2>2, <2>4, <2>5 DEF NeoOK, At, Calls
<1>5. CASE At("writeSectors") /\ NoResponse("tran") /\ Ends(FALSE) /\ UNCHANGED card
  <2>1. late' \in 0 .. Lateness
    BY <1>5, TimesOutIs DEF NoResponse
  <2> QED
    BY <1>1, <1>2, <1>5, <2>1, MediaSet, NeoFails DEF Ends
<1>6. CASE /\ At("token") /\ InState("rcv") /\ GoTo("busy") /\ UNCHANGED <<late, port>>
           /\ card' = [card EXCEPT !.pend = [block |-> card.pos, value |-> Value], !.pos = @ + 1]
  <2>1. At("token") /\ op.at = "token"
    BY <1>6 DEF At
  <2>2. present /\ card.state = "rcv" /\ card.pos = CurrentBlock
    BY <1>6, <2>1 DEF InState, Reached, NeoOK
  <2>3. /\ CurrentBlock \in Blocks /\ CurrentBlock \in Transfers /\ Value = DataFor(CurrentBlock) /\ Value \in BlockContents /\ CurrentBlock \in Nat
        /\ Running /\ Writing /\ ~Reading /\ Idles /\ op.i < op.n /\ port.media
    BY <1>3, <2>1, CurrentIs, DataIs
  <2> DEFINE q == [block |-> CurrentBlock, value |-> Value]
             p == CurrentBlock + 1
  <2>4. q \in PendRecs /\ p \in Nat
    BY <2>3, PendRec
  <2>5. card' = [card EXCEPT !.pend = q, !.pos = p]
    BY <1>6, <2>2
  <2> HIDE DEF q, p
  <2>6a. card' \in CardRecs /\ card'.pend = q /\ card'.pos = p /\ card'.state = "rcv"
    BY <2>2, <2>4, <2>5 DEF CardRecs
  <2>6. card' \in CardRecs /\ card'.pend = q /\ card'.pos = CurrentBlock + 1 /\ card'.state = "rcv"
    BY <2>6a DEF p
  <2>7. Stays /\ op'.at = "busy"
    BY <1>6, GoToIs DEF Places
  <2>8. LeftOK'
    BY <2>6, <2>7 DEF LeftOK, CfKinds, Stays, GoesOn
  <2>9. card'.pend = [block |-> CurrentBlock, value |-> Value]
    BY <2>6 DEF q
  <2>10. Around
    BY <1>1, <1>6, <2>2, <2>3, <2>6, <2>8, <2>9 DEF Around, CardMoves, Given
  <2>11. Common'
    <3>1. ~(op'.at \in Calls) /\ op'.at # "opcond"
      BY <2>7 DEF Calls
    <3> QED
      BY <1>1, <2>3, <2>7, <2>10, <3>1, StayHolds
  <2>12. kind' = kind /\ Writing' /\ CurrentBlock' = CurrentBlock /\ port'.media /\ Pends(CurrentBlock)'
    <3>1. kind' = kind /\ Writing' /\ op'.s = op.s /\ op'.i = op.i /\ DataFor(CurrentBlock)' = DataFor(CurrentBlock)'
      BY <2>3, <2>7, SameCall DEF Stays, GoesOn
    <3>2. CurrentBlock' = CurrentBlock /\ DataFor(CurrentBlock)' = DataFor(CurrentBlock)
      BY <3>1 DEF CurrentBlock, DataFor
    <3> QED
      BY <1>6, <2>3, <2>9, <3>1, <3>2 DEF Pends
  <2> QED
    BY <2>6, <2>7, <2>11, <2>12 DEF NeoOK, At, Calls
<1>7. CASE At("token") /\ NoResponse("rcv") /\ Ends(FALSE) /\ UNCHANGED card
  <2>1. late' \in 0 .. Lateness
    BY <1>7, TimesOutIs DEF NoResponse
  <2>2. Running /\ op.fn = "writeSectors" /\ Idles
    BY <1>3, <1>7 DEF At
  <2> QED
    BY <1>1, <1>7, <2>1, <2>2, MediaSet, NeoFails DEF Ends
<1>8. CASE /\ At("busy") /\ card.pend = Nothing /\ (IF LastOne THEN GoTo("stop") ELSE NextBlock("token"))
           /\ UNCHANGED <<card, late, port>>
  <2>1. At("busy") /\ Idles
    BY <1>8 DEF Idles
  <2>2. Running /\ Writing /\ ~Reading /\ op.i < op.n /\ port.media
    BY <1>3, <2>1 DEF At
  <2>3. present => card.state = "rcv" /\ card.pos = CurrentBlock + 1 /\ Stored
    <3>1. CurrentBlock \in Transfers
      BY <2>2, CurrentIs
    <3>2. ~Pends(CurrentBlock)
      BY <2>1, <3>1, PendIs
    <3> QED
      BY <2>1, <3>2 DEF NeoOK
  <2>4. CASE LastOne
    <3>1. Stays /\ op'.at = "stop"
      BY <1>8, <2>4, GoToIs DEF Places
    <3>2. Common'
      BY <1>1, <1>8, <2>1, <2>2, <3>1, NeoStays
    <3>3. kind' = kind /\ Writing' /\ Idles' /\ LastOne' /\ (present' /\ Stored => Stored') /\ port'.media
      BY <1>1, <1>8, <2>1, <2>2, <2>4, <3>1, SameCall DEF Stays, GoesOn, Idles, LastOne, Stored, CurrentBlock, Value, DataFor
    <3> QED
      BY <1>1, <1>8, <2>3, <3>1, <3>2, <3>3 DEF NeoOK, At, Calls
  <2>5. CASE ~LastOne
    <3>1. op.i + 1 < op.n /\ NextBlock("token")
      BY <1>8, <2>2, <2>5 DEF LastOne
    <3>2. Advances /\ op'.at = "token"
      BY <2>2, <3>1, NextIs DEF Places
    <3>3. Common'
      <4>1. ~(op'.at \in Calls) /\ op'.at # "opcond" /\ Around
        BY <1>1, <1>8, <3>1, <3>2 DEF Calls, Around, CardMoves
      <4>2. Delivers
        BY <1>8, <2>1, <2>3 DEF Delivers, Confirms, SdKinds, Soldered
      <4> QED
        BY <1>1, <2>2, <3>1, <3>2, <4>1, <4>2, AdvanceHolds
    <3>4. kind' = kind /\ Writing' /\ Idles' /\ CurrentBlock' = CurrentBlock + 1 /\ port'.media
      BY <1>8, <2>1, <2>2, <3>2, SameCall DEF Advances, GoesOn, Idles, CurrentBlock
    <3> QED
      BY <1>1, <1>8, <2>3, <3>2, <3>3, <3>4 DEF NeoOK, At, Calls
  <2> QED
    BY <2>4, <2>5
<1>9. CASE /\ At("stop") /\ Ends(TRUE) /\ UNCHANGED late
           /\ card' = IF InState("rcv") THEN [card EXCEPT !.state = "tran", !.pos = 0] ELSE card
  <2>1. Running /\ Writing /\ ~Reading /\ op.i < op.n /\ port.media /\ Idles /\ LastOne
        /\ (present => card.state = "rcv" /\ Stored)
    BY <1>3, <1>9 DEF At, NeoOK
  <2>2. Return(TRUE) /\ port' \in PortRecs
    BY <1>9, MediaSet DEF Ends
  <2>3. card'.pend = card.pend /\ CardMoves /\ (present => card'.state = "tran")
    <3>1. CASE present
      <4>1. card' = [card EXCEPT !.state = "tran", !.pos = 0]
        BY <1>9, <2>1, <3>1 DEF InState, Reached
      <4>2. card' \in CardRecs /\ card'.state = "tran" /\ card'.pend = card.pend
        BY <4>1 DEF CardRecs, States
      <4>3. LeftOK'
        BY <4>2, <2>2, ReturnIs DEF LeftOK, CfKinds
      <4> QED
        BY <3>1, <4>2, <4>3 DEF CardMoves
    <3>2. CASE ~present
      BY <1>9, <3>2 DEF InState, Reached, CardMoves
    <3> QED
      BY <3>1, <3>2
  <2>4. Around
    BY <1>1, <1>9, <2>2, <2>3 DEF Around
  <2>5. Completes(TRUE)
    BY <2>1, <2>3 DEF Completes, Delivers, Confirms, SdKinds, Soldered
  <2>6. Common'
    BY <1>1, <2>1, <2>2, <2>4, <2>5, ReturnHolds
  <2> QED
    BY <1>1, <2>1, <2>2, <2>3, <2>6, NeoEnds DEF Idles
<1> QED
  BY <1>4, <1>5, <1>6, <1>7, <1>8, <1>9 DEF NmmcWriteSectors

-----------------------------------------------------------------------------
(* The SD cards.                                                           *)

(* An answer shows that the card has obeyed.                               *)
LEMMA AnswerIs ==
    ASSUME Common, kind \in SdKinds, NEW cmd, NEW answered \in Command(cmd)
    PROVE  /\ answered \in BOOLEAN /\ (answered => Hears(cmd))
           /\ Hears(cmd) /\ ~answered => late > 0
           /\ Waited(cmd, answered) => late' \in 0 .. Lateness
<1>1. Hears(cmd) \in BOOLEAN /\ Reached \in BOOLEAN /\ (Hears(cmd) => Reached)
  BY DEF Hears, Reached, Common, CardTypes
<1>2. \A a \in Answer(cmd) : a \in BOOLEAN /\ (a => Hears(cmd)) /\ (Hears(cmd) /\ ~a => late > 0)
  BY <1>1 DEF Answer
<1>3. answered \in BOOLEAN /\ (answered => Hears(cmd)) /\ (Hears(cmd) /\ ~answered => late > 0)
  <2>1. CASE kind = "scsd"
    <3>1. PICK s \in ScsdSendCommand, a \in Answer(cmd) : answered = (s /\ a)
      BY <2>1 DEF Command, ScsdCommand
    <3>2. s \in BOOLEAN /\ (Reached => s)
      BY <3>1 DEF ScsdSendCommand
    <3> QED
      BY <1>1, <1>2, <3>1, <3>2
  <2>2. CASE kind = "m3sd"
    <3>1. PICK s \in M3sdSendCommand, a \in Answer(cmd) : answered = (s /\ a)
      BY <2>2 DEF Command, M3sdResponse
    <3>2. s \in BOOLEAN /\ (Reached => s)
      BY <3>1 DEF M3sdSendCommand
    <3> QED
      BY <1>1, <1>2, <3>1, <3>2
  <2>3. CASE kind = "njsd"
    <3>1. answered \in Answer(cmd)
      BY <2>3 DEF Command, NjsdSendCMDR
    <3> QED
      BY <1>2, <3>1
  <2> QED
    BY <2>1, <2>2, <2>3 DEF SdKinds
<1>4. Waited(cmd, answered) => late' \in 0 .. Lateness
  <2>1. late \in 0 .. Lateness /\ Lateness \in Nat
    BY CardAssumption DEF Common, CardTypes
  <2> QED
    BY <1>3, <2>1 DEF Waited
<1> QED
  BY <1>3, <1>4

(* What the adapter knows when a command is heard.                         *)
LEMMA HeardIs ==
    ASSUME NEW cmd \in DOMAIN Obeyed, Hears(cmd)
    PROVE  present /\ port.media /\ card.state \in Obeyed[cmd] /\ (cmd \in Addressed => port.addressed)
BY DEF Hears, Reached

LEMMA SdPlace ==
    ASSUME CallTypes, SdOK, kind \in SdKinds
    PROVE  SdFlow /\ SdStart /\ SdReady /\ SdWrite
BY DEF SdOK

(* A call that ends.                                                       *)
LEMMA SdEnds ==
    ASSUME CallTypes, kind \in SdKinds, NEW ok \in BOOLEAN, Return(ok),
           started' \/ kind = "njsd" => port'.media,
           Idles' \/ card'.state = "prg",
           Settled' => Ready'
    PROVE  SdOK'
<1>1. op'.at = "done" /\ op'.rsp = "none" /\ kind' = kind
  BY ReturnIs
<1>2. SdFlow'
  BY <1>1 DEF SdFlow, At, Calls, Starting
<1>3. SdStart' /\ SdReady' /\ SdWrite'
  BY <1>1 DEF SdStart, SdReady, SdWrite, At
<1> QED
  BY <1>2, <1>3 DEF SdOK

(* A call that fails.                                                      *)
LEMMA SdFails ==
    ASSUME Common, SdOK, kind \in SdKinds, Running, op.fn # "isInserted", Return(FALSE),
           UNCHANGED <<buf>>, Around, port'.media = port.media,
           Idles' \/ card'.state = "prg"
    PROVE  Common' /\ SdOK'
<1> USE Basics
<1>1. Common'
  BY ReturnHolds DEF Completes
<1>2. ~clean' /\ (started' => started)
  BY ReturnIs
<1>3. started' \/ kind = "njsd" => port'.media
  BY <1>2 DEF SdOK, SdFlow
<1> QED
  BY <1>1, <1>2, <1>3, SdEnds DEF Settled

(* A step of the start.                                                    *)
LEMMA SdStarting ==
    ASSUME kind' \in SdKinds, op'.at \in Starting, op'.fn \in {"startUp", "clearStatus"},
           kind' = "njsd" => op'.fn = "startUp", port'.media, Idles' \/ card'.state = "prg", SdStart'
    PROVE  SdOK'
<1>1. SdFlow'
  BY DEF SdFlow, At, Calls, Starting
<1>2. SdReady' /\ SdWrite'
  BY DEF SdReady, SdWrite, At, Calls, Starting
<1> QED
  BY <1>1, <1>2 DEF SdOK

(* GO_IDLE_STATE: the card forgets what it programs.                       *)
LEMMA IdleHolds ==
    ASSUME Common, Running, ~Reading, ~Writing, kind \in SdKinds, Stays, op'.at \in {"app"}, GoIdle,
           UNCHANGED <<buf, sram>>, port' \in PortRecs
    PROVE  Common' /\ (card' = card \/ Idles')
<1> USE Basics
<1>1. UNCHANGED <<present, memory, late>> /\ card' = IF Reached THEN [CardOn(kind) EXCEPT !.state = "idle"] ELSE card
  BY DEF GoIdle
<1>2. card' = card \/ (present /\ card' \in CardRecs /\ card'.state = "idle" /\ card'.pend = Nothing)
  BY <1>1, ResetIs DEF Reached
<1>3. CASE card' = card
  <2>1. Around
    BY <1>1, <1>3 DEF Around, CardMoves
  <2>2. ~(op'.at \in Calls) /\ op'.at # "opcond" /\ op.i < op.n
    BY DEF Calls, CallOK, Reading, Writing, Running
  <2> QED
    BY <1>3, <2>1, <2>2, StayHolds
<1>4. CASE present /\ card' \in CardRecs /\ card'.state = "idle" /\ card'.pend = Nothing
  <2>1. /\ Running' /\ ~Reading' /\ ~Writing' /\ ~Knows' /\ \A b : Owe(b)' = Owe(b)
        /\ kind' = kind /\ op' \in CallRecs /\ op'.fn = op.fn /\ op'.s = op.s /\ op'.n = op.n /\ op'.i = op.i
        /\ UNCHANGED <<written, started, clean, owed>> /\ ~At("done")'
    BY SameCall DEF Stays, GoesOn, Knows, At
  <2>2. CallTypes' /\ CardTypes' /\ DataTypes'
    BY <1>1, <1>4, <2>1 DEF CallTypes, CardTypes, DataTypes
  <2>3. LeftOK' /\ GoneOK'
    BY <1>1, <1>4, <2>1 DEF LeftOK, GoneOK, CfKinds, Idles
  <2>4. CallOK'
    BY <2>1 DEF CallOK, At, Calls
  <2>5. Idles' /\ kind \notin CfKinds
    BY <1>4 DEF Idles, SdKinds, CfKinds
  <2>6. Kept'
    BY <1>1, <2>1, <2>5 DEF Common, Kept
  <2>7. Reads'
    BY <2>1 DEF Reads
  <2> QED
    BY <2>2, <2>3, <2>4, <2>5, <2>6, <2>7 DEF Common
<1> QED
  BY <1>2, <1>3, <1>4

(* A step of the start in which the card may change its state.             *)
LEMMA StartStays ==
    ASSUME Common, kind \in SdKinds, Running, ~Reading, ~Writing, Stays, op'.at \in Starting,
           op'.at = "opcond" => op'.tries < Tries,
           UNCHANGED <<present, memory, buf, sram>>, late' \in 0 .. Lateness, port' \in PortRecs,
           card' = card \/ (present /\ card' \in CardRecs /\ card'.state \notin {"data"} /\ card'.pend = card.pend)
    PROVE  Common'
<1> USE Basics
<1>1. LeftOK' \/ card' = card
  BY DEF LeftOK, Stays, GoesOn, SdKinds, CfKinds
<1>2. Around
  BY <1>1 DEF Around, CardMoves
<1>3. ~(op'.at \in Calls) /\ op.i < op.n
  BY DEF Calls, Starting, CallOK, Reading, Writing, Running
<1> QED
  BY <1>2, <1>3, StayHolds

LEMMA SdStartUps ==
    ASSUME Common, SdOK, kind \in SdKinds, ScsdStartUp \/ M3sdStartUp \/ NjsdStartUp, UNCHANGED sram
    PROVE  Common' /\ SdOK'
<1> USE Basics
<1>1. /\ At("startUp") /\ UNCHANGED <<present, memory, card, late, buf>> /\ port' \in PortRecs
      /\ port'.addressed = port.addressed /\ port'.media /\ (port'.media = port.media \/ kind # "njsd")
      /\ GoTo("init") \/ (Return(FALSE) /\ UNCHANGED port)
  <2>1. CASE ScsdStartUp \/ M3sdStartUp
    BY <2>1, MediaIs DEF ScsdStartUp, M3sdStartUp, ScChangeMode, M3ChangeMode, cardVars
  <2>2. CASE NjsdStartUp
    BY <2>2 DEF NjsdStartUp, cardVars, SdOK, SdFlow
  <2> QED
    BY <2>1, <2>2
<1>2. Running /\ op.fn = "startUp" /\ ~Reading /\ ~Writing
  BY <1>1, AtCall DEF Calls
<1>3. Idles \/ card.state = "prg"
  BY <1>1 DEF SdOK, SdFlow
<1>4. CASE GoTo("init")
  <2>1. Stays /\ op'.at = "init" /\ op'.rsp = op.rsp
    BY <1>4, GoToIs DEF Places
  <2>2. op'.at \in Starting /\ op'.at # "opcond"
    BY <2>1 DEF Starting
  <2>3. Common'
    BY <1>1, <1>2, <2>1, <2>2, StartStays
  <2>4. SdStart'
    BY <1>3, <2>1 DEF SdStart, At
  <2>5. kind' = kind /\ op'.fn = op.fn /\ (Idles' \/ card'.state = "prg")
    BY <1>1, <1>3, <2>1 DEF Stays, GoesOn, Idles
  <2> QED
    BY <1>1, <1>2, <2>2, <2>3, <2>4, <2>5, SdStarting
<1>5. CASE Return(FALSE) /\ UNCHANGED port
  <2>1. Around /\ (Idles' \/ card'.state = "prg")
    BY <1>1, <1>3, <1>5 DEF Around, CardMoves, Idles
  <2> QED
    BY <1>1, <1>2, <1>5, <2>1, SdFails
<1> QED
  BY <1>1, <1>4, <1>5

LEMMA SdInitCards ==
    ASSUME Common, SdOK, kind \in SdKinds, ScsdInitCard \/ M3sdInitCard \/ NjsdCardInit, UNCHANGED sram
    PROVE  Common' /\ SdOK'
<1> USE Basics
<1>1. /\ UNCHANGED buf
      /\ At("init") \/ (At("clearStatus") /\ kind # "njsd")
      /\ \/ GoIdle /\ GoTo("app") /\ (port' = port \/ port' = [port EXCEPT !.addressed = FALSE])
         \/ Return(FALSE) /\ UNCHANGED <<cardVars, port>>
  BY DEF ScsdInitCard, M3sdInitCard, NjsdCardInit, Initialising
<1>2. /\ Running /\ ~Reading /\ ~Writing /\ op.fn \in {"startUp", "clearStatus"} /\ (kind = "njsd" => op.fn = "startUp")
      /\ port.media /\ (Idles \/ card.state = "prg")
  <2>1. port.media /\ (Idles \/ card.state = "prg")
    BY <1>1 DEF SdOK, SdFlow, At
  <2>2. CASE At("init")
    BY <2>1, <2>2 DEF SdOK, SdFlow, At, Starting, Running, Reading, Writing
  <2>3. CASE At("clearStatus") /\ kind # "njsd"
    BY <2>1, <2>3, AtCall DEF Calls
  <2> QED
    BY <1>1, <2>2, <2>3
<1>3. CASE GoIdle /\ GoTo("app") /\ (port' = port \/ port' = [port EXCEPT !.addressed = FALSE])
  <2>1. Stays /\ op'.at = "app" /\ op'.rsp = op.rsp
    BY <1>3, GoToIs DEF Places
  <2>2. op'.at \in Starting /\ op'.at \in {"app"}
    BY <2>1 DEF Starting
  <2>3. port' \in PortRecs /\ port'.media = port.media
    <3> DEFINE no == FALSE
    <3>1. no \in BOOLEAN /\ (port' = port \/ port' = [port EXCEPT !.addressed = no])
      BY <1>3
    <3> HIDE DEF no
    <3> QED
      BY <3>1 DEF PortRecs
  <2>4. Common' /\ (card' = card \/ Idles')
    BY <1>1, <1>2, <1>3, <2>1, <2>2, <2>3, IdleHolds
  <2>5. SdStart'
    BY <1>2, <2>1 DEF SdStart, At
  <2>6. kind' = kind /\ op'.fn = op.fn /\ (Idles' \/ card'.state = "prg")
    BY <1>1, <1>2, <2>1, <2>4 DEF Stays, GoesOn, Idles
  <2> QED
    BY <1>1, <1>2, <2>2, <2>3, <2>4, <2>5, <2>6, SdStarting
<1>4. CASE Return(FALSE) /\ UNCHANGED <<cardVars, port>>
  <2>1. Around /\ (Idles' \/ card'.state = "prg")
    BY <1>1, <1>2, <1>4 DEF Around, CardMoves, Idles, cardVars
  <2>2. op.fn # "isInserted" /\ port'.media = port.media
    BY <1>2, <1>4
  <2> QED
    BY <1>1, <1>2, <1>4, <2>1, <2>2, SdFails
<1> QED
  BY <1>1, <1>3, <1>4

(* The call at a step of the start.                                        *)
LEMMA AtStart ==
    ASSUME Common, SdOK, kind \in SdKinds, op.at \in Starting
    PROVE  /\ Running /\ ~Reading /\ ~Writing /\ op.fn \in {"startUp", "clearStatus"} /\ (kind = "njsd" => op.fn = "startUp")
           /\ port.media /\ (Idles \/ card.state = "prg") /\ op.fn # "isInserted"
<1>1. op.at # "done" /\ op.at # "startUp"
  BY DEF Starting
<1> QED
  BY <1>1 DEF SdOK, SdFlow, SdStart, Running, Reading, Writing, At

LEMMA SdAppCmd ==
    ASSUME Common, SdOK, kind \in SdKinds, AppCmd, UNCHANGED sram
    PROVE  Common' /\ SdOK'
<1> USE Basics
<1>1. At("app") /\ op.at \in Starting /\ UNCHANGED <<present, memory, card, port, buf>>
  BY DEF AppCmd, At, Starting
<1>2. /\ Running /\ ~Reading /\ ~Writing /\ op.fn \in {"startUp", "clearStatus"} /\ (kind = "njsd" => op.fn = "startUp")
      /\ port.media /\ (Idles \/ card.state = "prg") /\ op.fn # "isInserted"
  BY <1>1, AtStart
<1>3. ASSUME Return(FALSE), late' \in 0 .. Lateness PROVE Common' /\ SdOK'
  <2>1. Around /\ (Idles' \/ card'.state = "prg")
    BY <1>1, <1>2, <1>3 DEF Around, CardMoves, Idles
  <2> QED
    BY <1>1, <1>2, <1>3, <2>1, SdFails
<1>4. CASE op.tries >= Tries /\ Return(FALSE) /\ UNCHANGED late
  BY <1>3, <1>4
<1>5. ASSUME op.tries < Tries, NEW answered \in Command("app"), Waited("app", answered),
             IF answered \/ op.rsp = "app"
             THEN op' = [op EXCEPT !.at = "opcond", !.rsp = "app"] /\ UNCHANGED <<kind, written, started, clean, owed>>
             ELSE Return(FALSE)
      PROVE  Common' /\ SdOK'
  <2>1. late' \in 0 .. Lateness
    BY <1>5, AnswerIs
  <2>2. CASE answered \/ op.rsp = "app"
    <3>1. op' = [op EXCEPT !.at = "opcond", !.rsp = "app"] /\ UNCHANGED <<kind, written, started, clean, owed>>
          /\ "opcond" \in Places /\ "app" \in {"none", "app", "op", "tran"}
      BY <1>5, <2>2 DEF Places
    <3>2. op' \in CallRecs
      BY <3>1 DEF CallRecs
    <3>3. op'.fn = op.fn /\ op'.s = op.s /\ op'.n = op.n /\ op'.i = op.i /\ op'.at = "opcond" /\ op'.rsp = "app" /\ op'.tries = op.tries
      BY <3>1 DEF CallRecs
    <3>4. Stays /\ op'.at \in Starting
      BY <3>1, <3>2, <3>3 DEF Stays, GoesOn, Starting
    <3>5. Common'
      BY <1>1, <1>2, <1>5, <2>1, <3>3, <3>4, StartStays
    <3>6. SdStart'
      BY <3>3 DEF SdStart, At
    <3>7. kind' = kind /\ (Idles' \/ card'.state = "prg")
      BY <1>1, <1>2, <3>1 DEF Idles
    <3> QED
      BY <1>1, <1>2, <3>3, <3>4, <3>5, <3>6, <3>7, SdStarting
  <2>3. CASE ~(answered \/ op.rsp = "app")
    BY <1>3, <1>5, <2>1, <2>3
  <2> QED
    BY <2>2, <2>3
<1> QED
  BY <1>4, <1>5 DEF AppCmd

(* The card obeys a command of the start and changes its state.            *)
LEMMA ObeysIs ==
    ASSUME Common, SdOK, kind \in SdKinds, op.at \in Starting, NEW cmd \in DOMAIN Obeyed, NEW s \in States,
           s # "data", cmd # "status", card' = IF Hears(cmd) THEN [card EXCEPT !.state = s] ELSE card
    PROVE  /\ card' = card \/ (present /\ card' \in CardRecs /\ card'.state \notin {"data"} /\ card'.pend = card.pend)
           /\ Hears(cmd) => card'.state = s /\ card.state \in Obeyed[cmd]
           /\ Idles' \/ card'.state = "prg"
           /\ card'.wide = card.wide
<1> USE Basics
<1>1. Idles \/ card.state = "prg"
  BY AtStart
<1>2. CASE Hears(cmd)
  <2>1. present /\ card.state \in Obeyed[cmd]
    BY <1>2, HeardIs
  <2>2. card.state # "prg"
    BY <2>1 DEF Obeyed
  <2>3. card' \in CardRecs /\ card'.state = s /\ card'.pend = card.pend /\ card'.wide = card.wide
    BY <1>2 DEF CardRecs
  <2> QED
    BY <1>1, <2>1, <2>2, <2>3 DEF Idles
<1>3. CASE ~Hears(cmd)
  BY <1>1, <1>3 DEF Idles
<1> QED
  BY <1>2, <1>3

LEMMA SdOpCond ==
    ASSUME Common, SdOK, kind \in SdKinds, OpCond, UNCHANGED sram
    PROVE  Common' /\ SdOK'
<1> USE Basics
<1>1. At("opcond") /\ op.at \in Starting /\ UNCHANGED <<kind, present, memory, port, buf, written, started, clean, owed>>
  BY DEF OpCond, At, Starting
<1>2. /\ Running /\ ~Reading /\ ~Writing /\ op.fn \in {"startUp", "clearStatus"} /\ (kind = "njsd" => op.fn = "startUp")
      /\ port.media /\ (Idles \/ card.state = "prg")
  BY <1>1, AtStart DEF At
<1>3. op.tries < Tries /\ op.tries + 1 \in 0 .. Tries
  BY <1>1, NumbersAre DEF CallOK
<1>4. PICK answered \in Command("opcond"), powered \in BOOLEAN :
         /\ Waited("opcond", answered)
         /\ card' = IF Hears("opcond") /\ powered THEN [card EXCEPT !.state = "ready"] ELSE card
         /\ op' = IF answered /\ powered THEN [op EXCEPT !.at = "cid", !.rsp = "op", !.tries = 0]
                  ELSE [op EXCEPT !.at = "app", !.rsp = IF answered THEN "op" ELSE @, !.tries = @ + 1]
  BY DEF OpCond
<1>5. late' \in 0 .. Lateness
  BY <1>4, AnswerIs
<1>6. card' = card \/ card' = IF Hears("opcond") THEN [card EXCEPT !.state = "ready"] ELSE card
  BY <1>4
<1>7. /\ card' = card \/ (present /\ card' \in CardRecs /\ card'.state \notin {"data"} /\ card'.pend = card.pend)
      /\ Idles' \/ card'.state = "prg"
  <2>1. "ready" \in States /\ "opcond" \in DOMAIN Obeyed
    BY DEF States, Obeyed
  <2>2. CASE card' = card
    BY <1>2, <2>2 DEF Idles
  <2>3. CASE card' = IF Hears("opcond") THEN [card EXCEPT !.state = "ready"] ELSE card
    BY <1>1, <2>1, <2>3, ObeysIs
  <2> QED
    BY <1>6, <2>2, <2>3
<1>8. Stays /\ op'.at \in Starting /\ op'.at # "opcond" /\ op'.at \in {"cid", "app"}
  <2>1. CASE answered /\ powered
    <3>1. op' = [op EXCEPT !.at = "cid", !.rsp = "op", !.tries = 0] /\ "cid" \in Places /\ 0 \in 0 .. Tries
      BY <1>3, <1>4, <2>1, NumbersAre DEF Places
    <3>2. op' \in CallRecs /\ op'.fn = op.fn /\ op'.s = op.s /\ op'.n = op.n /\ op'.i = op.i /\ op'.at = "cid" /\ op'.rsp = "op"
      BY <3>1 DEF CallRecs
    <3> QED
      BY <1>1, <3>2 DEF Stays, GoesOn, Starting
  <2>2. CASE ~(answered /\ powered)
    <3> DEFINE r == IF answered THEN "op" ELSE op.rsp
               t == op.tries + 1
    <3>1. op' = [op EXCEPT !.at = "app", !.rsp = r, !.tries = t] /\ "app" \in Places /\ t \in 0 .. Tries
          /\ r \in {"none", "app", "op", "tran"}
      BY <1>3, <1>4, <2>2, CallFields DEF Places
    <3> HIDE DEF r, t
    <3>2. op' \in CallRecs /\ op'.fn = op.fn /\ op'.s = op.s /\ op'.n = op.n /\ op'.i = op.i /\ op'.at = "app" /\ op'.rsp = r
      BY <3>1 DEF CallRecs
    <3> QED
      BY <1>1, <3>1, <3>2 DEF Stays, GoesOn, Starting
  <2> QED
    BY <2>1, <2>2
<1>9. Common'
  BY <1>1, <1>2, <1>5, <1>7, <1>8, StartStays
<1>10. SdStart'
  BY <1>8 DEF SdStart, At
<1>11. op'.fn = op.fn
  BY <1>8 DEF Stays, GoesOn
<1> QED
  BY <1>1, <1>2, <1>7, <1>8, <1>9, <1>10, <1>11, SdStarting

LEMMA SdCid ==
    ASSUME Common, SdOK, kind \in SdKinds, AllSendCid, UNCHANGED sram
    PROVE  Common' /\ SdOK'
<1> USE Basics
<1>1. At("cid") /\ op.at \in Starting /\ UNCHANGED <<kind, present, memory, port, buf, written, started, clean, owed>>
  BY DEF AllSendCid, At, Starting
<1>2. /\ Running /\ ~Reading /\ ~Writing /\ op.fn \in {"startUp", "clearStatus"} /\ (kind = "njsd" => op.fn = "startUp")
      /\ port.media
  BY <1>1, AtStart DEF At
<1>3. late' \in 0 .. Lateness
  BY AnswerIs DEF AllSendCid
<1>4. /\ card' = card \/ (present /\ card' \in CardRecs /\ card'.state \notin {"data"} /\ card'.pend = card.pend)
      /\ Idles' \/ card'.state = "prg"
  <2>1. "ident" \in States /\ "cid" \in DOMAIN Obeyed /\ card' = IF Hears("cid") THEN [card EXCEPT !.state = "ident"] ELSE card
    BY DEF States, Obeyed, AllSendCid
  <2> QED
    BY <1>1, <2>1, ObeysIs
<1>5. Stays /\ op'.at = "rca"
  <2>1. PICK answered \in Command("cid"), looks \in {"op", "tran"} :
           op' = [op EXCEPT !.at = "rca", !.rsp = IF answered THEN looks ELSE @, !.tries = 0]
    BY DEF AllSendCid
  <2> DEFINE r == IF answered THEN looks ELSE op.rsp
  <2>2. op' = [op EXCEPT !.at = "rca", !.rsp = r, !.tries = 0] /\ r \in {"none", "app", "op", "tran"}
        /\ "rca" \in Places /\ 0 \in 0 .. Tries
    BY <2>1, CallFields, NumbersAre DEF Places
  <2> HIDE DEF r
  <2>3. op' \in CallRecs /\ op'.fn = op.fn /\ op'.s = op.s /\ op'.n = op.n /\ op'.i = op.i /\ op'.at = "rca"
    BY <2>2 DEF CallRecs
  <2> QED
    BY <1>1, <2>3 DEF Stays, GoesOn
<1>6. op'.at \in Starting /\ op'.at # "opcond" /\ op'.fn = op.fn /\ kind' = kind
  BY <1>5 DEF Starting, Stays, GoesOn
<1>7. Common'
  BY <1>1, <1>2, <1>3, <1>4, <1>5, <1>6, StartStays
<1>8. SdStart'
  BY <1>2, <1>5 DEF SdStart, At
<1> QED
  BY <1>1, <1>2, <1>4, <1>6, <1>7, <1>8, SdStarting

LEMMA SdAddress ==
    ASSUME Common, SdOK, kind \in SdKinds, SendRelativeAddr, UNCHANGED sram
    PROVE  Common' /\ SdOK'
<1> USE Basics
<1>1. At("rca") /\ op.at \in Starting /\ UNCHANGED <<present, memory, buf>>
  BY DEF SendRelativeAddr, At, Starting
<1>2. /\ Running /\ ~Reading /\ ~Writing /\ op.fn \in {"startUp", "clearStatus"} /\ (kind = "njsd" => op.fn = "startUp")
      /\ port.media /\ op.fn # "isInserted"
  BY <1>1, AtStart DEF At
<1>3. PICK answered \in Command("rca"), standby \in BOOLEAN :
         /\ Waited("rca", answered)
         /\ standby => op.rsp # "tran"
         /\ card' = IF Hears("rca") THEN [card EXCEPT !.state = "stby"] ELSE card
         /\ port' = [port EXCEPT !.addressed = answered]
         /\ CASE answered \/ ~standby -> GoTo("select")
              [] ~answered /\ standby /\ op.tries + 1 < Tries -> TryAgain("rca")
              [] OTHER -> Return(FALSE)
  BY DEF SendRelativeAddr
<1>4. late' \in 0 .. Lateness /\ answered \in BOOLEAN /\ (answered => Hears("rca"))
  BY <1>3, AnswerIs
<1>5. /\ card' = card \/ (present /\ card' \in CardRecs /\ card'.state \notin {"data"} /\ card'.pend = card.pend)
      /\ Idles' \/ card'.state = "prg"
      /\ answered => card'.state = "stby"
  <2>1. "stby" \in States /\ "rca" \in DOMAIN Obeyed
    BY DEF States, Obeyed
  <2> QED
    BY <1>1, <1>3, <1>4, <2>1, ObeysIs
<1>6. port' \in PortRecs /\ port'.media = port.media /\ port'.addressed = answered
  BY <1>3, <1>4 DEF PortRecs
<1>7. \/ GoTo("select")
      \/ op.tries + 1 < Tries /\ TryAgain("rca")
      \/ Return(FALSE)
  BY <1>3, <1>4
<1>8. ASSUME Stays, op'.at \in {"select", "rca"}, op'.rsp = op.rsp PROVE Common' /\ SdOK'
  <2>1. op'.at \in Starting /\ op'.at # "opcond" /\ op'.fn = op.fn /\ kind' = kind
    BY <1>8 DEF Starting, Stays, GoesOn
  <2>2. Common'
    BY <1>1, <1>2, <1>4, <1>5, <1>6, <1>8, <2>1, StartStays
  <2>3. SdStart'
    BY <1>2, <1>5, <1>6, <1>8 DEF SdStart, At
  <2> QED
    BY <1>1, <1>2, <1>5, <1>6, <2>1, <2>2, <2>3, SdStarting
<1>9. CASE GoTo("select")
  <2>1. Stays /\ op'.at = "select" /\ op'.rsp = op.rsp
    BY <1>9, GoToIs DEF Places
  <2> QED
    BY <1>8, <2>1
<1>10. CASE op.tries + 1 < Tries /\ TryAgain("rca")
  <2>1. op.tries < Tries
    BY <1>10, NumbersAre
  <2>2. Stays /\ op'.at = "rca" /\ op'.rsp = op.rsp
    BY <1>10, <2>1, TryIs DEF Places
  <2> QED
    BY <1>8, <2>2
<1>11. CASE Return(FALSE)
  <2>1. LeftOK' \/ card' = card
    BY <1>5, <1>11, ReturnIs DEF LeftOK, SdKinds, CfKinds
  <2>2. Around
    BY <1>1, <1>4, <1>5, <1>6, <2>1 DEF Around, CardMoves
  <2> QED
    BY <1>1, <1>2, <1>5, <1>6, <1>11, <2>2, SdFails
<1> QED
  BY <1>7, <1>9, <1>10, <1>11

LEMMA SdSelect ==
    ASSUME Common, SdOK, kind \in SdKinds, SelectCard, UNCHANGED sram
    PROVE  Common' /\ SdOK'
<1> USE Basics
<1>1. At("select") /\ op.at \in Starting /\ UNCHANGED <<kind, present, memory, port, buf, written, started, clean, owed>>
  BY DEF SelectCard, At, Starting
<1>2. /\ Running /\ ~Reading /\ ~Writing /\ op.fn \in {"startUp", "clearStatus"} /\ (kind = "njsd" => op.fn = "startUp")
      /\ port.media
  BY <1>1, AtStart DEF At
<1>3. late' \in 0 .. Lateness
  BY AnswerIs DEF SelectCard
<1>4. /\ card' = card \/ (present /\ card' \in CardRecs /\ card'.state \notin {"data"} /\ card'.pend = card.pend)
      /\ Idles' \/ card'.state = "prg"
      /\ Hears("select") => card'.state = "tran"
  <2>1. "tran" \in States /\ "select" \in DOMAIN Obeyed
        /\ card' = IF Hears("select") THEN [card EXCEPT !.state = "tran"] ELSE card
    BY DEF States, Obeyed, SelectCard
  <2> QED
    BY <1>1, <2>1, ObeysIs
<1>5. Stays /\ op'.at = "width"
  <2>1. PICK answered \in Command("select"), looks \in {"op", "tran"} :
           op' = [op EXCEPT !.at = "width", !.rsp = IF answered THEN "op" ELSE IF Hears("select") THEN looks ELSE @, !.tries = 0]
    BY DEF SelectCard
  <2> DEFINE r == IF answered THEN "op" ELSE IF Hears("select") THEN looks ELSE op.rsp
  <2>2. op' = [op EXCEPT !.at = "width", !.rsp = r, !.tries = 0] /\ r \in {"none", "app", "op", "tran"}
        /\ "width" \in Places /\ 0 \in 0 .. Tries
    BY <2>1, CallFields, NumbersAre DEF Places
  <2> HIDE DEF r
  <2>3. op' \in CallRecs /\ op'.fn = op.fn /\ op'.s = op.s /\ op'.n = op.n /\ op'.i = op.i /\ op'.at = "width"
    BY <2>2 DEF CallRecs
  <2> QED
    BY <1>1, <2>3 DEF Stays, GoesOn
<1>6. op'.at \in Starting /\ op'.at # "opcond" /\ op'.fn = op.fn /\ kind' = kind
  BY <1>5 DEF Starting, Stays, GoesOn
<1>7. Common'
  BY <1>1, <1>2, <1>3, <1>4, <1>5, <1>6, StartStays
<1>8. port.addressed /\ present => Hears("select")
  <2>1. port.addressed /\ present => card.state = "stby"
    BY <1>1 DEF SdOK, SdStart
  <2> QED
    BY <1>2, <2>1 DEF Hears, Reached, Obeyed
<1>9. SdStart'
  BY <1>1, <1>2, <1>4, <1>5, <1>8 DEF SdStart, At
<1> QED
  BY <1>1, <1>2, <1>4, <1>6, <1>7, <1>9, SdStarting

LEMMA SdWidth ==
    ASSUME Common, SdOK, kind \in SdKinds, SetBusWidth, UNCHANGED sram
    PROVE  Common' /\ SdOK'
<1> USE Basics
<1>1. At("width") /\ op.at \in Starting /\ UNCHANGED <<kind, present, memory, port, buf, written, started, clean, owed>>
  BY DEF SetBusWidth, At, Starting
<1>2. /\ Running /\ ~Reading /\ ~Writing /\ op.fn \in {"startUp", "clearStatus"} /\ (kind = "njsd" => op.fn = "startUp")
      /\ port.media /\ (Idles \/ card.state = "prg")
  BY <1>1, AtStart DEF At
<1>3. PICK answered \in Command("width") :
         /\ Waited("width", answered)
         /\ card' = IF Hears("width") THEN [card EXCEPT !.wide = TRUE] ELSE card
         /\ op' = [op EXCEPT !.at = "status", !.rsp = IF answered THEN "tran" ELSE @, !.tries = 0]
  BY DEF SetBusWidth
<1>4. late' \in 0 .. Lateness /\ answered \in BOOLEAN /\ (answered => Hears("width"))
  BY <1>3, AnswerIs
<1>5. Hears("width") => present /\ card.state = "tran" /\ port.addressed
  <2>1. "width" \in DOMAIN Obeyed /\ "width" \in Addressed /\ Obeyed["width"] = {"tran"}
    BY DEF Obeyed, Addressed
  <2> QED
    BY <2>1, HeardIs
<1>6. port.addressed /\ present => Hears("width")
  <2>1. port.addressed /\ present => card.state = "tran"
    BY <1>1 DEF SdOK, SdStart
  <2> QED
    BY <1>2, <2>1 DEF Hears, Reached, Obeyed
<1>7. /\ card' = card \/ (present /\ card' \in CardRecs /\ card'.state \notin {"data"} /\ card'.pend = card.pend)
      /\ Idles' \/ card'.state = "prg"
      /\ Hears("width") => card'.state = "tran" /\ card'.wide
  <2>1. CASE Hears("width")
    <3> DEFINE y == TRUE
    <3>1. card' = [card EXCEPT !.wide = y] /\ y \in BOOLEAN
      BY <1>3, <2>1
    <3> HIDE DEF y
    <3>2. card' \in CardRecs /\ card'.state = card.state /\ card'.pend = card.pend /\ card'.wide = y
      BY <3>1 DEF CardRecs
    <3>3. Idles
      BY <1>2, <1>5, <2>1
    <3> QED
      BY <1>5, <2>1, <3>2, <3>3 DEF Idles, y
  <2>2. CASE ~Hears("width")
    BY <1>2, <1>3, <2>2 DEF Idles
  <2> QED
    BY <2>1, <2>2
<1>8. op' \in CallRecs /\ op'.fn = op.fn /\ op'.s = op.s /\ op'.n = op.n /\ op'.i = op.i /\ op'.at = "status"
      /\ op'.rsp = IF answered THEN "tran" ELSE op.rsp
  <2> DEFINE r == IF answered THEN "tran" ELSE op.rsp
  <2>1. op' = [op EXCEPT !.at = "status", !.rsp = r, !.tries = 0] /\ r \in {"none", "app", "op", "tran"}
        /\ "status" \in Places /\ 0 \in 0 .. Tries
    BY <1>3, <1>4, CallFields, NumbersAre DEF Places
  <2> HIDE DEF r
  <2>2. op' \in CallRecs /\ op'.fn = op.fn /\ op'.s = op.s /\ op'.n = op.n /\ op'.i = op.i /\ op'.at = "status" /\ op'.rsp = r
    BY <2>1 DEF CallRecs
  <2> QED
    BY <2>2 DEF r
<1>9. Stays /\ op'.at \in Starting /\ op'.at # "opcond"
  BY <1>1, <1>8 DEF Starting, Stays, GoesOn
<1>10. Common'
  BY <1>1, <1>2, <1>4, <1>7, <1>8, <1>9, StartStays
<1>11. SdStart'
  <2>1. port.addressed /\ present => card'.state = "tran" /\ card'.wide
    BY <1>6, <1>7
  <2> QED
    BY <1>1, <1>8, <2>1 DEF SdStart, At
<1> QED
  BY <1>1, <1>2, <1>7, <1>8, <1>9, <1>10, <1>11, SdStarting

LEMMA SdStatus ==
    ASSUME Common, SdOK, kind \in SdKinds, WaitStatus, UNCHANGED sram
    PROVE  Common' /\ SdOK'
<1> USE Basics
<1>1. At("status") /\ op.at \in Starting /\ UNCHANGED <<present, memory, card, port, buf>>
  BY DEF WaitStatus, At, Starting
<1>2. /\ Running /\ ~Reading /\ ~Writing /\ op.fn \in {"startUp", "clearStatus"} /\ (kind = "njsd" => op.fn = "startUp")
      /\ port.media /\ op.fn # "isInserted" /\ (Idles \/ card.state = "prg")
  BY <1>1, AtStart DEF At
<1>3. PICK answered \in Command("status") :
         /\ Waited("status", answered)
         /\ CASE op.tries >= Tries -> Return(FALSE)
              [] op.tries < Tries /\ (answered \/ op.rsp = "tran") -> Return(TRUE)
              [] OTHER -> TryAgain("status")
  BY DEF WaitStatus
<1>4. late' \in 0 .. Lateness /\ answered \in BOOLEAN /\ (answered => Hears("status"))
  BY <1>3, AnswerIs
<1>5. port.addressed /\ present => Ready
  BY <1>1 DEF SdOK, SdStart, Ready
<1>6. \/ Return(FALSE)
      \/ op.tries < Tries /\ (answered \/ op.rsp = "tran") /\ Return(TRUE)
      \/ op.tries < Tries /\ TryAgain("status")
  <2>1. op.tries >= Tries \/ op.tries < Tries
    BY NumbersAre
  <2> QED
    BY <1>3, <2>1
<1>7. CASE Return(FALSE)
  <2>1. Around /\ (Idles' \/ card'.state = "prg")
    BY <1>1, <1>2, <1>4, <1>7 DEF Around, CardMoves, Idles
  <2> QED
    BY <1>1, <1>2, <1>7, <2>1, SdFails
<1>8. CASE op.tries < Tries /\ (answered \/ op.rsp = "tran") /\ Return(TRUE)
  <2>1. Common'
    BY <1>1, <1>2, <1>4, <1>8, QuietReturn
  <2>2. clean' => port.addressed
    <3>1. clean' => (op.fn \in Restores => Known)
      BY <1>8, ReturnIs
    <3>2. op.fn \in Restores
      BY <1>2 DEF Restores, SdKinds, CfKinds
    <3> QED
      BY <3>1, <3>2 DEF Known
  <2>3. (Settled' => Ready') /\ (Idles' \/ card'.state = "prg")
    BY <1>1, <1>2, <1>5, <2>2 DEF Settled, Ready, Idles
  <2> QED
    BY <1>1, <1>2, <1>8, <2>1, <2>3, SdEnds
<1>9. CASE op.tries < Tries /\ TryAgain("status")
  <2>1. Stays /\ op'.at = "status" /\ op'.rsp = op.rsp
    BY <1>9, TryIs DEF Places
  <2>2. op'.at \in Starting /\ op'.at # "opcond" /\ op'.fn = op.fn /\ kind' = kind
    BY <2>1 DEF Starting, Stays, GoesOn
  <2>3. Common'
    BY <1>1, <1>2, <1>4, <2>1, <2>2, StartStays
  <2>4. SdStart'
    BY <1>1, <2>1 DEF SdStart, At, Ready, SdOK
  <2>5. Idles' \/ card'.state = "prg"
    BY <1>1, <1>2 DEF Idles
  <2> QED
    BY <1>1, <1>2, <2>2, <2>3, <2>4, <2>5, SdStarting
<1> QED
  BY <1>6, <1>7, <1>8, <1>9

LEMMA SdOthers ==
    ASSUME Common, SdOK, kind \in SdKinds, UNCHANGED sram,
           ScsdIsInserted \/ M3sdIsInserted \/ NjsdIsInserted \/ NjsdClearStatus \/ ScsdShutdown \/ M3sdShutdown
    PROVE  Common' /\ SdOK'
<1> USE Basics
<1>1. PICK a \in {"isInserted", "clearStatus", "shutdown"} : At(a)
  BY DEF ScsdIsInserted, M3sdIsInserted, NjsdIsInserted, NjsdClearStatus, ScsdShutdown, M3sdShutdown
<1>2. Running /\ ~Reading /\ ~Writing /\ op.fn = a /\ (Settled => Ready) /\ (Idles \/ card.state = "prg") /\ started
  <2>1. a \in Calls
    BY DEF Calls
  <2> QED
    BY <1>1, <2>1, AtCall DEF SdOK, SdFlow, SdReady, At, CallOK
<1>3. UNCHANGED <<present, memory, card, late, buf>>
  BY DEF ScsdIsInserted, M3sdIsInserted, NjsdIsInserted, NjsdClearStatus, ScsdShutdown, M3sdShutdown, cardVars
<1>4. CASE ScsdShutdown \/ M3sdShutdown
  <2>1. Return(TRUE) /\ port' \in PortRecs /\ op.fn = "shutdown" /\ kind # "njsd"
    <3>1. port' = [port EXCEPT !.media = FALSE] /\ Return(TRUE) /\ At("shutdown") /\ kind # "njsd"
      BY <1>4 DEF ScsdShutdown, M3sdShutdown, ScChangeMode, M3ChangeMode
    <3> QED
      BY <1>1, <1>2, <3>1, MediaIs DEF At
  <2>2. Common'
    BY <1>2, <1>3, <2>1, QuietReturn
  <2>3. ~started' /\ (Idles' \/ card'.state = "prg") /\ kind' = kind
    BY <1>2, <1>3, <2>1, ReturnIs DEF Idles
  <2> QED
    BY <2>1, <2>2, <2>3, SdEnds DEF Settled
<1>5. CASE ScsdIsInserted \/ M3sdIsInserted \/ NjsdIsInserted \/ NjsdClearStatus
  <2>1. PICK ok \in BOOLEAN : Return(ok)
    BY <1>5 DEF ScsdIsInserted, M3sdIsInserted, NjsdIsInserted, NjsdClearStatus, NjsdReset
  <2>2. UNCHANGED port /\ port.media
    <3>1. port.media
      BY <1>1 DEF SdOK, SdFlow, At
    <3> QED
      BY <1>5, <3>1 DEF ScsdIsInserted, M3sdIsInserted, NjsdIsInserted, NjsdClearStatus
  <2>3. Common'
    BY <1>2, <1>3, <2>1, <2>2, QuietReturn
  <2>4. a = "clearStatus" => kind = "njsd"
    BY <1>1, <1>5 DEF ScsdIsInserted, M3sdIsInserted, NjsdIsInserted, NjsdClearStatus, At
  <2>5. clean' => clean
    BY <1>2, <2>1, <2>4, ReturnIs DEF Restores
  <2>6. (Settled' => Ready') /\ (Idles' \/ card'.state = "prg")
    BY <1>2, <1>3, <2>2, <2>5 DEF Settled, Ready, Idles
  <2> QED
    BY <2>1, <2>2, <2>3, <2>6, SdEnds
<1> QED
  BY <1>4, <1>5

(* A step of a transfer.                                                   *)
LEMMA SdTransfers ==
    ASSUME kind' \in SdKinds, op'.at \in {"data", "stop", "send", "programming"}, port'.media,
           op'.at \in {"data", "stop"} => Reading', op'.at \in {"send", "programming"} => Writing',
           op'.at = "stop" => op'.i = op'.n, Idles' \/ card'.state = "prg", SdReady', SdWrite'
    PROVE  SdOK'
<1>1. SdFlow'
  BY DEF SdFlow, At, Calls, Starting
<1>2. SdStart'
  BY DEF SdStart, At
<1> QED
  BY <1>1, <1>2 DEF SdOK

(* The call at its data.                                                   *)
LEMMA AtData ==
    ASSUME Common, SdOK, kind \in SdKinds, op.at \in {"data", "stop"}
    PROVE  /\ Running /\ Reading /\ ~Writing /\ op.fn = "readSectors" /\ started /\ port.media
           /\ Idles \/ card.state = "prg"
           /\ At("data") => op.i < op.n
           /\ At("stop") => op.i = op.n
           /\ Settled => card.state = "data" /\ card.wide /\ port.addressed
           /\ Settled /\ At("data") => card.pos = CurrentBlock
           /\ Settled /\ At("data") /\ kind = "njsd" => card.left = IF LastOne THEN 1 ELSE Many
           /\ Settled /\ At("data") /\ kind # "njsd" => card.left = IF op.n = 1 THEN 1 ELSE Many
<1>1. Reading /\ port.media /\ (Idles \/ card.state = "prg")
  BY DEF SdOK, SdFlow, SdStart, At
<1>2. Running /\ op.fn = "readSectors" /\ ~Writing
  BY <1>1 DEF Reading, Writing
<1>3. started
  BY <1>2, Basics DEF CallOK
<1>4. (At("data") => op.i < op.n) /\ (At("stop") => op.i = op.n)
  BY <1>2, Basics DEF At, SdOK, SdFlow
<1>5. Settled => card.state = "data" /\ card.wide /\ port.addressed
  BY DEF SdOK, SdReady
<1>6. /\ Settled /\ At("data") => card.pos = CurrentBlock
      /\ Settled /\ At("data") /\ kind = "njsd" => card.left = IF LastOne THEN 1 ELSE Many
      /\ Settled /\ At("data") /\ kind # "njsd" => card.left = IF op.n = 1 THEN 1 ELSE Many
  BY DEF SdOK, SdReady, At
<1> QED
  BY <1>1, <1>2, <1>3, <1>4, <1>5, <1>6

LEMMA SdSendRead ==
    ASSUME Common, SdOK, kind \in SdKinds, At("readSectors"), GoTo("data"), card' = ReadFrom(Left),
           UNCHANGED <<present, memory, late, port, buf, sram>>
    PROVE  Common' /\ SdOK'
<1> USE Basics
<1>1. Running /\ Reading /\ ~Writing /\ op.fn = "readSectors" /\ op.i = 0 /\ op.n >= 1 /\ op.i < op.n /\ started
  <2>1. "readSectors" \in Calls
    BY DEF Calls
  <2> QED
    BY <2>1, AtCall DEF CallOK, SdKinds
<1>2. port.media /\ (Idles \/ card.state = "prg") /\ (Settled => Ready)
  BY DEF SdOK, SdFlow, SdStart, SdReady, At, Calls
<1>3. Stays /\ op'.at = "data" /\ op'.rsp = op.rsp
  BY GoToIs DEF Places
<1>4. Left \in 0 .. Many /\ Left >= 1 /\ Left = IF op.n = 1 THEN 1 ELSE Many
  BY NumbersAre DEF Left, Many
<1>5. /\ card' = card \/ (present /\ card' \in CardRecs /\ LeftOK' /\ card'.pend = card.pend)
      /\ Idles' \/ card'.state = "prg"
      /\ card'.wide = card.wide
      /\ Hears("read") => card'.state = "data" /\ card'.pos = op.s /\ card'.left = Left
  <2>1. CASE Hears("read")
    <3>1. present /\ card.state = "tran"
      <4>1. "read" \in DOMAIN Obeyed /\ Obeyed["read"] = {"tran"}
        BY DEF Obeyed
      <4> QED
        BY <2>1, <4>1, HeardIs
    <3> DEFINE l == Left
               p == op.s
    <3>2. card' = [card EXCEPT !.state = "data", !.pos = p, !.left = l] /\ l \in 0 .. Many /\ p \in Nat /\ "data" \in States
      BY <1>4, <2>1 DEF ReadFrom, States
    <3> HIDE DEF l, p
    <3>3. card' \in CardRecs /\ card'.state = "data" /\ card'.pos = p /\ card'.left = l /\ card'.pend = card.pend
          /\ card'.wide = card.wide
      BY <3>2 DEF CardRecs
    <3>4. LeftOK'
      BY <1>4, <3>3 DEF LeftOK, l
    <3>5. Idles'
      BY <1>2, <3>1, <3>3 DEF Idles
    <3> QED
      BY <3>1, <3>3, <3>4, <3>5 DEF l, p
  <2>2. CASE ~Hears("read")
    BY <1>2, <2>2 DEF ReadFrom, Idles
  <2> QED
    BY <2>1, <2>2
<1>6. Common'
  <2>1. Around
    BY <1>5 DEF Around, CardMoves
  <2>2. ~(op'.at \in Calls) /\ op'.at # "opcond"
    BY <1>3 DEF Calls
  <2> QED
    BY <1>1, <1>3, <2>1, <2>2, StayHolds
<1>7. /\ kind' = kind /\ Reading' /\ op'.fn = op.fn /\ op'.i = 0 /\ op'.n = op.n /\ op'.s = op.s
      /\ (Settled' <=> Settled) /\ CurrentBlock' = op.s /\ (LastOne' <=> op.n = 1)
  BY <1>1, <1>3, SameCall DEF Stays, GoesOn, Settled, CurrentBlock, LastOne
<1>8. SdReady'
  <2>1. Settled => Hears("read")
    BY <1>2 DEF Hears, Reached, Obeyed, Ready, Addressed, Settled
  <2> QED
    BY <1>2, <1>3, <1>4, <1>5, <1>7, <2>1 DEF SdReady, At, Calls, Ready
<1>9. SdWrite'
  BY <1>3 DEF SdWrite, At
<1> QED
  BY <1>2, <1>3, <1>5, <1>6, <1>7, <1>8, <1>9, SdTransfers

LEMMA StreamIs ==
    ASSUME Common, SdOK, kind \in SdKinds, At("data"), Streaming
    PROVE  /\ present /\ Idles /\ card.state = "data" /\ card.left >= 1
           /\ Sent \in BlockContents /\ (Undisturbed => Sent = memory[CurrentBlock])
           /\ AfterSent \in CardRecs /\ AfterSent.pend = card.pend /\ AfterSent.wide = card.wide
           /\ card.left = 1 => AfterSent.state = "tran"
           /\ card.left # 1 => /\ AfterSent.state = "data" /\ AfterSent.pos = card.pos + 1 /\ AfterSent.left >= 1
                               /\ AfterSent.left = IF card.left = Many THEN Many ELSE card.left - 1
<1> USE Basics
<1>1. present /\ card.state = "data" /\ card.pos \in Blocks
  BY DEF Streaming, InState, Reached
<1>2. card.left >= 1
  BY <1>1 DEF Common, LeftOK
<1>3. op.at \in {"data", "stop"}
  BY DEF At
<1>4. Idles /\ started /\ (Settled => card.wide /\ card.pos = CurrentBlock)
  BY <1>1, <1>3, AtData
<1>5. Undisturbed => Settled
  BY <1>1, <1>4 DEF Undisturbed, Settled
<1>6. memory[card.pos] \in BlockContents /\ Junk \in BlockContents
  BY <1>1 DEF DataTypes, BlockContents
<1>7. Sent \in BlockContents /\ (Undisturbed => Sent = memory[CurrentBlock])
  BY <1>4, <1>5, <1>6 DEF Sent
<1> QED
  BY <1>1, <1>2, <1>4, <1>7, AfterSentIs

LEMMA SdReadsBlock ==
    ASSUME Common, SdOK, kind \in {"scsd", "m3sd"}, ReadBlock, UNCHANGED sram
    PROVE  Common' /\ SdOK'
<1> USE Basics
<1>1. At("data") /\ op.at \in {"data", "stop"} /\ UNCHANGED <<present, memory, port>> /\ kind \in SdKinds /\ op.fn # "isInserted"
      /\ kind # "njsd"
  <2>1. At("data") /\ op.at \in {"data", "stop"} /\ UNCHANGED <<present, memory, port>> /\ kind \in SdKinds
    BY DEF ReadBlock, At, SdKinds
  <2> QED
    BY <2>1, AtData
<1>2. /\ Running /\ Reading /\ ~Writing /\ op.fn = "readSectors" /\ started /\ port.media
      /\ Idles \/ card.state = "prg"
      /\ op.i < op.n
      /\ Settled => card.wide /\ port.addressed /\ card.pos = CurrentBlock /\ card.left = IF op.n = 1 THEN 1 ELSE Many
  BY <1>1, AtData
<1>3. CASE /\ Streaming /\ Got(Sent) /\ card' = AfterSent /\ UNCHANGED late
           /\ CASE ~LastOne -> NextBlock("data")
                [] LastOne /\ op.n > 1 -> NextBlock("stop")
                [] OTHER -> Return(TRUE)
  <2>1. /\ present /\ Idles /\ card.state = "data" /\ card.left >= 1
        /\ Sent \in BlockContents /\ (Undisturbed => Sent = memory[CurrentBlock])
        /\ AfterSent \in CardRecs /\ AfterSent.pend = card.pend /\ AfterSent.wide = card.wide
        /\ card.left = 1 => AfterSent.state = "tran"
        /\ card.left # 1 => /\ AfterSent.state = "data" /\ AfterSent.pos = card.pos + 1 /\ AfterSent.left >= 1
                            /\ AfterSent.left = IF card.left = Many THEN Many ELSE card.left - 1
    BY <1>1, <1>3, StreamIs
  <2>2. Gets
    BY <1>3, <2>1 DEF Gets
  <2>3. /\ card' \in CardRecs /\ card'.pend = card.pend /\ card'.wide = card.wide
        /\ card.left = 1 => card'.state = "tran"
        /\ card.left # 1 => /\ card'.state = "data" /\ card'.pos = card.pos + 1 /\ card'.left >= 1
                            /\ card'.left = IF card.left = Many THEN Many ELSE card.left - 1
    BY <1>3, <2>1
  <2>4. kind' = kind => LeftOK'
    BY <1>1, <2>3 DEF LeftOK, SdKinds, CfKinds
  <2>5. Idles'
    BY <2>1, <2>3 DEF Idles
  <2>6. op.n \in Nat \ {0} /\ Many # 1 /\ Many \in Nat
    BY <1>2, NumbersAre DEF Many
  <2>7. ASSUME NEW a \in {"data", "stop"}, NextBlock(a), (a = "stop") <=> LastOne, op.n # 1
        PROVE  Common' /\ SdOK'
    <3>1. Advances /\ op'.at = a /\ op'.rsp = op.rsp
      BY <1>2, <2>7, NextIs DEF Places
    <3>2. kind' = kind /\ op'.i = op.i + 1 /\ op'.n = op.n /\ op'.s = op.s /\ op'.fn = op.fn /\ UNCHANGED <<started, clean>> /\ Reading'
      BY <1>2, <3>1, SameCall DEF Advances, GoesOn
    <3>3. Around
      BY <1>1, <1>3, <2>1, <2>3, <2>4, <3>2 DEF Around, CardMoves
    <3>4. /\ op'.at = "stop" \/ op.i + 1 < op.n
          /\ op'.at = "stop" => op'.i = op'.n
      BY <1>2, <2>7, <3>1, <3>2 DEF LastOne
    <3>5. Common'
      <4>1. ~(op'.at \in Calls) /\ op'.at # "opcond" /\ Delivers
        BY <1>2, <3>1 DEF Calls, Delivers, Knows
      <4> QED
        BY <1>2, <2>2, <3>1, <3>3, <3>4, <4>1, AdvanceHolds
    <3>6. SdReady'
      <4>1. Settled' <=> Settled
        BY <1>1, <3>2 DEF Settled
      <4>2. CurrentBlock' = CurrentBlock + 1
        BY <3>2 DEF CurrentBlock
      <4>3. Settled => card.left = Many /\ card.left # 1
        BY <1>2, <2>6, <2>7
      <4>4. Settled => card'.state = "data" /\ card'.wide /\ port'.addressed /\ card'.pos = CurrentBlock' /\ card'.left = Many
        BY <1>1, <1>2, <2>3, <4>2, <4>3
      <4> QED
        BY <1>1, <2>7, <3>1, <3>2, <4>1, <4>4 DEF SdReady, At, Calls
    <3>7. SdWrite'
      BY <3>1 DEF SdWrite, At
    <3> QED
      BY <1>1, <1>2, <2>5, <3>1, <3>2, <3>4, <3>5, <3>6, <3>7, SdTransfers
  <2>8. ASSUME LastOne, op.n = 1, Return(TRUE)
        PROVE  Common' /\ SdOK'
    <3>1. kind' = kind
      BY <2>8, ReturnIs
    <3>2. Around
      BY <1>1, <1>3, <2>1, <2>3, <2>4, <3>1 DEF Around, CardMoves
    <3>3. op.i + 1 = op.n
      BY <2>8 DEF LastOne
    <3>4. buf' \in Seq(BlockContents) /\ Len(buf') <= MaxBlocks
      BY <1>2, <2>2, <3>3, GotIs
    <3>5. Completes(TRUE)
      <4>1. Undisturbed => buf' = [j \in 1 .. op.n |-> memory[op.s + j - 1]]
        BY <1>2, <2>2, <3>3, <3>4, Filled
      <4> QED
        BY <1>2, <2>1, <2>3, <4>1 DEF Completes, Knows
    <3>6. Common'
      BY <1>2, <2>8, <3>2, <3>4, <3>5, ReturnHolds
    <3>7. Settled' => Ready'
      <4>1. Settled' => Settled
        BY <1>1, <1>2, <2>8, ReturnIs DEF Settled, Restores
      <4> QED
        BY <1>1, <1>2, <2>3, <2>8, <4>1 DEF Ready
    <3> QED
      BY <1>1, <1>2, <2>5, <2>8, <3>6, <3>7, SdEnds
  <2> QED
    <3>1. LastOne /\ ~(op.n > 1) => op.n = 1
      BY <2>6
    <3>2. ~LastOne => op.n # 1
      BY <1>2, <2>6 DEF LastOne
    <3>3. op.n > 1 => op.n # 1
      BY <2>6
    <3>4. CASE ~LastOne
      BY <1>3, <2>7, <3>2, <3>4
    <3>5. CASE LastOne /\ op.n > 1
      BY <1>3, <2>7, <3>3, <3>5
    <3>6. CASE LastOne /\ ~(op.n > 1)
      BY <1>3, <2>8, <3>1, <3>6
    <3> QED
      BY <3>4, <3>5, <3>6
<1>4. CASE TimesOut(~Streaming) /\ Return(FALSE) /\ UNCHANGED <<card, buf>>
  <2>1. late' \in 0 .. Lateness
    BY <1>4, TimesOutIs
  <2>2. Around /\ (Idles' \/ card'.state = "prg")
    BY <1>1, <1>2, <1>4, <2>1 DEF Around, CardMoves, Idles
  <2> QED
    BY <1>1, <1>2, <1>4, <2>2, SdFails
<1> QED
  BY <1>3, <1>4 DEF ReadBlock

LEMMA SdStops ==
    ASSUME Common, SdOK, kind \in {"scsd", "m3sd"}, StopStream, UNCHANGED sram
    PROVE  Common' /\ SdOK'
<1> USE Basics
<1>1. At("stop") /\ op.at \in {"data", "stop"} /\ UNCHANGED <<present, memory, late, port, buf>> /\ kind \in SdKinds
      /\ card' = Stopped /\ Return(TRUE)
  BY DEF StopStream, At, SdKinds
<1>2. /\ Running /\ Reading /\ ~Writing /\ op.fn = "readSectors" /\ started /\ port.media
      /\ Idles \/ card.state = "prg"
      /\ op.i = op.n
      /\ Settled => card.state = "data" /\ card.wide /\ port.addressed
  BY <1>1, AtData
<1>3. /\ card' = card \/ (present /\ card' \in CardRecs /\ card'.state = "tran" /\ card'.pend = card.pend)
      /\ Idles' \/ card'.state = "prg"
      /\ card'.wide = card.wide /\ card'.pend = card.pend
      /\ Hears("stop") => card'.state = "tran"
  <2>1. CASE Hears("stop")
    <3>1. present /\ card.state = "data"
      <4>1. "stop" \in DOMAIN Obeyed /\ Obeyed["stop"] = {"data"}
        BY DEF Obeyed
      <4> QED
        BY <2>1, <4>1, HeardIs
    <3>2. card' = [card EXCEPT !.state = "tran", !.pos = 0, !.left = 0] /\ "tran" \in States /\ 0 \in 0 .. Many
      BY <1>1, <2>1, NumbersAre DEF Stopped, States, Many
    <3>3. card' \in CardRecs /\ card'.state = "tran" /\ card'.pend = card.pend /\ card'.wide = card.wide
      BY <3>2 DEF CardRecs
    <3> QED
      BY <1>2, <3>1, <3>3 DEF Idles
  <2>2. CASE ~Hears("stop")
    BY <1>1, <1>2, <2>2 DEF Stopped, Idles
  <2> QED
    BY <2>1, <2>2
<1>4. kind' = kind
  BY <1>1, ReturnIs
<1>5. Around
  <2>1. card' = card \/ LeftOK'
    BY <1>1, <1>3, <1>4 DEF LeftOK, SdKinds, CfKinds
  <2> QED
    BY <1>1, <1>3, <2>1 DEF Around, CardMoves
<1>6. Completes(TRUE)
  <2>1. Undisturbed => buf' = [j \in 1 .. op.n |-> memory[op.s + j - 1]]
    BY <1>1, <1>2, Filled
  <2>2. Undisturbed => Idles
    <3>1. op.i > 0
      BY <1>2 DEF CallOK
    <3> QED
      BY <1>2, <3>1 DEF Common, Reads
  <2> QED
    BY <1>2, <1>3, <2>1, <2>2 DEF Completes, Knows
<1>7. Common'
  BY <1>1, <1>2, <1>5, <1>6, ReturnHolds
<1>8. Settled' => Ready'
  <2>1. Settled' => Settled
    BY <1>1, <1>2, ReturnIs DEF Settled, Restores
  <2>2. Settled => Hears("stop")
    BY <1>2 DEF Hears, Reached, Obeyed, Addressed, Settled
  <2> QED
    BY <1>1, <1>2, <1>3, <2>1, <2>2 DEF Ready
<1> QED
  BY <1>1, <1>2, <1>3, <1>7, <1>8, SdEnds

LEMMA NjsdReadsBlock ==
    ASSUME Common, SdOK, kind = "njsd", NjsdReadBlock, UNCHANGED sram
    PROVE  Common' /\ SdOK'
<1> USE Basics
<1>1. At("data") /\ op.at \in {"data", "stop"} /\ UNCHANGED <<present, memory, port>> /\ kind \in SdKinds
      /\ Got(IF Streaming THEN Sent ELSE Junk)
  BY DEF NjsdReadBlock, At, SdKinds
<1>2. /\ Running /\ Reading /\ ~Writing /\ op.fn = "readSectors" /\ started /\ port.media
      /\ Idles \/ card.state = "prg"
      /\ op.i < op.n
      /\ Settled => card.state = "data" /\ card.wide /\ port.addressed /\ card.pos = CurrentBlock /\ card.left = IF LastOne THEN 1 ELSE Many
  BY <1>1, AtData
<1>3. CurrentBlock \in Blocks /\ Many \in Nat /\ Many # 1 /\ Many >= 1
  BY <1>2, CurrentIs, NumbersAre DEF Many
<1>4. Settled => Streaming
  BY <1>2, <1>3 DEF Streaming, InState, Reached, Settled
<1>5. Undisturbed => Settled
  BY <1>1, <1>2 DEF Undisturbed, Settled, Notices, CfKinds, Soldered
<1>6. Gets
  <2>1. CASE Streaming
    BY <1>1, <2>1, StreamIs DEF Gets
  <2>2. CASE ~Streaming
    <3>1. Junk \in BlockContents /\ Got(Junk)
      BY <1>1, <2>2 DEF BlockContents
    <3> QED
      BY <1>4, <1>5, <2>2, <3>1 DEF Gets
  <2> QED
    BY <2>1, <2>2
<1>7. buf' \in Seq(BlockContents) /\ Len(buf') = op.i + 1 /\ Len(buf') <= MaxBlocks
  BY <1>2, <1>6, GotIs, NumbersAre
<1>8. CASE /\ card' = IF ~Streaming THEN card
                      ELSE IF op.i + 2 = op.n THEN [AfterSent EXCEPT !.left = 1] ELSE AfterSent
           /\ IF LastOne THEN Return(TRUE) ELSE Streaming /\ NextBlock("data")
           /\ UNCHANGED late
  <2>1. /\ card' = card \/ (present /\ card' \in CardRecs /\ (card'.state = "data" => card'.left >= 1))
        /\ card'.pend = card.pend /\ card'.wide = card.wide
        /\ Idles' \/ card'.state = "prg"
        /\ Streaming => present /\ Idles
        /\ Streaming /\ card.left = 1 => card'.state = "tran"
        /\ Streaming /\ card.left # 1 => card'.state = "data" /\ card'.pos = card.pos + 1
        /\ Streaming /\ card.left = Many => card'.left = IF op.i + 2 = op.n THEN 1 ELSE Many
    <3>1. CASE Streaming
      <4>1. /\ present /\ Idles /\ card.left >= 1
            /\ AfterSent \in CardRecs /\ AfterSent.pend = card.pend /\ AfterSent.wide = card.wide
            /\ card.left = 1 => AfterSent.state = "tran"
            /\ card.left # 1 => AfterSent.state = "data" /\ AfterSent.pos = card.pos + 1 /\ AfterSent.left >= 1
            /\ card.left = Many => AfterSent.left = Many
        BY <1>1, <1>3, <3>1, StreamIs
      <4>2. CASE op.i + 2 = op.n
        <5>1. card' = [AfterSent EXCEPT !.left = 1] /\ 1 \in 0 .. Many
          BY <1>3, <1>8, <3>1, <4>2
        <5>2. card' \in CardRecs /\ card'.pend = AfterSent.pend /\ card'.wide = AfterSent.wide /\ card'.left = 1
              /\ card'.state = AfterSent.state /\ card'.pos = AfterSent.pos
          BY <4>1, <5>1 DEF CardRecs
        <5> QED
          BY <4>1, <4>2, <5>2 DEF Idles
      <4>3. CASE op.i + 2 # op.n
        <5>1. card' = AfterSent
          BY <1>8, <3>1, <4>3
        <5> QED
          BY <4>1, <4>3, <5>1 DEF Idles
      <4> QED
        BY <4>2, <4>3
    <3>2. CASE ~Streaming
      BY <1>2, <1>8, <3>2 DEF Idles
    <3> QED
      BY <3>1, <3>2
  <2>2. kind' = kind => Around
    <3>1. kind' = kind => card' = card \/ LeftOK'
      BY <2>1 DEF LeftOK, CfKinds
    <3> QED
      BY <1>1, <1>8, <2>1, <3>1 DEF Around, CardMoves
  <2>3. CASE LastOne
    <3>1. Return(TRUE) /\ op.i + 1 = op.n
      BY <1>8, <2>3 DEF LastOne
    <3>2. kind' = kind
      BY <3>1, ReturnIs
    <3>3. Completes(TRUE)
      <4>1. Undisturbed => buf' = [j \in 1 .. op.n |-> memory[op.s + j - 1]]
        BY <1>2, <1>6, <1>7, <3>1, Filled
      <4>2. Undisturbed => Idles
        BY <1>4, <1>5, <2>1
      <4> QED
        BY <1>2, <2>1, <4>1, <4>2 DEF Completes, Knows
    <3>4. Common'
      BY <1>2, <1>7, <2>2, <3>1, <3>2, <3>3, ReturnHolds
    <3>5. Settled' => Ready'
      <4>1. Settled' => Settled
        BY <1>1, <1>2, <3>1, ReturnIs DEF Settled, Restores
      <4> QED
        BY <1>1, <1>2, <1>4, <2>1, <2>3, <4>1 DEF Ready
    <3> QED
      BY <1>1, <1>2, <2>1, <3>1, <3>4, <3>5, SdEnds
  <2>4. CASE ~LastOne
    <3>1. Streaming /\ NextBlock("data") /\ op.i + 1 < op.n
      BY <1>2, <1>8, <2>4 DEF LastOne
    <3>2. Advances /\ op'.at = "data" /\ op'.rsp = op.rsp
      BY <1>2, <3>1, NextIs DEF Places
    <3>3. kind' = kind /\ op'.i = op.i + 1 /\ op'.n = op.n /\ op'.s = op.s /\ op'.fn = op.fn /\ UNCHANGED <<started, clean>> /\ Reading'
      BY <1>2, <3>2, SameCall DEF Advances, GoesOn
    <3>4. Common'
      <4>1. ~(op'.at \in Calls) /\ op'.at # "opcond" /\ Delivers
        BY <1>2, <3>2 DEF Calls, Delivers, Knows
      <4> QED
        BY <1>2, <1>6, <2>2, <3>1, <3>2, <3>3, <4>1, AdvanceHolds
    <3>5. SdReady'
      <4>1. (Settled' <=> Settled) /\ CurrentBlock' = CurrentBlock + 1 /\ (LastOne' <=> op.i + 2 = op.n)
        BY <1>1, <3>3 DEF Settled, CurrentBlock, LastOne
      <4>2. Settled => card'.state = "data" /\ card'.wide /\ port'.addressed /\ card'.pos = CurrentBlock' /\ card'.left = IF LastOne' THEN 1 ELSE Many
        BY <1>1, <1>2, <1>3, <2>1, <2>4, <3>1, <4>1
      <4> QED
        BY <1>1, <3>2, <3>3, <4>1, <4>2 DEF SdReady, At, Calls
    <3>6. SdWrite'
      BY <3>2 DEF SdWrite, At
    <3> QED
      BY <1>1, <1>2, <2>1, <3>2, <3>3, <3>4, <3>5, <3>6, SdTransfers
  <2> QED
    BY <2>3, <2>4
<1>9. CASE ~LastOne /\ TimesOut(~Streaming) /\ Return(FALSE) /\ UNCHANGED card
  <2>1. late' \in 0 .. Lateness
    BY <1>9, TimesOutIs
  <2>2. Around /\ (Idles' \/ card'.state = "prg")
    BY <1>1, <1>2, <1>9, <2>1 DEF Around, CardMoves, Idles
  <2>3. Common'
    BY <1>2, <1>7, <1>9, <2>2, ReturnHolds DEF Completes
  <2>4. ~clean'
    BY <1>2, <1>9, ReturnIs DEF Restores
  <2> QED
    BY <1>1, <1>2, <1>9, <2>2, <2>3, <2>4, SdEnds DEF Settled
<1> QED
  BY <1>1, <1>8, <1>9 DEF NjsdReadBlock

(* The card is given the next block of the call.                           *)
LEMMA TakesIs ==
    ASSUME Common, SdOK, kind \in SdKinds, Writing, op.i < op.n, present, Idles, kind' = kind,
           card' = [card EXCEPT !.state = "prg", !.pos = 0, !.pend = [block |-> CurrentBlock, value |-> Value]]
             \/ card' = [card EXCEPT !.state = "prg", !.pend = [block |-> CurrentBlock, value |-> Value]]
    PROVE  /\ card' \in CardRecs /\ LeftOK' /\ Given /\ card'.state = "prg" /\ card'.wide = card.wide /\ CardMoves
           /\ card'.pend = [block |-> CurrentBlock, value |-> DataFor(CurrentBlock)]
<1> USE Basics
<1>1. CurrentBlock \in Blocks /\ CurrentBlock \in Transfers /\ Value = DataFor(CurrentBlock) /\ Value \in BlockContents
  BY CurrentIs, DataIs DEF Writing
<1> DEFINE q == [block |-> CurrentBlock, value |-> Value]
<1>2. q \in PendRecs
  BY <1>1, PendRec
<1>3. card' = [card EXCEPT !.state = "prg", !.pos = 0, !.pend = q] \/ card' = [card EXCEPT !.state = "prg", !.pend = q]
  OBVIOUS
<1> HIDE DEF q
<1>4. card' \in CardRecs /\ card'.state = "prg" /\ card'.wide = card.wide /\ card'.pend = q
  <2>1. "prg" \in States /\ 0 \in Nat
    BY DEF States
  <2> QED
    BY <1>2, <1>3, <2>1 DEF CardRecs
<1>5. LeftOK' /\ CardMoves
  BY <1>4 DEF LeftOK, CardMoves, SdKinds, CfKinds
<1>6. card'.pend = [block |-> CurrentBlock, value |-> Value]
  BY <1>4 DEF q
<1> QED
  BY <1>1, <1>4, <1>5, <1>6 DEF Given

(* The call at its data.                                                   *)
LEMMA AtSend ==
    ASSUME Common, SdOK, kind \in SdKinds, op.at \in {"writeSectors", "send", "programming"}
    PROVE  /\ Running /\ Writing /\ ~Reading /\ op.fn = "writeSectors" /\ started /\ port.media /\ op.i < op.n
           /\ Idles \/ card.state = "prg"
           /\ Settled => card.wide /\ port.addressed
           /\ Settled /\ At("writeSectors") => card.state = "tran"
           /\ CurrentBlock \in Blocks /\ CurrentBlock \in Transfers /\ CurrentBlock \in Nat /\ Value = DataFor(CurrentBlock)
           /\ kind = "m3sd" /\ op.at \in {"writeSectors", "send"} => op.crc = Crc16(Value)
<1> USE Basics
<1>1. Writing /\ (Idles \/ card.state = "prg") /\ port.media
  <2>1. CASE op.at = "writeSectors"
    <3>1. "writeSectors" \in Calls
      BY DEF Calls
    <3>2. Running /\ Writing
      BY <2>1, <3>1, AtCall DEF At
    <3> QED
      BY <2>1, <3>2 DEF SdOK, SdFlow, SdStart, At
  <2>2. CASE op.at \in {"send", "programming"}
    BY <2>2 DEF SdOK, SdFlow, SdStart, At
  <2> QED
    BY <2>1, <2>2
<1>2. Running /\ op.fn = "writeSectors" /\ ~Reading /\ op.i < op.n
  BY <1>1 DEF Reading, Writing, At
<1>3. started
  BY <1>2 DEF CallOK
<1>4. (Settled => card.wide /\ port.addressed) /\ (Settled /\ At("writeSectors") => card.state = "tran")
  BY DEF SdOK, SdReady, Ready, Calls, At
<1>5. kind = "m3sd" /\ op.at \in {"writeSectors", "send"} => op.crc = Crc16(Value)
  BY DEF SdOK, SdWrite
<1>6. CurrentBlock \in Blocks /\ CurrentBlock \in Transfers /\ CurrentBlock \in Nat /\ Value = DataFor(CurrentBlock)
  BY <1>2, CurrentIs
<1> QED
  BY <1>1, <1>2, <1>3, <1>4, <1>5, <1>6

(* A block that goes on in the same call.                                  *)
LEMMA SameBlock ==
    ASSUME Running, Stays
    PROVE  /\ (UNCHANGED present => (Settled' <=> Settled))
           /\ CurrentBlock' = CurrentBlock /\ (LastOne' <=> LastOne) /\ DataFor(CurrentBlock)' = DataFor(CurrentBlock) /\ Value' = Value
           /\ (Writing' <=> Writing) /\ (Reading' <=> Reading) /\ (Knows' <=> Knows) /\ kind' = kind
           /\ started' = started /\ clean' = clean /\ op'.i = op.i /\ op'.n = op.n /\ op'.s = op.s /\ op'.fn = op.fn
BY SameCall DEF Stays, GoesOn, Settled, CurrentBlock, LastOne, DataFor, Value

LEMMA SdSendWrite ==
    ASSUME Common, SdOK, kind \in {"scsd", "m3sd"}, SendWrite, UNCHANGED sram
    PROVE  Common' /\ SdOK'
<1> USE Basics
<1>1. At("writeSectors") /\ op.at \in {"writeSectors", "send", "programming"} /\ UNCHANGED <<present, memory, port, buf>>
      /\ kind \in SdKinds
  BY DEF SendWrite, At, SdKinds
<1>2. /\ Running /\ Writing /\ ~Reading /\ op.fn = "writeSectors" /\ started /\ port.media /\ op.i < op.n
      /\ Idles \/ card.state = "prg"
      /\ Settled => card.wide /\ port.addressed
      /\ CurrentBlock \in Blocks /\ CurrentBlock \in Nat
      /\ kind = "m3sd" => op.crc = Crc16(Value)
  BY <1>1, AtSend DEF At
<1>3. PICK answered \in Command("write") :
         /\ Waited("write", answered) /\ card' = Receives
         /\ IF answered THEN GoTo("send") ELSE Return(FALSE)
  BY DEF SendWrite
<1>4. late' \in 0 .. Lateness /\ answered \in BOOLEAN /\ (answered => Hears("write"))
  BY <1>1, <1>3, AnswerIs
<1>5. /\ card' = card \/ (present /\ card' \in CardRecs /\ card'.state = "rcv")
      /\ card'.pend = card.pend
      /\ Idles' \/ card'.state = "prg"
      /\ card'.wide = card.wide
      /\ Hears("write") => card'.state = "rcv" /\ card'.pos = CurrentBlock
  <2>1. CASE Hears("write")
    <3>1. present /\ card.state = "tran"
      <4>1. "write" \in DOMAIN Obeyed /\ Obeyed["write"] = {"tran"}
        BY DEF Obeyed
      <4> QED
        BY <2>1, <4>1, HeardIs
    <3> DEFINE p == CurrentBlock
    <3>2. card' = [card EXCEPT !.state = "rcv", !.pos = p] /\ p \in Nat /\ "rcv" \in States
      BY <1>2, <1>3, <2>1 DEF Receives, States, CurrentBlock
    <3> HIDE DEF p
    <3>3. card' \in CardRecs /\ card'.state = "rcv" /\ card'.pos = p /\ card'.pend = card.pend /\ card'.wide = card.wide
      BY <3>2 DEF CardRecs
    <3> QED
      BY <1>2, <3>1, <3>3 DEF Idles, p
  <2>2. CASE ~Hears("write")
    BY <1>2, <1>3, <2>2 DEF Receives, Idles
  <2> QED
    BY <2>1, <2>2
<1>6. kind' = kind => Around
  <2>1. kind' = kind => card' = card \/ LeftOK'
    BY <1>1, <1>5 DEF LeftOK, SdKinds, CfKinds
  <2> QED
    BY <1>1, <1>4, <1>5, <2>1 DEF Around, CardMoves
<1>7. CASE answered
  <2>1. Stays /\ op'.at = "send" /\ op'.rsp = op.rsp /\ op'.crc = op.crc
    BY <1>3, <1>7, GoToIs DEF Places
  <2>2. /\ CurrentBlock' = CurrentBlock /\ Value' = Value /\ Writing' /\ kind' = kind /\ (Settled' <=> Settled)
    BY <1>1, <1>2, <2>1, SameBlock
  <2>3. Common'
    <3>1. ~(op'.at \in Calls) /\ op'.at # "opcond"
      BY <2>1 DEF Calls
    <3> QED
      BY <1>1, <1>2, <1>6, <2>1, <2>2, <3>1, StayHolds
  <2>4. SdReady'
    BY <1>1, <1>2, <1>5, <2>1, <2>2 DEF SdReady, At, Calls
  <2>5. SdWrite'
    BY <1>2, <1>4, <1>5, <1>7, <2>1, <2>2 DEF SdWrite, At
  <2> QED
    BY <1>1, <1>2, <1>5, <2>1, <2>2, <2>3, <2>4, <2>5, SdTransfers
<1>8. CASE ~answered
  <2>1. Return(FALSE) /\ kind' = kind
    BY <1>3, <1>8, ReturnIs
  <2> QED
    BY <1>1, <1>2, <1>5, <1>6, <2>1, SdFails
<1> QED
  BY <1>4, <1>7, <1>8

(* A block that was sent is programmed, unless the card is gone.           *)
LEMMA SdProgramming ==
    ASSUME Common, SdOK, kind \in SdKinds, op.at \in {"writeSectors", "send", "programming"}, Stays, op'.at = "programming",
           Around, UNCHANGED <<present, port, buf>>, op'.rsp = op.rsp,
           Idles' \/ card'.state = "prg", Settled => card'.wide,
           present /\ Knows => card'.state = "prg" /\ card'.pend = [block |-> CurrentBlock, value |-> DataFor(CurrentBlock)],
           kind = "m3sd" /\ ~LastOne => op'.crc = Crc16(Value + 1)
    PROVE  Common' /\ SdOK'
<1> USE Basics
<1>1. /\ Running /\ Writing /\ ~Reading /\ op.fn = "writeSectors" /\ started /\ port.media /\ op.i < op.n
      /\ Settled => port.addressed
  BY AtSend
<1>2. /\ CurrentBlock' = CurrentBlock /\ Value' = Value /\ Writing' /\ kind' = kind /\ (Settled' <=> Settled) /\ (LastOne' <=> LastOne)
      /\ (Knows' <=> Knows) /\ DataFor(CurrentBlock)' = DataFor(CurrentBlock)
  BY <1>1, SameBlock
<1>3. Common'
  <2>1. ~(op'.at \in Calls) /\ op'.at # "opcond"
    BY DEF Calls
  <2> QED
    BY <1>1, <2>1, StayHolds
<1>4. SdReady'
  BY <1>1, <1>2 DEF SdReady, At, Calls
<1>5. SdWrite'
  BY <1>2 DEF SdWrite, At, Pends
<1> QED
  BY <1>1, <1>2, <1>3, <1>4, <1>5, SdTransfers

LEMMA SdWritesData ==
    ASSUME Common, SdOK, kind \in {"scsd", "m3sd"}, ScsdWriteData \/ M3sdWriteData, UNCHANGED sram
    PROVE  Common' /\ SdOK'
<1> USE Basics
<1>1. At("send") /\ op.at \in {"writeSectors", "send", "programming"} /\ UNCHANGED <<present, memory, port, buf>> /\ kind \in SdKinds
  BY DEF ScsdWriteData, M3sdWriteData, At, SdKinds
<1>2. /\ Running /\ Writing /\ ~Reading /\ op.fn = "writeSectors" /\ started /\ port.media /\ op.i < op.n
      /\ Idles \/ card.state = "prg"
      /\ Settled => card.wide /\ port.addressed
      /\ CurrentBlock \in Blocks /\ CurrentBlock \in Transfers /\ Value = DataFor(CurrentBlock)
      /\ kind = "m3sd" => op.crc = Crc16(Value)
  BY <1>1, AtSend DEF At
<1>3. card' = Takes(Crc16(Value))
  BY <1>2 DEF ScsdWriteData, M3sdWriteData
<1>4. present => card.state = "rcv" /\ card.pos = CurrentBlock /\ InState("rcv")
  BY <1>1, <1>2 DEF SdOK, SdWrite, InState, Reached, At
<1>5. ASSUME M3sdWriteData
      PROVE  Stays /\ op'.at = "programming" /\ op'.rsp = op.rsp /\ (~LastOne => op'.crc = Crc16(Value + 1)) /\ late' \in 0 .. Lateness
  <2> DEFINE c == IF LastOne THEN op.crc ELSE Crc16(Value + 1)
  <2>1. Value + 1 \in Nat /\ op.crc \in Sums
    BY <1>2, DataIs, CallFields
  <2>2. Crc16(Value + 1) \in Sums
    BY <2>1 DEF Sums
  <2>3. op' = [op EXCEPT !.at = "programming", !.tries = 0, !.crc = c] /\ c \in Sums /\ "programming" \in Places /\ 0 \in 0 .. Tries
    BY <1>5, <2>1, <2>2, NumbersAre DEF M3sdWriteData, Places
  <2>4. ~LastOne => c = Crc16(Value + 1)
    OBVIOUS
  <2> HIDE DEF c
  <2>5. op' \in CallRecs /\ op'.fn = op.fn /\ op'.s = op.s /\ op'.n = op.n /\ op'.i = op.i /\ op'.at = "programming"
        /\ op'.rsp = op.rsp /\ op'.crc = c
    BY <2>3 DEF CallRecs
  <2>6. UNCHANGED <<kind, written, started, clean, owed>> /\ late' \in 0 .. Lateness
    BY <1>5 DEF M3sdWriteData
  <2> QED
    BY <2>4, <2>5, <2>6 DEF Stays, GoesOn
<1>6. \/ Return(FALSE) /\ late' \in 0 .. Lateness
      \/ Stays /\ op'.at = "programming" /\ op'.rsp = op.rsp /\ (kind = "m3sd" /\ ~LastOne => op'.crc = Crc16(Value + 1)) /\ late' \in 0 .. Lateness
  <2>1. CASE ScsdWriteData /\ GoTo("programming") /\ UNCHANGED late
    <3>1. Stays /\ op'.at = "programming" /\ op'.rsp = op.rsp /\ kind = "scsd"
      BY <2>1, GoToIs DEF Places, ScsdWriteData
    <3> QED
      BY <2>1, <3>1
  <2> QED
    BY <1>5, <2>1, TimesOutIs DEF ScsdWriteData
<1>7. kind' = kind
  BY <1>6, ReturnIs DEF Stays, GoesOn
<1>8. /\ Around /\ (Idles' \/ card'.state = "prg") /\ (Settled => card'.wide)
      /\ present => card'.state = "prg" /\ card'.pend = [block |-> CurrentBlock, value |-> DataFor(CurrentBlock)]
  <2>1. CASE present
    <3>1. card' = [card EXCEPT !.state = "prg", !.pos = 0, !.pend = [block |-> CurrentBlock, value |-> Value]] /\ Idles
      BY <1>2, <1>3, <1>4, <2>1 DEF Takes
    <3>2. /\ LeftOK' /\ Given /\ card'.state = "prg" /\ card'.wide = card.wide /\ CardMoves
          /\ card'.pend = [block |-> CurrentBlock, value |-> DataFor(CurrentBlock)]
      BY <1>1, <1>2, <1>7, <2>1, <3>1, TakesIs
    <3> QED
      BY <1>1, <1>2, <1>6, <3>2 DEF Around
  <2>2. CASE ~present
    <3>1. card' = card
      BY <1>3, <2>2 DEF Takes, InState, Reached
    <3> QED
      BY <1>1, <1>2, <1>6, <2>2, <3>1 DEF Around, CardMoves, Idles
  <2> QED
    BY <2>1, <2>2
<1>9. CASE Return(FALSE)
  BY <1>1, <1>2, <1>8, <1>9, SdFails
<1>10. CASE Stays /\ op'.at = "programming" /\ op'.rsp = op.rsp /\ (kind = "m3sd" /\ ~LastOne => op'.crc = Crc16(Value + 1))
  BY <1>1, <1>8, <1>10, SdProgramming
<1> QED
  BY <1>6, <1>9, <1>10

LEMMA NjsdWrites ==
    ASSUME Common, SdOK, kind = "njsd", NjsdWriteBlock, UNCHANGED sram
    PROVE  Common' /\ SdOK'
<1> USE Basics
<1>1. At("writeSectors") /\ op.at \in {"writeSectors", "send", "programming"} /\ UNCHANGED <<present, memory, port, buf>>
      /\ kind \in SdKinds
  BY DEF NjsdWriteBlock, At, SdKinds
<1>2. /\ Running /\ Writing /\ ~Reading /\ op.fn = "writeSectors" /\ started /\ port.media /\ op.i < op.n
      /\ Idles \/ card.state = "prg"
      /\ Settled => card.wide /\ port.addressed /\ card.state = "tran"
  BY <1>1, AtSend DEF At
<1>3. \/ Return(FALSE) /\ late' \in 0 .. Lateness
      \/ Stays /\ op'.at = "programming" /\ op'.rsp = op.rsp /\ late' \in 0 .. Lateness
  <2>1. CASE GoTo("programming") /\ UNCHANGED late
    BY <2>1, GoToIs DEF Places
  <2> QED
    BY <2>1, TimesOutIs DEF NjsdWriteBlock
<1>4. kind' = kind
  BY <1>3, ReturnIs DEF Stays, GoesOn
<1>5. Settled => Hears("write")
  BY <1>2 DEF Hears, Reached, Obeyed, Addressed, Settled
<1>6. /\ Around /\ (Idles' \/ card'.state = "prg") /\ (Settled => card'.wide)
      /\ Hears("write") => card'.state = "prg" /\ card'.pend = [block |-> CurrentBlock, value |-> DataFor(CurrentBlock)]
  <2>1. CASE Hears("write")
    <3>1. present /\ card.state = "tran"
      <4>1. "write" \in DOMAIN Obeyed /\ Obeyed["write"] = {"tran"}
        BY DEF Obeyed
      <4> QED
        BY <2>1, <4>1, HeardIs
    <3>2. card' = [card EXCEPT !.state = "prg", !.pend = [block |-> CurrentBlock, value |-> Value]]
      BY <2>1 DEF NjsdWriteBlock, CurrentBlock
    <3>3. /\ LeftOK' /\ Given /\ card'.state = "prg" /\ card'.wide = card.wide /\ CardMoves
          /\ card'.pend = [block |-> CurrentBlock, value |-> DataFor(CurrentBlock)]
      BY <1>1, <1>2, <1>4, <3>1, <3>2, TakesIs
    <3> QED
      BY <1>1, <1>2, <1>3, <3>3 DEF Around
  <2>2. CASE ~Hears("write")
    <3>1. card' = card
      BY <2>2 DEF NjsdWriteBlock
    <3> QED
      BY <1>1, <1>2, <1>3, <2>2, <3>1 DEF Around, CardMoves, Idles
  <2> QED
    BY <2>1, <2>2
<1>7. CASE Return(FALSE)
  BY <1>1, <1>2, <1>6, <1>7, SdFails
<1>8. CASE Stays /\ op'.at = "programming" /\ op'.rsp = op.rsp
  <2>1. present /\ Knows => Settled
    BY <1>2 DEF Knows, Settled
  <2> QED
    BY <1>1, <1>5, <1>6, <1>8, <2>1, SdProgramming
<1> QED
  BY <1>3, <1>7, <1>8

LEMMA SdPolls ==
    ASSUME Common, SdOK, kind \in SdKinds, PollStatus, UNCHANGED sram
    PROVE  Common' /\ SdOK'
<1> USE Basics
<1>1. At("programming") /\ op.at \in {"writeSectors", "send", "programming"} /\ UNCHANGED <<present, memory, card, port, buf>>
  BY DEF PollStatus, At
<1>2. /\ Running /\ Writing /\ ~Reading /\ op.fn = "writeSectors" /\ started /\ port.media /\ op.i < op.n
      /\ Idles \/ card.state = "prg"
      /\ Settled => card.wide /\ port.addressed
      /\ CurrentBlock \in Blocks /\ CurrentBlock \in Transfers /\ Value = DataFor(CurrentBlock)
  BY <1>1, AtSend
<1>3. /\ present /\ Knows => \/ card.state = "prg" /\ Pends(CurrentBlock)
                             \/ card.state = "tran" /\ Stored
      /\ kind = "m3sd" /\ ~LastOne => op.crc = Crc16(Value + 1)
  BY <1>1 DEF SdOK, SdWrite
<1>4. PICK answered \in Command("status") :
         /\ Waited("status", answered)
         /\ CASE op.tries + 1 >= Tries -> Return(FALSE)
              [] op.tries + 1 < Tries /\ ~(answered /\ card.state = "tran") -> TryAgain("programming")
              [] op.tries + 1 < Tries /\ answered /\ card.state = "tran" ->
                   IF LastOne THEN Return(TRUE) ELSE NextBlock("writeSectors")
  BY DEF PollStatus
<1>5. late' \in 0 .. Lateness /\ answered \in BOOLEAN /\ (answered => Hears("status"))
  BY <1>4, AnswerIs
<1>6. \/ Return(FALSE)
      \/ op.tries + 1 < Tries /\ TryAgain("programming")
      \/ answered /\ card.state = "tran" /\ (IF LastOne THEN Return(TRUE) ELSE NextBlock("writeSectors"))
  <2>1. op.tries + 1 >= Tries \/ op.tries + 1 < Tries
    BY NumbersAre
  <2> QED
    BY <1>4, <1>5, <2>1
<1>7. Around /\ (Idles' \/ card'.state = "prg")
  BY <1>1, <1>2, <1>5 DEF Around, CardMoves, Idles
<1>8. CASE Return(FALSE)
  BY <1>1, <1>2, <1>7, <1>8, SdFails
<1>9. CASE op.tries + 1 < Tries /\ TryAgain("programming")
  <2>1. op.tries < Tries
    BY <1>9, NumbersAre
  <2>2. Stays /\ op'.at = "programming" /\ op'.rsp = op.rsp /\ op'.crc = op.crc
    BY <1>9, <2>1, TryIs DEF Places
  <2>3. /\ CurrentBlock' = CurrentBlock /\ Value' = Value /\ Writing' /\ kind' = kind /\ (Settled' <=> Settled) /\ (LastOne' <=> LastOne)
        /\ (Knows' <=> Knows) /\ DataFor(CurrentBlock)' = DataFor(CurrentBlock)
    BY <1>1, <1>2, <2>2, SameBlock
  <2>4. Common'
    <3>1. ~(op'.at \in Calls) /\ op'.at # "opcond"
      BY <2>2 DEF Calls
    <3> QED
      BY <1>1, <1>2, <1>7, <2>2, <3>1, StayHolds
  <2>5. SdReady'
    BY <1>1, <1>2, <2>2, <2>3 DEF SdReady, At, Calls
  <2>6. SdWrite'
    BY <1>1, <1>3, <2>2, <2>3 DEF SdWrite, At, Pends, Stored
  <2> QED
    BY <1>1, <1>2, <1>7, <2>2, <2>3, <2>4, <2>5, <2>6, SdTransfers
<1>10. CASE answered /\ card.state = "tran" /\ (IF LastOne THEN Return(TRUE) ELSE NextBlock("writeSectors"))
  <2>1. present /\ Idles /\ (Knows => Stored)
    <3>1. present
      <4>1. "status" \in DOMAIN Obeyed
        BY DEF Obeyed
      <4> QED
        BY <1>5, <1>10, <4>1, HeardIs
    <3> QED
      BY <1>2, <1>3, <1>10, <3>1
  <2>2. Delivers
    BY <1>1, <2>1 DEF Delivers
  <2>3. CASE LastOne
    <3>1. Return(TRUE)
      BY <1>10, <2>3
    <3>2. Completes(TRUE)
      BY <1>2, <2>2, <2>3 DEF Completes
    <3>3. Common'
      BY <1>1, <1>2, <1>7, <3>1, <3>2, ReturnHolds
    <3>4. Settled' => Ready'
      <4>1. Settled' => Settled
        BY <1>1, <1>2, <3>1, ReturnIs DEF Settled, Restores
      <4> QED
        BY <1>1, <1>2, <1>10, <4>1 DEF Ready
    <3> QED
      BY <1>1, <1>2, <1>7, <3>1, <3>3, <3>4, SdEnds
  <2>4. CASE ~LastOne
    <3>1. NextBlock("writeSectors") /\ op.i + 1 < op.n
      BY <1>2, <1>10, <2>4 DEF LastOne
    <3>2. Advances /\ op'.at = "writeSectors" /\ op'.rsp = op.rsp /\ op'.crc = op.crc
      BY <1>2, <3>1, NextIs DEF Places, Calls
    <3>3. /\ kind' = kind /\ op'.i = op.i + 1 /\ op'.n = op.n /\ op'.s = op.s /\ op'.fn = op.fn /\ UNCHANGED <<started, clean>>
      BY <3>2 DEF Advances, GoesOn
    <3>4. Common'
      BY <1>1, <1>2, <1>7, <2>2, <3>1, <3>2, AdvanceHolds
    <3>5. SdFlow'
      BY <1>1, <1>2, <1>7, <3>2, <3>3 DEF SdFlow, At, Calls, Starting
    <3>6. SdStart'
      BY <1>2, <3>2 DEF SdStart, At
    <3>7. SdReady'
      BY <1>1, <1>2, <1>10, <3>2, <3>3 DEF SdReady, At, Calls, Ready, Settled
    <3>8. SdWrite'
      <4>1. Value' = Value + 1
        BY <3>3 DEF Value, DataFor, New
      <4> QED
        BY <1>3, <2>4, <3>2, <3>3, <4>1 DEF SdWrite, At
    <3> QED
      BY <3>4, <3>5, <3>6, <3>7, <3>8 DEF SdOK
  <2> QED
    BY <2>3, <2>4
<1> QED
  BY <1>6, <1>8, <1>9, <1>10

LEMMA SdOutside ==
    ASSUME Common, SdOK, kind \in SdKinds, Call \/ Pull \/ Programmed \/ PowerCycle, UNCHANGED sram
    PROVE  SdOK'
<1> USE Basics
<1>1. CASE Call
  <2>1. /\ At("done") /\ op'.at \in Calls /\ UNCHANGED <<kind, present, card, port, started, clean>>
        /\ op'.fn = "startUp" <=> ~started
        /\ op'.at = op'.fn /\ op'.crc = Crc16(New) /\ op'.rsp = "none" /\ op'.i = 0 /\ op'.s \in Nat
    BY <1>1, CallIs DEF CallRecs, Blocks
  <2>2. Value' = New
    BY <2>1 DEF Value, DataFor, New
  <2>3. SdFlow'
    BY <2>1 DEF SdOK, SdFlow, At, Calls, Starting, Idles
  <2>4. SdStart'
    BY <2>1 DEF SdStart, At, Calls
  <2>5. SdReady'
    BY <2>1 DEF SdOK, SdReady, At, Calls, Settled, Ready
  <2>6. SdWrite'
    BY <2>1, <2>2 DEF SdWrite, At, Calls
  <2> QED
    BY <2>3, <2>4, <2>5, <2>6 DEF SdOK
<1>2. CASE Pull
  <2>1. /\ ~present' /\ card'.pend = Nothing /\ card'.state = "off" /\ UNCHANGED <<kind, port, op, started, clean>>
    BY <1>2, PullHolds
  <2>2. SdFlow'
    BY <2>1 DEF SdOK, SdFlow, At, Idles, Reading, Writing, Running
  <2>3. SdStart'
    BY <2>1 DEF SdOK, SdStart, At
  <2>4. SdReady'
    BY <2>1 DEF SdReady, Settled
  <2>5. SdWrite'
    BY <2>1 DEF SdOK, SdWrite, At, Value, DataFor, LastOne
  <2> QED
    BY <2>2, <2>3, <2>4, <2>5 DEF SdOK
<1>3. CASE Programmed
  <2>1. /\ present /\ ~Idles /\ card'.pend = Nothing /\ card'.state = (IF card.state = "prg" THEN "tran" ELSE card.state)
        /\ card'.pos = card.pos /\ card'.left = card.left /\ card'.wide = card.wide
        /\ memory'[card.pend.block] = card.pend.value
        /\ UNCHANGED <<kind, present, port, op, started, clean>>
    BY <1>3, ProgrammedHolds
  <2>2. card.state = "prg" /\ card'.state = "tran"
    BY <2>1 DEF SdOK, SdFlow
  <2>3. /\ CurrentBlock' = CurrentBlock /\ Value' = Value /\ Idles' /\ (Reading' <=> Reading) /\ (Writing' <=> Writing) /\ (LastOne' <=> LastOne)
        /\ (Settled' <=> Settled) /\ (Knows' <=> Knows)
    BY <2>1 DEF CurrentBlock, Idles, Reading, Writing, Running, At, Value, DataFor, LastOne, Settled, Knows
  <2>4. SdFlow'
    BY <2>1, <2>3 DEF SdOK, SdFlow, At
  <2>5. SdStart'
    BY <2>1, <2>2 DEF SdOK, SdStart, At, Ready
  <2>6. SdReady'
    BY <2>1, <2>2, <2>3 DEF SdOK, SdReady, At, Ready
  <2>7. SdWrite'
    <3>1. At("programming") /\ present /\ Knows => Stored'
      <4> SUFFICES ASSUME At("programming"), present, Knows PROVE Stored'
        OBVIOUS
      <4>1. Pends(CurrentBlock)
        BY <2>2 DEF SdOK, SdWrite
      <4>2. CurrentBlock \in Transfers /\ Value = DataFor(CurrentBlock)
        <5>1. op.at \in {"writeSectors", "send", "programming"}
          BY DEF At
        <5> QED
          BY <5>1, AtSend
      <4>3. card.pend.block = CurrentBlock /\ card.pend.value = DataFor(CurrentBlock)
        BY <4>1, <4>2, PendIs
      <4> QED
        BY <2>1, <2>3, <4>2, <4>3 DEF Stored
    <3>2. ~(At("send") /\ present)
      BY <2>2 DEF SdOK, SdWrite
    <3> QED
      BY <2>1, <2>2, <2>3, <3>1, <3>2 DEF SdOK, SdWrite, At
  <2> QED
    BY <2>4, <2>5, <2>6, <2>7 DEF SdOK
<1>4. CASE PowerCycle
  <2>1. ~started' /\ op'.at = "done" /\ op'.rsp = "none" /\ port' = PortOn(kind) /\ kind' = kind /\ card'.pend = Nothing
    BY <1>4, PowerHolds
  <2>2. kind = "njsd" => PortOn(kind).media
    <3> DEFINE m == kind \in {"njsd", "mpcf", "mmcf", "ak2"}
               a == FALSE
    <3>1. PortOn(kind) = [media |-> m, addressed |-> a]
      BY Zenon DEF PortOn
    <3>2. PortOn(kind).media = m
      BY <3>1
    <3> QED
      BY <3>2
  <2>3. SdFlow'
    BY <2>1, <2>2 DEF SdFlow, At, Calls, Starting, Idles
  <2>4. SdStart' /\ SdReady' /\ SdWrite'
    BY <2>1 DEF SdStart, SdReady, SdWrite, At, Settled
  <2> QED
    BY <2>3, <2>4 DEF SdOK
<1> QED
  BY <1>1, <1>2, <1>3, <1>4

(* Any step of the three SD adapters.                                      *)
LEMMA SdHolds ==
    ASSUME Common, SdOK, SdAdapterNext, UNCHANGED sram
    PROVE  Common' /\ SdOK' /\ kind \in SdKinds
<1>1. CASE ScsdStartUp \/ M3sdStartUp \/ NjsdStartUp
  BY <1>1, SdStartUps DEF ScsdStartUp, M3sdStartUp, NjsdStartUp, SdKinds
<1>2. CASE ScsdInitCard \/ M3sdInitCard \/ NjsdCardInit
  BY <1>2, SdInitCards DEF ScsdInitCard, M3sdInitCard, NjsdCardInit, SdKinds
<1>3. CASE ScsdIsInserted \/ M3sdIsInserted \/ NjsdIsInserted \/ NjsdClearStatus \/ ScsdShutdown \/ M3sdShutdown
  BY <1>3, SdOthers DEF ScsdIsInserted, M3sdIsInserted, NjsdIsInserted, NjsdClearStatus, ScsdShutdown, M3sdShutdown, SdKinds
<1>4. CASE ScsdReadData \/ M3sdReadData
  BY <1>4, SdReadsBlock DEF ScsdReadData, M3sdReadData, SdKinds
<1>5. CASE ScsdReadSectors \/ M3sdReadSectors \/ NjsdReadSectors
  <2>1. kind \in SdKinds
    BY <1>5 DEF ScsdReadSectors, M3sdReadSectors, NjsdReadSectors, SdKinds
  <2>2. CASE StopStream /\ kind \in {"scsd", "m3sd"}
    BY <2>1, <2>2, SdStops
  <2>3. CASE NjsdReadBlock /\ kind = "njsd"
    BY <2>1, <2>3, NjsdReadsBlock
  <2>4. CASE At("readSectors") /\ GoTo("data") /\ card' = ReadFrom(Left) /\ UNCHANGED <<present, memory, late, port, buf>>
    BY <2>1, <2>4, SdSendRead
  <2>5. CASE At("readSectors") /\ Return(FALSE) /\ UNCHANGED <<present, memory, card, late, port, buf>>
    <3>1. Running /\ op.fn = "readSectors" /\ (Idles \/ card.state = "prg")
      <4>1. "readSectors" \in Calls
        BY DEF Calls
      <4> QED
        BY <2>1, <2>5, <4>1, AtCall, Basics DEF SdOK, SdFlow
    <3>2. Around /\ (Idles' \/ card'.state = "prg")
      BY <2>5, <3>1, Basics DEF Around, CardMoves, Idles
    <3> QED
      BY <2>1, <2>5, <3>1, <3>2, SdFails
  <2> QED
    BY <1>5, <2>2, <2>3, <2>4, <2>5 DEF ScsdReadSectors, M3sdReadSectors, NjsdReadSectors, SendRead, NjsdSendRead
<1>6. CASE ScsdWriteData \/ M3sdWriteData
  BY <1>6, SdWritesData DEF ScsdWriteData, M3sdWriteData, SdKinds
<1>7. CASE ScsdWriteSectors \/ M3sdWriteSectors \/ NjsdWriteSector
  BY <1>7, SdSendWrite, SdPolls, NjsdWrites DEF ScsdWriteSectors, M3sdWriteSectors, NjsdWriteSector, SdKinds
<1>8. CASE InitCard
  <2>1. kind \in SdKinds
    BY <1>8 DEF InitCard, AppCmd, OpCond, AllSendCid, SendRelativeAddr, SelectCard, SetBusWidth, WaitStatus
  <2> QED
    BY <1>8, <2>1, SdAppCmd, SdOpCond, SdCid, SdAddress, SdSelect, SdWidth, SdStatus DEF InitCard
<1> QED
  BY <1>1, <1>2, <1>3, <1>4, <1>5, <1>6, <1>7, <1>8 DEF SdAdapterNext

-----------------------------------------------------------------------------
(* The Acekard.                                                            *)

LEMMA AkEnds ==
    ASSUME CallTypes, kind = "ak", NEW ok \in BOOLEAN, Return(ok), started' => port'.media,
           present' => card'.state = "tran" /\ Idles'
    PROVE  AkOK'
<1>1. op'.at = "done"
  BY ReturnIs
<1> QED
  BY <1>1 DEF AkOK, At

(* Between two calls the card is ready.                                    *)
LEMMA AkCalls ==
    ASSUME Common, AkOK, kind = "ak", NEW a \in Calls, At(a)
    PROVE  /\ op.fn = a /\ Running /\ (Reading <=> a = "readSectors") /\ (Writing <=> a = "writeSectors") /\ op.i < op.n
           /\ present => card.state = "tran" /\ Idles
           /\ a # "startUp" => started /\ port.media
<1> USE Basics
<1>1. op.fn = a /\ Running /\ (Reading <=> a = "readSectors") /\ (Writing <=> a = "writeSectors")
  BY AtCall
<1>2. op.at # "stop" /\ op.at # "busy" /\ op.at # "done"
  BY DEF At, Calls
<1>3. a # "startUp" => started
  BY <1>1 DEF CallOK
<1> QED
  BY <1>1, <1>2, <1>3 DEF AkOK, At

LEMMA AkSets ==
    ASSUME Common, AkOK, kind = "ak", AkStartUp \/ AkOthers
    PROVE  Common' /\ AkOK'
<1> USE Basics
<1>1. PICK a \in {"startUp", "isInserted", "clearStatus", "shutdown"} : At(a)
  BY DEF AkStartUp, AkOthers, At
<1>2. Running /\ ~Reading /\ ~Writing /\ (present => card.state = "tran" /\ Idles) /\ (a # "startUp" => port.media) /\ a \in Calls
  <2>1. a \in Calls
    BY DEF Calls
  <2> QED
    BY <1>1, <2>1, AkCalls
<1>3. Return(TRUE) /\ UNCHANGED <<present, memory, card, late, buf, sram>>
  BY DEF AkStartUp, AkOthers, cardVars
<1>4. port' \in PortRecs /\ port'.media
  <2>1. CASE AkStartUp
    BY <2>1, MediaIs DEF AkStartUp
  <2>2. CASE AkOthers
    BY <1>1, <1>2, <2>2 DEF AkOthers, At
  <2> QED
    BY <2>1, <2>2
<1>5. Common'
  BY <1>2, <1>3, <1>4, QuietReturn
<1> QED
  BY <1>2, <1>3, <1>4, <1>5, AkEnds DEF Idles

LEMMA AkReadsSectors ==
    ASSUME Common, AkOK, kind = "ak", AkReadSectors
    PROVE  Common' /\ AkOK'
<1> USE Basics
<1>1. At("readSectors") /\ UNCHANGED <<present, memory, card, late, port, sram>> /\ Got(AkReads(CurrentBlock))
      /\ (IF LastOne THEN Return(TRUE) ELSE NextBlock("readSectors"))
  BY DEF AkReadSectors, cardVars, CurrentBlock
<1>2. /\ Running /\ Reading /\ ~Writing /\ op.fn = "readSectors" /\ started /\ port.media /\ op.i < op.n
      /\ present => card.state = "tran" /\ Idles
  <2>1. "readSectors" \in Calls
    BY DEF Calls
  <2> QED
    BY <1>1, <2>1, AkCalls
<1>3. Gets
  <2>1. CurrentBlock \in Blocks
    BY <1>2, CurrentIs
  <2>2. AkReads(CurrentBlock) \in BlockContents
    BY <2>1 DEF AkReads, DataTypes, BlockContents
  <2>3. Undisturbed => AkReads(CurrentBlock) = memory[CurrentBlock] /\ Idles
    BY <1>2 DEF Undisturbed, Notices, CfKinds, Soldered, AkReads, InState, Reached
  <2> QED
    BY <1>1, <2>2, <2>3 DEF Gets
<1>4. ASSUME kind' = kind PROVE Around
  BY <1>1, <1>4 DEF Around, CardMoves
<1>5. CASE LastOne
  <2>1. Return(TRUE) /\ op.i + 1 = op.n
    BY <1>1, <1>5 DEF LastOne
  <2>2. buf' \in Seq(BlockContents) /\ Len(buf') <= MaxBlocks /\ kind' = kind
    BY <1>2, <1>3, <2>1, GotIs, ReturnIs
  <2>3. Completes(TRUE)
    <3>1. Undisturbed => buf' = [j \in 1 .. op.n |-> memory[op.s + j - 1]]
      BY <1>2, <1>3, <2>1, <2>2, Filled
    <3>2. Undisturbed => Idles
      BY <1>3 DEF Gets
    <3> QED
      BY <1>1, <1>2, <3>1, <3>2 DEF Completes, Knows
  <2>4. Common'
    BY <1>2, <1>4, <2>1, <2>2, <2>3, ReturnHolds
  <2> QED
    BY <1>1, <1>2, <2>1, <2>4, AkEnds DEF Idles
<1>6. CASE ~LastOne
  <2>1. NextBlock("readSectors") /\ op.i + 1 < op.n
    BY <1>1, <1>2, <1>6 DEF LastOne
  <2>2. Advances /\ op'.at = "readSectors"
    BY <1>2, <2>1, NextIs DEF Places, Calls
  <2>3. kind' = kind /\ started' = started
    BY <2>2 DEF Advances, GoesOn
  <2>4. Common'
    <3>1. Delivers
      BY <1>2 DEF Delivers, Knows
    <3> QED
      BY <1>2, <1>3, <1>4, <2>1, <2>2, <2>3, <3>1, AdvanceHolds
  <2> QED
    BY <1>1, <1>2, <2>2, <2>3, <2>4 DEF AkOK, At, Calls, Idles
<1> QED
  BY <1>5, <1>6

LEMMA AkSends ==
    ASSUME Common, AkOK, kind = "ak", AkSend
    PROVE  Common' /\ AkOK'
<1> USE Basics
<1>1. At("writeSectors") /\ UNCHANGED <<present, memory, port, buf, sram, kind, written, started, clean, owed>>
      /\ op' = [op EXCEPT !.at = "busy"]
  BY DEF AkSend
<1>2. /\ Running /\ Writing /\ ~Reading /\ op.fn = "writeSectors" /\ started /\ port.media /\ op.i < op.n
      /\ present => card.state = "tran" /\ Idles
  <2>1. "writeSectors" \in Calls
    BY DEF Calls
  <2> QED
    BY <1>1, <2>1, AkCalls
<1>3. Stays /\ op'.at = "busy"
  <2>1. op' \in CallRecs /\ op'.fn = op.fn /\ op'.s = op.s /\ op'.n = op.n /\ op'.i = op.i /\ op'.at = "busy"
    <3>1. "busy" \in Places
      BY DEF Places
    <3> QED
      BY <1>1, <3>1 DEF CallRecs
  <2> QED
    BY <1>1, <2>1 DEF Stays, GoesOn
<1>4. CurrentBlock' = CurrentBlock /\ DataFor(CurrentBlock)' = DataFor(CurrentBlock) /\ Writing' /\ kind' = kind
  BY <1>2, <1>3, SameBlock
<1>5. /\ Around
      /\ present => \/ card'.state = "tran" /\ Idles'
                    \/ card'.state = "prg" /\ Pends(CurrentBlock)'
  <2>1. CASE /\ InState("tran") /\ SdSector(Value).crc = Crc16(Value) /\ UNCHANGED late
             /\ card' = [card EXCEPT !.state = "prg",
                                  !.pend = [block |-> op.s + op.i, value |-> SdSector(Value).data]]
    <3>1. present
      BY <2>1 DEF InState, Reached
    <3>2. CurrentBlock \in Blocks /\ CurrentBlock \in Transfers /\ Value = DataFor(CurrentBlock) /\ Value \in BlockContents
      BY <1>2, CurrentIs, DataIs
    <3> DEFINE q == [block |-> CurrentBlock, value |-> Value]
    <3>3. q \in PendRecs
      BY <3>2, PendRec
    <3>4. card' = [card EXCEPT !.state = "prg", !.pend = q] /\ "prg" \in States
      BY <2>1 DEF SdSector, CurrentBlock, States
    <3> HIDE DEF q
    <3>5. card' \in CardRecs /\ card'.state = "prg" /\ card'.pend = q
      BY <3>3, <3>4 DEF CardRecs
    <3>6. LeftOK'
      BY <1>4, <3>5 DEF LeftOK, CfKinds
    <3>7. card'.pend = [block |-> CurrentBlock, value |-> Value]
      BY <3>5 DEF q
    <3>8. Around
      BY <1>1, <1>2, <2>1, <3>1, <3>5, <3>6, <3>7 DEF Around, CardMoves, Given
    <3> QED
      BY <1>4, <3>2, <3>5, <3>7, <3>8 DEF Pends
  <2>2. CASE TimesOut(~InState("tran")) /\ UNCHANGED card
    BY <1>1, <1>2, <2>2, TimesOutIs DEF Around, CardMoves, Idles
  <2> QED
    BY <2>1, <2>2 DEF AkSend
<1>6. Common'
  <2>1. ~(op'.at \in Calls) /\ op'.at # "opcond"
    BY <1>3 DEF Calls
  <2> QED
    BY <1>1, <1>2, <1>3, <1>5, <2>1, StayHolds
<1> QED
  BY <1>1, <1>2, <1>3, <1>4, <1>5, <1>6 DEF AkOK, At

LEMMA AkVerifies ==
    ASSUME Common, AkOK, kind = "ak", AkVerify
    PROVE  Common' /\ AkOK'
<1> USE Basics
<1>1. At("busy") /\ Idles /\ UNCHANGED <<present, memory, card, late, port, buf, sram>>
  BY DEF AkVerify, AkBusy, Idles, cardVars
<1>2. /\ Running /\ Writing /\ ~Reading /\ op.fn = "writeSectors" /\ port.media /\ op.i < op.n /\ started
      /\ CurrentBlock \in Transfers /\ Value = DataFor(CurrentBlock)
  <2>1. Writing /\ port.media /\ op.at # "stop"
    BY <1>1 DEF AkOK, At
  <2>2. Running /\ ~Reading /\ op.fn = "writeSectors" /\ op.i < op.n
    BY <2>1 DEF Writing, Reading, At
  <2> QED
    BY <2>1, <2>2, CurrentIs DEF CallOK
<1>3. present => card.state = "tran"
  <2>1. ~Pends(CurrentBlock)
    BY <1>1, <1>2, PendIs
  <2> QED
    BY <2>1 DEF AkOK
<1>4. \/ AkReads(CurrentBlock) = Value /\ LastOne /\ Return(TRUE)
      \/ AkReads(CurrentBlock) = Value /\ ~LastOne /\ NextBlock("writeSectors")
      \/ op.tries + 1 < Tries /\ TryAgain("writeSectors")
      \/ Return(FALSE)
  BY DEF AkVerify, CurrentBlock
<1>5. AkReads(CurrentBlock) = Value => Stored
  BY <1>2, DataIs DEF AkReads, Stored
<1>6. Around
  BY <1>1 DEF Around, CardMoves
<1>7. CASE AkReads(CurrentBlock) = Value /\ LastOne /\ Return(TRUE)
  <2>1. Completes(TRUE)
    BY <1>1, <1>2, <1>5, <1>7 DEF Completes, Delivers
  <2>2. Common'
    BY <1>1, <1>2, <1>6, <1>7, <2>1, ReturnHolds
  <2> QED
    BY <1>1, <1>2, <1>3, <1>7, <2>2, AkEnds DEF Idles
<1>8. CASE AkReads(CurrentBlock) = Value /\ ~LastOne /\ NextBlock("writeSectors")
  <2>1. Advances /\ op'.at = "writeSectors" /\ op.i + 1 < op.n
    BY <1>2, <1>8, NextIs DEF Places, Calls, LastOne
  <2>2. Delivers
    BY <1>1, <1>5, <1>8 DEF Delivers
  <2>3. Common'
    BY <1>1, <1>2, <1>6, <2>1, <2>2, AdvanceHolds
  <2> QED
    BY <1>1, <1>2, <1>3, <2>1, <2>3 DEF AkOK, At, Calls, Idles, Advances, GoesOn
<1>9. CASE op.tries + 1 < Tries /\ TryAgain("writeSectors")
  <2>1. op.tries < Tries
    BY <1>9, NumbersAre
  <2>2. Stays /\ op'.at = "writeSectors"
    BY <1>9, <2>1, TryIs DEF Places, Calls
  <2>3. Common'
    BY <1>1, <1>2, <1>6, <2>2, StayHolds
  <2> QED
    BY <1>1, <1>2, <1>3, <2>2, <2>3 DEF AkOK, At, Calls, Idles, Stays, GoesOn
<1>10. CASE Return(FALSE)
  <2>1. Common'
    BY <1>1, <1>2, <1>6, <1>10, QuietReturn
  <2> QED
    BY <1>1, <1>2, <1>3, <1>10, <2>1, AkEnds DEF Idles
<1> QED
  BY <1>4, <1>7, <1>8, <1>9, <1>10

LEMMA AkOutside ==
    ASSUME Common, AkOK, kind = "ak", Call \/ Pull \/ Programmed \/ PowerCycle, UNCHANGED sram
    PROVE  AkOK'
<1>1. CASE Call
  <2>1. /\ At("done") /\ op'.at \in Calls /\ UNCHANGED <<kind, present, card, port, started>>
        /\ op'.fn = "startUp" <=> ~started
        /\ op'.at = op'.fn
    BY <1>1, CallIs DEF Common
  <2> QED
    BY <2>1 DEF AkOK, At, Calls, Idles
<1>2. CASE Pull
  BY <1>2, PullHolds DEF AkOK, At, Writing, Running
<1>3. CASE Programmed
  <2>1. /\ present /\ ~Idles /\ card'.pend = Nothing
        /\ card'.state = (IF card.state = "prg" THEN "tran" ELSE card.state)
        /\ UNCHANGED <<kind, present, port, op, started>>
    BY <1>3, ProgrammedHolds
  <2>2. Idles' /\ (Writing' <=> Writing)
    BY <2>1 DEF Idles, Writing, Running, At
  <2> QED
    BY <2>1, <2>2 DEF AkOK, At
<1>4. CASE PowerCycle
  <2>1. ~started' /\ op'.at = "done" /\ kind' = kind /\ card'.pend = Nothing /\ present' = present
        /\ card'.state = (IF present THEN CardOn(kind).state ELSE "off")
    BY <1>4, PowerHolds
  <2>2. CardOn(kind).state = "tran"
    BY CardOnIs DEF SdKinds
  <2> QED
    BY <2>1, <2>2 DEF AkOK, At, Calls, Idles
<1> QED
  BY <1>1, <1>2, <1>3, <1>4

-----------------------------------------------------------------------------
(* Acekard 2 and EFA-Linker II: one step for each call.                    *)

LEMMA AtOnce ==
    ASSUME Common, RestOK, kind \in {"ak2", "efa2"}, NEW a \in Calls, At(a)
    PROVE  /\ op.fn = a /\ Running /\ (Reading <=> a = "readSectors") /\ (Writing <=> a = "writeSectors")
           /\ Idles /\ op.i = 0 /\ op.n >= 1 /\ op.i < op.n /\ op.s + op.n <= LastBlock + 1
<1> USE Basics
<1>1. op.fn = a /\ Running /\ (Reading <=> a = "readSectors") /\ (Writing <=> a = "writeSectors") /\ op.i = 0
  BY AtCall DEF SdKinds
<1>2. Idles
  BY DEF RestOK
<1> QED
  BY <1>1, <1>2 DEF CallOK

LEMMA RestEnds ==
    ASSUME CallTypes, NEW ok \in BOOLEAN, Return(ok), Idles'
    PROVE  RestOK'
BY ReturnIs DEF RestOK

LEMMA RestQuiet ==
    ASSUME Common, RestOK, kind \in {"ak2", "efa2"}, Ak2StartUp \/ Ak2IsInserted \/ Ak2Others \/ Efa2Identify \/ Efa2Others \/ Efa2WriteSectors
    PROVE  Common' /\ RestOK'
<1> USE Basics
<1>1. PICK ok \in BOOLEAN : Return(ok) /\ (ok => ~At("readSectors") /\ ~At("writeSectors"))
  BY DEF Ak2StartUp, Ak2IsInserted, Ak2Others, Efa2Identify, Efa2Others, Efa2WriteSectors, At
<1>2. PICK a \in Calls : At(a)
  BY DEF Ak2StartUp, Ak2IsInserted, Ak2Others, Efa2Identify, Efa2Others, Efa2WriteSectors, At, Calls
<1>3. Running /\ Idles /\ ~(ok /\ (Reading \/ Writing))
  BY <1>1, <1>2, AtOnce
<1>4. UNCHANGED <<present, memory, card, late, port, buf, sram>>
  BY DEF Ak2StartUp, Ak2IsInserted, Ak2Others, Efa2Identify, Efa2Others, Efa2WriteSectors, cardVars
<1>5. Common'
  BY <1>1, <1>3, <1>4, QuietReturn
<1> QED
  BY <1>1, <1>3, <1>4, <1>5, RestEnds DEF Idles

LEMMA RestReads ==
    ASSUME Common, RestOK, kind \in {"ak2", "efa2"}, Ak2ReadSectors \/ Efa2ReadSectors
    PROVE  Common' /\ RestOK'
<1> USE Basics
<1>1. At("readSectors") /\ Return(TRUE) /\ UNCHANGED <<present, memory, card, late, port, sram>>
  BY DEF Ak2ReadSectors, Efa2ReadSectors, cardVars
<1>2. /\ Running /\ Reading /\ ~Writing /\ Idles /\ op.n >= 1 /\ op.s + op.n <= LastBlock + 1 /\ LastBlock \in Nat
  <2>1. "readSectors" \in Calls
    BY DEF Calls
  <2> QED
    BY <1>1, <2>1, AtOnce, NumbersAre
<1>3. /\ buf' \in [1 .. op.n -> BlockContents]
      /\ Undisturbed /\ Served => buf' = [j \in 1 .. op.n |-> memory[op.s + j - 1]]
  <2>1. \A j \in 1 .. op.n : op.s + j - 1 \in Blocks /\ memory[op.s + j - 1] \in BlockContents
    BY <1>2 DEF Blocks, DataTypes
  <2>2. Junk \in BlockContents
    BY DEF BlockContents
  <2>3. CASE Ak2ReadSectors
    <3>1. buf' = [i \in 1 .. op.n |-> IF present THEN memory[op.s + i - 1] ELSE Junk] /\ kind = "ak2"
      BY <2>3 DEF Ak2ReadSectors
    <3>2. Undisturbed => present
      BY <3>1 DEF Undisturbed, Notices, CfKinds, Soldered
    <3> QED
      BY <2>1, <2>2, <3>1, <3>2
  <2>4. CASE Efa2ReadSectors
    <3>1. buf' = [i \in 1 .. op.n |-> IF i = 1 THEN memory[op.s + op.n - 1] ELSE Junk] /\ kind = "efa2"
      BY <2>4 DEF Efa2ReadSectors
    <3>2. Served => op.n = 1
      BY <3>1 DEF Served
    <3>3. memory[op.s + op.n - 1] \in BlockContents
      BY <1>2, <2>1
    <3>4. buf' \in [1 .. op.n -> BlockContents]
      BY <2>2, <3>1, <3>3
    <3>5. ASSUME op.n = 1 PROVE buf' = [j \in 1 .. op.n |-> memory[op.s + j - 1]]
      <4>1. \A j \in 1 .. op.n : j = 1 /\ op.s + j - 1 = op.s + op.n - 1
        BY <3>5
      <4> QED
        BY <3>1, <4>1
    <3> QED
      BY <3>2, <3>4, <3>5
  <2> QED
    BY <2>3, <2>4
<1>4. buf' \in Seq(BlockContents) /\ Len(buf') <= MaxBlocks
  BY <1>3
<1>5. Completes(TRUE)
  BY <1>1, <1>2, <1>3 DEF Completes, Knows
<1>6. Around
  <2>1. kind' = kind
    BY <1>1, ReturnIs
  <2> QED
    BY <1>1 DEF Around, CardMoves
<1>7. Common'
  BY <1>1, <1>2, <1>4, <1>5, <1>6, ReturnHolds
<1> QED
  BY <1>1, <1>2, <1>7, RestEnds DEF Idles

(* The library's function writes all blocks of the call, if it can.        *)
LEMMA Ak2Writes ==
    ASSUME Common, RestOK, kind = "ak2", Ak2WriteSectors
    PROVE  Common' /\ RestOK'
<1> USE Basics
<1>1. /\ At("writeSectors") /\ Return(TRUE) /\ UNCHANGED <<present, card, late, port, buf, sram>>
      /\ memory' = [b \in Blocks |-> IF present /\ b \in Transfers THEN DataFor(b) ELSE memory[b]]
  BY DEF Ak2WriteSectors
<1>2. /\ Running /\ Writing /\ ~Reading /\ Idles
  <2>1. "writeSectors" \in Calls
    BY DEF Calls
  <2> QED
    BY <1>1, <2>1, AtOnce
<1>3. CallTypes' /\ ~Reading' /\ ~Writing' /\ ~Knows' /\ ~Running' /\ kind' = kind /\ op'.fn # "readSectors"
      /\ \A b : Owe(b)' = owed'[b]
  BY <1>1, <1>2, Ended, ReturnIs DEF Reading
<1>4. /\ owed' \in [Blocks -> SUBSET BlockContents]
      /\ \A b \in Blocks : owed'[b] = IF b \in Transfers THEN {DataFor(b)} ELSE owed[b]
  BY <1>1, <1>2, OwedIs DEF Knows, CfKinds
<1>5. DataTypes'
  BY <1>1, <1>4, DataIs DEF DataTypes
<1>6. CardTypes' /\ LeftOK' /\ GoneOK'
  BY <1>1, <1>3 DEF CardTypes, Common, LeftOK, GoneOK, Idles
<1>7. CallOK'
  BY <1>1, ReturnCallOK
<1>8. Kept'
  <2> SUFFICES ASSUME present PROVE \A b \in Blocks : memory'[b] \in owed'[b]
    BY <1>1, <1>2, <1>3 DEF Kept, Idles, Confirms, SdKinds, Soldered
  <2> TAKE b \in Blocks
  <2>1. b \notin Transfers => memory[b] \in owed[b]
    BY DEF Common, Kept, Owe, CfKinds
  <2> QED
    BY <1>1, <1>4, <2>1
<1>9. Reads'
  BY <1>3 DEF Reads
<1>10. Common'
  BY <1>3, <1>5, <1>6, <1>7, <1>8, <1>9 DEF Common
<1> QED
  BY <1>1, <1>2, <1>10, RestEnds DEF Idles

LEMMA RestOutside ==
    ASSUME Common, RestOK, kind \in {"ak2", "efa2"}, Call \/ Pull \/ Programmed \/ PowerCycle, UNCHANGED sram
    PROVE  RestOK'
<1>1. CASE Call
  BY <1>1, CallIs DEF RestOK, Common, Idles
<1>2. CASE Pull
  BY <1>2, PullHolds DEF RestOK, Idles
<1>3. CASE Programmed
  BY <1>3, ProgrammedHolds DEF RestOK
<1>4. CASE PowerCycle
  BY <1>4, PowerHolds DEF RestOK, Idles
<1> QED
  BY <1>1, <1>2, <1>3, <1>4

-----------------------------------------------------------------------------
(* FCSR: the regions lie side by side in the RAM.                          *)

Size(r) == Regions[r][2]

LEMMA BaseExists == \E f : f = [r \in 1 .. 5 |-> IF r = 1 THEN 0 ELSE f[r - 1] + Regions[r - 1][2]]
<1> DEFINE v2 == 0 + Regions[1][2]
           v3 == v2 + Regions[2][2]
           v4 == v3 + Regions[3][2]
           v5 == v4 + Regions[4][2]
           f == [r \in 1 .. 5 |-> IF r = 1 THEN 0 ELSE IF r = 2 THEN v2 ELSE IF r = 3 THEN v3 ELSE IF r = 4 THEN v4 ELSE v5]
<1>1. f[1] = 0 /\ f[2] = v2 /\ f[3] = v3 /\ f[4] = v4 /\ f[5] = v5
  OBVIOUS
<1>2. v2 = 0 + Regions[1][2] /\ v3 = v2 + Regions[2][2] /\ v4 = v3 + Regions[3][2] /\ v5 = v4 + Regions[4][2]
  OBVIOUS
<1>3. DOMAIN f = 1 .. 5 /\ f = [r \in 1 .. 5 |-> f[r]]
  OBVIOUS
<1> HIDE DEF f, v2, v3, v4, v5
<1>4. ASSUME NEW r \in 1 .. 5 PROVE f[r] = IF r = 1 THEN 0 ELSE f[r - 1] + Regions[r - 1][2]
  <2>1. r = 1 \/ (r = 2 /\ r - 1 = 1) \/ (r = 3 /\ r - 1 = 2) \/ (r = 4 /\ r - 1 = 3) \/ (r = 5 /\ r - 1 = 4)
    OBVIOUS
  <2> QED
    BY <1>1, <1>2, <2>1
<1>5. f = [r \in 1 .. 5 |-> IF r = 1 THEN 0 ELSE f[r - 1] + Regions[r - 1][2]]
  BY <1>3, <1>4
<1> QED
  BY <1>5

LEMMA BaseIs ==
    /\ Len(Regions) \in 0 .. 4 /\ DOMAIN Regions = 1 .. Len(Regions)
    /\ \A r \in DOMAIN Regions : Start(r) \in Nat /\ Size(r) \in Nat /\ End(r) = Start(r) + Size(r)
    /\ \A r \in 1 .. Len(Regions) + 1 : Base[r] \in Nat
    /\ \A r \in DOMAIN Regions : Base[r + 1] = Base[r] + Size(r)
<1>1. Regions \in Seq(Blocks \X Nat) /\ Len(Regions) \in 0 .. 4 /\ DOMAIN Regions = 1 .. Len(Regions)
  <2>1. Regions \in Seq(Blocks \X Nat) /\ Len(Regions) <= 4
    BY CartAssumption
  <2>2. Len(Regions) \in Nat /\ DOMAIN Regions = 1 .. Len(Regions)
    BY <2>1
  <2>3. Len(Regions) \in 0 .. 4
    <3> DEFINE n == Len(Regions)
    <3>1. n \in Nat /\ n <= 4
      BY <2>1, <2>2
    <3> HIDE DEF n
    <3>2. n \in 0 .. 4
      BY <3>1
    <3> QED
      BY <3>2 DEF n
  <2> QED
    BY <2>1, <2>2, <2>3, Zenon
<1>2. \A r \in DOMAIN Regions : Start(r) \in Nat /\ Size(r) \in Nat /\ End(r) = Start(r) + Size(r)
  <2> TAKE r \in DOMAIN Regions
  <2>1. Regions[r] \in Blocks \X Nat
    BY <1>1
  <2>2. Regions[r][1] \in Blocks /\ Regions[r][2] \in Nat
    BY <2>1
  <2> QED
    BY <2>2 DEF Start, Size, End, Blocks
<1>3. Base = [r \in 1 .. 5 |-> IF r = 1 THEN 0 ELSE Base[r - 1] + Regions[r - 1][2]]
  <2> DEFINE P(f) == f = [r \in 1 .. 5 |-> IF r = 1 THEN 0 ELSE f[r - 1] + Regions[r - 1][2]]
  <2>1. \E f : P(f)
    BY BaseExists
  <2>2. Base = CHOOSE f : P(f)
    BY Zenon DEF Base
  <2>3. P(Base)
    <3> HIDE DEF P
    <3> QED
      BY <2>1, <2>2
  <2> QED
    BY <2>3
<1>4. Base[1] = 0 /\ \A r \in 1 .. 4 : Base[r + 1] = Base[r] + Size(r)
  <2>1. Base[1] = 0
    BY <1>3
  <2>2. ASSUME NEW r \in 1 .. 4 PROVE Base[r + 1] = Base[r] + Size(r)
    <3> DEFINE q == r + 1
    <3>1. q \in 1 .. 5 /\ q # 1 /\ q - 1 = r
      OBVIOUS
    <3> HIDE DEF q
    <3>2. Base[q] = Base[q - 1] + Regions[q - 1][2]
      BY <1>3, <3>1
    <3>3. Base[q] = Base[r] + Size(r)
      BY <3>1, <3>2 DEF Size
    <3> QED
      BY <3>3 DEF q
  <2> QED
    BY <2>1, <2>2
<1>5. \A r \in DOMAIN Regions : Base[r + 1] = Base[r] + Size(r)
  <2> TAKE r \in DOMAIN Regions
  <2>1. r \in 1 .. 4
    <3> DEFINE n == Len(Regions)
    <3>1. n \in 0 .. 4 /\ r \in 1 .. n
      BY <1>1
    <3> HIDE DEF n
    <3> QED
      BY <3>1
  <2> QED
    BY <1>4, <2>1
<1>6. ASSUME NEW r \in 1 .. 4, r <= Len(Regions), Base[r] \in Nat PROVE Base[r + 1] \in Nat
  <2>1. r \in DOMAIN Regions
    BY <1>1, <1>6
  <2>2. Size(r) \in Nat /\ Base[r + 1] = Base[r] + Size(r)
    BY <1>2, <1>5, <2>1
  <2> QED
    BY <1>6, <2>2
<1>7. \A r \in 1 .. Len(Regions) + 1 : Base[r] \in Nat
  <2> DEFINE n == Len(Regions)
  <2>0. n \in 0 .. 4
    BY <1>1
  <2>1. Base[1] \in Nat
    BY <1>4
  <2>2. 1 <= n => Base[1 + 1] \in Nat
    BY <1>6, <2>1
  <2>3. 2 <= n => Base[2 + 1] \in Nat
    <3>1. 2 <= n => Base[2] \in Nat
      BY <2>0, <2>2
    <3> QED
      BY <1>6, <3>1
  <2>4. 3 <= n => Base[3 + 1] \in Nat
    <3>1. 3 <= n => Base[3] \in Nat
      BY <2>0, <2>3
    <3> QED
      BY <1>6, <3>1
  <2>5. 4 <= n => Base[4 + 1] \in Nat
    <3>1. 4 <= n => Base[4] \in Nat
      BY <2>0, <2>4
    <3> QED
      BY <1>6, <3>1
  <2> HIDE DEF n
  <2>6. ASSUME NEW r \in 1 .. n + 1
        PROVE  r = 1 \/ (r = 1 + 1 /\ 1 <= n) \/ (r = 2 + 1 /\ 2 <= n) \/ (r = 3 + 1 /\ 3 <= n) \/ (r = 4 + 1 /\ 4 <= n)
    BY <2>0
  <2>7. \A r \in 1 .. n + 1 : Base[r] \in Nat
    BY <2>1, <2>2, <2>3, <2>4, <2>5, <2>6
  <2> QED
    BY <2>7 DEF n
<1> QED
  BY <1>1, <1>2, <1>5, <1>7

LEMMA BaseGrows == \A r, q \in 1 .. Len(Regions) + 1 : r <= q => Base[r] <= Base[q]
<1>1. Len(Regions) \in 0 .. 4 /\ DOMAIN Regions = 1 .. Len(Regions)
  BY BaseIs
<1>2. \A r \in 1 .. Len(Regions) : Base[r] \in Nat /\ Base[r + 1] \in Nat /\ Base[r] <= Base[r + 1]
  <2> TAKE r \in 1 .. Len(Regions)
  <2>1. r \in DOMAIN Regions /\ r \in 1 .. Len(Regions) + 1 /\ r + 1 \in 1 .. Len(Regions) + 1
    BY <1>1
  <2>2. Base[r] \in Nat /\ Base[r + 1] \in Nat /\ Size(r) \in Nat /\ Base[r + 1] = Base[r] + Size(r)
    BY <2>1, BaseIs
  <2> QED
    BY <2>2
<1>3. Base[1] \in Nat
  BY <1>1, BaseIs
<1>4. Len(Regions) >= 1 => Base[2] \in Nat /\ Base[1] <= Base[2]
  BY <1>1, <1>2
<1>5. Len(Regions) >= 2 => Base[3] \in Nat /\ Base[2] <= Base[3]
  BY <1>1, <1>2
<1>6. Len(Regions) >= 3 => Base[4] \in Nat /\ Base[3] <= Base[4]
  BY <1>1, <1>2
<1>7. Len(Regions) >= 4 => Base[5] \in Nat /\ Base[4] <= Base[5]
  BY <1>1, <1>2
<1> SUFFICES ASSUME NEW r \in 1 .. Len(Regions) + 1, NEW q \in 1 .. Len(Regions) + 1, r <= q PROVE Base[r] <= Base[q]
  OBVIOUS
<1>8. r \in {1, 2, 3, 4, 5} /\ q \in {1, 2, 3, 4, 5} /\ r - 1 <= Len(Regions) /\ q - 1 <= Len(Regions)
  BY <1>1
<1>9. CASE q = 1
  BY <1>3, <1>8, <1>9
<1>10. CASE q = 2
  BY <1>3, <1>4, <1>8, <1>10
<1>11. CASE q = 3
  BY <1>1, <1>3, <1>4, <1>5, <1>8, <1>11
<1>12. CASE q = 4
  BY <1>1, <1>3, <1>4, <1>5, <1>6, <1>8, <1>12
<1>13. CASE q = 5
  BY <1>1, <1>3, <1>4, <1>5, <1>6, <1>7, <1>8, <1>13
<1> QED
  BY <1>8, <1>9, <1>10, <1>11, <1>12, <1>13

(* A block's cell lies in its region's part of the RAM.                    *)
LEMMA CellIs ==
    ASSUME NEW r \in DOMAIN Regions, NEW b \in Blocks, In(b, r)
    PROVE  /\ Base[r] \in Nat /\ Base[r + 1] \in Nat /\ Base[r + 1] = Base[r] + Size(r) /\ Size(r) \in Nat /\ Start(r) \in Nat
           /\ b \in Nat /\ b >= Start(r) /\ b < Start(r) + Size(r)
           /\ Cell(r, b) = Base[r] + (b - Start(r)) /\ Cell(r, b) \in Nat
           /\ Base[r] <= Cell(r, b) /\ Cell(r, b) < Base[r + 1]
           /\ Cell(r, b) \in Cells
<1>1. r \in 1 .. Len(Regions) /\ Len(Regions) \in Nat /\ r \in 1 .. Len(Regions) + 1 /\ r + 1 \in 1 .. Len(Regions) + 1
      /\ Len(Regions) + 1 \in 1 .. Len(Regions) + 1 /\ r + 1 <= Len(Regions) + 1
  BY BaseIs
<1>2. Base[r] \in Nat /\ Base[r + 1] \in Nat /\ Base[r + 1] = Base[r] + Size(r) /\ Size(r) \in Nat /\ Start(r) \in Nat
      /\ End(r) = Start(r) + Size(r) /\ Base[Len(Regions) + 1] \in Nat
  BY <1>1, BaseIs
<1>3. Base[r + 1] <= Base[Len(Regions) + 1]
  BY <1>1, BaseGrows
<1>4. b \in Nat /\ b >= Start(r) /\ b < Start(r) + Size(r)
  BY <1>2 DEF In, Blocks
<1>5. Cell(r, b) = Base[r] + (b - Start(r))
  BY DEF Cell
<1>6. Cell(r, b) \in Nat /\ Base[r] <= Cell(r, b) /\ Cell(r, b) < Base[r + 1]
  BY <1>2, <1>4, <1>5
<1> QED
  BY <1>2, <1>3, <1>4, <1>5, <1>6 DEF Cells

(* No two blocks share a cell.                                             *)
LEMMA OneCell ==
    ASSUME NEW r \in DOMAIN Regions, NEW b \in Blocks, In(b, r),
           NEW q \in DOMAIN Regions, NEW d \in Blocks, In(d, q), Cell(r, b) = Cell(q, d)
    PROVE  r = q /\ b = d
<1>1. r \in 1 .. Len(Regions) /\ q \in 1 .. Len(Regions) /\ Len(Regions) \in Nat
  BY BaseIs
<1>2. /\ Base[r] \in Nat /\ Base[r + 1] \in Nat /\ Start(r) \in Nat /\ b \in Nat /\ Cell(r, b) = Base[r] + (b - Start(r))
      /\ Cell(r, b) \in Nat /\ Base[r] <= Cell(r, b) /\ Cell(r, b) < Base[r + 1]
  BY CellIs
<1>3. /\ Base[q] \in Nat /\ Base[q + 1] \in Nat /\ Start(q) \in Nat /\ d \in Nat /\ Cell(q, d) = Base[q] + (d - Start(q))
      /\ Cell(q, d) \in Nat /\ Base[q] <= Cell(q, d) /\ Cell(q, d) < Base[q + 1]
  BY CellIs
<1>4. ~(r < q)
  <2>1. r < q => Base[r + 1] <= Base[q]
    BY <1>1, BaseGrows
  <2> DEFINE up == Base[r + 1]
             to == Base[q]
             c == Cell(r, b)
  <2>2. up \in Nat /\ to \in Nat /\ c \in Nat /\ c < up /\ to <= c /\ (r < q => up <= to)
    BY <1>2, <1>3, <2>1
  <2> HIDE DEF up, to, c
  <2> QED
    BY <2>2
<1>5. ~(q < r)
  <2>1. q < r => Base[q + 1] <= Base[r]
    BY <1>1, BaseGrows
  <2> DEFINE up == Base[q + 1]
             to == Base[r]
             c == Cell(r, b)
  <2>2. up \in Nat /\ to \in Nat /\ c \in Nat /\ c < up /\ to <= c /\ (q < r => up <= to)
    BY <1>2, <1>3, <2>1
  <2> HIDE DEF up, to, c
  <2> QED
    BY <2>2
<1>6. r = q
  BY <1>1, <1>4, <1>5
<1>7. b = d
  <2> DEFINE base1 == Base[r]
             at == Start(r)
  <2>1. base1 \in Nat /\ at \in Nat /\ b \in Nat /\ d \in Nat /\ base1 + (b - at) = base1 + (d - at)
    BY <1>2, <1>3, <1>6
  <2> HIDE DEF base1, at
  <2> QED
    BY <2>1
<1> QED
  BY <1>6, <1>7

(* The region of a block.                                                  *)
LEMMA RegionIs ==
    ASSUME NEW b \in Blocks, Overlaid(b)
    PROVE  /\ RegionOf(b) \in DOMAIN Regions /\ In(b, RegionOf(b))
           /\ \A r \in DOMAIN Regions : In(b, r) => r = RegionOf(b)
<1>1. PICK r \in DOMAIN Regions : In(b, r)
  BY DEF Overlaid
<1>2. r \in Nat
  BY BaseIs
<1>3. \A q \in DOMAIN Regions : In(b, q) => r = q
  BY <1>1, RegionAssumption
<1>4. \A q \in DOMAIN Regions : In(b, q) => r <= q
  BY <1>2, <1>3
<1>5. RegionOf(b) \in DOMAIN Regions /\ In(b, RegionOf(b))
  <2> DEFINE P(x) == In(b, x) /\ \A q \in DOMAIN Regions : In(b, q) => x <= q
  <2>1. RegionOf(b) = CHOOSE x \in DOMAIN Regions : P(x)
    BY Zenon DEF RegionOf
  <2>2. P(r)
    BY <1>1, <1>4
  <2>3. RegionOf(b) \in DOMAIN Regions /\ P(RegionOf(b))
    <3> HIDE DEF P
    <3> QED
      BY <2>1, <2>2
  <2> QED
    BY <2>3
<1> QED
  BY <1>3, <1>5

-----------------------------------------------------------------------------
(* FCSR: the calls.                                                        *)

LEMMA FcsrCommon ==
    ASSUME Common, kind = "fcsr", UNCHANGED <<present, memory, card, late, port>>, CallTypes', DataTypes', CallOK', kind' = kind
    PROVE  Common'
<1>1. CardTypes' /\ LeftOK' /\ GoneOK'
  BY DEF Common, CardTypes, LeftOK, GoneOK, Idles
<1>2. Kept' /\ Reads'
  BY DEF Kept, Reads, Undisturbed, At
<1> QED
  BY <1>1, <1>2 DEF Common

(* A call that ends.                                                       *)
LEMMA FcsrEnds ==
    ASSUME Common, FcsrOK, kind = "fcsr", Running, NEW ok \in BOOLEAN, Return(ok), UNCHANGED <<present, memory, card, late, port>>,
           buf' \in Seq(BlockContents), Len(buf') <= MaxBlocks,
           sram' \in [marked : BOOLEAN, cells : [Cells -> BlockContents]],
           started' => sram'.marked,
           ~CutsInCopy => \A b \in Blocks : Holds(b)' \in owed'[b],
           ok /\ Reading => UNCHANGED sram,
           ok /\ Reading /\ Served => buf' = [j \in 1 .. op.n |-> Content(op.s + j - 1)]
    PROVE  Common' /\ FcsrOK'
<1> USE Basics
<1>1. CallTypes' /\ kind' = kind /\ op'.at = "done" /\ op'.i = 0 /\ ~Running' /\ ~Writing' /\ \A b : Owe(b)' = owed'[b]
  BY Ended, ReturnIs
<1>2. DataTypes'
  BY OwedIs DEF DataTypes
<1>3. CallOK'
  BY ReturnCallOK
<1>4. Common'
  BY <1>1, <1>2, <1>3, FcsrCommon
<1>5. Idles'
  BY DEF FcsrOK, Idles
<1>6. ASSUME op'.ok, op'.fn = "readSectors", Served' PROVE (buf = [j \in 1 .. op.n |-> Content(op.s + j - 1)])'
  <2>1. ok /\ op.fn = "readSectors" /\ op'.s = op.s /\ op'.n = op.n /\ Reading
    BY <1>6, ReturnIs DEF Reading
  <2>2. Served
    <3>1. Transfers' = Transfers
      BY <2>1 DEF Transfers
    <3> QED
      BY <1>1, <1>6, <2>1, <3>1 DEF Served
  <2>3. buf' = [j \in 1 .. op.n |-> Content(op.s + j - 1)] /\ UNCHANGED sram
    BY <2>1, <2>2
  <2>4. \A b : Content(b)' = Content(b)
    BY <1>1, <2>3 DEF Content
  <2> QED
    BY <2>1, <2>3, <2>4
<1> QED
  BY <1>1, <1>4, <1>5, <1>6 DEF FcsrOK, At

(* What a block holds before the step.                                     *)
LEMMA FcsrAt ==
    ASSUME Common, FcsrOK, kind = "fcsr", NEW a \in Calls, At(a)
    PROVE  /\ op.fn = a /\ Running /\ (Reading <=> a = "readSectors") /\ (Writing <=> a = "writeSectors")
           /\ op.i = 0 /\ op.n >= 1 /\ op.i < op.n /\ op.s + op.n <= LastBlock + 1 /\ ~At("copy") /\ ~At("done")
           /\ a # "startUp" => started /\ sram.marked
           /\ Transfers \subseteq Blocks /\ op.s \in Blocks /\ op.s \in Transfers
<1> USE Basics
<1>1. op.fn = a /\ Running /\ (Reading <=> a = "readSectors") /\ (Writing <=> a = "writeSectors") /\ op.i = 0
  BY AtCall DEF FcsrOK
<1>2. op.n >= 1 /\ op.s + op.n <= LastBlock + 1 /\ ~At("copy") /\ ~At("done") /\ ~At("stop")
  BY <1>1 DEF CallOK, At, Calls
<1>3. a # "startUp" => started
  BY <1>1 DEF CallOK
<1>4. Transfers \subseteq Blocks /\ op.s \in Blocks
  BY <1>1, OnTheCard, CallFields
<1>5. op.s \in Transfers
  BY <1>2 DEF Transfers
<1> QED
  BY <1>1, <1>2, <1>3, <1>4, <1>5 DEF FcsrOK

(* A call that changes nothing that is stored.                             *)
LEMMA FcsrQuiet ==
    ASSUME Common, FcsrOK, kind = "fcsr", FcsrIsInserted \/ FcsrOthers \/ (FcsrWriteSectors /\ ~Inside) \/ (FcsrSearch /\ ~GoTo("copy"))
    PROVE  Common' /\ FcsrOK'
<1> USE Basics
<1>1. PICK ok \in BOOLEAN : Return(ok) /\ (ok /\ At("startUp") => sram.marked)
                            /\ (ok => ~At("readSectors") /\ ~At("writeSectors"))
  BY DEF FcsrIsInserted, FcsrOthers, FcsrWriteSectors, FcsrSearch, At
<1>2. PICK a \in Calls : At(a) /\ a # "readSectors"
  BY DEF FcsrIsInserted, FcsrOthers, FcsrWriteSectors, FcsrSearch, At, Calls
<1>3. /\ op.fn = a /\ Running /\ ~Reading /\ (Writing <=> a = "writeSectors") /\ ~At("copy") /\ ~(ok /\ Writing)
      /\ a # "startUp" => started /\ sram.marked
  BY <1>1, <1>2, FcsrAt
<1>4. UNCHANGED <<present, memory, card, late, port, buf, sram>>
  BY <1>1 DEF FcsrIsInserted, FcsrOthers, FcsrWriteSectors, FcsrSearch, cardVars
<1>5. started' => sram'.marked
  BY <1>1, <1>2, <1>3, <1>4, ReturnIs
<1>6. ASSUME ~CutsInCopy, NEW b \in Blocks PROVE Holds(b)' \in owed'[b]
  <2>1. ~At("copy")'
    BY <1>1, ReturnIs DEF At
  <2>2. Holds(b)' = Holds(b)
    BY <1>3, <1>4, <2>1 DEF Holds
  <2>3. owed'[b] = Owe(b)
    BY <1>1, <1>3, OwedIs DEF Knows
  <2> QED
    BY <1>6, <2>2, <2>3 DEF FcsrOK
<1> QED
  BY <1>1, <1>3, <1>4, <1>5, <1>6, FcsrEnds DEF DataTypes

(* The RAM is marked before it is filled.                                  *)
LEMMA FcsrMarks ==
    ASSUME Common, FcsrOK, kind = "fcsr", FcsrSearch, GoTo("copy")
    PROVE  Common' /\ FcsrOK'
<1> USE Basics
<1>1. Stays /\ op'.at = "copy"
  BY GoToIs DEF Places
<1>2. At("startUp") /\ UNCHANGED <<present, memory, card, late, port, buf>> /\ ~sram.marked /\ sram' = [sram EXCEPT !.marked = TRUE]
  <2>1. ~Return(FALSE) /\ ~Return(TRUE)
    BY <1>1, ReturnIs
  <2> QED
    BY <2>1 DEF FcsrSearch, cardVars
<1>3. op.fn = "startUp" /\ Running /\ ~Reading /\ ~Writing /\ op.i = 0 /\ op.n >= 1 /\ op.s + op.n <= LastBlock + 1 /\ ~started
      /\ buf = <<>> /\ op.i < op.n
  <2>1. "startUp" \in Calls
    BY DEF Calls
  <2>2. op.fn = "startUp" /\ Running /\ ~Reading /\ ~Writing /\ op.i = 0 /\ op.n >= 1 /\ op.s + op.n <= LastBlock + 1 /\ op.i < op.n
    BY <1>2, <2>1, FcsrAt
  <2> QED
    BY <2>2 DEF CallOK
<1>4. sram' \in [marked : BOOLEAN, cells : [Cells -> BlockContents]] /\ sram'.marked
  <2> DEFINE y == TRUE
  <2>1. sram' = [sram EXCEPT !.marked = y] /\ y \in BOOLEAN
    BY <1>2
  <2> HIDE DEF y
  <2>2. sram' \in [marked : BOOLEAN, cells : [Cells -> BlockContents]] /\ sram'.marked = y
    BY <2>1 DEF DataTypes
  <2> QED
    BY <2>2 DEF y
<1>5. /\ op' \in CallRecs /\ op'.fn = op.fn /\ op'.s = op.s /\ op'.n = op.n /\ op'.i = op.i
      /\ UNCHANGED <<kind, written, started, clean, owed>>
      /\ Running' /\ ~Reading' /\ ~Writing' /\ \A b : Owe(b)' = Owe(b)
  BY <1>1, <1>3, SameCall DEF Stays, GoesOn
<1>6. CallTypes' /\ DataTypes' /\ CallOK'
  <2>1. CallTypes'
    BY <1>5 DEF CallTypes
  <2>2. DataTypes'
    BY <1>2, <1>4, <1>5 DEF DataTypes
  <2>3. CallOK'
    BY <1>1, <1>2, <1>3, <1>5 DEF CallOK, At, Calls
  <2> QED
    BY <2>1, <2>2, <2>3
<1>7. Common'
  BY <1>2, <1>5, <1>6, FcsrCommon
<1>8. ASSUME ~CutsInCopy, NEW b \in Blocks PROVE Holds(b)' \in Owe(b)'
  <2>1. Holds(b) = memory[b]
    BY <1>2 DEF Holds
  <2>2. Holds(b)' = memory[b]
    BY <1>1, <1>2 DEF Holds, At
  <2> QED
    BY <1>5, <1>8, <2>1, <2>2 DEF FcsrOK
<1>9. Idles'
  BY <1>2 DEF FcsrOK, Idles
<1> QED
  BY <1>1, <1>3, <1>4, <1>5, <1>7, <1>8, <1>9 DEF FcsrOK, At

LEMMA FcsrCopies ==
    ASSUME Common, FcsrOK, kind = "fcsr", FcsrCopy
    PROVE  Common' /\ FcsrOK'
<1> USE Basics
<1> DEFINE To(c, r, b) == In(b, r) /\ Cell(r, b) = c
           From(c) == CHOOSE b \in Blocks : \E r \in DOMAIN Regions : To(c, r, b)
           filled == [c \in Cells |-> IF \E r \in DOMAIN Regions, b \in Blocks : To(c, r, b) THEN memory[From(c)] ELSE sram.cells[c]]
<1>1. At("copy") /\ Return(TRUE) /\ UNCHANGED <<present, memory, card, late, port, buf>>
  BY DEF FcsrCopy, cardVars
<1>2. sram' = [sram EXCEPT !.cells = filled]
  BY DEF FcsrCopy
<1>3. op.fn = "startUp" /\ Running /\ ~Reading /\ ~Writing /\ sram.marked
  BY <1>1 DEF FcsrOK, At, Running, Reading, Writing
<1>4. ASSUME NEW c \in Cells, NEW r \in DOMAIN Regions, NEW b \in Blocks, To(c, r, b)
      PROVE  From(c) = b
  <2> DEFINE P(d) == \E q \in DOMAIN Regions : To(c, q, d)
  <2>1. P(b)
    BY <1>4
  <2>2. ASSUME NEW d \in Blocks, P(d) PROVE d = b
    <3>1. PICK q \in DOMAIN Regions : In(d, q) /\ Cell(q, d) = c
      BY <2>2
    <3>2. In(b, r) /\ Cell(r, b) = c
      BY <1>4
    <3> QED
      BY <3>1, <3>2, OneCell
  <2>3. From(c) = CHOOSE d \in Blocks : P(d)
    OBVIOUS
  <2> HIDE DEF P, From
  <2> QED
    BY <2>1, <2>2, <2>3
<1>5. filled \in [Cells -> BlockContents]
  <2>1. ASSUME NEW c \in Cells PROVE (IF \E r \in DOMAIN Regions, b \in Blocks : To(c, r, b) THEN memory[From(c)] ELSE sram.cells[c]) \in BlockContents
    <3>1. sram.cells[c] \in BlockContents
      BY DEF DataTypes
    <3>2. ASSUME NEW r \in DOMAIN Regions, NEW b \in Blocks, To(c, r, b) PROVE memory[From(c)] \in BlockContents
      <4>1. From(c) = b
        BY <1>4, <3>2
      <4>2. memory[b] \in BlockContents
        BY DEF DataTypes
      <4> HIDE DEF From
      <4> QED
        BY <4>1, <4>2
    <3> HIDE DEF From, To
    <3> QED
      BY <3>1, <3>2
  <2> HIDE DEF From, To
  <2> QED
    BY <2>1
<1>6. ASSUME NEW b \in Blocks, Overlaid(b)
      PROVE  filled[Cell(RegionOf(b), b)] = memory[b]
  <2> DEFINE r == RegionOf(b)
             c == Cell(r, b)
  <2>1. r \in DOMAIN Regions /\ In(b, r)
    BY <1>6, RegionIs
  <2>2. c \in Cells
    BY <2>1, CellIs
  <2>3. To(c, r, b)
    BY <2>1
  <2>4. From(c) = b
    BY <1>4, <2>1, <2>2, <2>3
  <2> HIDE DEF r, c, From, To
  <2>5. filled[c] = memory[From(c)]
    BY <2>1, <2>2, <2>3
  <2>6. filled[c] = memory[b]
    BY <2>4, <2>5
  <2> QED
    BY <2>6 DEF r, c
<1> HIDE DEF filled
<1>7. sram' \in [marked : BOOLEAN, cells : [Cells -> BlockContents]] /\ sram'.marked /\ sram'.cells = filled
  BY <1>2, <1>3, <1>5 DEF DataTypes
<1>8. ASSUME ~CutsInCopy, NEW b \in Blocks PROVE Holds(b)' \in owed'[b]
  <2>1. Holds(b) = memory[b]
    BY <1>1 DEF Holds
  <2>2. Holds(b)' = memory[b]
    BY <1>1, <1>6, <1>7 DEF Holds
  <2>3. owed'[b] = Owe(b)
    BY <1>1, <1>3, OwedIs DEF Knows
  <2> QED
    BY <1>8, <2>1, <2>2, <2>3 DEF FcsrOK
<1> QED
  BY <1>1, <1>3, <1>7, <1>8, FcsrEnds

(* The blocks of a call that lies inside a region.                         *)
LEMMA InsideIs ==
    ASSUME CallTypes, op.s \in Blocks, Transfers \subseteq Blocks, Inside
    PROVE  /\ RegionOf(op.s) \in DOMAIN Regions
           /\ \A b \in Transfers : Overlaid(b) /\ RegionOf(b) = RegionOf(op.s) /\ In(b, RegionOf(op.s))
<1>1. Overlaid(op.s) /\ op.s + op.n <= End(RegionOf(op.s))
  BY DEF Inside
<1>2. RegionOf(op.s) \in DOMAIN Regions /\ In(op.s, RegionOf(op.s))
  BY <1>1, RegionIs
<1>3. End(RegionOf(op.s)) \in Nat /\ Start(RegionOf(op.s)) \in Nat /\ op.s \in Nat /\ op.n \in Nat
  BY <1>2, BaseIs, NumbersAre DEF CallTypes
<1>4. ASSUME NEW b \in Transfers PROVE In(b, RegionOf(op.s))
  <2>1. b >= op.s /\ b < op.s + op.n /\ b \in Nat
    BY <1>3 DEF Transfers
  <2> QED
    BY <1>1, <1>2, <1>3, <2>1 DEF In
<1>5. ASSUME NEW b \in Transfers PROVE Overlaid(b) /\ RegionOf(b) = RegionOf(op.s)
  <2>1. b \in Blocks /\ In(b, RegionOf(op.s)) /\ Overlaid(b)
    BY <1>2, <1>4 DEF Overlaid
  <2> QED
    BY <1>2, <2>1, RegionIs
<1> QED
  BY <1>2, <1>4, <1>5

LEMMA FcsrReads ==
    ASSUME Common, FcsrOK, kind = "fcsr", FcsrReadSectors
    PROVE  Common' /\ FcsrOK'
<1> USE Basics
<1>1. At("readSectors") /\ UNCHANGED <<present, memory, card, late, port, sram>>
  BY DEF FcsrReadSectors, cardVars
<1>2. Running /\ Reading /\ ~Writing /\ op.fn = "readSectors" /\ started /\ sram.marked /\ ~At("copy")
      /\ Transfers \subseteq Blocks /\ op.s \in Blocks /\ op.n >= 1
  <2>1. "readSectors" \in Calls
    BY DEF Calls
  <2> QED
    BY <1>1, <2>1, FcsrAt
<1>3. \A j \in 1 .. op.n : op.s + j - 1 \in Transfers
  BY <1>2 DEF Transfers
<1>4. ASSUME NEW ok \in BOOLEAN, Return(ok), buf' \in Seq(BlockContents), Len(buf') <= MaxBlocks,
             ok /\ Served => buf' = [j \in 1 .. op.n |-> Content(op.s + j - 1)]
      PROVE  Common' /\ FcsrOK'
  <2>1. kind' = kind /\ ~At("copy")' /\ started' = started
    BY <1>2, <1>4, ReturnIs DEF At
  <2>2. ASSUME ~CutsInCopy, NEW b \in Blocks PROVE Holds(b)' \in owed'[b]
    <3>1. Holds(b)' = Holds(b)
      BY <1>1, <1>2, <2>1 DEF Holds
    <3>2. owed'[b] = Owe(b)
      BY <1>2, <1>4, OwedIs DEF Knows
    <3> QED
      BY <2>2, <3>1, <3>2 DEF FcsrOK
  <2> QED
    BY <1>1, <1>2, <1>4, <2>1, <2>2, FcsrEnds DEF DataTypes
<1>5. CASE ~Overlaid(op.s) /\ Return(TRUE) /\ buf' = [i \in 1 .. op.n |-> memory[op.s + i - 1]]
  <2>1. \A j \in 1 .. op.n : memory[op.s + j - 1] \in BlockContents
    <3>1. \A b \in Blocks : memory[b] \in BlockContents
      BY DEF DataTypes
    <3>2. \A j \in 1 .. op.n : op.s + j - 1 \in Blocks
      BY <1>2, <1>3
    <3> QED
      BY <3>1, <3>2
  <2>2. buf' \in Seq(BlockContents) /\ Len(buf') = op.n
    <3>1. op.n \in Nat
      BY DEF CallTypes
    <3>2. buf' \in [1 .. op.n -> BlockContents]
      BY <1>5, <2>1
    <3> QED
      BY <3>1, <3>2
  <2>3. ASSUME Served PROVE buf' = [j \in 1 .. op.n |-> Content(op.s + j - 1)]
    <3>1. \A b \in Transfers : ~Overlaid(b)
      BY <1>5, <2>3 DEF Served
    <3>2. \A j \in 1 .. op.n : Content(op.s + j - 1) = memory[op.s + j - 1]
      BY <1>3, <3>1 DEF Content
    <3> QED
      BY <1>5, <3>2
  <2> QED
    BY <1>4, <1>5, <2>2, <2>3
<1>6. CASE Inside /\ Return(TRUE) /\ buf' = [i \in 1 .. op.n |-> sram.cells[Cell(RegionOf(op.s), op.s + i - 1)]]
  <2>1. \A b \in Transfers : Overlaid(b) /\ RegionOf(b) = RegionOf(op.s) /\ In(b, RegionOf(op.s)) /\ RegionOf(op.s) \in DOMAIN Regions
    BY <1>2, <1>6, InsideIs
  <2>2. ASSUME NEW b \in Transfers PROVE Content(b) = sram.cells[Cell(RegionOf(op.s), b)] /\ Content(b) \in BlockContents
    <3>1. Content(b) = sram.cells[Cell(RegionOf(op.s), b)]
      BY <1>2, <2>1 DEF Content
    <3>2. Cell(RegionOf(op.s), b) \in Cells
      BY <1>2, <2>1, CellIs
    <3> QED
      BY <3>1, <3>2 DEF DataTypes
  <2>3. buf' = [j \in 1 .. op.n |-> Content(op.s + j - 1)]
    BY <1>3, <1>6, <2>2
  <2>4. buf' \in Seq(BlockContents) /\ Len(buf') = op.n
    <3>1. \A j \in 1 .. op.n : Content(op.s + j - 1) \in BlockContents
      BY <1>3, <2>2
    <3>2. op.n \in Nat
      BY DEF CallTypes
    <3>3. buf' \in [1 .. op.n -> BlockContents]
      BY <2>3, <3>1
    <3> QED
      BY <3>2, <3>3
  <2> QED
    BY <1>4, <1>6, <2>3, <2>4
<1>7. CASE Overlaid(op.s) /\ ~Inside /\ Return(FALSE) /\ UNCHANGED buf
  BY <1>4, <1>7
<1> QED
  BY <1>5, <1>6, <1>7 DEF FcsrReadSectors

LEMMA FcsrWrites ==
    ASSUME Common, FcsrOK, kind = "fcsr", FcsrWriteSectors, Inside
    PROVE  Common' /\ FcsrOK'
<1> USE Basics
<1> DEFINE R == RegionOf(op.s)
           Of(c) == c - Base[R] + Start(R)
           new == [c \in Cells |-> IF c >= Base[R] /\ Of(c) \in Transfers THEN DataFor(Of(c)) ELSE sram.cells[c]]
<1>1. At("writeSectors") /\ Return(TRUE) /\ UNCHANGED <<present, memory, card, late, port, buf>> /\ sram' = [sram EXCEPT !.cells = new]
  BY DEF FcsrWriteSectors, cardVars
<1>2. Running /\ Writing /\ ~Reading /\ op.fn = "writeSectors" /\ started /\ sram.marked /\ ~At("copy")
      /\ Transfers \subseteq Blocks /\ op.s \in Blocks
  <2>1. "writeSectors" \in Calls
    BY DEF Calls
  <2> QED
    BY <1>1, <2>1, FcsrAt
<1>3. R \in DOMAIN Regions /\ \A b \in Transfers : Overlaid(b) /\ RegionOf(b) = R /\ In(b, R)
  BY <1>2, InsideIs
<1>4. \A b \in Transfers : DataFor(b) \in BlockContents
  BY DataIs
<1>5. new \in [Cells -> BlockContents]
  <2>1. \A c \in Cells : sram.cells[c] \in BlockContents
    BY DEF DataTypes
  <2> HIDE DEF R, Of
  <2> QED
    BY <1>4, <2>1
<1>6. ASSUME NEW b \in Blocks, Overlaid(b)
      PROVE  new[Cell(RegionOf(b), b)] = IF b \in Transfers THEN DataFor(b) ELSE sram.cells[Cell(RegionOf(b), b)]
  <2> DEFINE q == RegionOf(b)
             c == Cell(q, b)
  <2>1. q \in DOMAIN Regions /\ In(b, q) /\ R \in DOMAIN Regions
    BY <1>3, <1>6, RegionIs
  <2>2. /\ Base[q] \in Nat /\ Base[q + 1] \in Nat /\ Start(q) \in Nat /\ b \in Nat
        /\ c = Base[q] + (b - Start(q)) /\ c \in Nat /\ Base[q] <= c /\ c < Base[q + 1] /\ c \in Cells
    BY <2>1, CellIs
  <2>3. q = R => Of(c) = b /\ c >= Base[R]
    <3>1. ASSUME q = R PROVE Of(c) = b /\ c >= Base[R]
      <4> DEFINE x == Base[R]
                 y == Start(R)
      <4>1. x \in Nat /\ y \in Nat /\ b \in Nat /\ c = x + (b - y) /\ x <= c
        BY <2>2, <3>1
      <4>2. Of(c) = c - x + y
        OBVIOUS
      <4> HIDE DEF x, y, c, Of
      <4>3. Of(c) = b /\ c >= x
        BY <4>1, <4>2
      <4> QED
        BY <4>3 DEF x
    <3> QED
      BY <3>1
  <2>4. b \in Transfers => q = R
    BY <1>3
  <2>5. ASSUME c >= Base[R], Of(c) \in Transfers PROVE q = R
    <3> DEFINE d == Of(c)
    <3>1. d \in Blocks /\ In(d, R)
      BY <1>2, <1>3, <2>5
    <3>2. Base[R] \in Nat /\ Start(R) \in Nat /\ d \in Nat /\ Cell(R, d) = Base[R] + (d - Start(R))
      BY <2>1, <3>1, CellIs
    <3>3. Cell(R, d) = c
      <4> DEFINE x == Base[R]
                 y == Start(R)
      <4>1. x \in Nat /\ y \in Nat /\ d \in Nat /\ c \in Nat /\ d = c - x + y /\ Cell(R, d) = x + (d - y)
        BY <2>2, <3>2
      <4> HIDE DEF x, y, c, d
      <4> QED
        BY <4>1
    <3> HIDE DEF d, R, c
    <3>4. In(b, q) /\ Cell(q, b) = Cell(R, d)
      BY <2>1, <3>3 DEF c
    <3> QED
      BY <2>1, <3>1, <3>4, OneCell
  <2>6. new[c] = IF c >= Base[R] /\ Of(c) \in Transfers THEN DataFor(Of(c)) ELSE sram.cells[c]
    BY <2>2
  <2> HIDE DEF new, Of, c, q, R
  <2>7. new[c] = IF b \in Transfers THEN DataFor(b) ELSE sram.cells[c]
    <3>1. CASE b \in Transfers
      BY <2>3, <2>4, <2>6, <3>1
    <3>2. CASE b \notin Transfers
      <4>1. ~(c >= Base[R] /\ Of(c) \in Transfers)
        BY <2>3, <2>5, <3>2
      <4> QED
        BY <2>6, <3>2, <4>1
    <3> QED
      BY <3>1, <3>2
  <2> QED
    BY <2>7 DEF c, q
<1> HIDE DEF new
<1>7. sram' \in [marked : BOOLEAN, cells : [Cells -> BlockContents]] /\ sram'.marked /\ sram'.cells = new
  BY <1>1, <1>2, <1>5 DEF DataTypes
<1>8. ASSUME ~CutsInCopy, NEW b \in Blocks PROVE Holds(b)' \in owed'[b]
  <2>1. ~At("copy")'
    BY <1>1, ReturnIs DEF At
  <2>2. owed'[b] = IF b \in Transfers THEN {DataFor(b)} ELSE owed[b]
    BY <1>1, <1>2, OwedIs DEF Knows, CfKinds
  <2>3. b \notin Transfers => Holds(b) \in owed[b]
    BY <1>8 DEF FcsrOK, Owe
  <2>4. CASE Overlaid(b)
    BY <1>2, <1>6, <1>7, <2>1, <2>2, <2>3, <2>4 DEF Holds
  <2>5. CASE ~Overlaid(b)
    <3>1. b \notin Transfers
      BY <1>3, <2>5
    <3>2. Holds(b)' = memory[b] /\ Holds(b) = memory[b]
      BY <1>1, <2>5 DEF Holds
    <3> QED
      BY <2>2, <2>3, <3>1, <3>2
  <2> QED
    BY <2>4, <2>5
<1> QED
  BY <1>1, <1>2, <1>7, <1>8, FcsrEnds

LEMMA FcsrOutside ==
    ASSUME Common, FcsrOK, kind = "fcsr", Call \/ Pull \/ Programmed \/ (PowerCycle /\ (CutsInCopy \/ ~At("copy"))), UNCHANGED sram
    PROVE  FcsrOK'
<1> USE Basics
<1>1. CASE Call
  <2>1. /\ At("done") /\ op'.at \in Calls /\ op'.at = op'.fn /\ op'.i = 0
        /\ UNCHANGED <<kind, memory, card, started, owed>>
    BY <1>1, CallIs
  <2>2. ~At("copy") /\ ~At("copy")' /\ ~At("done")'
    BY <2>1 DEF At, Calls
  <2>3. ASSUME ~CutsInCopy, NEW b \in Blocks PROVE Holds(b)' \in Owe(b)'
    <3>1. Holds(b)' = Holds(b)
      BY <2>1, <2>2 DEF Holds
    <3>2. Owe(b) \subseteq Owe(b)'
      BY <2>1 DEF Owe, Writing, Running
    <3> QED
      BY <2>3, <3>1, <3>2 DEF FcsrOK
  <2> QED
    BY <2>1, <2>2, <2>3 DEF FcsrOK, Idles
<1>2. CASE Pull
  BY <1>2 DEF Pull, Soldered
<1>3. CASE Programmed
  BY <1>3, ProgrammedHolds DEF FcsrOK
<1>4. CASE PowerCycle /\ (CutsInCopy \/ ~At("copy"))
  <2>1. /\ card'.pend = Nothing /\ ~started' /\ op'.at = "done" /\ op'.fn = "shutdown" /\ op'.i = 0
        /\ UNCHANGED <<kind, memory>> /\ \A b \in Blocks : Owe(b) \subseteq Owe(b)'
    BY <1>4, PowerHolds
  <2>2. ASSUME ~CutsInCopy, NEW b \in Blocks PROVE Holds(b)' \in Owe(b)'
    <3>1. Holds(b)' = Holds(b)
      BY <1>4, <2>1, <2>2 DEF Holds, At
    <3> QED
      BY <2>1, <2>2, <3>1 DEF FcsrOK
  <2> QED
    BY <2>1, <2>2 DEF FcsrOK, Idles, At
<1> QED
  BY <1>1, <1>2, <1>3, <1>4

-----------------------------------------------------------------------------
(* All adapters together.                                                  *)

LEMMA KindKept ==
    ASSUME CallTypes, AdaptersNext
    PROVE  kind' = kind
<1>1. CASE CfNext
  BY <1>1 DEF CfNext, M3cfStartup, SccfStartup, MpcfStartup, MmcfStartup, CfStartup, CfIsInserted, CfClearStatus, CfReadSectors,
              CfWriteSectors, CfCommand, CfGiven, CfLast, CfStray, Return, GoTo, NextBlock
<1>2. CASE NmmcNext
  BY <1>2 DEF NmmcNext, NmmcInit, NmmcIsInserted, NmmcClearStatus, NmmcStartUp, NmmcReadSectors, NmmcWriteSectors,
              Ends, Return, GoTo, NextBlock, TryAgain
<1>3. CASE AcekardNext
  BY <1>3 DEF AcekardNext, AkStartUp, AkReadSectors, AkWriteSectors, AkSend, AkVerify, AkOthers, Ak2StartUp, Ak2ReadSectors,
              Ak2WriteSectors, Ak2IsInserted, Ak2Others, Return, NextBlock, TryAgain
<1>4. CASE CartNext
  BY <1>4 DEF CartNext, Efa2Identify, Efa2Others, Efa2ReadSectors, Efa2WriteSectors, FcsrSearch, FcsrCopy, FcsrReadSectors,
              FcsrWriteSectors, FcsrIsInserted, FcsrOthers, Return, GoTo
<1>5. CASE Call \/ Programmed \/ Pull \/ PowerCycle
  BY <1>5 DEF Call, Programmed, Pull, PowerCycle
<1>6. CASE SdAdapterNext
  <2>1. CASE InitCard
    <3>1. CASE SendRelativeAddr
      BY <3>1 DEF SendRelativeAddr, Return, GoTo, TryAgain
    <3>2. CASE WaitStatus
      BY <3>2 DEF WaitStatus, Return, TryAgain
    <3>3. CASE AppCmd \/ OpCond \/ AllSendCid \/ SelectCard \/ SetBusWidth
      BY <3>3 DEF AppCmd, OpCond, AllSendCid, SelectCard, SetBusWidth, Return, GoTo
    <3> QED
      BY <2>1, <3>1, <3>2, <3>3 DEF InitCard
  <2>2. ReadBlock \/ StopStream \/ NjsdReadBlock \/ PollStatus => kind' = kind
    <3>1. ReadBlock => kind' = kind
      BY DEF ReadBlock, Return, NextBlock
    <3>2. ASSUME PollStatus PROVE kind' = kind
      <4>1. op.tries \in Nat /\ Tries \in Nat
        BY NumbersAre DEF CallTypes, CallRecs
      <4>2. PICK answered \in Command("status") :
              CASE op.tries + 1 >= Tries -> Return(FALSE)
                [] op.tries + 1 < Tries /\ ~(answered /\ card.state = "tran") -> TryAgain("programming")
                [] op.tries + 1 < Tries /\ answered /\ card.state = "tran" ->
                     IF LastOne THEN Return(TRUE) ELSE NextBlock("writeSectors")
        BY <3>2 DEF PollStatus
      <4>3. \/ Return(FALSE) \/ Return(TRUE) \/ TryAgain("programming") \/ NextBlock("writeSectors")
        <5> DEFINE far  == op.tries + 1 >= Tries
                   near == op.tries + 1 < Tries
                   here == card.state = "tran"
        <5>1. far \/ near
          BY <4>1
        <5>2. (CASE far -> Return(FALSE)
                 [] near /\ ~(answered /\ here) -> TryAgain("programming")
                 [] near /\ answered /\ here -> IF LastOne THEN Return(TRUE) ELSE NextBlock("writeSectors"))
          BY <4>2
        <5> HIDE DEF far, near, here
        <5> QED
          BY <5>1, <5>2
      <4> QED
        BY <4>3 DEF Return, TryAgain, NextBlock
    <3> QED
      BY <3>1, <3>2 DEF StopStream, NjsdReadBlock, Return, NextBlock
  <2>3. \A sends : SendRead(sends) => kind' = kind
    BY DEF SendRead, Return, GoTo
  <2>4. SendWrite \/ NjsdSendRead \/ NjsdWriteBlock => kind' = kind
    BY DEF SendWrite, NjsdSendRead, NjsdWriteBlock, Return, GoTo
  <2>5. CASE ScsdReadSectors \/ ScsdReadData \/ ScsdWriteSectors \/ M3sdReadSectors \/ M3sdReadData \/ M3sdWriteSectors
             \/ NjsdReadSectors \/ NjsdWriteSector
    BY <2>2, <2>3, <2>4, <2>5 DEF ScsdReadSectors, ScsdReadData, ScsdWriteSectors, M3sdReadSectors, M3sdReadData, M3sdWriteSectors,
       NjsdReadSectors, NjsdWriteSector
  <2>6. CASE ScsdStartUp \/ ScsdInitCard \/ ScsdIsInserted \/ ScsdShutdown \/ ScsdWriteData
    BY <2>6 DEF ScsdStartUp, ScsdInitCard, ScsdIsInserted, ScsdShutdown, ScsdWriteData, Initialising, Return, GoTo
  <2>7. CASE M3sdStartUp \/ M3sdInitCard \/ M3sdIsInserted \/ M3sdShutdown \/ M3sdWriteData
    BY <2>7 DEF M3sdStartUp, M3sdInitCard, M3sdIsInserted, M3sdShutdown, M3sdWriteData, Initialising, Return, GoTo
  <2>8. CASE NjsdStartUp \/ NjsdCardInit \/ NjsdIsInserted \/ NjsdClearStatus
    BY <2>8 DEF NjsdStartUp, NjsdCardInit, NjsdIsInserted, NjsdClearStatus, Return, GoTo
  <2> QED
    BY <1>6, <2>1, <2>5, <2>6, <2>7, <2>8 DEF SdAdapterNext
<1> QED
  BY <1>1, <1>2, <1>3, <1>4, <1>5, <1>6 DEF AdaptersNext, Step

(* The invariants of the adapters that are not in use say nothing.         *)
LEMMA OneAdapter ==
    ASSUME Common', kind' = kind,
           kind \in SdKinds => SdOK', kind \in CfKinds => CfOK', kind = "nmmc" => NeoOK', kind = "ak" => AkOK',
           kind \in {"ak2", "efa2"} => RestOK', kind = "fcsr" => FcsrOK'
    PROVE  CardsInv'
<1>1. SdOK' /\ CfOK' /\ NeoOK' /\ AkOK' /\ RestOK' /\ FcsrOK'
  BY DEF SdOK, CfOK, NeoOK, AkOK, RestOK, FcsrOK, SdKinds, CfKinds
<1> QED
  BY <1>1 DEF CardsInv

LEMMA CfHolds ==
    ASSUME Common, CfOK, CfNext
    PROVE  Common' /\ CfOK' /\ kind \in CfKinds
<1>1. kind \in CfKinds
  BY DEF CfNext, M3cfStartup, SccfStartup, MpcfStartup, MmcfStartup, CfIsInserted, CfClearStatus, CfReadSectors, CfWriteSectors, CfKinds
<1>2. CASE M3cfStartup \/ SccfStartup \/ MpcfStartup \/ MmcfStartup
  BY <1>1, <1>2, CfStarts
<1>3. CASE CfIsInserted \/ CfClearStatus
  BY <1>1, <1>3, CfOthers
<1> QED
  BY <1>1, <1>2, <1>3, CfReads, CfWrites DEF CfNext

LEMMA NeoHolds ==
    ASSUME Common, NeoOK, NmmcNext
    PROVE  Common' /\ NeoOK' /\ kind = "nmmc"
<1>1. kind = "nmmc"
  BY DEF NmmcNext, NmmcInit, NmmcIsInserted, NmmcClearStatus, NmmcStartUp, NmmcReadSectors, NmmcWriteSectors
<1>2. CASE NmmcInit \/ NmmcIsInserted \/ NmmcStartUp
  BY <1>1, <1>2, NeoStarts
<1> QED
  BY <1>1, <1>2, NeoClears, NeoReads, NeoWrites DEF NmmcNext

LEMMA AcekardHolds ==
    ASSUME Common, AkOK, RestOK, AcekardNext
    PROVE  Common' /\ \/ kind = "ak" /\ AkOK'
                      \/ kind = "ak2" /\ RestOK'
<1>1. CASE AkStartUp \/ AkOthers
  BY <1>1, AkSets DEF AkStartUp, AkOthers
<1>2. CASE AkReadSectors
  BY <1>2, AkReadsSectors DEF AkReadSectors
<1>3. CASE AkWriteSectors
  BY <1>3, AkSends, AkVerifies DEF AkWriteSectors
<1>4. CASE Ak2StartUp \/ Ak2IsInserted \/ Ak2Others
  BY <1>4, RestQuiet DEF Ak2StartUp, Ak2IsInserted, Ak2Others
<1>5. CASE Ak2ReadSectors
  BY <1>5, RestReads DEF Ak2ReadSectors
<1>6. CASE Ak2WriteSectors
  BY <1>6, Ak2Writes DEF Ak2WriteSectors
<1> QED
  BY <1>1, <1>2, <1>3, <1>4, <1>5, <1>6 DEF AcekardNext

LEMMA CartHolds ==
    ASSUME Common, RestOK, FcsrOK, CartNext
    PROVE  Common' /\ \/ kind = "efa2" /\ RestOK'
                      \/ kind = "fcsr" /\ FcsrOK'
<1>1. CASE Efa2Identify \/ Efa2Others \/ Efa2WriteSectors
  BY <1>1, RestQuiet DEF Efa2Identify, Efa2Others, Efa2WriteSectors
<1>2. CASE Efa2ReadSectors
  BY <1>2, RestReads DEF Efa2ReadSectors
<1>3. CASE FcsrSearch
  <2>1. kind = "fcsr"
    BY <1>3 DEF FcsrSearch
  <2> QED
    BY <1>3, <2>1, FcsrMarks, FcsrQuiet
<1>4. CASE FcsrCopy
  BY <1>4, FcsrCopies DEF FcsrCopy
<1>5. CASE FcsrReadSectors
  BY <1>5, FcsrReads DEF FcsrReadSectors
<1>6. CASE FcsrWriteSectors
  <2>1. kind = "fcsr"
    BY <1>6 DEF FcsrWriteSectors
  <2> QED
    BY <1>6, <2>1, FcsrWrites, FcsrQuiet
<1>7. CASE FcsrIsInserted \/ FcsrOthers
  BY <1>7, FcsrQuiet DEF FcsrIsInserted, FcsrOthers
<1> QED
  BY <1>1, <1>2, <1>3, <1>4, <1>5, <1>6, <1>7 DEF CartNext

LEMMA OutsideHolds ==
    ASSUME CardsInv, Call \/ Programmed \/ Pull \/ ((CutsInCopy \/ ~At("copy")) /\ PowerCycle), UNCHANGED sram
    PROVE  CardsInv'
<1>1. Common /\ SdOK /\ CfOK /\ NeoOK /\ AkOK /\ RestOK /\ FcsrOK
  BY DEF CardsInv
<1>2. Call \/ Pull \/ Programmed \/ PowerCycle
  OBVIOUS
<1>3. Common' /\ kind' = kind
  BY <1>1, <1>2, CallHolds, PullHolds, ProgrammedHolds, PowerHolds DEF Call
<1>4. kind \in SdKinds => SdOK'
  BY <1>1, <1>2, SdOutside
<1>5. kind \in CfKinds => CfOK'
  BY <1>1, <1>2, CfOutside
<1>6. kind = "nmmc" => NeoOK'
  BY <1>1, <1>2, NeoOutside
<1>7. kind = "ak" => AkOK'
  BY <1>1, <1>2, AkOutside
<1>8. kind \in {"ak2", "efa2"} => RestOK'
  BY <1>1, <1>2, RestOutside
<1>9. kind = "fcsr" => FcsrOK'
  BY <1>1, FcsrOutside
<1> QED
  BY <1>3, <1>4, <1>5, <1>6, <1>7, <1>8, <1>9, OneAdapter

LEMMA SameCommon ==
    ASSUME Common, UNCHANGED <<kind, present, memory, card, late, port, op, buf, written, started, clean, owed, sram>>
    PROVE  Common'
<1>1. CallTypes' /\ CardTypes' /\ DataTypes' /\ LeftOK' /\ GoneOK'
  BY DEF Common, CallTypes, CardTypes, DataTypes, LeftOK, GoneOK, Idles
<1>2. CallOK'
  BY DEF Common, CallOK, At, Running, Reading, Writing
<1>3. Kept'
  BY DEF Common, Kept, Idles, Owe, Knows, Put, OwnOnly, Pends, DataFor, Transfers, At, Writing, Running
<1>4. Reads'
  <2>1. Served' = Served
    BY DEF Served, Transfers, Overlaid, In, Start, End
  <2> QED
    BY <2>1 DEF Common, Reads, Undisturbed, Reading, Running, At, Idles
<1> QED
  BY <1>1, <1>2, <1>3, <1>4 DEF Common

LEMMA CardsStep == CardsInv /\ [AdaptersNext]_cardsVars => CardsInv'
<1> SUFFICES ASSUME CardsInv, [AdaptersNext]_cardsVars PROVE CardsInv'
  OBVIOUS
<1>1. Common /\ SdOK /\ CfOK /\ NeoOK /\ AkOK /\ RestOK /\ FcsrOK
  BY DEF CardsInv
<1>2. CASE Step
  <2>1. kind' = kind
    BY <1>1, <1>2, KindKept DEF AdaptersNext, Common
  <2>2. CASE SdAdapterNext /\ UNCHANGED sram
    <3>1. Common' /\ SdOK' /\ kind \in SdKinds
      BY <1>1, <2>2, SdHolds
    <3>2. kind \notin CfKinds /\ kind \notin {"nmmc", "ak", "ak2", "efa2", "fcsr"}
      BY <3>1 DEF SdKinds, CfKinds
    <3> QED
      BY <2>1, <3>1, <3>2, OneAdapter
  <2>3. CASE CfNext
    <3>1. Common' /\ CfOK' /\ kind \in CfKinds
      BY <1>1, <2>3, CfHolds
    <3>2. kind \notin SdKinds /\ kind \notin {"nmmc", "ak", "ak2", "efa2", "fcsr"}
      BY <3>1 DEF SdKinds, CfKinds
    <3> QED
      BY <2>1, <3>1, <3>2, OneAdapter
  <2>4. CASE NmmcNext
    <3>1. Common' /\ NeoOK' /\ kind = "nmmc"
      BY <1>1, <2>4, NeoHolds
    <3>2. kind \notin SdKinds /\ kind \notin CfKinds /\ kind \notin {"ak", "ak2", "efa2", "fcsr"}
      BY <3>1 DEF SdKinds, CfKinds
    <3> QED
      BY <2>1, <3>1, <3>2, OneAdapter
  <2>5. CASE AcekardNext
    <3>1. Common' /\ (kind \in {"ak", "ak2"}) /\ (kind = "ak" => AkOK') /\ (kind = "ak2" => RestOK')
      BY <1>1, <2>5, AcekardHolds
    <3>2. kind \notin SdKinds /\ kind \notin CfKinds /\ kind \notin {"nmmc", "efa2", "fcsr"}
      BY <3>1 DEF SdKinds, CfKinds
    <3> QED
      BY <2>1, <3>1, <3>2, OneAdapter
  <2>6. CASE CartNext
    <3>1. Common' /\ (kind \in {"efa2", "fcsr"}) /\ (kind = "efa2" => RestOK') /\ (kind = "fcsr" => FcsrOK')
      BY <1>1, <2>6, CartHolds
    <3>2. kind \notin SdKinds /\ kind \notin CfKinds /\ kind \notin {"nmmc", "ak", "ak2"}
      BY <3>1 DEF SdKinds, CfKinds
    <3> QED
      BY <2>1, <3>1, <3>2, OneAdapter
  <2> QED
    BY <1>2, <2>2, <2>3, <2>4, <2>5, <2>6 DEF Step
<1>3. CASE UNCHANGED cardsVars
  <2>1. UNCHANGED <<kind, present, memory, card, late, port, op, buf, written, started, clean, owed, sram>>
    BY <1>3 DEF cardsVars, base, cardVars, callVars
  <2>2. Common'
    BY <1>1, <2>1, SameCommon
  <2>3. SdOK' /\ CfOK'
    <3>1. SdOK'
      BY <1>1, <2>1 DEF SdOK, SdFlow, SdStart, SdReady, SdWrite, At, Reading, Writing, Running, Idles, Ready, Settled, Stored,
         CurrentBlock, Pends, Value, DataFor, Knows, LastOne
    <3>2. CfOK'
      BY <1>1, <2>1 DEF CfOK, Within, At, Reading, Writing, Running, Idles, CurrentBlock, Pends, DataFor
    <3> QED
      BY <3>1, <3>2
  <2>4. NeoOK' /\ AkOK' /\ RestOK'
    <3>1. NeoOK'
      BY <1>1, <2>1 DEF NeoOK, At, Reading, Writing, Running, Idles, Settled, Stored, CurrentBlock, Pends, Value, DataFor, LastOne
    <3> QED
      BY <1>1, <2>1, <3>1 DEF AkOK, RestOK, At, Writing, Running, Idles, CurrentBlock, Pends, DataFor
  <2>5. FcsrOK'
    <3>1. \A b \in Blocks : Holds(b)' = Holds(b) /\ Owe(b)' = Owe(b)
      BY <2>1 DEF Holds, Owe, At, Writing, Running, Transfers, DataFor
    <3>2. \A b : Content(b)' = Content(b)
      BY <2>1 DEF Content
    <3>3. Served' = Served
      BY <2>1 DEF Served, Transfers
    <3> QED
      BY <1>1, <2>1, <3>1, <3>2, <3>3 DEF FcsrOK, At, Idles
  <2> QED
    BY <2>2, <2>3, <2>4, <2>5 DEF CardsInv
<1> QED
  BY <1>2, <1>3, OutsideHolds DEF AdaptersNext

-----------------------------------------------------------------------------
(* The start.                                                              *)
LEMMA CardsStart == AdaptersInit => CardsInv
<1> SUFFICES ASSUME AdaptersInit PROVE CardsInv
  OBVIOUS
<1>1. /\ kind \in Kinds /\ late = Lateness /\ present \in BOOLEAN /\ (kind \notin Soldered => present)
      /\ memory = [b \in Blocks |-> b] /\ owed = [b \in Blocks |-> {b}]
      /\ card = CardOn(kind) /\ port = PortOn(kind) /\ op = NoCall
      /\ buf = <<>> /\ written = 0 /\ started = FALSE /\ clean = FALSE
  BY DEF AdaptersInit, CardsInit
<1>2. sram = [marked |-> FALSE, cells |-> [c \in Cells |-> Junk]]
  BY DEF AdaptersInit
<1>3. op \in CallRecs /\ op.at = "done" /\ op.fn = "shutdown" /\ op.i = 0 /\ op.rsp = "none" /\ ~Running /\ ~Reading /\ ~Writing
  <2>1. NoCall \in CallRecs /\ NoCall.at = "done" /\ NoCall.fn = "shutdown" /\ NoCall.i = 0 /\ NoCall.rsp = "none"
    BY NoCallIs
  <2> QED
    BY <1>1, <2>1 DEF Running, Reading, Writing, At
<1>4. card \in CardRecs /\ card.pend = Nothing /\ card.state \in {"off", "tran"}
      /\ (kind \notin SdKinds \cup {"nmmc"} => card.state = "tran")
  BY <1>1, CardOnIs
<1>5. port \in PortRecs /\ port.media = (kind \in {"njsd", "mpcf", "mmcf", "ak2"})
  <2> DEFINE m == kind \in {"njsd", "mpcf", "mmcf", "ak2"}
             f == FALSE
  <2>1. port = [media |-> m, addressed |-> f] /\ m \in BOOLEAN /\ f \in BOOLEAN
    BY <1>1 DEF PortOn
  <2> HIDE DEF m, f
  <2>2. port \in PortRecs /\ port.media = m
    BY <2>1 DEF PortRecs
  <2> QED
    BY <2>2 DEF m
<1>6. CallTypes /\ CardTypes
  <2>1. Lateness \in Nat /\ MaxWritten \in Nat
    BY <1>3, NumbersAre
  <2>2. started \in BOOLEAN /\ clean \in BOOLEAN
    BY <1>1
  <2>3. late \in 0 .. Lateness /\ written \in 0 .. MaxWritten
    BY <1>1, <2>1
  <2> QED
    BY <1>1, <1>3, <1>4, <1>5, <2>2, <2>3 DEF CallTypes, CardTypes
<1>7. DataTypes
  <2>1. Junk \in BlockContents /\ \A b \in Blocks : b \in BlockContents
    BY DEF BlockContents
  <2>2. memory \in [Blocks -> BlockContents]
    BY <1>1, <2>1
  <2>3. owed \in [Blocks -> SUBSET BlockContents]
    BY <1>1, <2>1
  <2>4. sram \in [marked : BOOLEAN, cells : [Cells -> BlockContents]]
    <3> DEFINE m == FALSE
               c == [i \in Cells |-> Junk]
    <3>1. m \in BOOLEAN /\ c \in [Cells -> BlockContents] /\ sram = [marked |-> m, cells |-> c]
      BY <1>2, <2>1
    <3> HIDE DEF m, c
    <3> QED
      BY <3>1
  <2>5. buf \in Seq(BlockContents)
    BY <1>1
  <2> QED
    BY <2>2, <2>3, <2>4, <2>5 DEF DataTypes
<1>8. CallOK
  BY <1>1, <1>3, NumbersAre DEF CallOK, At, Calls
<1>9. LeftOK /\ GoneOK
  BY <1>1, <1>4 DEF LeftOK, GoneOK, Idles
<1>10. \A b \in Blocks : memory[b] \in Owe(b)
  BY <1>1 DEF Owe
<1>11. Kept /\ Reads
  BY <1>1, <1>3, <1>4, <1>10 DEF Kept, Reads, Knows, Idles, Undisturbed
<1>12. SdOK /\ CfOK
  BY <1>1, <1>3, <1>4, <1>5 DEF SdOK, SdFlow, SdStart, SdReady, SdWrite, CfOK, Within, At, Calls, Starting, Settled, Idles, SdKinds, CfKinds
<1>13. NeoOK /\ AkOK /\ RestOK
  BY <1>1, <1>3, <1>4 DEF NeoOK, AkOK, RestOK, At, Calls, Settled, Idles, SdKinds
<1>14. FcsrOK
  <2>1. \A b \in Blocks : Holds(b) = memory[b]
    <3>1. ~sram.marked
      BY <1>2
    <3> QED
      BY <3>1 DEF Holds
  <2> QED
    BY <1>1, <1>3, <1>4, <1>10, <2>1 DEF FcsrOK, At, Idles, Calls
<1> QED
  BY <1>6, <1>7, <1>8, <1>9, <1>11, <1>12, <1>13, <1>14 DEF CardsInv, Common

(* What the invariant says of a call that has ended.                       *)
LEMMA ReadsFollow == CardsInv => ReadsTheBlocks
<1> SUFFICES ASSUME CardsInv, At("done"), op.fn = "readSectors", op.ok, kind \in SdKinds \cup CfKinds => clean,
                    present \/ kind \in Notices, Served
             PROVE  buf = [i \in 1 .. op.n |-> Content(op.s + i - 1)]
  BY DEF ReadsTheBlocks, TheBlocks
<1>1. CASE kind = "fcsr"
  BY <1>1 DEF CardsInv, FcsrOK
<1>2. CASE kind # "fcsr"
  <2>1. buf = [j \in 1 .. op.n |-> memory[op.s + j - 1]]
    BY <1>2 DEF CardsInv, Common, Reads, Undisturbed
  <2>2. \A b : Content(b) = memory[b]
    BY <1>2 DEF Content
  <2> QED
    BY <2>1, <2>2
<1> QED
  BY <1>1, <1>2

LEMMA KeepingFollows == CardsInv /\ ~CutsInCopy => BlocksKept
<1> SUFFICES ASSUME CardsInv, ~CutsInCopy, At("done"), present \/ kind \in Confirms, NEW b \in Blocks
             PROVE  \/ Content(b) \in owed[b]
                    \/ card.pend # Nothing /\ card.pend.block = b /\ card.pend.value \in owed[b]
  BY DEF BlocksKept
<1>1. \A d \in Blocks : Owe(d) = owed[d]
  BY DEF Owe, Writing, Running
<1>2. CASE kind = "fcsr"
  <2>1. Holds(b) \in Owe(b)
    BY <1>2 DEF CardsInv, FcsrOK
  <2>2. ~At("copy")
    BY DEF At
  <2>3. Holds(b) = Content(b)
    BY <1>2, <2>2 DEF Holds, Content
  <2> QED
    BY <1>1, <2>1, <2>3
<1>3. CASE kind # "fcsr"
  <2>1. /\ memory[b] \in Owe(b) \/ (kind \in CfKinds /\ ~Idles /\ card.pend.block = b)
        /\ Idles \/ card.pend.value \in Owe(card.pend.block)
    BY <1>3 DEF CardsInv, Common, Kept
  <2>2. Content(b) = memory[b]
    BY <1>3 DEF Content
  <2> QED
    BY <1>1, <2>1, <2>2 DEF Idles
<1> QED
  BY <1>2, <1>3

LEMMA SoundnessFollows == CardsInv => CardsSound
<1> SUFFICES ASSUME CardsInv PROVE CardsSound
  OBVIOUS
<1>1. Common
  BY DEF CardsInv
<1>2. AdaptersTypeOK
  <2>1. /\ kind \in Kinds /\ present \in BOOLEAN /\ started \in BOOLEAN /\ clean \in BOOLEAN /\ late \in 0 .. Lateness
        /\ memory \in [Blocks -> BlockContents] /\ owed \in [Blocks -> SUBSET BlockContents]
        /\ card \in CardRecs /\ port \in PortRecs /\ op \in CallRecs
        /\ written \in 0 .. MaxWritten /\ buf \in Seq(BlockContents) /\ Len(buf) <= MaxBlocks
        /\ sram \in [marked : BOOLEAN, cells : [Cells -> BlockContents]]
    BY <1>1 DEF Common, CallTypes, CardTypes, DataTypes, CallOK
  <2>2. card.state \in States /\ card.left \in 0 .. Many /\ card.wide \in BOOLEAN
    BY <2>1 DEF CardRecs
  <2>3. op.fn \in Calls /\ op.i \in 0 .. MaxBlocks /\ op.tries \in 0 .. Tries
    BY <2>1 DEF CallRecs
  <2> QED
    BY <2>1, <2>2, <2>3 DEF AdaptersTypeOK, States, PortRecs
<1>3. Selected
  <2> SUFFICES ASSUME At("done"), started, clean, present
               PROVE  /\ kind \in SdKinds => card.state = "tran" /\ card.wide
                      /\ kind = "nmmc" => card.state = "tran"
    BY DEF Selected
  <2>1. op.at = "done" /\ Settled
    BY DEF At, Settled
  <2>2. kind \in SdKinds => Ready
    BY <2>1 DEF CardsInv, SdOK, SdReady
  <2>3. kind = "nmmc" => card.state = "tran"
    BY <2>1 DEF CardsInv, NeoOK
  <2> QED
    BY <2>2, <2>3 DEF Ready
<1> QED
  BY <1>2, <1>3 DEF CardsSound

-----------------------------------------------------------------------------
(* The invariant holds in every reachable state, of every adapter.         *)
THEOREM CardsInvariant == AdaptersSpec => []CardsInv
<1> QED
  BY CardsStart, CardsStep, PTL DEF AdaptersSpec

(* A read that reports success has filled the buffer with the sectors that *)
(* were asked for, in order: on an SD card if no call has failed since the *)
(* last startUp or clearStatus that got the card's address, on a CF card   *)
(* if it took the command, and with the other adapters also after calls    *)
(* that failed, and after a power failure.                                 *)
THEOREM CardsReadTheBlocks == AdaptersSpec => []ReadsTheBlocks
<1> QED
  BY CardsInvariant, ReadsFollow, PTL

(* Between two calls every sector holds what was written to it last, or,   *)
(* after a write that failed or was cut off, the old or the new contents;  *)
(* provided the power does not fail while FCSR fills its RAM.              *)
THEOREM CardsKeepTheBlocks ==
    ASSUME CutsInCopy = FALSE
    PROVE  AdaptersSpec => []BlocksKept
<1>1. CardsInv => BlocksKept
  BY KeepingFollows
<1> QED
  BY <1>1, CardsInvariant, PTL

(* The types, and: between two calls an SD card is selected, over four     *)
(* lines, and ready for a transfer, as long as every call has succeeded    *)
(* since a startUp or clearStatus that got the card's address.             *)
THEOREM CardsAreSound == AdaptersSpec => []CardsSound
<1> QED
  BY CardsInvariant, SoundnessFollows, PTL
=============================================================================
