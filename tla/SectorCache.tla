---------------------------- MODULE SectorCache ----------------------------
(***************************************************************************)
(* The sector cache of libfat (cache.c): a few pages, each holding one     *)
(* sector, written back when another sector needs the page or at a flush.  *)
(* The page used least is replaced; the use count belongs to the page, not *)
(* to the sector.  fatfile.c also reads and writes whole sectors past the  *)
(* cache, and so does _FAT_fat_linkFreeClusterCleared: also sectors that   *)
(* the cache holds.                                                        *)
(*                                                                         *)
(* The disc may refuse a read or a write (DiscFails); a refused write      *)
(* changes nothing.                                                        *)
(***************************************************************************)
EXTENDS Integers, FiniteSets

CONSTANTS NumPages,      \* numberOfPages, at least 2
          Cached,        \* sectors accessed through the cache
          Direct,        \* sectors accessed past it
          Offsets,       \* parts of a sector
          Values, Zero,
          Free,          \* CACHE_FREE
          None,
          DiscFails,     \* the disc can report errors
          MaxUses        \* bound on the use counts

ASSUME CacheAssumption ==
    /\ NumPages \in Nat /\ NumPages >= 2
    /\ Free \notin Cached \cup Direct
    /\ Zero \in Values /\ DiscFails \in BOOLEAN /\ MaxUses \in Nat

Sectors  == Cached \cup Direct
Pages    == 0 .. NumPages - 1
Contents == [Offsets -> Values]

VARIABLES
  disc,       \* sector -> contents
  held,       \* cacheEntries[].sector
  count,      \* cacheEntries[].count
  dirty,      \* cacheEntries[].dirty
  data,       \* pages
  res,        \* what the last read returned
  flushed,    \* "no", or the last call was a flush: it was "cut" short, or did "all"
  latest,     \* history: what the callers last wrote to each sector
  spoiled     \* history: sectors whose page lost their contents (a load into it
              \* failed), or that were written past the page they were on

pageVars == <<held, count, dirty, data>>
vars     == <<disc, pageVars, res, flushed, latest, spoiled>>

TypeOK ==
    /\ disc \in [Sectors -> Contents] /\ latest \in [Sectors -> Contents]
    /\ held \in [Pages -> Sectors \cup {Free}]
    /\ count \in [Pages -> Nat]
    /\ dirty \in [Pages -> BOOLEAN]
    /\ data \in [Pages -> Contents]
    /\ res \in [sector : Sectors, offset : Offsets, value : Values] \cup {None}
    /\ flushed \in {"no", "cut", "all"} /\ spoiled \subseteq Sectors

(* _FAT_cache_constructor *)
Init ==
    /\ disc = [s \in Sectors |-> [o \in Offsets |-> Zero]]
    /\ latest = disc
    /\ held = [p \in Pages |-> Free]
    /\ count = [p \in Pages |-> 0]
    /\ dirty = [p \in Pages |-> FALSE]
    /\ data = [p \in Pages |-> [o \in Offsets |-> Zero]]
    /\ res = None /\ flushed = "no" /\ spoiled = {}

-----------------------------------------------------------------------------
(* The pages with sector s. *)
Holding(s) == {p \in Pages : held[p] = s}

(* Pages without a sector. *)
FreePages == {p \in Pages : held[p] = Free}

(* The scan of _FAT_cache_getSector: the last free page, or the first of   *)
(* the pages used least.                                                   *)
Victim ==
    IF FreePages # {}
      THEN CHOOSE p \in FreePages : \A q \in FreePages : q <= p
      ELSE CHOOSE p \in Pages : \A q \in Pages :
             count[p] < count[q] \/ (count[p] = count[q] /\ p <= q)

(* The disc after the contents of a page have been saved. *)
WrittenBack(p) ==
    IF held[p] # Free /\ dirty[p] THEN [disc EXCEPT ![held[p]] = data[p]] ELSE disc

(* Mutant of GetSector: the page is filled before it is written back. *)
GetSectorLoadFirst(s, p, c) ==
    /\ \/ held[p] = s /\ c = data[p] /\ UNCHANGED <<disc, held>>
       \/ /\ \A q \in Pages : held[q] # s
          /\ p = Victim /\ c = disc[s]
          /\ disc' = IF held[p] # Free /\ dirty[p] THEN [disc EXCEPT ![held[p]] = c] ELSE disc
          /\ held' = [held EXCEPT ![p] = s]
    /\ count' = [count EXCEPT ![p] = @ + 1]

(* _FAT_cache_getSector: sector s is, or is put, on page p, whose contents *)
(* are then c.                                                             *)
GetSector(s, p, c) ==
    /\ \/ held[p] = s /\ c = data[p] /\ UNCHANGED <<disc, held>>
       \/ /\ \A q \in Pages : held[q] # s
          /\ p = Victim /\ c = WrittenBack(p)[s]
          /\ disc' = WrittenBack(p)
          /\ held' = [held EXCEPT ![p] = s]
    /\ count' = [count EXCEPT ![p] = @ + 1]

ReadPartialSector(s, o) ==
    \E p \in Pages, c \in Contents :
        /\ count[p] < MaxUses
        /\ GetSector(s, p, c)
        /\ data' = [data EXCEPT ![p] = c]
        /\ dirty' = [dirty EXCEPT ![p] = @ /\ held[p] = s]
        /\ res' = [sector |-> s, offset |-> o, value |-> c[o]]
        /\ flushed' = "no"
        /\ UNCHANGED <<latest, spoiled>>

WritePartialSector(s, o, v) ==
    \E p \in Pages, c \in Contents :
        /\ count[p] < MaxUses
        /\ GetSector(s, p, c)
        /\ data' = [data EXCEPT ![p] = [c EXCEPT ![o] = v]]
        /\ dirty' = [dirty EXCEPT ![p] = TRUE]
        /\ latest' = [latest EXCEPT ![s][o] = v]
        /\ res' = None /\ flushed' = "no"
        /\ UNCHANGED spoiled

EraseWritePartialSector(s, o, v) ==
    LET new == [q \in Offsets |-> IF q = o THEN v ELSE Zero]
    IN  \E p \in Pages, c \in Contents :
        /\ count[p] < MaxUses
        /\ GetSector(s, p, c)
        /\ data' = [data EXCEPT ![p] = new]
        /\ dirty' = [dirty EXCEPT ![p] = TRUE]
        /\ latest' = [latest EXCEPT ![s] = new]
        /\ res' = None /\ flushed' = "no"
        /\ UNCHANGED spoiled

(* A sector that is not on a page, and the victim cannot be saved. *)
SaveFails(s) ==
    /\ DiscFails
    /\ \A q \in Pages : held[q] # s
    /\ held[Victim] # Free /\ dirty[Victim]
    /\ res' = None /\ flushed' = "no"
    /\ UNCHANGED <<disc, pageVars, latest, spoiled>>

(* The victim has been saved, if it had to be, and the sector cannot be    *)
(* read: the page has been overwritten by then, in part or as a whole.     *)
LoadFails(s) ==
    \E p \in Pages, c \in Contents :
        /\ DiscFails
        /\ \A q \in Pages : held[q] # s
        /\ p = Victim
        /\ disc' = WrittenBack(p)
        /\ dirty' = [dirty EXCEPT ![p] = FALSE]
        /\ data' = [data EXCEPT ![p] = c]
        /\ spoiled' = spoiled \cup ({held[p]} \ {Free})
        /\ res' = None /\ flushed' = "no"
        /\ UNCHANGED <<held, count, latest>>

(* Mutant of Flush: the loop ends one page early. *)
FlushButOne ==
    \E n \in 0 .. NumPages - 1 :
        LET saved(s) == {p \in 0 .. n - 1 : dirty[p] /\ held[p] = s}
        IN  /\ n < NumPages - 1 => DiscFails /\ dirty[n]
            /\ disc' = [s \in Sectors |-> IF saved(s) = {} THEN disc[s]
                                          ELSE data[CHOOSE p \in saved(s) : TRUE]]
            /\ count' = [p \in Pages |-> IF p < n THEN 0 ELSE count[p]]
            /\ dirty' = [p \in Pages |-> p >= n /\ dirty[p]]
            /\ res' = None /\ flushed' = IF n < NumPages - 1 THEN "cut" ELSE "all"
            /\ UNCHANGED <<held, data, latest, spoiled>>

(* _FAT_cache_flush: pages are saved in order until one fails (n pages are *)
(* done by then).  The sectors stay on their pages.  The result is true in *)
(* either case: on failure it is CACHE_FREE converted to bool.             *)
Flush ==
    \E n \in 0 .. NumPages :
        LET saved(s) == {p \in 0 .. n - 1 : dirty[p] /\ held[p] = s}
        IN  /\ n < NumPages => DiscFails /\ dirty[n]
            /\ disc' = [s \in Sectors |-> IF saved(s) = {} THEN disc[s]
                                          ELSE data[CHOOSE p \in saved(s) : TRUE]]
            /\ count' = [p \in Pages |-> IF p < n THEN 0 ELSE count[p]]
            /\ dirty' = [p \in Pages |-> p >= n /\ dirty[p]]
            /\ res' = None /\ flushed' = IF n < NumPages THEN "cut" ELSE "all"
            /\ UNCHANGED <<held, data, latest, spoiled>>

Invalidate ==
    /\ held' = [p \in Pages |-> Free]
    /\ count' = [p \in Pages |-> 0]
    /\ dirty' = [p \in Pages |-> FALSE]
    /\ latest' = disc /\ spoiled' = {}
    /\ res' = None /\ flushed' = "no"
    /\ UNCHANGED <<disc, data>>

(* A whole sector as _FAT_read_r and _FAT_write_r transfer it. *)
DirectRead(s, o) ==
    /\ res' = [sector |-> s, offset |-> o, value |-> disc[s][o]]
    /\ flushed' = "no"
    /\ UNCHANGED <<disc, pageVars, latest, spoiled>>

DirectWrite(s, c) ==
    /\ disc' = [disc EXCEPT ![s] = c]
    /\ latest' = [latest EXCEPT ![s] = c]
    /\ spoiled' = IF Holding(s) = {} THEN spoiled ELSE spoiled \cup {s}
    /\ res' = None /\ flushed' = "no"
    /\ UNCHANGED pageVars

Next ==
    \/ \E s \in Cached, o \in Offsets : ReadPartialSector(s, o)
    \/ \E s \in Cached, o \in Offsets, v \in Values :
          WritePartialSector(s, o, v) \/ EraseWritePartialSector(s, o, v)
    \/ \E s \in Cached : SaveFails(s) \/ LoadFails(s)
    \/ Flush
    \/ Invalidate
    \/ \E s \in Direct, o \in Offsets : DirectRead(s, o)
    \/ \E s \in Direct, c \in Contents : DirectWrite(s, c)

Spec == Init /\ [][Next]_vars

-----------------------------------------------------------------------------
(* The sector as the next cached access will find it. *)
Current(s) == IF Holding(s) = {} THEN disc[s] ELSE data[CHOOSE p \in Holding(s) : TRUE]

Abstract == INSTANCE WriteBackDisc WITH
    mem <- [s \in Sectors |-> Current(s)], store <- disc, synced <- flushed = "all"

(* A sector is on one page at most, whatever fails: two copies would part  *)
(* at the first write.                                                     *)
OnePagePerSector == \A p, q \in Pages : held[p] = held[q] /\ held[p] # Free => p = q

(* No write is lost because the disc refuses another one, because another  *)
(* sector cannot be read, or because another sector is transferred past    *)
(* its page: the page that could not be saved stays dirty, and what was    *)
(* clean is on the disc (cache.c:105, 214, fatfile.c:604).                 *)
NothingLost ==
    \A s \in Sectors \ spoiled :
        /\ Current(s) = latest[s]
        /\ (\A p \in Holding(s) : ~dirty[p]) => disc[s] = latest[s]

(* As long as no sector is spoiled the cache is invisible, except in when  *)
(* sectors reach the disc: reads return what was written last, whatever    *)
(* writes the disc refuses, and a flush that does all its pages leaves     *)
(* nothing behind (cache.c:105, 214).                                      *)
ImplementsWriteBack == Abstract!Init /\ [][spoiled' # {} \/ Abstract!Next]_Abstract!vars

(* cache.h:105 and fatfile.c:269: a flush that reports success has written *)
(* every dirty sector to the disc.                                         *)
FlushedIsOnDisc == flushed # "no" => \A s \in Sectors : disc[s] = latest[s]

(* cache.h:62: a read returns the data of the sector, also when an earlier *)
(* call failed to swap another one in.                                     *)
ReadIsLatest == res # None => res.value = latest[res.sector][res.offset]
=============================================================================
