--------------------------- MODULE WriteBackDisc ---------------------------
(***************************************************************************)
(* What the sector cache of libfat promises to the file system: sectors    *)
(* read back as they were last written; they reach the disc at any time,   *)
(* one by one and in any order, and all of them at a flush that reaches    *)
(* its end; a call the disc refuses changes nothing that is read back.     *)
(***************************************************************************)
CONSTANTS Sectors, Offsets, Values, Zero, None

VARIABLES mem,      \* sector |-> contents as the callers see them
          store,    \* sector |-> contents on the disc
          res,      \* result of the last call
          synced    \* the last call was a flush that reached its end

vars == <<mem, store, res, synced>>

Contents == [Offsets -> Values]

Init == /\ mem \in [Sectors -> Contents]
        /\ store = mem
        /\ res = None /\ synced = FALSE

(* Whatever the call, some sectors may be written back before it. *)
Spill == \E S \in SUBSET Sectors : store' = [s \in Sectors |-> IF s \in S THEN mem[s] ELSE store[s]]

Read(s, o) == /\ Spill
              /\ res' = [sector |-> s, offset |-> o, value |-> mem[s][o]]
              /\ synced' = FALSE
              /\ UNCHANGED mem

Write(s, o, v) == /\ Spill
                  /\ mem' = [mem EXCEPT ![s][o] = v]
                  /\ res' = None /\ synced' = FALSE

(* The rest of the sector is cleared. *)
EraseWrite(s, o, v) == /\ Spill
                       /\ mem' = [mem EXCEPT ![s] = [q \in Offsets |-> IF q = o THEN v ELSE Zero]]
                       /\ res' = None /\ synced' = FALSE

(* Only a flush that reaches its end counts as one. *)
Flush == /\ store' = mem
         /\ res' = None /\ synced' = TRUE
         /\ UNCHANGED mem

(* A call that fails, or a flush that is cut short. *)
Refused == /\ Spill
           /\ res' = None /\ synced' = FALSE
           /\ UNCHANGED mem

(* Everything not yet on the disc is given up. *)
Invalidate == /\ mem' = store
              /\ res' = None /\ synced' = FALSE
              /\ UNCHANGED store

(* Whole sectors, past the cache: a read finds what is on the disc, the    *)
(* latest contents if they have been written back.                         *)
DirectRead(s, o) == /\ res' = [sector |-> s, offset |-> o, value |-> store[s][o]]
                    /\ synced' = FALSE
                    /\ UNCHANGED <<mem, store>>

DirectWrite(s, c) == /\ mem' = [mem EXCEPT ![s] = c]
                     /\ store' = [store EXCEPT ![s] = c]
                     /\ res' = None /\ synced' = FALSE

Next == \/ \E s \in Sectors, o \in Offsets : Read(s, o) \/ DirectRead(s, o)
        \/ \E s \in Sectors, o \in Offsets, v \in Values : Write(s, o, v) \/ EraseWrite(s, o, v)
        \/ \E s \in Sectors, c \in Contents : DirectWrite(s, c)
        \/ Flush
        \/ Refused
        \/ Invalidate

Spec == Init /\ [][Next]_vars
=============================================================================
