----------------------------- MODULE SectorDisc -----------------------------
(***************************************************************************)
(* What the NAND driver of libiorpg promises to libfat: an array of        *)
(* 512-byte sectors.  A write request changes exactly the sectors it       *)
(* names, in ascending order and some at a time; a read returns the value  *)
(* last written to the sector.  Blocks, pages, copies, the mapping table   *)
(* and orderly restarts are invisible.                                     *)
(***************************************************************************)
EXTENDS Integers

CONSTANTS NumSectors,   \* capacity of the disc
          Data,         \* what a sector can be written with
          Values,       \* what a read can return
          Blank,        \* what a sector holds before its first write
          None          \* "no value", "no result"

VARIABLES disc,         \* sector |-> value last written
          todo,         \* the part of the write request not yet on the disc
          out           \* the sector and value of the last read, or None

vars == <<disc, todo, out>>

Nothing == [addr |-> 0, left |-> 0, data |-> None]

Sectors == 0 .. NumSectors - 1

Init == /\ disc = [s \in Sectors |-> Blank]
        /\ todo = Nothing
        /\ out = None

(* A write of n sectors from sector a on is accepted. *)
Submit(a, n, d) ==
    /\ todo = Nothing
    /\ todo' = [addr |-> a, left |-> n, data |-> d]
    /\ out' = None
    /\ UNCHANGED disc

(* The next n sectors of the accepted write reach the disc. *)
Commit(n) ==
    /\ todo.left > 0
    /\ n <= todo.left
    /\ disc' = [s \in Sectors |->
                  IF s \in todo.addr .. todo.addr + n - 1 THEN todo.data ELSE disc[s]]
    /\ todo' = IF n = todo.left
                 THEN Nothing
                 ELSE [todo EXCEPT !.addr = @ + n, !.left = @ - n]
    /\ UNCHANGED out

(* A read of sector s returns v: the stored value, or anything when the    *)
(* sector was never written.                                               *)
Read(s, v) ==
    /\ todo = Nothing
    /\ disc[s] # Blank => v = disc[s]
    /\ out' = [addr |-> s, val |-> v]
    /\ UNCHANGED <<disc, todo>>

(* The result of the last read is given up: the next call begins. *)
Forget == out' = None /\ UNCHANGED <<disc, todo>>

Next == \/ \E a \in Sectors, n \in 1 .. NumSectors, d \in Data : Submit(a, n, d)
        \/ \E n \in 1 .. NumSectors : Commit(n)
        \/ \E s \in Sectors, v \in Values : Read(s, v)
        \/ Forget

Spec == Init /\ [][Next]_vars
=============================================================================
