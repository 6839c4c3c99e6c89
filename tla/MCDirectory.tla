---------------------------- MODULE MCDirectory ----------------------------
(* Names of one, two and three slots in clusters of three. *)
EXTENDS Directory

CONSTANTS short, long, longer, f1, f2

AllNames == {short, long, longer}
BothFiles == {f1, f2}
Sizes == [n \in Names |-> CASE n = short -> 1 [] n = long -> 2 [] n = longer -> 3]

Alias(n, f) == [name |-> n, part |-> 1, file |-> f]
Piece(n, k) == [name |-> n, part |-> k, file |-> NoFile]

NewCluster == <<Last, Last, Last>>
(* Nothing says what follows an end marker another system has written. *)
Leftovers  == <<Last, Alias(short, NoFile), Alias(long, NoFile)>>

(* No end marker, and no gap for an entry of three slots. *)
Scattered  == <<FreeSlot, Alias(short, f1), FreeSlot, Piece(long, 2), Alias(long, f2), FreeSlot>>

SomeLayouts == {NewCluster, Leftovers, Scattered}

(* What the properties say ends when astray is set, and astray stays set:  *)
(* no state after that is needed.                                          *)
NotAstray == ~astray
=============================================================================
