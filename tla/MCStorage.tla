----------------------------- MODULE MCStorage -----------------------------
(* An old card without a partition table, one that is not formatted, and   *)
(* one of high capacity with two partitions, the second marked active.     *)
EXTENDS Storage, TLC

CONSTANTS old, new, high, h1, h2, h3, f1, f2, zero, one

AllCards == {old, new, high}
TwoCards == {old, high}
Kinds == [c \in Cards |-> CASE c = old -> "v1" [] c = new -> "v2" [] c = high -> "hc"]
Sizes == [c \in Cards |-> IF c = high THEN 8 ELSE 6]
Objects == {h1, h2, h3}
TwoObjects == {h1, h2}
TwoFiles == {f1, f2}
OneFile  == {f1}
Bits == {zero, one}
Stripes == [c \in Cards |-> [b \in 0 .. Sizes[c] - 1 |-> IF (b \div 2) % 2 = 0 THEN zero ELSE one]]

Record(n, k) == [reserved |-> 1, numFATs |-> 2, sectorsPerFat |-> 1, rootSectors |-> 0,
                 sectors |-> n, sectorsPerCluster |-> k]
Entry(a, t, s) == [active |-> a, type |-> t, start |-> s]

Plain(n) == [signature |-> TRUE, isVolume |-> TRUE, entries |-> <<>>, records |-> 0 :> Record(n, 1)]
(* The second entry is the active one. *)
Parted   == [signature |-> TRUE, isVolume |-> FALSE,
             entries |-> <<Entry(FALSE, 6, 3), Entry(TRUE, 6, 1)>>,
             records |-> 3 :> Record(1, 1) @@ 1 :> Record(7, 1)]
Unformatted == [signature |-> FALSE, isVolume |-> FALSE, entries |-> <<>>, records |-> 0 :> Record(6, 1)]

Media == [m \in Cards \cup {Nand} |->
            IF m = high THEN Parted ELSE IF m = new THEN Unformatted ELSE Plain(6)]
=============================================================================
