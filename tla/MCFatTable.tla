----------------------------- MODULE MCFatTable -----------------------------
(* A small volume: clusters 2 to 6, of which lastCluster is 5. *)
EXTENDS FatTable

CONSTANTS f1, f2, f3

ThreeFiles == {f1, f2, f3}

NoneTaken == {}

Empty      == {[f \in Files |-> <<>>]}
Fragmented == {[f \in Files |-> IF f = f1 THEN <<4, 2>> ELSE <<>>]}
AboveLast  == {[f \in Files |-> IF f = f1 THEN <<2, LastCluster + 1>> ELSE <<>>]}
Mixed      == Empty \cup Fragmented \cup AboveLast
=============================================================================
