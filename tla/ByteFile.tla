------------------------------ MODULE ByteFile ------------------------------
(***************************************************************************)
(* What an open file promises to its user: a string of bytes with a        *)
(* position, or with every write at its end.  A write may stop early.      *)
(***************************************************************************)
EXTENDS Integers, Sequences

CONSTANTS Lengths,    \* of reads
          Texts,      \* what is written
          Zero,       \* the byte that fills a gap
          MaxPos      \* bound of positions

VARIABLES bytes, pos, got

vars == <<bytes, pos, got>>

(* d put over the bytes from position p on, after zeros up to p. *)
Overlay(p, d) ==
    [i \in 1 .. (IF Len(bytes) > p + Len(d) THEN Len(bytes) ELSE p + Len(d)) |->
        IF p < i /\ i <= p + Len(d) THEN d[i - p]
        ELSE IF i <= Len(bytes) THEN bytes[i] ELSE Zero]

Read(n) ==
    /\ got' = SubSeq(bytes, pos + 1, IF pos + n < Len(bytes) THEN pos + n ELSE Len(bytes))
    /\ pos' = pos + Len(got')
    /\ UNCHANGED bytes

Write(d) ==
    \E n \in 1 .. Len(d) :
        /\ bytes' = Overlay(pos, SubSeq(d, 1, n))
        /\ pos' = pos + n
        /\ got' = <<>>

WriteAtEnd(d) ==
    \E n \in 1 .. Len(d) :
        /\ bytes' = bytes \o SubSeq(d, 1, n)
        /\ got' = <<>>
        /\ UNCHANGED pos

Seek(p) == pos' = p /\ got' = <<>> /\ UNCHANGED bytes

Truncate == bytes' = <<>> /\ pos' = 0 /\ got' = <<>>

Next ==
    \/ \E n \in Lengths : Read(n)
    \/ \E d \in Texts : Write(d) \/ WriteAtEnd(d)
    \/ \E p \in 0 .. MaxPos : Seek(p)
    \/ Truncate

Spec == [][Next]_vars
=============================================================================
