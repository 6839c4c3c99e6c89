--------------------------- MODULE MCSectorCache ---------------------------
(* Two pages for three sectors, so that pages are replaced; one of them,   *)
(* and a fourth, are accessed past the cache.                              *)
EXTENDS SectorCache

CONSTANTS s1, s2, s3, s4, zero, one

ThreeSectors == {s1, s2, s3}
TwoSectors   == {s1, s2}
OtherSectors == {s3, s4}
NoSectors    == {}
Halves       == {1, 2}
WholeSector  == {1}
Bits         == {zero, one}
=============================================================================
