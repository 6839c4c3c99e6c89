---------------------------- MODULE MCSaveManager ----------------------------
(* A small instance of SaveManager for TLC. *)
EXTENDS SaveManager, TLC

CONSTANTS r1, r2
MCRoms == {r1, r2}
MCCard == {r2}
MCListed == {r1}
=============================================================================
