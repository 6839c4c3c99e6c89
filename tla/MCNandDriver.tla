---------------------------- MODULE MCNandDriver ----------------------------
(* Small zones for NandDriver.  Block 0 plays the boot and config blocks;   *)
(* one block more than logical blocks and special blocks is left to write.  *)
EXTENDS NandDriver

CONSTANTS d1, d2

OneValue  == {d1}
TwoValues == {d1, d2}
BootOnly  == {0}
NoBlocks  == {}
=============================================================================
