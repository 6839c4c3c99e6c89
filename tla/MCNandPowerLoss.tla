-------------------------- MODULE MCNandPowerLoss --------------------------
(* Small zones for NandPowerLoss. *)
EXTENDS NandPowerLoss

CONSTANTS d1, d2

OneValue  == {d1}
TwoValues == {d1, d2}
BootOnly  == {0}
=============================================================================
