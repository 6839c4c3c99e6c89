--------------------------- MODULE NandPowerLoss ---------------------------
(***************************************************************************)
(* The NAND driver when the console can be switched off between any two    *)
(* flash commands.  The table in RAM and a pending tail are gone; the next *)
(* start-up builds the table from whatever tags the flash holds.           *)
(***************************************************************************)
EXTENDS NandDriver

CONSTANT MaxLosses       \* how often the power fails in a behaviour

ASSUME LossesAssumption == MaxLosses \in Nat

(* A zone has more blocks that may be written than logical blocks: 960 of  *)
(* 1024, and the boot, config and bad blocks are fewer than the other 64.  *)
ASSUME SpareAssumption == Cardinality(Phys \ Special) > NumLogical

VARIABLE losses          \* how often it has failed

lossVars == <<vars, losses>>

LossInit == Init /\ losses = 0

LosePower ==
    /\ losses < MaxLosses
    /\ losses' = losses + 1
    /\ PowerLoss

LossNext == \/ Next /\ UNCHANGED losses
            \/ LosePower

LossSpec == LossInit /\ [][LossNext]_lossVars

-----------------------------------------------------------------------------
(* The first power failure changes no sector outside the logical block     *)
(* whose copy is open: everything else reads as before it.                 *)
LossContained ==
    [][losses = 0 /\ losses' = 1 =>
         \A s \in Sectors :
            ~(Opened /\ s \div NumSubPages = tag) => SectorValue(s)' = SectorValue(s)]_lossVars

(* However often the power fails, the rebuilt table is a sound one: no     *)
(* block is shared, and the search for a free block still ends.            *)
TableSound == UseIffMapped /\ SearchFinds

(* A block without a flag in the table is taken for a free one, that is,   *)
(* for one that has just been erased.                                      *)
FreeAfterLossIsErased == FreeIsErased
=============================================================================
