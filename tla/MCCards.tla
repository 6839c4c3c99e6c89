------------------------------ MODULE MCCards ------------------------------
(* Every adapter.  FCSR keeps blocks 1 and 2 in RAM, in two regions.       *)
EXTENDS Cards

AllKinds == SdKinds \cup CfKinds \cup Soldered \cup {"nmmc", "ak", "ak2"}
TwoRegions == <<<<2, 1>>, <<0, 0>>, <<1, 1>>>>
=============================================================================
