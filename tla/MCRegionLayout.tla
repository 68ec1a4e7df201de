--------------------------- MODULE MCRegionLayout ---------------------------
(* Memory configurations for the model runs of RegionLayout, in cells of 16
   bytes: rings of 2 to 16 slots and buffers of 64 bytes and of 2048. *)
EXTENDS RegionLayout

MCConfigs == [pairs : 1 .. 5, slots : {2, 4, 8, 16}, buffer : {4, 128}]

MCTwoPairs == [pairs : {2}, slots : {2}, buffer : {128}]
=============================================================================
