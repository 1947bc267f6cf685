------------------------------ MODULE MCStorage ------------------------------
(* Instances of ChunkStorage for TLC. *)
EXTENDS ChunkStorage

CONSTANTS c1, c2
==============================================================================
