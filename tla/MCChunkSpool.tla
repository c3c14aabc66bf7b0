---------------------------- MODULE MCChunkSpool ----------------------------
(***************************************************************************)
(* ChunkSpool for TLC.  The sets are model values given in the .cfg files; *)
(* no action tells one hash, slot, producer or chunk from another, so the  *)
(* runs without a liveness property may permute them.                      *)
(***************************************************************************)
EXTENDS ChunkSpool, TLC

Symmetry == Permutations(Chunks) \cup Permutations(Hashes)
              \cup Permutations(Slots) \cup Permutations(Producers)

=============================================================================
