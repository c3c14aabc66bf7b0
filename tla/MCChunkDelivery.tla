--------------------------- MODULE MCChunkDelivery ---------------------------
(***************************************************************************)
(* ChunkDelivery for TLC: up to two chunk ids, with a hash each.           *)
(***************************************************************************)
EXTENDS ChunkDelivery

CONSTANTS c1, c2, h1, h2

MCHashOf == [c \in Chunks |-> IF c = c1 THEN h1 ELSE h2]

=============================================================================
