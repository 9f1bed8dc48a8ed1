--------------------------- MODULE MCChunkCopies ---------------------------
(* ChunkCopies on two chunks side by side: the camera over one wants it alone. *)
EXTENDS ChunkCopies

CONSTANTS a, b

MCRing == [ch \in Chunks |-> {ch}]
MCKeep == [ch \in Chunks |-> Chunks]

\* The player's land is in a; b is wild.
MCMaxVersion == [ch \in Chunks |-> IF ch = a THEN 2 ELSE 0]
=============================================================================
