--------------------------- MODULE MCChunkWriter ---------------------------
(* Small instances of ChunkWriter for TLC. *)
EXTENDS ChunkWriter, TLC
=============================================================================
