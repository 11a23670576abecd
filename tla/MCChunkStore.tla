---------------------------- MODULE MCChunkStore ----------------------------
(* Instances of ChunkStore: two chunks that are too far apart for a radius of *)
(* one.  Nothing orders the worlds or the runtime IDs: their permutations are *)
(* a symmetry of the specification and of its invariants.                     *)
EXTENDS ChunkStore, TLC

MCPositions == {<<0, 0>>, <<2, 0>>}
MCSymmetry == Permutations(Worlds) \cup Permutations(RuntimeIds)
=============================================================================
