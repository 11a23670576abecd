---------------------------- MODULE MCChunkColumn ---------------------------
(* Instances of ChunkColumn: two sub chunks of two blocks. *)
EXTENDS ChunkColumn, TLC

MCSymmetry == Permutations(Positions)

\* The upper sub chunk has one layer at most, of one block everywhere, and at most one
\* block of the chunk is out of range, in the lower one.
MCBound ==
  /\ Len(Storages(1)) <= 1
  /\ \A l \in 1 .. Len(Storages(1)) :
       \E id \in Ids : \A b \in Positions : Storages(1)[l].blocks[b] = id
  /\ \A l, m \in 1 .. Len(Storages(0)) : \A b, c \in Positions :
       Storages(0)[l].blocks[b] = NoBlock /\ Storages(0)[m].blocks[c] = NoBlock
         => <<l, b>> = <<m, c>>
=============================================================================
