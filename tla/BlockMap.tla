------------------------------ MODULE BlockMap ------------------------------
(***************************************************************************)
(* What a block storage promises whoever reads and writes blocks: it is a  *)
(* map from positions to block IDs, of which no width, no palette and no   *)
(* cache shows.  The promise is off for one ID at most, the one that the   *)
(* cache is wrong about: it may be written as any block, or as none.       *)
(* BlockStorage implements this; ChunkColumn builds on it.                 *)
(***************************************************************************)
CONSTANTS
  Places,  \* positions
  Blocks,  \* block IDs
  NoBlock  \* what is read where reading fails

VARIABLES
  block,   \* what is read at a position
  stale    \* the ID that the cache is wrong about, or NoBlock

vars == <<block, stale>>

\* The block is written, and no other position changes that has a block; others may
\* come to read the ID too.  The cache may have been put right.
Put(c, b) ==
  /\ b # stale
  /\ \E gained \in SUBSET {d \in Places : block[d] = NoBlock} :
       block' = [d \in Places |-> IF d \in gained \cup {c} THEN b ELSE block[d]]
  /\ stale' \in {stale, NoBlock}

\* The stale ID is written: something comes to stand at the position.
Misput(c) ==
  /\ stale # NoBlock
  /\ \E x \in Blocks \cup {NoBlock} : block' = [block EXCEPT ![c] = x]
  /\ stale' = stale

\* A storage that is tidied up or copied reads as before, and its cache is not
\* looked after.
Tidy ==
  /\ block' = block
  /\ stale' \in Blocks \cup {NoBlock}

Init ==
  /\ block \in [Places -> Blocks]
  /\ stale \in Blocks \cup {NoBlock}

Next == (\E c \in Places : Misput(c) \/ \E b \in Blocks : Put(c, b)) \/ Tidy

Spec == Init /\ [][Next]_vars
=============================================================================
