----------------------------- MODULE ChunkLight -----------------------------
(***************************************************************************)
(* The light of a chunk (chunk/light.go, chunk/heightmap.go): FillLight    *)
(* lights every chunk of a three by three area from its own blocks and     *)
(* from the sky, then SpreadLight lets the light of the chunk in the       *)
(* middle cross into its eight neighbours.                                 *)
(*                                                                         *)
(* Cells are <<x, y, z>>, counted from the corner of the middle chunk.  The *)
(* chunk is Width wide (16), a sub chunk SubHeight high (16), a chunk      *)
(* SubCount sub chunks high (16), and full light is MaxLight (15).  The    *)
(* tables LightBlocks and FilteringBlocks are filled by the program that   *)
(* uses the package; the palette of a layer is the set of its blocks.      *)
(***************************************************************************)
EXTENDS Integers, Sequences

CONSTANTS
  Width, SubHeight, SubCount, MaxLight,
  Ids,        \* block runtime IDs, 0 among them
  Emission,   \* LightBlocks
  Filter,     \* FilteringBlocks
  NoSub,      \* a nil *SubChunk
  Scenes,     \* the sub chunks the area may have been decoded with
  Order       \* the order in which the chunks are filled

Chunks == (-1 .. 1) \X (-1 .. 1)
Centre == <<0, 0>>
Subs == 0 .. SubCount - 1
Height == SubCount * SubHeight
Cells == (-Width .. 2 * Width - 1) \X (0 .. Height - 1) \X (-Width .. 2 * Width - 1)
Positions == (0 .. Width - 1) \X (0 .. SubHeight - 1) \X (0 .. Width - 1)
Kinds == {"block", "sky"}

ASSUME LightAssumption ==
  /\ Width \in Nat \ {0, 1} /\ SubHeight \in Nat \ {0, 1} /\ SubCount \in Nat \ {0}
  /\ MaxLight \in 2 .. Width
  /\ 0 \in Ids
  /\ Emission \in [Ids -> 0 .. MaxLight] /\ Filter \in [Ids -> 0 .. MaxLight]
  /\ \A s \in Scenes : s \in [Chunks -> [Subs -> {NoSub} \cup Seq([Positions -> Ids])]]
  /\ NoSub \notin Seq([Positions -> Ids])
  /\ Order \in Seq(Chunks)
  /\ \A c \in Chunks : \E i \in 1 .. Len(Order) : Order[i] = c
  /\ \A i, j \in 1 .. Len(Order) : Order[i] = Order[j] => i = j

VARIABLES
  sub,    \* Chunk.sub of every chunk: NoSub, or the sequence of its layers
  light,  \* SubChunk.blockLight and skyLight
  queue,  \* the nodes of the nodeQueue in use
  stage,  \* which loop over the queue is running
  calls   \* how many calls of FillLight have returned

vars == <<sub, light, queue, stage, calls>>

-----------------------------------------------------------------------------
(* Cells. *)

Highest(S) == CHOOSE n \in S : \A m \in S : m <= n

\* chunkByNode: the chunk a node has moved into.
ChunkOf(n) == <<n[1] \div Width, n[3] \div Width>>

SubOf(n) == n[2] \div SubHeight

SubAt(n) == sub[ChunkOf(n)][SubOf(n)]

\* The blocks of all layers at a cell, bottom to top.
BlocksAt(n) ==
  IF SubAt(n) = NoSub THEN <<>>
  ELSE [l \in 1 .. Len(SubAt(n)) |->
          SubAt(n)[l][<<n[1] % Width, n[2] % SubHeight, n[3] % Width>>]]

\* filterLevel: 0 is no block, whatever the table says of it.
FilterLevel(n) ==
  LET b == BlocksAt(n) IN Highest({0} \cup {Filter[b[l]] : l \in {k \in 1 .. Len(b) : b[k] # 0}})

\* highestEmissionLevel: from the third layer on the table is asked about 0 too.
EmissionLevel(n) ==
  LET b == BlocksAt(n)
  IN  Highest({0} \cup {Emission[b[l]] : l \in {k \in 1 .. Len(b) : b[k] # 0 \/ Len(b) > 2}})

\* neighbours: four beside, then the one below and the one above.
Neighbours(n) ==
  <<<<n[1] - 1, n[2], n[3]>>, <<n[1] + 1, n[2], n[3]>>,
    <<n[1], n[2], n[3] - 1>>, <<n[1], n[2], n[3] + 1>>>>
  \o (IF n[2] > 0 THEN <<<<n[1], n[2] - 1, n[3]>>>> ELSE <<>>)
  \o (IF n[2] < Height - 1 THEN <<<<n[1], n[2] + 1, n[3]>>>> ELSE <<>>)

Around(n) == {Neighbours(n)[i] : i \in 1 .. Len(Neighbours(n))}

\* The cells of chunk c, layer after layer (y, x, z) or column after column (x, z, y).
ByLayer(c) ==
  [i \in 1 .. Height * Width * Width |->
     <<Width * c[1] + (((i - 1) \div Width) % Width),
       (i - 1) \div (Width * Width),
       Width * c[2] + ((i - 1) % Width)>>]
ByColumn(c) ==
  [i \in 1 .. Height * Width * Width |->
     <<Width * c[1] + ((i - 1) \div (Height * Width)),
       (i - 1) % Height,
       Width * c[2] + (((i - 1) \div Height) % Width)>>]

\* Front without the step to the next node (slip).
FrontLeft == queue

\* nodeQueue.Front takes Head(queue) and leaves these.
Rest == Tail(queue)

Node(n, level, first) == [at |-> n, level |-> level, first |-> first]

\* Nodes at the cells of the sequence to which the function gives a level above 0.
NodesAt(cells, level, first) ==
  LET made[i \in 0 .. Len(cells)] ==
        IF i = 0 THEN <<>>
        ELSE IF level[cells[i]] > 0
        THEN Append(made[i - 1], Node(cells[i], level[cells[i]], first))
        ELSE made[i - 1]
  IN  made[Len(cells)]

\* Light goes where there is no sub chunk (slip).
SubsAsTheyAre(cells) == sub

\* subByY: the sub chunks of these cells are made where there are none, dark.
SubsMade(cells) ==
  [c \in Chunks |-> [i \in Subs |->
     IF sub[c][i] = NoSub /\ \E n \in cells : ChunkOf(n) = c /\ SubOf(n) = i
     THEN <<>> ELSE sub[c][i]]]

\* removeEmptySubChunks goes down to the first sub chunk of two layers, past those
\* of one; what it leaves nil loses its light.
Bare(storages) ==
  \/ storages = <<>>
  \/ Len(storages) = 1 /\ storages[1] = [p \in Positions |-> 0]

EmptySubs(c) ==
  {i \in Subs : /\ sub[c][i] # NoSub /\ Bare(sub[c][i])
                /\ \A j \in i + 1 .. SubCount - 1 : sub[c][j] # NoSub => Len(sub[c][j]) < 2}

RemoveEmptySubChunks(C) ==
  /\ sub' = [c \in Chunks |-> [i \in Subs |->
               IF c \in C /\ i \in EmptySubs(c) THEN NoSub ELSE sub[c][i]]]
  /\ light' = [k \in Kinds |-> [n \in Cells |->
                 IF ChunkOf(n) \in C /\ SubOf(n) \in EmptySubs(ChunkOf(n))
                 THEN 0 ELSE light[k][n]]]

-----------------------------------------------------------------------------
(* FillLight. *)

Chunk == Order[calls + 1]

AnyBlockLight(c) ==
  \E i \in Subs : sub[c][i] # NoSub /\
    \E l \in 1 .. Len(sub[c][i]), p \in Positions : Emission[sub[c][i][l][p]] # 0

BlockLightNodes(c) == NodesAt(ByLayer(c), [n \in Cells |-> EmissionLevel(n)], FALSE)

FillLight ==
  /\ stage = "idle" /\ calls < Len(Order)
  /\ RemoveEmptySubChunks({Chunk})
  /\ queue' = IF AnyBlockLight(Chunk) THEN BlockLightNodes(Chunk) ELSE <<>>
  /\ stage' = "fillblock"
  /\ UNCHANGED calls

\* highestY of a chunk, 0 if it has no sub chunk.
HighestY(c) ==
  Highest({0} \cup {i * SubHeight + SubHeight - 1 : i \in {j \in Subs : sub[c][j] # NoSub}})

\* calculateHeightmap of the column of cell n.
HeightOf(n) ==
  Highest({0} \cup {y \in 0 .. HighestY(ChunkOf(n)) : FilterLevel(<<n[1], y, n[3]>>) > 0})

\* It looks into every sub chunk down to that height, if there is any.
HeightmapCells(c) ==
  {n \in Cells : /\ HighestY(c) > 0 /\ ChunkOf(n) = c
                 /\ HeightOf(n) <= n[2] /\ n[2] <= HighestY(c)}

\* The cells of the loop over y of insertSkyLightNodes.
OpenToSky(n) == HeightOf(n) < n[2] /\ n[2] <= HighestY(ChunkOf(n))

\* The column of the cell alone (slip).
HighestHere(n) == HeightOf(n)

HighestNeighbour(n) ==
  Highest({HeightOf(m) : m \in {n} \cup {d \in Around(n) : ChunkOf(d) = ChunkOf(n)}})

\* insertSkyLightNodes: the cell gets a node above a block that dims light, or beside
\* a higher column; highestNeighbour - 1 is a uint8.
NeedsSkyNode(n) ==
  \/ n[2] - 1 = HeightOf(n) /\ FilterLevel(<<n[1], n[2] - 1, n[3]>>) \in 1 .. MaxLight - 2
  \/ n[2] - 1 < (HighestNeighbour(n) - 1) % Height

FillSkyLight ==
  LET beside == [n \in Cells |-> IF OpenToSky(n) /\ NeedsSkyNode(n) THEN MaxLight ELSE 0]
  IN  /\ stage = "fillblock" /\ queue = <<>>
      /\ sub' = SubsMade(HeightmapCells(Chunk))
      /\ light' = [light EXCEPT !["sky"] = [n \in Cells |->
                     IF ChunkOf(n) = Chunk /\ OpenToSky(n) /\ ~NeedsSkyNode(n)
                     THEN MaxLight ELSE @[n]]]
      /\ queue' = NodesAt(ByColumn(Chunk), beside, FALSE)
      /\ stage' = "fillsky"
      /\ UNCHANGED calls

Kind == IF stage \in {"fillblock", "spreadblock"} THEN "block" ELSE "sky"

\* fillPropagate: a node that brightens its cell has the neighbours it can still
\* reach in the chunk appended.
FillPropagate ==
  LET node == Head(queue)
      brighter == light[Kind][node.at] < node.level
      inside(n) == brighter /\ node.level > 1 /\ ChunkOf(n) = Chunk
      reached == [n \in Int \X Int \X Int |->
                    IF inside(n) THEN node.level - FilterLevel(n) - 1 ELSE 0]
  IN  /\ stage \in {"fillblock", "fillsky"} /\ queue # <<>>
      /\ light' = IF brighter THEN [light EXCEPT ![Kind][node.at] = node.level] ELSE light
      /\ sub' = SubsMade({node.at} \cup {n \in Around(node.at) : inside(n)})
      /\ queue' = Rest \o NodesAt(Neighbours(node.at), reached, FALSE)
      /\ UNCHANGED <<stage, calls>>

FillReturns ==
  /\ stage = "fillsky" /\ queue = <<>>
  /\ stage' = "idle"
  /\ calls' = calls + 1
  /\ UNCHANGED <<sub, light, queue>>

-----------------------------------------------------------------------------
(* SpreadLight of the middle chunk. *)

\* The break leaves the loop over x as well (slip).
VisitedSides(n) == n[1] \in {0, Width - 1}

\* The loop over z is left at the first cell that is not on the border: of the
\* columns between the corners it sees those of z = 0 only.
Visited(n) == n[3] = 0 \/ n[1] \in {0, Width - 1}

\* A node is needed at a cell whose neighbour in another chunk, if its sub chunk
\* exists, is darker.
NeedsSpreadingNode(k, n) ==
  /\ SubAt(n) # NoSub /\ Visited(n)
  /\ light[k][n] > 1
  /\ \E d \in Around(n) :
       ChunkOf(d) # Centre /\ SubAt(d) # NoSub /\ light[k][d] < light[k][n]

SpreadingNodes(k) ==
  NodesAt(ByLayer(Centre),
          [n \in Cells |-> IF NeedsSpreadingNode(k, n) THEN light[k][n] ELSE 0], TRUE)

SpreadBlockLight ==
  /\ stage = "idle" /\ calls = Len(Order)
  /\ queue' = SpreadingNodes("block")
  /\ stage' = "spreadblock"
  /\ UNCHANGED <<sub, light, calls>>

SpreadSkyLight ==
  /\ stage = "spreadblock" /\ queue = <<>>
  /\ queue' = SpreadingNodes("sky")
  /\ stage' = "spreadsky"
  /\ UNCHANGED <<sub, light, calls>>

\* Blocks do not dim the light that crosses (slip).
LevelUnfiltered(node) == node.level - 1

\* A node loses at its cell what the block there takes, unless light starts there.
LevelAt(node) == IF node.first THEN node.level ELSE node.level - FilterLevel(node.at) - 1

\* spreadPropagate: the filter is subtracted when the node is taken, not when it is
\* appended, and the sub chunk of every node is made.
SpreadPropagate ==
  LET node == Head(queue)
      level == LevelAt(node)
      brighter == level > light[Kind][node.at]
      next == IF node.first \/ brighter THEN Neighbours(node.at) ELSE <<>>
  IN  /\ stage \in {"spreadblock", "spreadsky"} /\ queue # <<>>
      /\ light' = IF brighter THEN [light EXCEPT ![Kind][node.at] = level] ELSE light
      /\ sub' = SubsMade({node.at})
      /\ queue' = Rest \o [i \in 1 .. Len(next) |-> Node(next[i], level, FALSE)]
      /\ UNCHANGED <<stage, calls>>

SpreadReturns ==
  /\ stage = "spreadsky" /\ queue = <<>>
  /\ RemoveEmptySubChunks(Chunks)
  /\ stage' = "over"
  /\ UNCHANGED <<queue, calls>>

\* The decoder leaves the light of a chunk dark.
Init ==
  /\ sub \in Scenes
  /\ light = [k \in Kinds |-> [n \in Cells |-> 0]]
  /\ queue = <<>> /\ stage = "idle" /\ calls = 0

Next ==
  \/ FillLight \/ FillSkyLight \/ FillPropagate \/ FillReturns
  \/ SpreadBlockLight \/ SpreadSkyLight \/ SpreadPropagate \/ SpreadReturns

\* One goroutine runs both calls to their end.
Spec == Init /\ [][Next]_vars /\ WF_vars(Next)

-----------------------------------------------------------------------------
(* Properties. *)

\* TypeOK: nodes stay in the area that chunkByNode knows, and what has no sub chunk
\* has no light.
TypeOK ==
  /\ sub \in [Chunks -> [Subs -> {NoSub} \cup Seq([Positions -> Ids])]]
  /\ light \in [Kinds -> [Cells -> 0 .. MaxLight]]
  /\ \A k \in Kinds, n \in Cells : SubAt(n) = NoSub => light[k][n] = 0
  /\ queue \in Seq([at : Cells, level : 1 .. MaxLight, first : BOOLEAN])
  /\ stage \in {"idle", "fillblock", "fillsky", "spreadblock", "spreadsky", "over"}
  /\ calls \in 0 .. Len(Order)

\* Where light begins: a block that shines, a cell that nothing covers.
Source(k, n) ==
  IF k = "block" THEN light[k][n] = EmissionLevel(n)
  ELSE light[k][n] = MaxLight /\ \A y \in n[2] .. Height - 1 : FilterLevel(<<n[1], y, n[3]>>) = 0

\* Explained: every lit cell is a source or has it from a neighbour that is brighter
\* by what the cell takes away, in whichever order the queue is worked off.
Explained ==
  stage # "over" =>
    \A k \in Kinds, n \in Cells :
      light[k][n] > 0 =>
        \/ Source(k, n)
        \/ \E d \in Around(n) \cap Cells : light[k][d] > light[k][n] + FilterLevel(n)

\* Light at n has got to d.
Flows(k, n, d) == light[k][d] >= light[k][n] - FilterLevel(d) - 1

\* What light flows through: pairs of cells of chunks C and D that have sub chunks.
Beside(C, D) ==
  UNION {{<<n, d>> : d \in {m \in Around(n) \cap Cells : ChunkOf(m) \in D /\ SubAt(m) # NoSub}} :
           n \in {m \in Cells : ChunkOf(m) \in C /\ SubAt(m) # NoSub}}

\* The highest cell of a sub chunk of chunk c that has a layer.
TopY(c) ==
  Highest({0} \cup {i * SubHeight + SubHeight - 1 :
                      i \in {j \in Subs : sub[c][j] \notin {NoSub, <<>>}}})

\* Where sky light may be missing: above the top, in a sub chunk that propagation
\* has made and SpreadLight removes; in a block of the top layer that light enters
\* (light.go:249); at the bottom of a column with none higher than 1 around it (264).
Hidden(d) ==
  \/ d[2] > TopY(ChunkOf(d))
  \/ d[2] = TopY(ChunkOf(d)) /\ FilterLevel(d) > 0
  \/ d[2] = 0 /\ HighestNeighbour(d) = 1

\* Filled: FillLight leaves no other cell of its chunk darker than its neighbours
\* make it, and neither does SpreadLight.
Filled ==
  stage \in {"idle", "over"} =>
    \A i \in 1 .. calls : \A k \in Kinds :
      \A b \in Beside({Order[i]}, {Order[i]}) :
        (k = "sky" /\ Hidden(b[2])) \/ Flows(k, b[1], b[2])

\* Crossed: after SpreadLight the light of the middle chunk has entered the sub chunks
\* its neighbours were given (light.go:329 passes a nil, and propagation may make one:
\* it has no layer), but not across the +z side, corners apart: the break of
\* light.go:320 and 377.
Crossed ==
  stage = "over" =>
    \A k \in Kinds, b \in Beside({Centre}, Chunks \ {Centre}) :
      \/ SubAt(b[2]) = <<>>
      \/ b[1][3] = Width - 1 /\ b[1][1] \in 1 .. Width - 2
      \/ Flows(k, b[1], b[2])

\* Ends: both calls return.
Ends == <>(stage = "over")
=============================================================================
