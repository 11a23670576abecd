---------------------------- MODULE ChunkColumn -----------------------------
(***************************************************************************)
(* A chunk and its sub chunks (chunk/chunk.go, chunk/sub_chunk.go): which  *)
(* sub chunks and layers exist, what is read where none does, and the      *)
(* light of a sub chunk.  A layer is what BlockStorage implements          *)
(* (BlockMap): its blocks, and the IDs that the cache of its palette's     *)
(* Index may be wrong about, which SetRuntimeID then misplaces.            *)
(***************************************************************************)
EXTENDS Integers, Sequences

CONSTANTS
  Subs,       \* indices of the sub chunks of the chunk, bottom to top
  Positions,  \* block positions in a sub chunk
  Ids,        \* block runtime IDs
  Air,        \* AirRuntimeId
  NoBlock,    \* what is read where the palette has no entry: the Go code panics
  NoSub,      \* a nil *SubChunk
  MaxLayers   \* bound: layers of a sub chunk

ASSUME ColumnAssumption ==
  /\ Subs \subseteq Int
  /\ 0 \in Ids /\ Air \in Ids /\ Air # 0
  /\ MaxLayers \in Nat \ {0, 1}
  /\ NoBlock \notin Ids
  /\ NoSub \notin Seq([blocks : [Positions -> Ids \cup {NoBlock}], doubt : SUBSET Ids])

VARIABLES
  sub,   \* Chunk.sub: NoSub, or the sequence of the layers of the sub chunk
  sky    \* SubChunk.skyLight: one level, since nothing calls the light engine

vars == <<sub, sky>>

Layers == 0 .. MaxLayers - 1

\* A layer: what is read at its positions, and the IDs for which Palette.last and
\* lastIndex may give a wrong answer.
Layer == [blocks : [Positions -> Ids \cup {NoBlock}], doubt : SUBSET Ids]

\* The blocks a new layer is made of.
NoBlocks == [b \in Positions |-> 0]

\* newPalette(1, []uint32{0}), whose cache is empty.
EmptyLayer == [blocks |-> NoBlocks, doubt |-> {}]

\* A layer from NetworkDecode, which builds a Palette whose cache says that 0 is at 0.
NetworkLayer(blocks) == [blocks |-> blocks, doubt |-> {0}]

\* Positions whose palette offset is out of range.
Unreadable(layer) == {b \in Positions : layer.blocks[b] = NoBlock}

-----------------------------------------------------------------------------
(* Reading. *)

\* Chunk.RuntimeID and SubChunk.RuntimeID.
RuntimeID(i, b, layer) ==
  IF sub[i] = NoSub THEN Air
  ELSE IF Len(sub[i]) <= layer THEN Air
  ELSE sub[i][layer + 1].blocks[b]

\* Chunk.SkyLight: 15 where there is no sub chunk.
SkyLight(i) == IF sub[i] = NoSub THEN 15 ELSE sky[i]

-----------------------------------------------------------------------------
(* Writing. *)

Storages(i) == IF sub[i] = NoSub THEN <<>> ELSE sub[i]

\* SubChunk.Layer goes on after the requested layer exists (slip).
WithLayerBeyond(storages, layer) ==
  [l \in 1 .. (IF Len(storages) > layer + 1 THEN Len(storages) ELSE layer + 2) |->
     IF l <= Len(storages) THEN storages[l] ELSE EmptyLayer]

\* SubChunk.Layer: layers are added until the requested one exists.
WithLayer(storages, layer) ==
  [l \in 1 .. (IF Len(storages) > layer THEN Len(storages) ELSE layer + 1) |->
     IF l <= Len(storages) THEN storages[l] ELSE EmptyLayer]

\* A sub chunk made by SetRuntimeID starts with fullSkyLight.
NewSky(i) == [sky EXCEPT ![i] = IF sub[i] = NoSub THEN 15 ELSE @]

\* BlockStorage.SetRuntimeID: what the layer may be then.  An ID in doubt may get the
\* offset of another entry, or of none; a palette that grows may make positions
\* readable that were not.
Put(layer, b, id) ==
  {[layer EXCEPT !.blocks = [c \in Positions |->
      IF c = b THEN x ELSE IF c \in gained THEN id ELSE @[c]]] :
        x \in IF id \in layer.doubt THEN Ids \cup {NoBlock} ELSE {id},
        gained \in SUBSET Unreadable(layer)}

\* The layer that is written is not looked at (slip).
AirOnAnyLayer(i, layer, id) == Len(Storages(i)) < 2 /\ id = 0

\* 0 on the second layer of a sub chunk that has none is taken for air that is there.
AirAlready(i, layer, id) == Len(Storages(i)) < 2 /\ id = 0 /\ layer = 1

\* Chunk.SetRuntimeID; the sub chunk is made in any case.
SetRuntimeID(i, b, layer, id) ==
  /\ sky' = NewSky(i)
  /\ IF AirAlready(i, layer, id)
     THEN sub' = [sub EXCEPT ![i] = Storages(i)]
     ELSE LET made == WithLayer(Storages(i), layer)
          IN  \E put \in Put(made[layer + 1], b, id) :
                sub' = [sub EXCEPT ![i] = [made EXCEPT ![layer + 1] = put]]

\* Any layer with a 0 in it is taken for an empty one (slip).
EmptyAnywhere(storage) == \E b \in Positions : storage.blocks[b] = 0

\* What SubChunk.compact drops: a layer that compacts to the palette <<0>>.
Empty(storage) == storage.blocks = NoBlocks

\* BlockStorage.compact moves the entries of the palette, and leaves the cache as it is.
Tidied(storage) == [storage EXCEPT !.doubt = Ids]

\* SubChunk.compact drops the empty layers, Chunk.Compact the sub chunks left bare.
CompactSub(storages) ==
  LET kept[l \in 0 .. Len(storages)] ==
        IF l = 0 THEN <<>>
        ELSE IF Empty(storages[l]) THEN kept[l - 1]
        ELSE Append(kept[l - 1], Tidied(storages[l]))
  IN  IF kept[Len(storages)] = <<>> THEN NoSub ELSE kept[Len(storages)]

\* A position out of range makes it panic.
Compact ==
  /\ \A i \in Subs : \A l \in 1 .. Len(Storages(i)) : Unreadable(Storages(i)[l]) = {}
  /\ sub' = [i \in Subs |-> IF sub[i] = NoSub THEN NoSub ELSE CompactSub(sub[i])]
  /\ UNCHANGED sky

-----------------------------------------------------------------------------
(* Encoding, and what is decoded from it at the other end. *)

\* SendTo writes the sub chunks below the highest that exists (slip).
WrittenBelow == {i \in Subs : \E j \in Subs : i < j /\ sub[j] # NoSub}

\* SendTo counts the sub chunks up to the highest that exists.
Written == {i \in Subs : \E j \in Subs : i <= j /\ sub[j] # NoSub}

\* A chunk is decoded into new sub chunks, which have no light.
Unlit == [i \in Subs |-> 0]

\* Every layer of a sub chunk comes back with a new cache.
Decoded(i, doubt) ==
  [l \in 1 .. Len(Storages(i)) |-> [Storages(i)[l] EXCEPT !.doubt = doubt]]

\* Chunk.SendTo with NetworkEncode, and NetworkDecode: a nil below the highest sub
\* chunk is written, and comes back, as a sub chunk without layers; 0 is in doubt.
NetworkReload ==
  /\ sub' = [i \in Subs |-> IF i \in Written THEN Decoded(i, {0}) ELSE NoSub]
  /\ sky' = Unlit

\* DiskEncode and DiskDecode: a sub chunk without layers is not written; newPalette
\* makes an empty cache.
DiskReload ==
  /\ sub' = [i \in Subs |-> IF Storages(i) = <<>> THEN NoSub ELSE Decoded(i, {})]
  /\ sky' = Unlit

\* A chunk is New or comes from NetworkDecode, with up to two layers in its sub
\* chunks and no light.
Init ==
  /\ sub \in [Subs -> {NoSub, <<>>}
       \cup {<<NetworkLayer(f)>> : f \in [Positions -> Ids]}
       \cup {<<NetworkLayer(f), NetworkLayer(NoBlocks)>> : f \in [Positions -> Ids]}]
  /\ sky = Unlit

Next ==
  \/ \E i \in Subs, b \in Positions, layer \in Layers, id \in Ids :
       SetRuntimeID(i, b, layer, id)
  \/ Compact
  \/ NetworkReload \/ DiskReload

Spec == Init /\ [][Next]_vars

-----------------------------------------------------------------------------
(* Properties. *)

\* TypeOK: a sub chunk is nil or a stack of at most MaxLayers full layers.
TypeOK ==
  /\ sub \in [Subs -> {NoSub} \cup Seq(Layer)]
  /\ \A i \in Subs : sub[i] # NoSub => Len(sub[i]) <= MaxLayers
  /\ sky \in [Subs -> {0, 15}]

Exists(i, layer) == sub[i] # NoSub /\ layer < Len(Storages(i))

\* The layer exists, and the cache of its palette may be wrong about the ID.
InDoubt(i, layer, id) ==
  Exists(i, layer) /\ id \in Storages(i)[layer + 1].doubt

\* SetReads: SetRuntimeID makes its block read the ID, whatever layers had to be made
\* for it, but for the 0 on a missing second layer, which reads Air, and for an ID
\* that the cache left by a compact or by NetworkDecode is wrong about (data.go:315,
\* palette.go:44).  In no case does a block change that could be read, of another
\* position, sub chunk or layer; and the sub chunk that it makes is lit as the nil
\* it replaces was read (chunk.go:55-57, 89).
SetReads ==
  [][\A i \in Subs, b \in Positions, layer \in Layers, id \in Ids :
       SetRuntimeID(i, b, layer, id) =>
         /\ \/ RuntimeID(i, b, layer)' \in
                 IF id = 0 /\ layer = 1 THEN {0, Air} ELSE {id}
            \/ InDoubt(i, layer, id)
         /\ \A j \in Subs, c \in Positions, l \in Layers :
              Exists(j, l) /\ <<j, c, l>> # <<i, b, layer>> /\ RuntimeID(j, c, l) # NoBlock =>
                RuntimeID(j, c, l)' = RuntimeID(j, c, l)
         /\ \A j \in Subs : SkyLight(j)' = SkyLight(j)]_vars

\* ReloadReads: a chunk that goes over the network or to disk comes back with the
\* blocks it had, on every layer, holes between its sub chunks included.
ReloadReads ==
  [][NetworkReload \/ DiskReload =>
       \A i \in Subs, b \in Positions, layer \in Layers :
         RuntimeID(i, b, layer)' = RuntimeID(i, b, layer)]_vars

\* CompactKeepsBlocks: while no layer below another is empty, Compact changes
\* nothing that is read on the first layer except 0, which may come to read Air.
CompactKeepsBlocks ==
  [][Compact =>
       \A i \in Subs, b \in Positions :
         (\A l \in Layers : Exists(i, l + 1) => ~Empty(Storages(i)[l + 1])) =>
           RuntimeID(i, b, 0)' \in
             {RuntimeID(i, b, 0)} \cup (IF RuntimeID(i, b, 0) = 0 THEN {Air} ELSE {})]_vars

\* SetOneBlock: "SetRuntimeID sets the runtime ID of a block ... If no SubChunk
\* exists at the given y, a new SubChunk is created and the block is set"
\* (chunk.go:82-83): the other blocks of the layer read as before.
SetOneBlock ==
  [][(\E i \in Subs, b \in Positions, layer \in Layers, id \in Ids :
         SetRuntimeID(i, b, layer, id)) =>
       \A i, j \in Subs, b, c \in Positions :
         RuntimeID(i, b, 0)' # RuntimeID(i, b, 0) /\ RuntimeID(j, c, 0)' # RuntimeID(j, c, 0)
           => <<i, b>> = <<j, c>>]_vars
=============================================================================
