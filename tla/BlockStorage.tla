---------------------------- MODULE BlockStorage ----------------------------
(***************************************************************************)
(* The blocks of one layer of a sub chunk (chunk/block_storage.go) and the *)
(* palette they index (chunk/palette.go).                                  *)
(*                                                                         *)
(* The 4096 positions are the set Cells; the packing of their offsets in   *)
(* uint32 words is left to the operators of the last section, which give   *)
(* every cell its word and bit.  A palette of p bits per block keeps the   *)
(* low p bits of what is stored in a cell, as setPaletteOffset does.       *)
(***************************************************************************)
EXTENDS BlockStates, FiniteSets

CONSTANTS
  Cells,       \* positions in the sub chunk
  Ids,         \* block runtime IDs, 0 among them
  NoId,        \* math.MaxUint32, which is no block's ID
  MaxDecoded,  \* bound: palette entries of a decoded storage
  MaxPalette   \* bound: entries of a palette

Sizes == <<1, 2, 3, 4, 5, 6, 8, 16>>

\* 1 << 16
Largest == 256 * 256

\* 1 << size: the number of palette entries that size can tell apart.
Capacity == <<2, 4, 8, 16, 32, 64, 256, Largest>>

ASSUME StorageAssumption ==
  /\ Cells # {}
  /\ 0 \in Ids /\ Ids \subseteq RuntimeIds
  /\ NoId \notin Ids
  /\ MaxDecoded \in Nat
  /\ MaxPalette \in Nat /\ MaxPalette <= Largest

VARIABLES
  palette,     \* Palette.blockRuntimeIDs
  last,        \* Palette.last and
  lastIndex,   \* Palette.lastIndex: the cache of Index
  level,       \* Palette.size and BlockStorage.bitsPerBlock are Sizes[level]
  offsets      \* BlockStorage.blocks: the palette offset of every cell

vars == <<palette, last, lastIndex, level, offsets>>

-----------------------------------------------------------------------------
(* Reading. *)

\* BlockStorage.RuntimeID; NoId where the Go code indexes out of range.
RuntimeID(c) ==
  IF offsets[c] < Len(palette) THEN palette[offsets[c] + 1] ELSE NoId

Blocks == [c \in Cells |-> RuntimeID(c)]

\* The positions, counted from 0, at which a loop over the palette finds id.
Positions(id) == {i \in 0 .. Len(palette) - 1 : palette[i + 1] = id}

First(S) == CHOOSE i \in S : \A j \in S : i <= j

\* Palette.Index: the cached answer, the first position, or -1.
Index(id) ==
  IF id = last THEN lastIndex
  ELSE IF Positions(id) # {} THEN First(Positions(id)) ELSE -1

-----------------------------------------------------------------------------
(* Writing. *)

\* What a cell of size Sizes[l] keeps of an offset.
Low(l, offset) == offset % Capacity[l]

\* No cell is copied to the words of the new size (slip).
ResizedNot(l) == [c \in Cells |-> 0]

\* resize: all offsets are copied to words of the new size.
Resized(l) == [c \in Cells |-> Low(l, offsets[c])]

\* needsResize with an off-by-one (slip).
NeedsResizeLate(n, l) == n > Capacity[l] + 1

NeedsResize(n, l) == n > Capacity[l]

Remember(id, i) == last' = id /\ lastIndex' = i

\* Index answers: from its cache, or from the loop, which fills the cache.
SetKnown(c, id) ==
  /\ Index(id) # -1
  /\ offsets' = [offsets EXCEPT ![c] = Low(level, Index(id))]
  /\ IF id = last THEN UNCHANGED <<last, lastIndex>> ELSE Remember(id, Index(id))
  /\ UNCHANGED <<palette, level>>

\* Index answers -1: the palette grows, and with it the words when need be.
SetAdded(c, id) ==
  /\ Index(id) = -1
  /\ Len(palette) < MaxPalette
  /\ palette' = Append(palette, id)
  /\ IF NeedsResize(Len(palette) + 1, level)
     THEN /\ level' = level + 1
          /\ offsets' = [Resized(level + 1) EXCEPT ![c] = Low(level + 1, Len(palette))]
     ELSE /\ offsets' = [offsets EXCEPT ![c] = Low(level, Len(palette))]
          /\ UNCHANGED level
  /\ UNCHANGED <<last, lastIndex>>

SetRuntimeID(c, id) == SetKnown(c, id) \/ SetAdded(c, id)

\* compact: unused entries leave the palette, and the offsets follow; the cache
\* of Index is left as it is.
Used == {offsets[c] : c \in Cells}

Compacted(offset) == Cardinality({i \in Used : i < offset})

\* The offsets are left behind (slip).
MovedNot == offsets

Moved == [c \in Cells |-> Low(level, Compacted(offsets[c]))]

Compact ==
  /\ \A c \in Cells : offsets[c] < Len(palette)
  /\ \E p \in [1 .. Cardinality(Used) -> Ids] :
       /\ \A i \in Used : p[Compacted(i) + 1] = palette[i + 1]
       /\ palette' = p
  /\ offsets' = Moved
  /\ UNCHANGED <<last, lastIndex, level>>

-----------------------------------------------------------------------------
(* Storages come from SubChunk.Layer, from the network, or from disk. *)

Layer ==
  /\ palette = <<0>> /\ level = 1
  /\ last = NoId /\ lastIndex = 0
  /\ offsets = [c \in Cells |-> 0]

\* Distinct entries, no more of them than the size can tell apart.
Decodable(p, l) ==
  /\ \A i, j \in 1 .. Len(p) : p[i] = p[j] => i = j
  /\ Len(p) <= Capacity[l]

\* The network decoder builds &Palette{...}, whose cache says that 0 is at 0; the
\* disk decoder calls newPalette, whose cache is empty.
Decoded ==
  /\ level \in 1 .. 2
  /\ palette \in UNION {[1 .. n -> Ids] : n \in 1 .. MaxDecoded}
  /\ Decodable(palette, level)
  /\ last \in {0, NoId} /\ lastIndex = 0
  /\ offsets \in [Cells -> 0 .. Len(palette) - 1]

\* NetworkEncode and NetworkDecode, at this end and the other: words and palette go
\* over as they are, entries that are not used any more included.
NetworkReload ==
  /\ last' = 0 /\ lastIndex' = 0
  /\ UNCHANGED <<palette, level, offsets>>

\* diskEncodeBlockStorage and diskDecodeBlockStorage: the palette goes as states.
DiskReload ==
  /\ palette' = [i \in 1 .. Len(palette) |-> StateToRuntimeID(RuntimeIDToState(palette[i]))]
  /\ last' = NoId /\ lastIndex' = 0
  /\ UNCHANGED <<level, offsets>>

Init == Layer \/ Decoded

Next ==
  \/ \E c \in Cells, id \in Ids : SetRuntimeID(c, id)
  \/ Compact
  \/ NetworkReload \/ DiskReload

Spec == Init /\ [][Next]_vars

-----------------------------------------------------------------------------
(* Properties. *)

\* The cache of Index tells the truth.
Honest ==
  last = NoId \/ (lastIndex < Len(palette) /\ palette[lastIndex + 1] = last)

\* TypeOK: the palette fits in its size, and every offset in a cell of that size.
TypeOK ==
  /\ palette \in Seq(Ids) /\ Len(palette) >= 1
  /\ level \in 1 .. 8 /\ Len(palette) <= Capacity[level]
  /\ last \in Ids \cup {NoId} /\ lastIndex \in Nat
  /\ offsets \in [Cells -> Nat]
  /\ \A c \in Cells : offsets[c] < Capacity[level]

\* SetWrites: with an honest cache, SetRuntimeID writes the ID to its cell and to
\* no other, whether the palette knew the ID, grew, or made the words grow.
SetWrites ==
  [][\A c \in Cells, id \in Ids :
       Honest /\ (\A d \in Cells : offsets[d] < Len(palette)) /\ SetRuntimeID(c, id)
         => Blocks' = [Blocks EXCEPT ![c] = id]]_vars

\* CompactKeeps: compact changes what is stored and not what is read.
CompactKeeps == [][Compact => Blocks' = Blocks]_vars

\* OnlyCompactSpoils: once honest, the cache is so until a compact, or until the
\* network decoder makes a new one: SetRuntimeID only ever appends to the palette
\* (block_storage.go:51, palette.go:45).
OnlyCompactSpoils == [][Honest /\ ~Compact /\ ~NetworkReload => Honest']_vars

InRange == \A c \in Cells : offsets[c] < Len(palette)

\* The ID that the cache is wrong about, if it is wrong.
Stale == IF Honest THEN NoId ELSE last

Map == INSTANCE BlockMap WITH
  Places <- Cells, Blocks <- Ids, NoBlock <- NoId,
  block <- Blocks, stale <- Stale

\* ActsAsMap: for its users a storage is a map from positions to IDs: growing palettes,
\* resizes, cached indexes and compacts show in nothing that is read, but in writes of
\* the one ID that a cache left by a compact or by the decoder (data.go:315) is wrong
\* about.
ActsAsMap == Map!Spec

\* IndexFinds: "If the runtime ID can not be found, -1 is returned"
\* (palette.go:43-44): Index answers with a position of the ID, or with -1 if it
\* has none.
IndexFinds ==
  \A id \in Ids :
    IF Positions(id) = {} THEN Index(id) = -1 ELSE Index(id) \in Positions(id)

-----------------------------------------------------------------------------
(* The words of a storage: paletteOffset and setPaletteOffset for one size. *)

BlockCount == 16 * 256

\* requiredUint32s
Words(bits) ==
  BlockCount \div (32 \div bits) + (IF bits \in {3, 5, 6} THEN 1 ELSE 0)

\* newBlockStorage recovers the size from the number of words.
BitsOf(words) == (words \div 32) \div 4

FilledBits(bits) == (32 \div bits) * bits

\* offset of the n-th position, a uint16, its word, and its bit in the word.
Offset(n, bits) == (n * bits) % Largest
Word(n, bits) == Offset(n, bits) \div FilledBits(bits)
Bit(n, bits) == Offset(n, bits) % FilledBits(bits)

\* LayoutFits: for every size the cells lie one after the other in the words that
\* are allocated, none across two words, and the size survives newBlockStorage.
Fit(bits) ==
  LET From(n) == 32 * Word(n, bits) + Bit(n, bits)
  IN  /\ BitsOf(Words(bits)) = bits
      /\ \A n \in 0 .. BlockCount - 1 :
           /\ Word(n, bits) < Words(bits)
           /\ Bit(n, bits) + bits <= 32
           /\ n > 0 => From(n) >= From(n - 1) + bits

LayoutFits == \A l \in 1 .. 8 : Fit(Sizes[l])
=============================================================================
