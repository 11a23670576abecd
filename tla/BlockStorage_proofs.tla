------------------------- MODULE BlockStorage_proofs -------------------------
(***************************************************************************)
(* Proofs about block storages, for any set of cells, any block IDs and a  *)
(* palette of any length up to 65536.                                      *)
(***************************************************************************)
EXTENDS BlockStorage, TLAPS, FiniteSetTheorems, SequenceTheorems, WellFoundedInduction

-----------------------------------------------------------------------------
(* Sizes and offsets. *)

\* The eight capacities.
LEMMA Capacities ==
  ASSUME NEW l \in 1 .. 8
  PROVE  /\ Capacity[l] \in Nat \ {0}
         /\ Capacity[l] <= Largest
         /\ l < 8 => Capacity[l] < Capacity[l + 1]
         /\ l = 8 => Capacity[l] = Largest
<1>1. CASE l \in 1 .. 4  BY <1>1 DEF Capacity, Largest
<1>2. CASE l \in 5 .. 8  BY <1>2 DEF Capacity, Largest
<1>. QED  BY <1>1, <1>2

\* A cell keeps an offset that its size can tell from the others, and cuts down
\* any other.
LEMMA LowKeeps ==
  ASSUME NEW l \in 1 .. 8, NEW x \in Nat
  PROVE  /\ Low(l, x) \in Nat
         /\ Low(l, x) < Capacity[l]
         /\ x < Capacity[l] => Low(l, x) = x
<1>1. CASE l \in 1 .. 4  BY <1>1 DEF Capacity, Largest, Low
<1>2. CASE l \in 5 .. 8  BY <1>2 DEF Capacity, Largest, Low
<1>. QED  BY <1>1, <1>2

\* A set of naturals that is not empty has a First.
LEMMA FirstIsIn ==
  ASSUME NEW S \in SUBSET Nat, S # {}
  PROVE  /\ First(S) \in S
         /\ \A j \in S : First(S) <= j
<1>1. PICK m \in S : \A k \in S : <<k, m>> \notin OpToRel(<, Nat)
  BY WFMin, NatLessThanWellFounded, Zenon
<1>2. \A k \in S : m <= k
  <2>1. \A k \in S : ~(k < m)  BY <1>1, Zenon DEF OpToRel
  <2>. QED  BY <2>1
<1>. QED  BY <1>2, Zenon DEF First

-----------------------------------------------------------------------------
(* The states of the palette entries. *)

\* IdsComeBack: the state that a runtime ID is saved as is found again under that
\* ID, as long as no two registered states have a hash in common (blocks.go:84-130).
THEOREM IdsComeBack ==
  ASSUME NEW id \in RuntimeIds
  PROVE  StateToRuntimeID(RuntimeIDToState(id)) = id
<1>. DEFINE Same(i) == StateHash(RuntimeIDToState(i)) = StateHash(RuntimeIDToState(id))
<1>1. \A i \in RuntimeIds : Same(i) => i = id  BY StatesAssumption, Zenon
<1>2. Same(id)  OBVIOUS
<1>3. StateToRuntimeID(RuntimeIDToState(id)) = CHOOSE i \in RuntimeIds : Same(i)
  BY DEF StateToRuntimeID
<1>. HIDE DEF Same
<1>. QED  BY <1>1, <1>2, <1>3

\* A storage comes back from disk with the palette it went with.
LEMMA PaletteComesBack == ASSUME TypeOK, DiskReload PROVE palette' = palette
<1>1. palette \in Seq(Ids) /\ Len(palette) \in Nat  BY LenProperties DEF TypeOK
<1>2. ASSUME NEW i \in 1 .. Len(palette)
      PROVE  StateToRuntimeID(RuntimeIDToState(palette[i])) = palette[i]
  <2>1. palette[i] \in RuntimeIds  BY <1>1, ElementOfSeq, StorageAssumption
  <2>. QED  BY <2>1, IdsComeBack
<1>3. palette = [i \in 1 .. Len(palette) |-> palette[i]]  BY <1>1
<1>. QED  BY <1>2, <1>3 DEF DiskReload

-----------------------------------------------------------------------------
(* The palette and the offsets. *)

\* The length of the palette and the capacity of its size.
LEMMA Fits ==
  ASSUME TypeOK
  PROVE  /\ level \in 1 .. 8
         /\ Len(palette) \in Nat
         /\ Len(palette) >= 1
         /\ Capacity[level] \in Nat
         /\ Len(palette) <= Capacity[level]
         /\ level = 8 => Capacity[level] = Largest
         /\ level < 8 => /\ Capacity[level + 1] \in Nat
                        /\ Capacity[level] < Capacity[level + 1]
<1>1. level \in 1 .. 8 /\ palette \in Seq(Ids)  BY DEF TypeOK
<1>2. Len(palette) \in Nat  BY <1>1, LenProperties
<1>3. Len(palette) >= 1 /\ Len(palette) <= Capacity[level]  BY DEF TypeOK
<1>4. /\ Capacity[level] \in Nat
      /\ level = 8 => Capacity[level] = Largest
      /\ level < 8 => Capacity[level] < Capacity[level + 1]
  BY <1>1, Capacities
<1>5. ASSUME level < 8 PROVE Capacity[level + 1] \in Nat
  <2>1. level + 1 \in 1 .. 8  BY <1>1, <1>5
  <2>. QED  BY <2>1, Capacities
<1>. QED  BY <1>1, <1>2, <1>3, <1>4, <1>5

\* What Index answers, by cache or by search, is -1 or a natural number.
LEMMA IndexType ==
  ASSUME TypeOK, NEW id \in Ids
  PROVE  Index(id) \in Nat \cup {-1}
<1>1. CASE id = last  BY <1>1 DEF Index, TypeOK
<1>2. CASE id # last /\ Positions(id) # {}
  <2>1. Positions(id) \in SUBSET Nat
    <3>1. Len(palette) \in Nat  BY LenProperties DEF TypeOK
    <3>. QED  BY <3>1 DEF Positions
  <2>2. First(Positions(id)) \in Nat  BY <1>2, <2>1, FirstIsIn
  <2>. QED  BY <1>2, <2>2 DEF Index
<1>3. CASE id # last /\ Positions(id) = {}  BY <1>3 DEF Index
<1>. QED  BY <1>1, <1>2, <1>3

\* Unless the cache is wrong about the ID, Index answers with a position of it or -1.
LEMMA IndexHonest ==
  ASSUME TypeOK, NEW id \in Ids, Honest \/ id # last, Index(id) # -1
  PROVE  /\ Index(id) \in 0 .. Len(palette) - 1
         /\ palette[Index(id) + 1] = id
<1>. Len(palette) \in Nat  BY LenProperties DEF TypeOK
<1>1. CASE id = last
  <2>1. id # NoId  BY StorageAssumption
  <2>. QED  BY <1>1, <2>1 DEF Index, Honest, TypeOK
<1>2. CASE id # last
  <2>1. Positions(id) # {} /\ Index(id) = First(Positions(id))  BY <1>2 DEF Index
  <2>2. Positions(id) \in SUBSET Nat  BY DEF Positions
  <2>3. Index(id) \in Positions(id)  BY <2>1, <2>2, FirstIsIn
  <2>. QED  BY <2>3 DEF Positions
<1>. QED  BY <1>1, <1>2

\* SetRuntimeID keeps the types when Index knows the ID ...
LEMMA SetKnownTypes ==
  ASSUME TypeOK, NEW c \in Cells, NEW id \in Ids, SetKnown(c, id)
  PROVE  TypeOK'
<1>1. Index(id) \in Nat  BY IndexType DEF SetKnown
<1>2. Low(level, Index(id)) \in Nat /\ Low(level, Index(id)) < Capacity[level]
  BY <1>1, LowKeeps DEF TypeOK
<1>3. offsets' = [offsets EXCEPT ![c] = Low(level, Index(id))]  BY DEF SetKnown
<1>4. last' \in Ids \cup {NoId} /\ lastIndex' \in Nat
  BY <1>1 DEF SetKnown, Remember, TypeOK
<1>5. palette' = palette /\ level' = level  BY DEF SetKnown
<1>. QED  BY <1>2, <1>3, <1>4, <1>5 DEF TypeOK

\* ... and when it does not, with and without a resize.
LEMMA SetAddedTypes ==
  ASSUME TypeOK, NEW c \in Cells, NEW id \in Ids, SetAdded(c, id)
  PROVE  TypeOK'
<1>0. Len(palette) \in Nat /\ Capacity[level] \in Nat /\ level \in 1 .. 8  BY Fits
<1>1. /\ palette' = Append(palette, id)
      /\ palette' \in Seq(Ids)
      /\ Len(palette') = Len(palette) + 1
  <2>1. palette' = Append(palette, id)  BY DEF SetAdded
  <2>2. palette \in Seq(Ids)  BY DEF TypeOK
  <2>. QED  BY <2>1, <2>2, AppendProperties
<1>2. last' = last /\ lastIndex' = lastIndex  BY DEF SetAdded
<1>3. CASE NeedsResize(Len(palette) + 1, level)
  <2>1. level < 8
    <3>1. Len(palette) < MaxPalette  BY DEF SetAdded
    <3>2. MaxPalette \in Nat /\ MaxPalette <= Largest  BY StorageAssumption
    <3>3. Capacity[level] < Len(palette) + 1  BY <1>0, <1>3 DEF NeedsResize
    <3>4. level # 8  BY <1>0, <3>1, <3>2, <3>3, Fits
    <3>. QED  BY <1>0, <3>4
  <2>2. level' = level + 1 /\ level' \in 1 .. 8
    <3>1. level' = level + 1  BY <1>3 DEF SetAdded
    <3>. QED  BY <1>0, <2>1, <3>1
  <2>3. Len(palette') <= Capacity[level']
    <3>1. /\ Capacity[level + 1] \in Nat
          /\ Capacity[level] < Capacity[level + 1]
          /\ Len(palette) <= Capacity[level]
      BY <2>1, Fits
    <3>. QED  BY <1>0, <1>1, <2>2, <3>1
  <2>4. \A x \in Nat : Low(level', x) \in Nat /\ Low(level', x) < Capacity[level']
    BY <2>2, LowKeeps
  <2>5. offsets' = [Resized(level') EXCEPT ![c] = Low(level', Len(palette))]
    BY <1>3, <2>2 DEF SetAdded
  <2>6. /\ Resized(level') \in [Cells -> Nat]
        /\ \A d \in Cells : Resized(level')[d] < Capacity[level']
    <3>1. \A d \in Cells : offsets[d] \in Nat  BY DEF TypeOK
    <3>. QED  BY <2>4, <3>1 DEF Resized
  <2>7. /\ offsets' \in [Cells -> Nat]
        /\ \A d \in Cells : offsets'[d] < Capacity[level']
    BY <1>0, <2>4, <2>5, <2>6
  <2>. QED  BY <1>1, <1>2, <2>2, <2>3, <2>7 DEF TypeOK
<1>4. CASE ~NeedsResize(Len(palette) + 1, level)
  <2>1. /\ level' = level
        /\ offsets' = [offsets EXCEPT ![c] = Low(level, Len(palette))]
    BY <1>4 DEF SetAdded
  <2>2. Len(palette') <= Capacity[level]
    BY <1>0, <1>1, <1>4 DEF NeedsResize
  <2>3. Low(level, Len(palette)) \in Nat /\ Low(level, Len(palette)) < Capacity[level]
    BY <1>0, LowKeeps
  <2>. QED  BY <1>1, <1>2, <2>1, <2>2, <2>3 DEF TypeOK
<1>. QED  BY <1>3, <1>4

\* The offsets in use index the palette, when a compact may run.
LEMMA UsedIndexes ==
  ASSUME TypeOK, \A c \in Cells : offsets[c] < Len(palette)
  PROVE  /\ Used \subseteq 0 .. Len(palette) - 1
         /\ IsFiniteSet(Used) /\ Used # {}
         /\ Cardinality(Used) \in 1 .. Len(palette)
<1>0. Len(palette) \in Nat /\ Len(palette) >= 1  BY Fits
<1>1. Used \subseteq 0 .. Len(palette) - 1
  <2>. SUFFICES ASSUME NEW i \in Used PROVE i \in 0 .. Len(palette) - 1  OBVIOUS
  <2>1. PICK c \in Cells : i = offsets[c]  BY DEF Used
  <2>2. offsets[c] \in Nat  BY DEF TypeOK
  <2>. QED  BY <1>0, <2>1, <2>2
<1>2. Used # {}  BY StorageAssumption DEF Used
<1>3. /\ IsFiniteSet(0 .. Len(palette) - 1)
      /\ Cardinality(0 .. Len(palette) - 1) = Len(palette)
  <2>1. 0 \in Int /\ Len(palette) - 1 \in Int  BY <1>0
  <2>2. /\ IsFiniteSet(0 .. Len(palette) - 1)
        /\ Cardinality(0 .. Len(palette) - 1) =
             IF 0 > Len(palette) - 1 THEN 0 ELSE Len(palette) - 1 - 0 + 1
    BY <2>1, FS_Interval, Zenon
  <2>. QED  BY <1>0, <2>2
<1>4. /\ IsFiniteSet(Used)
      /\ Cardinality(Used) <= Cardinality(0 .. Len(palette) - 1)
  BY <1>1, <1>3, FS_Subset
<1>5. Cardinality(Used) \in Nat /\ Cardinality(Used) # 0
  BY <1>2, <1>4, FS_CardinalityType, FS_EmptySet
<1>. QED  BY <1>0, <1>1, <1>2, <1>3, <1>4, <1>5

\* A used offset is moved to one below the number of used offsets.
LEMMA CompactedBounds ==
  ASSUME TypeOK, \A c \in Cells : offsets[c] < Len(palette), NEW i \in Used
  PROVE  Compacted(i) \in 0 .. Cardinality(Used) - 1
<1>. DEFINE Before == {j \in Used : j < i}
<1>1. Before \subseteq Used /\ Before # Used
  <2>1. i \in Nat  BY UsedIndexes
  <2>. QED  BY <2>1
<1>2. /\ IsFiniteSet(Before)
      /\ Cardinality(Before) <= Cardinality(Used)
      /\ Cardinality(Before) # Cardinality(Used)
  BY <1>1, UsedIndexes, FS_Subset
<1>3. Cardinality(Before) \in Nat /\ Cardinality(Used) \in Nat
  BY <1>2, UsedIndexes, FS_CardinalityType
<1>. QED  BY <1>2, <1>3 DEF Compacted

\* compact keeps the types.
LEMMA CompactTypes == ASSUME TypeOK, Compact PROVE TypeOK'
<1>0. /\ Len(palette) \in Nat /\ Len(palette) <= Capacity[level]
      /\ Capacity[level] \in Nat /\ level \in 1 .. 8
  BY Fits
<1>1. \A c \in Cells : offsets[c] < Len(palette)  BY DEF Compact
<1>2. Cardinality(Used) \in 1 .. Len(palette)  BY <1>1, UsedIndexes
<1>3. palette' \in [1 .. Cardinality(Used) -> Ids]  BY DEF Compact
<1>4. palette' \in Seq(Ids) /\ Len(palette') = Cardinality(Used)  BY <1>2, <1>3
<1>5. level' = level /\ last' = last /\ lastIndex' = lastIndex  BY DEF Compact
<1>6. \A c \in Cells : /\ Low(level, Compacted(offsets[c])) \in Nat
                       /\ Low(level, Compacted(offsets[c])) < Capacity[level]
  <2>. SUFFICES ASSUME NEW c \in Cells
       PROVE  /\ Low(level, Compacted(offsets[c])) \in Nat
              /\ Low(level, Compacted(offsets[c])) < Capacity[level]
    OBVIOUS
  <2>1. offsets[c] \in Used  BY DEF Used
  <2>2. Compacted(offsets[c]) \in Nat  BY <1>1, <1>2, <2>1, CompactedBounds
  <2>. QED  BY <1>0, <2>2, LowKeeps
<1>7. offsets' = [c \in Cells |-> Low(level, Compacted(offsets[c]))]
  BY DEF Compact, Moved
<1>8. last \in Ids \cup {NoId} /\ lastIndex \in Nat  BY DEF TypeOK
<1>. QED  BY <1>0, <1>2, <1>4, <1>5, <1>6, <1>7, <1>8 DEF TypeOK

\* The storages of Layer and of the two decoders have the types.
LEMMA InitTypes == Init => TypeOK
<1>1. ASSUME Layer PROVE TypeOK
  <2>1. Len(palette) = 1 /\ palette \in Seq(Ids)  BY <1>1, StorageAssumption DEF Layer
  <2>2. Capacity[1] = 2  BY DEF Capacity
  <2>. QED  BY <1>1, <2>1, <2>2 DEF Layer, TypeOK
<1>2. ASSUME Decoded PROVE TypeOK
  <2>1. PICK n \in 1 .. MaxDecoded : palette \in [1 .. n -> Ids]  BY <1>2 DEF Decoded
  <2>2. palette \in Seq(Ids) /\ Len(palette) = n /\ n >= 1
    BY <2>1, StorageAssumption
  <2>3. Len(palette) <= Capacity[level] /\ level \in 1 .. 8
    BY <1>2 DEF Decoded, Decodable
  <2>4. Capacity[level] \in Nat  BY <2>3, Capacities
  <2>5. offsets \in [Cells -> Nat] /\ \A c \in Cells : offsets[c] < Len(palette)
    BY <1>2, <2>2 DEF Decoded
  <2>6. last \in Ids \cup {NoId} /\ lastIndex \in Nat
    BY <1>2, StorageAssumption DEF Decoded
  <2>. QED  BY <2>2, <2>3, <2>4, <2>5, <2>6 DEF TypeOK
<1>. QED  BY <1>1, <1>2 DEF Init

\* TypeCorrect: in every storage the palette fits in its size, and every offset
\* in the bits of its cell (palette.go needsResize, block_storage.go resize).
THEOREM TypeCorrect == Spec => []TypeOK
<1>1. Init => TypeOK  BY InitTypes
<1>2. TypeOK /\ [Next]_vars => TypeOK'
  <2>. SUFFICES ASSUME TypeOK, [Next]_vars PROVE TypeOK'  OBVIOUS
  <2>1. ASSUME NEW c \in Cells, NEW id \in Ids, SetRuntimeID(c, id) PROVE TypeOK'
    BY <2>1, SetKnownTypes, SetAddedTypes DEF SetRuntimeID
  <2>2. CASE Compact  BY <2>2, CompactTypes
  <2>3. CASE NetworkReload  BY <2>3, StorageAssumption DEF NetworkReload, TypeOK
  <2>4. CASE DiskReload
    <3>1. palette' = palette  BY <2>4, PaletteComesBack
    <3>. QED  BY <2>4, <3>1 DEF DiskReload, TypeOK
  <2>5. CASE UNCHANGED vars  BY <2>5 DEF vars, TypeOK
  <2>. QED  BY <2>1, <2>2, <2>3, <2>4, <2>5 DEF Next
<1>. QED  BY <1>1, <1>2, PTL DEF Spec
-----------------------------------------------------------------------------
(* What is written is read. *)

\* When c is given the offset of id, and the palette keeps what it had, the blocks
\* change at c only.
LEMMA WritesTo ==
  ASSUME TypeOK, InRange, NEW c \in Cells, NEW id \in Ids, NEW n \in Nat,
         offsets' = [offsets EXCEPT ![c] = n],
         Len(palette') \in Nat, n < Len(palette'), palette'[n + 1] = id,
         Len(palette) <= Len(palette'),
         \A i \in 1 .. Len(palette) : palette'[i] = palette[i]
  PROVE  Blocks' = [Blocks EXCEPT ![c] = id]
<1>0. Len(palette) \in Nat  BY Fits
<1>1. ASSUME NEW d \in Cells PROVE RuntimeID(d)' = IF d = c THEN id ELSE RuntimeID(d)
  <2>1. offsets' [d] = IF d = c THEN n ELSE offsets[d]  BY DEF TypeOK
  <2>2. CASE d = c  BY <2>1, <2>2 DEF RuntimeID
  <2>3. CASE d # c
    <3>1. offsets[d] \in Nat /\ offsets[d] < Len(palette)  BY DEF TypeOK, InRange
    <3>2. offsets[d] < Len(palette') /\ offsets[d] + 1 \in 1 .. Len(palette)
      BY <1>0, <3>1
    <3>. QED  BY <2>1, <2>3, <3>1, <3>2 DEF RuntimeID
  <2>. QED  BY <2>2, <2>3
<1>. QED  BY <1>1 DEF Blocks

\* An offset below the capacity is kept whole.
LEMMA Whole ==
  ASSUME NEW l \in 1 .. 8, NEW x \in Nat, x < Capacity[l]
  PROVE  Low(l, x) = x
  BY LowKeeps

LEMMA KnownWrites ==
  ASSUME TypeOK, Honest, InRange, NEW c \in Cells, NEW id \in Ids, SetKnown(c, id)
  PROVE  Blocks' = [Blocks EXCEPT ![c] = id]
<1>0. /\ Len(palette) \in Nat /\ Len(palette) <= Capacity[level]
      /\ Capacity[level] \in Nat /\ level \in 1 .. 8
  BY Fits
<1>1. Index(id) \in 0 .. Len(palette) - 1 /\ palette[Index(id) + 1] = id
  BY IndexHonest DEF SetKnown
<1>2. Index(id) \in Nat /\ Index(id) < Len(palette)  BY <1>0, <1>1
<1>3. Low(level, Index(id)) = Index(id)
  <2>1. Index(id) < Capacity[level]  BY <1>0, <1>2
  <2>. QED  BY <1>0, <1>2, <2>1, Whole
<1>4. palette' = palette /\ offsets' = [offsets EXCEPT ![c] = Index(id)]
  BY <1>3 DEF SetKnown
<1>5. /\ Len(palette') \in Nat /\ Index(id) < Len(palette')
      /\ palette'[Index(id) + 1] = id
      /\ Len(palette) <= Len(palette')
      /\ \A i \in 1 .. Len(palette) : palette'[i] = palette[i]
  BY <1>0, <1>1, <1>2, <1>4
<1>. QED  BY <1>2, <1>4, <1>5, WritesTo, Zenon

LEMMA AddedGrows ==
  ASSUME TypeOK, NEW c \in Cells, NEW id \in Ids, SetAdded(c, id)
  PROVE  /\ Len(palette') = Len(palette) + 1
         /\ palette'[Len(palette) + 1] = id
         /\ \A i \in 1 .. Len(palette) : palette'[i] = palette[i]
         /\ offsets' = [offsets EXCEPT ![c] = Len(palette)]
<1>0. /\ Len(palette) \in Nat /\ Len(palette) <= Capacity[level]
      /\ Capacity[level] \in Nat /\ level \in 1 .. 8
  BY Fits
<1>1. /\ Len(palette') = Len(palette) + 1
      /\ palette'[Len(palette) + 1] = id
      /\ \A i \in 1 .. Len(palette) : palette'[i] = palette[i]
  <2>1. palette' = Append(palette, id)  BY DEF SetAdded
  <2>2. palette \in Seq(Ids)  BY DEF TypeOK
  <2>. QED  BY <2>1, <2>2, AppendProperties
<1>2. offsets' = [offsets EXCEPT ![c] = Len(palette)]
  <2>1. CASE NeedsResize(Len(palette) + 1, level)
    <3>1. level < 8
      <4>1. Len(palette) < MaxPalette  BY DEF SetAdded
      <4>2. MaxPalette \in Nat /\ MaxPalette <= Largest  BY StorageAssumption
      <4>3. Capacity[level] < Len(palette) + 1  BY <1>0, <2>1 DEF NeedsResize
      <4>4. Largest \in Nat  BY DEF Largest
      <4>5. level # 8  BY <1>0, <4>1, <4>2, <4>3, <4>4, Fits
      <4>. QED  BY <1>0, <4>5
    <3>2. /\ Capacity[level + 1] \in Nat /\ Capacity[level] < Capacity[level + 1]
          /\ level + 1 \in 1 .. 8
      BY <1>0, <3>1, Fits
    <3>3. Low(level + 1, Len(palette)) = Len(palette)
      <4>1. Len(palette) < Capacity[level + 1]  BY <1>0, <3>2
      <4>. QED  BY <1>0, <3>2, <4>1, Whole
    <3>4. Resized(level + 1) = offsets
      <4>1. ASSUME NEW d \in Cells PROVE Low(level + 1, offsets[d]) = offsets[d]
        <5>1. offsets[d] \in Nat /\ offsets[d] < Capacity[level]  BY DEF TypeOK
        <5>2. offsets[d] < Capacity[level + 1]  BY <1>0, <3>2, <5>1
        <5>. QED  BY <3>2, <5>1, <5>2, Whole
      <4>2. offsets = [d \in Cells |-> offsets[d]]  BY DEF TypeOK
      <4>. QED  BY <4>1, <4>2 DEF Resized
    <3>5. offsets' = [Resized(level + 1) EXCEPT ![c] = Low(level + 1, Len(palette))]
      BY <2>1 DEF SetAdded
    <3>. QED  BY <3>3, <3>4, <3>5
  <2>2. CASE ~NeedsResize(Len(palette) + 1, level)
    <3>1. Len(palette) < Capacity[level]  BY <1>0, <2>2 DEF NeedsResize
    <3>2. Low(level, Len(palette)) = Len(palette)  BY <1>0, <3>1, Whole
    <3>. QED  BY <2>2, <3>2 DEF SetAdded
  <2>. QED  BY <2>1, <2>2
<1>. QED  BY <1>1, <1>2

LEMMA AddedWrites ==
  ASSUME TypeOK, InRange, NEW c \in Cells, NEW id \in Ids, SetAdded(c, id)
  PROVE  Blocks' = [Blocks EXCEPT ![c] = id]
<1>0. Len(palette) \in Nat  BY Fits
<1>1. /\ Len(palette') = Len(palette) + 1
      /\ palette'[Len(palette) + 1] = id
      /\ \A i \in 1 .. Len(palette) : palette'[i] = palette[i]
      /\ offsets' = [offsets EXCEPT ![c] = Len(palette)]
  BY AddedGrows
<1>2. /\ Len(palette') \in Nat /\ Len(palette) < Len(palette')
      /\ Len(palette) <= Len(palette')
  BY <1>0, <1>1
<1>. QED  BY <1>0, <1>1, <1>2, WritesTo, Zenon

\* compact moves a cell's offset to where its entry went.
LEMMA CompactReads == ASSUME TypeOK, Compact PROVE Blocks' = Blocks
<1>0. /\ Len(palette) \in Nat /\ Len(palette) <= Capacity[level]
      /\ Capacity[level] \in Nat /\ level \in 1 .. 8
  BY Fits
<1>1. \A c \in Cells : offsets[c] < Len(palette)  BY DEF Compact
<1>2. Cardinality(Used) \in 1 .. Len(palette)  BY <1>1, UsedIndexes
<1>3. /\ palette' \in [1 .. Cardinality(Used) -> Ids]
      /\ \A i \in Used : palette'[Compacted(i) + 1] = palette[i + 1]
  BY DEF Compact
<1>4. Len(palette') = Cardinality(Used)  BY <1>2, <1>3
<1>5. offsets' = [c \in Cells |-> Low(level, Compacted(offsets[c]))]
  BY DEF Compact, Moved
<1>6. ASSUME NEW c \in Cells PROVE RuntimeID(c)' = RuntimeID(c)
  <2>1. offsets[c] \in Used  BY DEF Used
  <2>2. Compacted(offsets[c]) \in 0 .. Cardinality(Used) - 1
    BY <1>1, <2>1, CompactedBounds
  <2>3. /\ Compacted(offsets[c]) \in Nat
        /\ Compacted(offsets[c]) < Cardinality(Used)
        /\ Compacted(offsets[c]) < Capacity[level]
    BY <1>0, <1>2, <2>2
  <2>4. Low(level, Compacted(offsets[c])) = Compacted(offsets[c])
    BY <1>0, <2>3, Whole
  <2>5. offsets' [c] = Compacted(offsets[c])  BY <1>5, <2>4
  <2>6. RuntimeID(c) = palette[offsets[c] + 1]  BY <1>1 DEF RuntimeID
  <2>7. RuntimeID(c)' = palette'[Compacted(offsets[c]) + 1]
    BY <1>4, <2>3, <2>5 DEF RuntimeID
  <2>. QED  BY <1>3, <2>1, <2>6, <2>7
<1>. QED  BY <1>6 DEF Blocks

\* The cache stays honest as long as SetRuntimeID alone writes the palette.
LEMMA SetKeepsHonest ==
  ASSUME TypeOK, Honest, NEW c \in Cells, NEW id \in Ids, SetRuntimeID(c, id)
  PROVE  Honest'
<1>0. Len(palette) \in Nat /\ palette \in Seq(Ids) /\ lastIndex \in Nat
  BY Fits DEF TypeOK
<1>1. CASE SetKnown(c, id)
  <2>1. palette' = palette  BY <1>1 DEF SetKnown
  <2>2. CASE id = last
    <3>1. last' = last /\ lastIndex' = lastIndex  BY <1>1, <2>2 DEF SetKnown
    <3>. QED  BY <2>1, <3>1 DEF Honest
  <2>3. CASE id # last
    <3>1. last' = id /\ lastIndex' = Index(id)  BY <1>1, <2>3 DEF SetKnown, Remember
    <3>2. Index(id) \in 0 .. Len(palette) - 1 /\ palette[Index(id) + 1] = id
      BY <1>1, IndexHonest DEF SetKnown
    <3>3. Index(id) < Len(palette)  BY <1>0, <3>2
    <3>. QED  BY <2>1, <3>1, <3>2, <3>3 DEF Honest
  <2>. QED  BY <2>2, <2>3
<1>2. CASE SetAdded(c, id)
  <2>1. last' = last /\ lastIndex' = lastIndex /\ palette' = Append(palette, id)
    BY <1>2 DEF SetAdded
  <2>2. CASE last = NoId  BY <2>1, <2>2 DEF Honest
  <2>3. CASE lastIndex < Len(palette) /\ palette[lastIndex + 1] = last
    <3>1. lastIndex + 1 \in 1 .. Len(palette)  BY <1>0, <2>3
    <3>2. Len(palette') = Len(palette) + 1 /\ palette'[lastIndex + 1] = last
      BY <1>0, <2>1, <2>3, <3>1, AppendProperties
    <3>. QED  BY <1>0, <2>1, <2>3, <3>2 DEF Honest
  <2>. QED  BY <2>2, <2>3 DEF Honest
<1>. QED  BY <1>1, <1>2 DEF SetRuntimeID

\* WritesLand: SetRuntimeID writes its cell and no other, for every size and for
\* every resize, as long as the cache of Index is honest (SetWrites).
THEOREM WritesLand == Spec => SetWrites
<1>1. TypeOK =>
        \A c \in Cells, id \in Ids :
          Honest /\ (\A d \in Cells : offsets[d] < Len(palette)) /\ SetRuntimeID(c, id)
            => Blocks' = [Blocks EXCEPT ![c] = id]
  BY KnownWrites, AddedWrites DEF SetRuntimeID, InRange
<1>. QED  BY <1>1, TypeCorrect, PTL DEF SetWrites

\* CompactionKeeps: compact drops palette entries and moves offsets, and every
\* position reads as before (CompactKeeps).
THEOREM CompactionKeeps == Spec => CompactKeeps
<1>1. TypeOK => (Compact => Blocks' = Blocks)  BY CompactReads
<1>. QED  BY <1>1, TypeCorrect, PTL DEF CompactKeeps

\* CacheSpoiledByCompact: a cache that tells the truth is spoiled by a compact, by
\* the network decoder, or not at all (OnlyCompactSpoils).
THEOREM CacheSpoiledByCompact == Spec => OnlyCompactSpoils
<1>1. TypeOK /\ [Next]_vars => (Honest /\ ~Compact /\ ~NetworkReload => Honest')
  <2>. SUFFICES ASSUME TypeOK, [Next]_vars, Honest, ~Compact, ~NetworkReload
                PROVE  Honest'
    OBVIOUS
  <2>1. ASSUME NEW c \in Cells, NEW id \in Ids, SetRuntimeID(c, id) PROVE Honest'
    BY <2>1, SetKeepsHonest
  <2>2. CASE DiskReload  BY <2>2 DEF DiskReload, Honest
  <2>3. CASE UNCHANGED vars  BY <2>3 DEF vars, Honest
  <2>. QED  BY <2>1, <2>2, <2>3 DEF Next
<1>. QED  BY <1>1, TypeCorrect, PTL DEF OnlyCompactSpoils, Spec

-----------------------------------------------------------------------------
(* A storage acts as a map. *)

LEMMA BlocksType == TypeOK => Blocks \in [Cells -> Ids \cup {NoId}]
<1>. SUFFICES ASSUME TypeOK PROVE Blocks \in [Cells -> Ids \cup {NoId}]  OBVIOUS
<1>0. Len(palette) \in Nat /\ palette \in Seq(Ids)  BY Fits DEF TypeOK
<1>1. ASSUME NEW c \in Cells PROVE RuntimeID(c) \in Ids \cup {NoId}
  <2>1. offsets[c] \in Nat  BY DEF TypeOK
  <2>2. CASE offsets[c] < Len(palette)
    <3>1. offsets[c] + 1 \in 1 .. Len(palette)  BY <1>0, <2>1, <2>2
    <3>2. palette[offsets[c] + 1] \in Ids  BY <1>0, <3>1, ElementOfSeq
    <3>. QED  BY <2>2, <3>2 DEF RuntimeID
  <2>3. CASE ~(offsets[c] < Len(palette))  BY <2>3 DEF RuntimeID
  <2>. QED  BY <2>2, <2>3
<1>. QED  BY <1>1 DEF Blocks

\* A position has no block exactly when its offset is out of range.
LEMMA Readable == ASSUME TypeOK, NEW d \in Cells PROVE Blocks[d] # NoId <=> offsets[d] < Len(palette)
<1>0. Len(palette) \in Nat /\ palette \in Seq(Ids) /\ offsets[d] \in Nat  BY Fits DEF TypeOK
<1>1. ASSUME offsets[d] < Len(palette) PROVE Blocks[d] # NoId
  <2>1. offsets[d] + 1 \in 1 .. Len(palette)  BY <1>0, <1>1
  <2>2. palette[offsets[d] + 1] \in Ids  BY <1>0, <2>1, ElementOfSeq
  <2>. QED  BY <1>1, <2>2, StorageAssumption DEF Blocks, RuntimeID
<1>. QED  BY <1>1 DEF Blocks, RuntimeID

\* When c is given the offset of id, other positions keep their block, or get the ID
\* because their offset is that of the new entry.
LEMMA PutsTo ==
  ASSUME TypeOK, NEW c \in Cells, NEW id \in Ids, NEW n \in Nat,
         offsets' = [offsets EXCEPT ![c] = n],
         n < Len(palette'), palette'[n + 1] = id,
         \A i \in 1 .. Len(palette) : palette'[i] = palette[i],
         \/ Len(palette') = Len(palette)
         \/ Len(palette') = Len(palette) + 1 /\ palette'[Len(palette) + 1] = id
  PROVE  \E gained \in SUBSET {d \in Cells : Blocks[d] = NoId} :
           Blocks' = [d \in Cells |-> IF d \in gained \cup {c} THEN id ELSE Blocks[d]]
<1>0. Len(palette) \in Nat  BY Fits
<1>. DEFINE gained == {d \in Cells : Blocks[d] = NoId /\ RuntimeID(d)' = id}
<1>1. ASSUME NEW d \in Cells
      PROVE  RuntimeID(d)' = IF d \in gained \cup {c} THEN id ELSE Blocks[d]
  <2>1. offsets'[d] = (IF d = c THEN n ELSE offsets[d]) /\ offsets[d] \in Nat
    BY DEF TypeOK
  <2>2. CASE d = c  BY <2>1, <2>2 DEF RuntimeID
  <2>3. CASE d # c /\ offsets[d] < Len(palette)
    <3>1. offsets[d] < Len(palette') /\ offsets[d] + 1 \in 1 .. Len(palette)
      BY <1>0, <2>1, <2>3
    <3>2. RuntimeID(d)' = Blocks[d]  BY <2>1, <2>3, <3>1 DEF RuntimeID, Blocks
    <3>3. d \notin gained  BY <2>3, Readable
    <3>. QED  BY <2>3, <3>2, <3>3
  <2>4. CASE d # c /\ ~(offsets[d] < Len(palette))
    <3>1. Blocks[d] = NoId  BY <2>4, Readable
    <3>2. RuntimeID(d)' \in {id, NoId}
      <4>1. CASE offsets[d] < Len(palette')
        <5>1. offsets[d] = Len(palette)  BY <1>0, <2>1, <2>4, <4>1
        <5>2. palette'[offsets[d] + 1] = id  BY <1>0, <2>1, <4>1, <5>1
        <5>. QED  BY <2>1, <2>4, <4>1, <5>2 DEF RuntimeID
      <4>2. CASE ~(offsets[d] < Len(palette'))  BY <2>1, <2>4, <4>2 DEF RuntimeID
      <4>. QED  BY <4>1, <4>2
    <3>3. d \in gained <=> RuntimeID(d)' = id  BY <3>1
    <3>. HIDE DEF gained
    <3>. QED  BY <2>4, <3>1, <3>2, <3>3
  <2>. QED  BY <2>2, <2>3, <2>4
<1>2. Blocks' = [d \in Cells |-> IF d \in gained \cup {c} THEN id ELSE Blocks[d]]
  BY <1>1 DEF Blocks
<1>3. gained \in SUBSET {d \in Cells : Blocks[d] = NoId}  OBVIOUS
<1>. HIDE DEF gained
<1>. QED  BY <1>2, <1>3

\* Writing another ID than the stale one leaves the cache as wrong as it was, or
\* puts it right.
LEMMA PutStale ==
  ASSUME TypeOK, NEW c \in Cells, NEW id \in Ids, SetRuntimeID(c, id), id # Stale
  PROVE  Stale' \in {Stale, NoId}
<1>1. CASE Honest
  <2>1. Honest'  BY <1>1, SetKeepsHonest
  <2>. QED  BY <2>1 DEF Stale
<1>2. CASE ~Honest /\ last' = last  BY <1>2 DEF Stale
<1>3. CASE ~Honest /\ last' # last
  <2>1. /\ SetKnown(c, id) /\ id # last /\ palette' = palette
        /\ last' = id /\ lastIndex' = Index(id)
    BY <1>3 DEF SetRuntimeID, SetKnown, SetAdded, Remember
  <2>2. Index(id) \in 0 .. Len(palette) - 1 /\ palette[Index(id) + 1] = id
    BY <2>1, IndexHonest DEF SetKnown
  <2>3. Index(id) < Len(palette)  BY <2>2, Fits
  <2>4. Honest'  BY <2>1, <2>2, <2>3 DEF Honest
  <2>. QED  BY <2>4 DEF Stale
<1>. QED  BY <1>1, <1>2, <1>3

LEMMA SetMaps ==
  ASSUME TypeOK, TypeOK', NEW c \in Cells, NEW id \in Ids, SetRuntimeID(c, id)
  PROVE  Map!Next
<1>0. /\ Len(palette) \in Nat /\ Len(palette) <= Capacity[level]
      /\ Capacity[level] \in Nat /\ level \in 1 .. 8
  BY Fits
<1>1. CASE id # Stale
  <2>1. Stale' \in {Stale, NoId}  BY <1>1, PutStale
  <2>2. \E gained \in SUBSET {d \in Cells : Blocks[d] = NoId} :
          Blocks' = [d \in Cells |-> IF d \in gained \cup {c} THEN id ELSE Blocks[d]]
    <3>1. CASE SetKnown(c, id)
      <4>1. Index(id) \in 0 .. Len(palette) - 1 /\ palette[Index(id) + 1] = id
        BY <1>1, <3>1, IndexHonest DEF SetKnown, Stale
      <4>2. Index(id) \in Nat /\ Index(id) < Len(palette) /\ Index(id) < Capacity[level]
        BY <1>0, <4>1
      <4>3. palette' = palette /\ offsets' = [offsets EXCEPT ![c] = Index(id)]
        <5>1. Low(level, Index(id)) = Index(id)  BY <1>0, <4>2, Whole
        <5>. QED  BY <3>1, <5>1 DEF SetKnown
      <4>4. /\ Index(id) < Len(palette') /\ palette'[Index(id) + 1] = id
            /\ \A i \in 1 .. Len(palette) : palette'[i] = palette[i]
            /\ Len(palette') = Len(palette)
        BY <4>1, <4>2, <4>3
      <4>. QED  BY <4>2, <4>3, <4>4, PutsTo, Zenon
    <3>2. CASE SetAdded(c, id)
      <4>1. /\ Len(palette') = Len(palette) + 1
            /\ palette'[Len(palette) + 1] = id
            /\ \A i \in 1 .. Len(palette) : palette'[i] = palette[i]
            /\ offsets' = [offsets EXCEPT ![c] = Len(palette)]
        BY <3>2, AddedGrows
      <4>2. Len(palette) < Len(palette')  BY <1>0, <4>1
      <4>. QED  BY <1>0, <4>1, <4>2, PutsTo, Zenon
    <3>. QED  BY <3>1, <3>2 DEF SetRuntimeID
  <2>3. Map!Put(c, id)  BY <1>1, <2>1, <2>2 DEF Map!Put
  <2>. QED  BY <2>3 DEF Map!Next
<1>2. CASE id = Stale
  <2>1. ~Honest /\ id = last /\ Stale = last
    BY <1>2, StorageAssumption DEF Stale
  <2>2. Index(id) = lastIndex /\ lastIndex # -1  BY <2>1 DEF Index, TypeOK
  <2>3. SetKnown(c, id)  BY <2>2 DEF SetRuntimeID, SetAdded
  <2>4. /\ palette' = palette /\ last' = last /\ lastIndex' = lastIndex
        /\ offsets' = [offsets EXCEPT ![c] = Low(level, Index(id))]
    BY <2>1, <2>3 DEF SetKnown
  <2>5. Stale' = Stale  BY <2>4 DEF Stale, Honest
  <2>6. RuntimeID(c)' \in Ids \cup {NoId}
    <3>1. (TypeOK => Blocks \in [Cells -> Ids \cup {NoId}])'  BY BlocksType, PTL
    <3>. QED  BY <3>1 DEF Blocks
  <2>7. Blocks' = [Blocks EXCEPT ![c] = RuntimeID(c)']
    <3>1. \A d \in Cells \ {c} : RuntimeID(d)' = RuntimeID(d)
      BY <2>4 DEF RuntimeID, TypeOK
    <3>. QED  BY <3>1 DEF Blocks
  <2>8. Stale # NoId  BY <1>2, StorageAssumption
  <2>9. Map!Misput(c)  BY <2>5, <2>6, <2>7, <2>8 DEF Map!Misput
  <2>. QED  BY <2>9 DEF Map!Next
<1>. QED  BY <1>1, <1>2

\* What the cache is wrong about is an ID, or nothing.
LEMMA StaleType == TypeOK => Stale \in Ids \cup {NoId}
  BY DEF Stale, TypeOK

LEMMA InitMaps == Init => Map!Init
<1>. SUFFICES ASSUME Init PROVE Map!Init  OBVIOUS
<1>0. TypeOK  BY InitTypes
<1>1. InRange
  <2>1. CASE Layer
    <3>1. Len(palette) = 1  BY <2>1 DEF Layer
    <3>. QED  BY <2>1, <3>1 DEF Layer, InRange
  <2>2. CASE Decoded  BY <1>0, <2>2, Fits DEF Decoded, InRange
  <2>. QED  BY <2>1, <2>2 DEF Init
<1>2. ASSUME NEW c \in Cells PROVE RuntimeID(c) \in Ids
  <2>1. /\ offsets[c] \in Nat /\ offsets[c] < Len(palette)
        /\ Len(palette) \in Nat /\ palette \in Seq(Ids)
    BY <1>0, <1>1, Fits DEF TypeOK, InRange
  <2>2. offsets[c] + 1 \in 1 .. Len(palette)  BY <2>1
  <2>3. palette[offsets[c] + 1] \in Ids  BY <2>1, <2>2, ElementOfSeq
  <2>. QED  BY <2>1, <2>3 DEF RuntimeID
<1>3. Blocks \in [Cells -> Ids]  BY <1>2 DEF Blocks
<1>4. Stale \in Ids \cup {NoId}  BY <1>0, StaleType
<1>. QED  BY <1>3, <1>4 DEF Map!Init

\* StorageActsAsMap: a storage implements BlockMap (ActsAsMap).
THEOREM StorageActsAsMap == Spec => ActsAsMap
<1>1. TypeOK /\ TypeOK' /\ [Next]_vars => [Map!Next]_(Map!vars)
  <2>. SUFFICES ASSUME TypeOK, TypeOK', [Next]_vars PROVE [Map!Next]_(Map!vars)
    OBVIOUS
  <2>0. Stale' \in Ids \cup {NoId}
    <3>1. (TypeOK => Stale \in Ids \cup {NoId})'  BY StaleType, PTL
    <3>. QED  BY <3>1
  <2>1. ASSUME NEW c \in Cells, NEW id \in Ids, SetRuntimeID(c, id)
        PROVE  Map!Next
    BY <2>1, SetMaps
  <2>2. CASE Compact
    <3>1. Blocks' = Blocks  BY <2>2, CompactReads
    <3>2. Stale' \in Ids \cup {NoId}  BY <2>0
    <3>3. Map!Tidy  BY <3>1, <3>2 DEF Map!Tidy
    <3>. QED  BY <3>3 DEF Map!Next
  <2>3. CASE NetworkReload \/ DiskReload
    <3>1. palette' = palette /\ offsets' = offsets
      BY <2>3, PaletteComesBack DEF NetworkReload, DiskReload
    <3>2. Blocks' = Blocks  BY <3>1 DEF Blocks, RuntimeID
    <3>3. Stale' \in Ids \cup {NoId}  BY <2>0
    <3>4. Map!Tidy  BY <3>2, <3>3 DEF Map!Tidy
    <3>. QED  BY <3>4 DEF Map!Next
  <2>4. CASE UNCHANGED vars
    <3>1. Blocks' = Blocks  BY <2>4 DEF vars, Blocks, RuntimeID
    <3>2. Stale' = Stale  BY <2>4 DEF vars, Stale, Honest
    <3>. QED  BY <3>1, <3>2 DEF Map!vars
  <2>. QED  BY <2>1, <2>2, <2>3, <2>4 DEF Next
<1>. QED  BY <1>1, InitMaps, TypeCorrect, PTL DEF Spec, ActsAsMap, Map!Spec

-----------------------------------------------------------------------------
(* The words. *)

\* WordsFit: paletteOffset and setPaletteOffset address, for each of the eight
\* sizes, distinct bits of the words that requiredUint32s counted, in spite of the
\* uint16 they compute the offset in (LayoutFits).
THEOREM WordsFit == LayoutFits
<1>. USE DEF Fit, BitsOf, Words, Word, Bit, Offset, FilledBits, BlockCount, Largest
<1>1. Fit(1)  OBVIOUS
<1>2. Fit(2)  OBVIOUS
<1>3. Fit(3)  OBVIOUS
<1>4. Fit(4)  OBVIOUS
<1>5. Fit(5)  OBVIOUS
<1>6. Fit(6)  OBVIOUS
<1>8. Fit(8)  OBVIOUS
<1>16. Fit(16)  OBVIOUS
<1>. HIDE DEF Fit
<1>. QED  BY <1>1, <1>2, <1>3, <1>4, <1>5, <1>6, <1>8, <1>16 DEF LayoutFits, Sizes
=============================================================================
