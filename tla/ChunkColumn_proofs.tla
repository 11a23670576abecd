-------------------------- MODULE ChunkColumn_proofs --------------------------
(***************************************************************************)
(* Proofs about ChunkColumn, for any sub chunks, positions, block IDs and  *)
(* number of layers.  What compact's loop keeps is proved by induction,    *)
(* from the least-number principle of WellFoundedInduction.                *)
(***************************************************************************)
EXTENDS ChunkColumn, WellFoundedInduction, SequenceTheorems, TLAPS

-----------------------------------------------------------------------------
(* Induction over a set of naturals. *)

LEMMA Least ==
  ASSUME NEW T \in SUBSET Nat, T # {}
  PROVE  \E n \in T : \A m \in T : n <= m
<1>. DEFINE R == {r \in Nat \X Nat : r[1] < r[2]}
<1>1. IsWellFoundedOn(R, Nat)  BY NatLessThanWellFounded DEF OpToRel
<1>2. \A m, n \in Nat : m < n => <<m, n>> \in R  OBVIOUS
<1>. HIDE DEF R
<1>3. PICK n \in T : \A m \in T : <<m, n>> \notin R  BY <1>1, WFMin
<1>4. \A m \in T : ~(m < n)  BY <1>2, <1>3
<1>. QED  BY <1>4

LEMMA Induction ==
  ASSUME NEW T \in SUBSET Nat, 0 \in T, \A n \in T : n + 1 \in T
  PROVE  T = Nat
<1>. SUFFICES ASSUME Nat \ T # {} PROVE FALSE  OBVIOUS
<1>1. PICK n \in Nat \ T : \A m \in Nat \ T : n <= m  BY Least
<1>2. n - 1 \in Nat  OBVIOUS
<1>3. n - 1 \in T  BY <1>1, <1>2
<1>. QED  BY <1>3

-----------------------------------------------------------------------------
(* The loop of compact. *)

\* k is what the loop over storages has kept after each of the first n layers.
Keeps(k, storages, n) ==
  k = [l \in 0 .. n |->
         IF l = 0 THEN <<>>
         ELSE IF Empty(storages[l]) THEN k[l - 1]
         ELSE Append(k[l - 1], Tidied(storages[l]))]

LEMMA LoopDefined == ASSUME NEW storages PROVE \A n \in Nat : \E k : Keeps(k, storages, n)
<1>. DEFINE T == {n \in Nat : \E k : Keeps(k, storages, n)}
<1>1. 0 \in T
  <2>. DEFINE k == [l \in 0 .. 0 |-> <<>>]
  <2>1. Keeps(k, storages, 0)  BY DEF Keeps
  <2>. QED  BY <2>1
<1>2. ASSUME NEW n \in T  PROVE n + 1 \in T
  <2>1. n \in Nat /\ n + 1 \in Nat  OBVIOUS
  <2>2. PICK k : Keeps(k, storages, n)  OBVIOUS
  <2>. DEFINE j == [l \in 0 .. n + 1 |->
                      IF l <= n THEN k[l]
                      ELSE IF Empty(storages[l]) THEN k[n] ELSE Append(k[n], Tidied(storages[l]))]
  <2>3. \A l \in 0 .. n : k[l] = IF l = 0 THEN <<>>
                                 ELSE IF Empty(storages[l]) THEN k[l - 1]
                                 ELSE Append(k[l - 1], Tidied(storages[l]))
    BY <2>1, <2>2 DEF Keeps
  <2>4. /\ \A l \in 0 .. n : j[l] = k[l]
        /\ j[n + 1] = IF Empty(storages[n + 1]) THEN k[n] ELSE Append(k[n], Tidied(storages[n + 1]))
        /\ j = [l \in 0 .. n + 1 |-> j[l]]
    BY <2>1
  <2>. HIDE DEF j
  <2>5. \A l \in 0 .. n + 1 : j[l] = IF l = 0 THEN <<>>
                                     ELSE IF Empty(storages[l]) THEN j[l - 1]
                                     ELSE Append(j[l - 1], Tidied(storages[l]))
    <3>1. ASSUME NEW l \in 0 .. n
          PROVE  j[l] = IF l = 0 THEN <<>>
                        ELSE IF Empty(storages[l]) THEN j[l - 1]
                        ELSE Append(j[l - 1], Tidied(storages[l]))
      <4>1. l # 0 => l - 1 \in 0 .. n  BY <2>1
      <4>. QED  BY <2>3, <2>4, <4>1
    <3>2. n + 1 # 0 /\ (n + 1) - 1 = n /\ n \in 0 .. n  BY <2>1
    <3>3. j[n + 1] = IF Empty(storages[n + 1]) THEN j[(n + 1) - 1]
                     ELSE Append(j[(n + 1) - 1], Tidied(storages[n + 1]))
      BY <2>4, <3>2
    <3>4. 0 .. n + 1 = (0 .. n) \cup {n + 1}  BY <2>1
    <3>. QED  BY <3>1, <3>2, <3>3, <3>4
  <2>6. Keeps(j, storages, n + 1)  BY <2>4, <2>5 DEF Keeps
  <2>. QED  BY <2>1, <2>6
<1>. HIDE DEF T
<1>3. T \in SUBSET Nat  BY DEF T
<1>4. T = Nat  BY <1>1, <1>2, <1>3, Induction
<1>. QED  BY <1>4 DEF T

LEMMA TidiedTyped ==
  ASSUME NEW layer \in Layer
  PROVE  Tidied(layer) \in Layer /\ Tidied(layer).blocks = layer.blocks
BY DEF Tidied, Layer

\* Whatever the number of layers, it keeps layers of the sub chunk, and the first one
\* first if that is not empty.
LEMMA LoopKeeps ==
  ASSUME NEW storages \in Seq(Layer), NEW k, Keeps(k, storages, Len(storages))
  PROVE  LET kept == k[Len(storages)]
         IN  /\ kept \in Seq(Layer) /\ Len(kept) <= Len(storages)
             /\ storages # <<>> /\ ~Empty(storages[1]) => kept # <<>> /\ kept[1] = Tidied(storages[1])
             /\ Len(storages) = 1 /\ Empty(storages[1]) => kept = <<>>
<1>. DEFINE N == Len(storages)
            Fine(l) == /\ k[l] \in Seq(Layer) /\ Len(k[l]) <= l
                       /\ l > 0 /\ ~Empty(storages[1]) => k[l] # <<>> /\ k[l][1] = Tidied(storages[1])
            T == {l \in Nat : l <= N => Fine(l)}
<1>1. N \in Nat /\ \A l \in 1 .. N : storages[l] \in Layer  OBVIOUS
<1>2. /\ k[0] = <<>>
      /\ \A l \in 1 .. N : k[l] = IF Empty(storages[l]) THEN k[l - 1]
                                  ELSE Append(k[l - 1], Tidied(storages[l]))
  <2>1. \A l \in 0 .. N : k[l] = IF l = 0 THEN <<>>
                                 ELSE IF Empty(storages[l]) THEN k[l - 1]
                                 ELSE Append(k[l - 1], Tidied(storages[l]))
    <3>. HIDE DEF N
    <3>1. Keeps(k, storages, N)  BY DEF N
    <3>. QED  BY <3>1, Zenon DEF Keeps
  <2>2. 0 \in 0 .. N /\ \A l \in 1 .. N : l \in 0 .. N /\ l # 0  BY <1>1
  <2>. QED  BY <2>1, <2>2
<1>. HIDE DEF N
<1>3. 0 \in T
  <2>1. k[0] \in Seq(Layer) /\ Len(k[0]) <= 0  BY <1>2
  <2>. QED  BY <2>1
<1>4. ASSUME NEW l \in T  PROVE l + 1 \in T
  <2>. SUFFICES ASSUME l + 1 <= N PROVE Fine(l + 1)  OBVIOUS
  <2>1. /\ l \in Nat /\ l <= N /\ l + 1 \in 1 .. N /\ (l + 1) - 1 = l
    BY <1>1
  <2>2. Fine(l)  BY <2>1
  <2>3. k[l + 1] = IF Empty(storages[l + 1]) THEN k[l] ELSE Append(k[l], Tidied(storages[l + 1]))
    BY <1>2, <2>1
  <2>4. Tidied(storages[l + 1]) \in Layer  BY <1>1, <2>1, TidiedTyped
  <2>5. l = 0 => k[l] = <<>>  BY <1>2
  <2>6. CASE Empty(storages[l + 1])
    <3>1. l = 0 => Empty(storages[1])  BY <2>6
    <3>. QED  BY <2>1, <2>2, <2>3, <2>6, <3>1
  <2>7. CASE ~Empty(storages[l + 1])
    <3>1. /\ k[l + 1] \in Seq(Layer) /\ Len(k[l + 1]) = Len(k[l]) + 1
          /\ k[l + 1][Len(k[l]) + 1] = Tidied(storages[l + 1])
          /\ \A i \in 1 .. Len(k[l]) : k[l + 1][i] = k[l][i]
      BY <2>2, <2>3, <2>4, <2>7, AppendProperties
    <3>2. Len(k[l]) \in Nat /\ (l = 0 => Len(k[l]) = 0)  BY <2>2, <2>5
    <3>3. k[l + 1] # <<>> /\ Len(k[l + 1]) <= l + 1  BY <2>1, <2>2, <3>1, <3>2
    <3>4. ~Empty(storages[1]) => k[l + 1][1] = Tidied(storages[1])
      <4>1. CASE l = 0  BY <3>1, <3>2, <4>1
      <4>2. CASE l > 0 /\ ~Empty(storages[1])
        <5>1. k[l] # <<>> /\ k[l][1] = Tidied(storages[1])  BY <2>2, <4>2
        <5>2. 1 \in 1 .. Len(k[l])  BY <2>2, <5>1
        <5>. QED  BY <3>1, <5>1, <5>2
      <4>. QED  BY <2>1, <4>1, <4>2
    <3>. QED  BY <3>1, <3>3, <3>4
  <2>. QED  BY <2>6, <2>7
<1>5. T = Nat
  <2>1. T \in SUBSET Nat  OBVIOUS
  <2>. HIDE DEF T
  <2>. QED  BY <1>3, <1>4, <2>1, Induction
<1>6. Fine(N)  BY <1>1, <1>5
<1>7. storages # <<>> => N > 0  BY <1>1 DEF N
<1>8. N = 1 /\ Empty(storages[1]) => k[N] = <<>>
  <2>1. 1 - 1 = 0  OBVIOUS
  <2>2. N = 1 => 1 \in 1 .. N  OBVIOUS
  <2>. QED  BY <1>2, <2>1, <2>2
<1>. QED  BY <1>6, <1>7, <1>8 DEF N

\* CompactSub gives a nil or such layers.
LEMMA CompactSubKeeps ==
  ASSUME NEW storages \in Seq(Layer)
  PROVE  /\ \/ CompactSub(storages) = NoSub
            \/ /\ CompactSub(storages) \in Seq(Layer) \ {<<>>}
               /\ Len(CompactSub(storages)) <= Len(storages)
         /\ storages # <<>> /\ ~Empty(storages[1]) =>
              /\ CompactSub(storages) \in Seq(Layer) \ {<<>>}
              /\ CompactSub(storages)[1] = Tidied(storages[1])
         /\ Len(storages) = 1 /\ Empty(storages[1]) => CompactSub(storages) = NoSub
<1>. DEFINE N == Len(storages)
            k == CHOOSE j : Keeps(j, storages, N)
<1>1. N \in Nat  OBVIOUS
<1>2. CompactSub(storages) = IF k[N] = <<>> THEN NoSub ELSE k[N]  BY DEF CompactSub, Keeps
<1>3. Keeps(k, storages, N)
  <2>1. \E j : Keeps(j, storages, N)  BY <1>1, LoopDefined
  <2>. QED  BY <2>1
<1>. HIDE DEF k
<1>4. /\ k[N] \in Seq(Layer) /\ Len(k[N]) <= N
      /\ storages # <<>> /\ ~Empty(storages[1]) => k[N] # <<>> /\ k[N][1] = Tidied(storages[1])
      /\ N = 1 /\ Empty(storages[1]) => k[N] = <<>>
  BY <1>3, LoopKeeps
<1>. QED  BY <1>2, <1>4

-----------------------------------------------------------------------------
(* The layers of a sub chunk. *)

LEMMA EmptyLayerTyped == EmptyLayer \in Layer
BY ColumnAssumption DEF EmptyLayer, NoBlocks, Layer

LEMMA NoSubNotLayers == NoSub \notin Seq(Layer) /\ NoSub # <<>>
<1>1. <<>> \in Seq(Layer)  OBVIOUS
<1>. QED  BY <1>1, ColumnAssumption DEF Layer

LEMMA StoragesTyped ==
  ASSUME TypeOK, NEW i \in Subs
  PROVE  /\ Storages(i) \in Seq(Layer) /\ Len(Storages(i)) <= MaxLayers
         /\ Len(Storages(i)) \in Nat
         /\ sub[i] # NoSub => Storages(i) = sub[i]
<1>1. MaxLayers \in Nat  BY ColumnAssumption
<1>2. Storages(i) \in Seq(Layer)  BY DEF Storages, TypeOK
<1>3. Len(Storages(i)) <= MaxLayers  BY <1>1 DEF Storages, TypeOK
<1>. QED  BY <1>1, <1>2, <1>3 DEF Storages

\* A decoded sub chunk has the blocks it had.
LEMMA DecodedTyped ==
  ASSUME TypeOK, NEW i \in Subs, NEW doubt \in SUBSET Ids
  PROVE  LET read == Decoded(i, doubt)
         IN  /\ read \in Seq(Layer) /\ Len(read) = Len(Storages(i))
             /\ \A l \in 1 .. Len(read) : read[l].blocks = Storages(i)[l].blocks
<1>. DEFINE n == Len(Storages(i))
<1>1. n \in Nat /\ \A l \in 1 .. n : Storages(i)[l] \in Layer  BY StoragesTyped
<1>2. \A l \in 1 .. n : /\ [Storages(i)[l] EXCEPT !.doubt = doubt] \in Layer
                        /\ [Storages(i)[l] EXCEPT !.doubt = doubt].blocks = Storages(i)[l].blocks
  BY <1>1 DEF Layer
<1>3. Decoded(i, doubt) = [l \in 1 .. n |-> [Storages(i)[l] EXCEPT !.doubt = doubt]]
  BY DEF Decoded
<1>. HIDE DEF n
<1>4. Decoded(i, doubt) \in Seq(Layer) /\ Len(Decoded(i, doubt)) = n  BY <1>1, <1>2, <1>3
<1>5. \A l \in 1 .. n : Decoded(i, doubt)[l].blocks = Storages(i)[l].blocks  BY <1>2, <1>3
<1>. QED  BY <1>4, <1>5 DEF n

\* The requested layer exists, and those that did are the same.
LEMMA WithLayerTyped ==
  ASSUME NEW storages \in Seq(Layer), NEW layer \in Nat
  PROVE  LET made == WithLayer(storages, layer)
         IN  /\ made \in Seq(Layer)
             /\ Len(made) = IF Len(storages) > layer THEN Len(storages) ELSE layer + 1
             /\ \A l \in 1 .. Len(storages) : made[l] = storages[l]
             /\ layer + 1 \in 1 .. Len(made) /\ Len(storages) <= Len(made)
             /\ layer + 1 \notin 1 .. Len(storages) => made[layer + 1] = EmptyLayer
<1>. DEFINE n == IF Len(storages) > layer THEN Len(storages) ELSE layer + 1
            made == WithLayer(storages, layer)
<1>1. n \in Nat /\ Len(storages) \in Nat /\ layer + 1 \in 1 .. n /\ Len(storages) <= n
  OBVIOUS
<1>2. made = [l \in 1 .. n |-> IF l <= Len(storages) THEN storages[l] ELSE EmptyLayer]
  BY DEF WithLayer
<1>3. \A l \in 1 .. n : (IF l <= Len(storages) THEN storages[l] ELSE EmptyLayer) \in Layer
  BY <1>1, EmptyLayerTyped
<1>. HIDE DEF n, made
<1>4. made \in Seq(Layer) /\ Len(made) = n  BY <1>1, <1>2, <1>3
<1>5. \A l \in 1 .. Len(storages) : made[l] = storages[l]  BY <1>1, <1>2
<1>6. layer + 1 \notin 1 .. Len(storages) => made[layer + 1] = EmptyLayer
  <2>. SUFFICES ASSUME layer + 1 \notin 1 .. Len(storages) PROVE made[layer + 1] = EmptyLayer
    OBVIOUS
  <2>1. ~(layer + 1 <= Len(storages))  BY <1>1
  <2>. QED  BY <1>1, <1>2, <2>1
<1>. QED  BY <1>1, <1>4, <1>5, <1>6 DEF n, made

LEMMA LayersNat == Layers \subseteq Nat /\ \A layer \in Layers : layer + 1 <= MaxLayers
BY ColumnAssumption DEF Layers

\* What Put makes of a layer: the position is written, or anything if the ID is in
\* doubt, and no other that could be read changes.
LEMMA PutTyped ==
  ASSUME NEW old \in Layer, NEW b \in Positions, NEW id \in Ids, NEW new \in Put(old, b, id)
  PROVE  /\ new \in Layer
         /\ new.blocks[b] = id \/ id \in old.doubt
         /\ \A c \in Positions :
              c # b /\ old.blocks[c] # NoBlock => new.blocks[c] = old.blocks[c]
<1>1. PICK x \in IF id \in old.doubt THEN Ids \cup {NoBlock} ELSE {id},
           gained \in SUBSET Unreadable(old) :
        new = [old EXCEPT !.blocks = [c \in Positions |->
                 IF c = b THEN x ELSE IF c \in gained THEN id ELSE @[c]]]
  BY DEF Put
<1>2. /\ new.doubt = old.doubt
      /\ new = [blocks |-> new.blocks, doubt |-> new.doubt]
      /\ new.blocks = [c \in Positions |->
                         IF c = b THEN x ELSE IF c \in gained THEN id ELSE old.blocks[c]]
  BY <1>1 DEF Layer
<1>3. x \in Ids \cup {NoBlock} /\ (x = id \/ id \in old.doubt)  BY <1>1
<1>4. \A c \in Positions : old.blocks[c] \in Ids \cup {NoBlock}  BY DEF Layer
<1>5. new.blocks \in [Positions -> Ids \cup {NoBlock}]  BY <1>2, <1>3, <1>4
<1>6. new \in Layer  BY <1>2, <1>5 DEF Layer
<1>7. \A c \in gained : old.blocks[c] = NoBlock  BY <1>1 DEF Unreadable
<1>. QED  BY <1>2, <1>3, <1>6, <1>7

\* What SetRuntimeID leaves in its sub chunk.
LEMMA SetWritten ==
  ASSUME TypeOK, NEW i \in Subs, NEW b \in Positions, NEW layer \in Layers, NEW id \in Ids,
         SetRuntimeID(i, b, layer, id)
  PROVE  /\ sub' \in [Subs -> {NoSub} \cup Seq(Layer)]
         /\ sub'[i] \in Seq(Layer) /\ Len(sub'[i]) <= MaxLayers
         /\ Len(sub'[i]) >= Len(Storages(i))
         /\ \A j \in Subs : j # i => sub'[j] = sub[j]
         /\ \A l \in 1 .. Len(Storages(i)), c \in Positions :
              <<l, c>> # <<layer + 1, b>> /\ Storages(i)[l].blocks[c] # NoBlock
                => sub'[i][l].blocks[c] = Storages(i)[l].blocks[c]
         /\ \/ Len(sub'[i]) > layer /\ sub'[i][layer + 1].blocks[b] = id
            \/ Len(sub'[i]) < 2 /\ id = 0 /\ layer = 1
            \/ layer < Len(Storages(i)) /\ id \in Storages(i)[layer + 1].doubt
<1>. DEFINE old == Storages(i)
            made == WithLayer(old, layer)
<1>1. old \in Seq(Layer) /\ Len(old) <= MaxLayers /\ Len(old) \in Nat  BY StoragesTyped
<1>2. layer \in Nat /\ layer + 1 <= MaxLayers /\ MaxLayers \in Nat
  BY LayersNat, ColumnAssumption
<1>3. /\ made \in Seq(Layer) /\ Len(made) <= MaxLayers /\ Len(made) \in Nat
      /\ \A l \in 1 .. Len(old) : made[l] = old[l]
      /\ layer + 1 \in 1 .. Len(made) /\ Len(old) <= Len(made)
      /\ layer + 1 \notin 1 .. Len(old) => made[layer + 1] = EmptyLayer
  BY <1>1, <1>2, WithLayerTyped
<1>4. IF Len(old) < 2 /\ id = 0 /\ layer = 1
      THEN sub' = [sub EXCEPT ![i] = old]
      ELSE \E put \in Put(made[layer + 1], b, id) :
             sub' = [sub EXCEPT ![i] = [made EXCEPT ![layer + 1] = put]]
  BY DEF SetRuntimeID, AirAlready
<1>. HIDE DEF made, old
<1>5. CASE Len(old) < 2 /\ id = 0 /\ layer = 1
  <2>1. sub' = [sub EXCEPT ![i] = old]  BY <1>4, <1>5
  <2>2. sub'[i] = old /\ \A j \in Subs : j # i => sub'[j] = sub[j]
    BY <2>1 DEF TypeOK
  <2>3. sub' \in [Subs -> {NoSub} \cup Seq(Layer)]  BY <1>1, <2>1 DEF TypeOK
  <2>. QED  BY <1>1, <1>5, <2>2, <2>3 DEF old
<1>6. CASE ~(Len(old) < 2 /\ id = 0 /\ layer = 1)
  <2>1. PICK s \in Put(made[layer + 1], b, id) :
          sub' = [sub EXCEPT ![i] = [made EXCEPT ![layer + 1] = s]]
    BY <1>4, <1>6
  <2>2. /\ s.blocks[b] = id \/ id \in made[layer + 1].doubt
        /\ \A c \in Positions :
             c # b /\ made[layer + 1].blocks[c] # NoBlock
               => s.blocks[c] = made[layer + 1].blocks[c]
    <3>1. made[layer + 1] \in Layer  BY <1>3
    <3>. QED  BY <2>1, <3>1, PutTyped
  <2>3. s \in Layer
    <3>1. made[layer + 1] \in Layer  BY <1>3
    <3>. QED  BY <2>1, <3>1, PutTyped
  <2>. DEFINE new == [made EXCEPT ![layer + 1] = s]
  <2>4. /\ new \in Seq(Layer) /\ Len(new) = Len(made)
        /\ \A l \in 1 .. Len(made) : new[l] = IF l = layer + 1 THEN s ELSE made[l]
    BY <1>3, <2>3, ExceptSeq
  <2>5. sub' = [sub EXCEPT ![i] = new]  BY <2>1
  <2>. HIDE DEF new
  <2>6. sub'[i] = new /\ \A j \in Subs : j # i => sub'[j] = sub[j]
    BY <2>5 DEF TypeOK
  <2>7. sub' \in [Subs -> {NoSub} \cup Seq(Layer)]  BY <2>4, <2>5 DEF TypeOK
  <2>8. \A l \in 1 .. Len(old), c \in Positions :
          <<l, c>> # <<layer + 1, b>> /\ old[l].blocks[c] # NoBlock
            => new[l].blocks[c] = old[l].blocks[c]
    <3>. SUFFICES ASSUME NEW l \in 1 .. Len(old), NEW c \in Positions,
                         l # layer + 1 \/ c # b, old[l].blocks[c] # NoBlock
                  PROVE  new[l].blocks[c] = old[l].blocks[c]
      OBVIOUS
    <3>1. l \in 1 .. Len(made) /\ made[l] = old[l]  BY <1>1, <1>3
    <3>. QED  BY <2>2, <2>4, <3>1
  <2>9. Len(new) > layer /\ new[layer + 1] = s  BY <1>2, <1>3, <2>4
  <2>10. \/ s.blocks[b] = id
         \/ layer < Len(old) /\ id \in old[layer + 1].doubt
    <3>1. CASE layer + 1 \in 1 .. Len(old)
      <4>1. made[layer + 1] = old[layer + 1] /\ layer < Len(old)  BY <1>1, <1>2, <1>3, <3>1
      <4>. QED  BY <2>2, <4>1
    <3>2. CASE layer + 1 \notin 1 .. Len(old)
      <4>1. made[layer + 1].doubt = {}  BY <1>3, <3>2 DEF EmptyLayer
      <4>. QED  BY <2>2, <4>1
    <3>. QED  BY <3>1, <3>2
  <2>11. new \in Seq(Layer) /\ Len(new) <= MaxLayers /\ Len(new) >= Len(old)
    BY <1>1, <1>3, <2>4
  <2>. QED  BY <2>6, <2>7, <2>8, <2>9, <2>10, <2>11 DEF old
<1>. QED  BY <1>5, <1>6

-----------------------------------------------------------------------------
(* TypeOK is inductive. *)

LEMMA InitTyped == Init => TypeOK
<1>. SUFFICES ASSUME Init PROVE TypeOK  OBVIOUS
<1>1. sub \in [Subs -> {NoSub} \cup Seq(Layer)] /\ \A i \in Subs : sub[i] # NoSub => Len(sub[i]) <= 2
  <2>. DEFINE L == {NetworkLayer(f) : f \in [Positions -> Ids]}
              bare == NetworkLayer(NoBlocks)
  <2>1. \A f \in [Positions -> Ids] : NetworkLayer(f) \in Layer
    BY ColumnAssumption DEF NetworkLayer, Layer
  <2>2. L \subseteq Layer /\ bare \in Layer
    <3>1. NoBlocks \in [Positions -> Ids]  BY ColumnAssumption DEF NoBlocks
    <3>. QED  BY <2>1, <3>1
  <2>3. sub \in [Subs -> {NoSub, <<>>} \cup {<<s>> : s \in L} \cup {<<s, bare>> : s \in L}]
    BY DEF Init
  <2>. HIDE DEF L, bare
  <2>4. \A s \in L : /\ <<s>> \in Seq(Layer) /\ Len(<<s>>) <= 2
                     /\ <<s, bare>> \in Seq(Layer) /\ Len(<<s, bare>>) <= 2
    BY <2>2
  <2>5. <<>> \in Seq(Layer) /\ Len(<<>>) <= 2  OBVIOUS
  <2>6. \A i \in Subs : sub[i] # NoSub => sub[i] \in Seq(Layer) /\ Len(sub[i]) <= 2
    BY <2>3, <2>4, <2>5
  <2>. QED  BY <2>3, <2>6
<1>2. 2 <= MaxLayers /\ MaxLayers \in Nat  BY ColumnAssumption
<1>3. \A i \in Subs : sub[i] # NoSub => Len(sub[i]) <= MaxLayers
  <2>. SUFFICES ASSUME NEW i \in Subs, sub[i] # NoSub PROVE Len(sub[i]) <= MaxLayers  OBVIOUS
  <2>1. sub[i] \in Seq(Layer)  BY <1>1
  <2>. QED  BY <1>1, <1>2, <2>1
<1>4. sky \in [Subs -> {0, 15}]  BY DEF Init, Unlit
<1>. QED  BY <1>1, <1>3, <1>4 DEF TypeOK

LEMMA StepTyped == TypeOK /\ [Next]_vars => TypeOK'
<1>. SUFFICES ASSUME TypeOK, [Next]_vars PROVE TypeOK'  OBVIOUS
<1>1. ASSUME NEW i \in Subs, NEW b \in Positions, NEW layer \in Layers, NEW id \in Ids,
             SetRuntimeID(i, b, layer, id)
      PROVE  TypeOK'
  <2>1. /\ sub' \in [Subs -> {NoSub} \cup Seq(Layer)]
        /\ Len(sub'[i]) <= MaxLayers /\ \A j \in Subs : j # i => sub'[j] = sub[j]
    BY <1>1, SetWritten
  <2>2. \A j \in Subs : sub'[j] # NoSub => Len(sub'[j]) <= MaxLayers  BY <2>1 DEF TypeOK
  <2>3. sky' \in [Subs -> {0, 15}]  BY <1>1 DEF SetRuntimeID, NewSky, TypeOK
  <2>. QED  BY <2>1, <2>2, <2>3 DEF TypeOK
<1>2. CASE Compact
  <2>1. sub' = [i \in Subs |-> IF sub[i] = NoSub THEN NoSub ELSE CompactSub(sub[i])] /\ sky' = sky
    BY <1>2 DEF Compact
  <2>2. ASSUME NEW i \in Subs
        PROVE  /\ sub'[i] \in {NoSub} \cup Seq(Layer)
               /\ sub'[i] # NoSub => Len(sub'[i]) <= MaxLayers
    <3>1. CASE sub[i] = NoSub  BY <2>1, <3>1
    <3>2. CASE sub[i] # NoSub
      <4>1. sub[i] \in Seq(Layer) /\ Len(sub[i]) <= MaxLayers /\ Len(sub[i]) \in Nat
        BY <3>2, StoragesTyped
      <4>2. sub'[i] = CompactSub(sub[i])  BY <2>1, <3>2
      <4>3. MaxLayers \in Nat  BY ColumnAssumption
      <4>. QED  BY <4>1, <4>2, <4>3, CompactSubKeeps
    <3>. QED  BY <3>1, <3>2
  <2>3. sub' \in [Subs -> {NoSub} \cup Seq(Layer)]  BY <2>1, <2>2
  <2>. QED  BY <2>1, <2>2, <2>3 DEF TypeOK
<1>3. CASE NetworkReload \/ DiskReload
  <2>1. \A i \in Subs : \/ sub'[i] = NoSub
                        \/ sub'[i] = Decoded(i, {0}) \/ sub'[i] = Decoded(i, {})
    BY <1>3 DEF NetworkReload, DiskReload
  <2>2. \A i \in Subs : /\ sub'[i] \in {NoSub} \cup Seq(Layer)
                        /\ sub'[i] # NoSub => Len(sub'[i]) <= MaxLayers
    BY <2>1, DecodedTyped, StoragesTyped, ColumnAssumption
  <2>3. sub' \in [Subs -> {NoSub} \cup Seq(Layer)]
    <3>1. sub' = [i \in Subs |-> sub'[i]]  BY <1>3 DEF NetworkReload, DiskReload
    <3>. QED  BY <2>2, <3>1
  <2>4. sky' \in [Subs -> {0, 15}]  BY <1>3 DEF NetworkReload, DiskReload, Unlit
  <2>. QED  BY <2>2, <2>3, <2>4 DEF TypeOK
<1>4. CASE UNCHANGED vars  BY <1>4 DEF vars, TypeOK
<1>. QED  BY <1>1, <1>2, <1>3, <1>4 DEF Next

\* TypeCorrect: a sub chunk is nil or a stack of at most MaxLayers full layers
\* (sub_chunk.go:13-20, 94-105, chunk.go:84-98).
THEOREM TypeCorrect == Spec => []TypeOK
<1>. QED  BY InitTyped, StepTyped, PTL DEF Spec

-----------------------------------------------------------------------------
(* What is read. *)

\* SetsRead: whatever layers SetRuntimeID has to make, its block is written unless a
\* compact or NetworkDecode left the ID in doubt, and nothing else that could be read
\* changes even then (chunk.go:84-98, sub_chunk.go:13-20, 37-39, palette.go:43-47).
THEOREM SetsRead == Spec => SetReads
<1>. DEFINE Reads(i, b, layer, id) ==
       /\ \/ RuntimeID(i, b, layer)' \in
               IF id = 0 /\ layer = 1 THEN {0, Air} ELSE {id}
          \/ InDoubt(i, layer, id)
       /\ \A j \in Subs, c \in Positions, l \in Layers :
            Exists(j, l) /\ <<j, c, l>> # <<i, b, layer>> /\ RuntimeID(j, c, l) # NoBlock =>
              RuntimeID(j, c, l)' = RuntimeID(j, c, l)
       /\ \A j \in Subs : SkyLight(j)' = SkyLight(j)
<1>1. ASSUME TypeOK, NEW i \in Subs, NEW b \in Positions, NEW layer \in Layers, NEW id \in Ids,
             SetRuntimeID(i, b, layer, id)
      PROVE  Reads(i, b, layer, id)
  <2>1. layer \in Nat /\ NoSub \notin Seq(Layer)  BY LayersNat, NoSubNotLayers
  <2>2. /\ sub'[i] \in Seq(Layer) /\ Len(sub'[i]) >= Len(Storages(i))
        /\ \A j \in Subs : j # i => sub'[j] = sub[j]
        /\ \A l \in 1 .. Len(Storages(i)), c \in Positions :
             <<l, c>> # <<layer + 1, b>> /\ Storages(i)[l].blocks[c] # NoBlock
               => sub'[i][l].blocks[c] = Storages(i)[l].blocks[c]
        /\ \/ Len(sub'[i]) > layer /\ sub'[i][layer + 1].blocks[b] = id
           \/ Len(sub'[i]) < 2 /\ id = 0 /\ layer = 1
           \/ layer < Len(Storages(i)) /\ id \in Storages(i)[layer + 1].doubt
    BY <1>1, SetWritten
  <2>3. Len(sub'[i]) \in Nat /\ sub'[i] # NoSub  BY <2>1, <2>2
  <2>4. \/ RuntimeID(i, b, layer)' \in IF id = 0 /\ layer = 1 THEN {0, Air} ELSE {id}
        \/ InDoubt(i, layer, id)
    <3>1. CASE Len(sub'[i]) > layer /\ sub'[i][layer + 1].blocks[b] = id
      BY <2>1, <2>3, <3>1 DEF RuntimeID
    <3>2. CASE Len(sub'[i]) < 2 /\ id = 0 /\ layer = 1
      <4>1. RuntimeID(i, b, layer)' = Air  BY <2>3, <3>2 DEF RuntimeID
      <4>. QED  BY <3>2, <4>1
    <3>3. CASE layer < Len(Storages(i)) /\ id \in Storages(i)[layer + 1].doubt
      <4>1. sub[i] # NoSub  BY <2>1, <3>3 DEF Storages
      <4>. QED  BY <3>3, <4>1 DEF InDoubt, Exists
    <3>. QED  BY <2>2, <3>1, <3>2, <3>3
  <2>5. ASSUME NEW j \in Subs, NEW c \in Positions, NEW l \in Layers, Exists(j, l),
               <<j, c, l>> # <<i, b, layer>>, RuntimeID(j, c, l) # NoBlock
        PROVE  RuntimeID(j, c, l)' = RuntimeID(j, c, l)
    <3>1. CASE j # i  BY <2>2, <3>1 DEF RuntimeID
    <3>2. CASE j = i
      <4>1. sub[i] # NoSub /\ l < Len(Storages(i)) /\ Storages(i) = sub[i]
        BY <2>5, <3>2 DEF Exists, Storages
      <4>2. l \in Nat /\ Len(Storages(i)) \in Nat  BY <1>1, LayersNat, StoragesTyped
      <4>3. l + 1 \in 1 .. Len(Storages(i)) /\ l < Len(sub'[i])  BY <2>2, <2>3, <4>1, <4>2
      <4>4. <<l + 1, c>> # <<layer + 1, b>>  BY <2>1, <2>5, <3>2, <4>2
      <4>5. RuntimeID(j, c, l) = sub[i][l + 1].blocks[c]
        BY <3>2, <4>1, <4>2 DEF RuntimeID
      <4>6. sub'[i][l + 1].blocks[c] = sub[i][l + 1].blocks[c]
        BY <2>2, <2>5, <4>1, <4>3, <4>4, <4>5
      <4>. QED  BY <2>3, <3>2, <4>2, <4>3, <4>5, <4>6 DEF RuntimeID
    <3>. QED  BY <3>1, <3>2
  <2>6. ASSUME NEW j \in Subs  PROVE SkyLight(j)' = SkyLight(j)
    <3>1. sky'[i] = (IF sub[i] = NoSub THEN 15 ELSE sky[i]) /\ \A k \in Subs : k # i => sky'[k] = sky[k]
      BY <1>1 DEF SetRuntimeID, NewSky, TypeOK
    <3>. QED  BY <2>2, <2>3, <3>1 DEF SkyLight
  <2>. QED  BY <2>4, <2>5, <2>6
<1>. HIDE DEF Reads
<1>2. TypeOK => [\A i \in Subs, b \in Positions, layer \in Layers, id \in Ids :
                   SetRuntimeID(i, b, layer, id) => Reads(i, b, layer, id)]_vars
  BY <1>1
<1>. QED  BY <1>2, TypeCorrect, PTL DEF SetReads, Reads

\* ReloadsRead: for chunks of any height and holes (data.go:49-218, world/chunk.go:49-71).
THEOREM ReloadsRead == Spec => ReloadReads
<1>1. ASSUME TypeOK, NetworkReload \/ DiskReload, NEW i \in Subs, NEW b \in Positions,
             NEW layer \in Layers
      PROVE  RuntimeID(i, b, layer)' = RuntimeID(i, b, layer)
  <2>1. NoSub # <<>> /\ layer \in Nat  BY NoSubNotLayers, LayersNat
  <2>2. sub[i] # NoSub => i \in Written  BY ColumnAssumption DEF Written
  <2>3. \/ sub'[i] = NoSub /\ Storages(i) = <<>>
        \/ sub'[i] = Decoded(i, {0}) \/ sub'[i] = Decoded(i, {})
    BY <1>1, <2>2 DEF NetworkReload, DiskReload, Storages
  <2>4. RuntimeID(i, b, layer) =
          IF Len(Storages(i)) <= layer THEN Air ELSE Storages(i)[layer + 1].blocks[b]
    BY <2>1 DEF RuntimeID, Storages
  <2>5. CASE sub'[i] = NoSub /\ Storages(i) = <<>>
    BY <2>1, <2>4, <2>5 DEF RuntimeID
  <2>6. ASSUME NEW doubt \in SUBSET Ids, sub'[i] = Decoded(i, doubt)
        PROVE  RuntimeID(i, b, layer)' = RuntimeID(i, b, layer)
    <3>1. /\ sub'[i] \in Seq(Layer) /\ Len(sub'[i]) = Len(Storages(i))
          /\ \A l \in 1 .. Len(sub'[i]) : sub'[i][l].blocks = Storages(i)[l].blocks
      BY <1>1, <2>6, DecodedTyped
    <3>2. sub'[i] # NoSub /\ Len(sub'[i]) \in Nat  BY <3>1, NoSubNotLayers
    <3>3. ~(Len(sub'[i]) <= layer) => layer + 1 \in 1 .. Len(sub'[i])  BY <2>1, <3>2
    <3>. QED  BY <2>4, <3>1, <3>2, <3>3 DEF RuntimeID
  <2>7. {0} \in SUBSET Ids /\ {} \in SUBSET Ids  BY ColumnAssumption
  <2>. QED  BY <2>3, <2>5, <2>6, <2>7
<1>2. TypeOK => [NetworkReload \/ DiskReload =>
                   \A i \in Subs, b \in Positions, layer \in Layers :
                     RuntimeID(i, b, layer)' = RuntimeID(i, b, layer)]_vars
  BY <1>1
<1>. QED  BY <1>2, TypeCorrect, PTL DEF ReloadReads

\* CompactionKeepsBlocks: for any number of layers (sub_chunk.go:94-105, chunk.go:156-166).
THEOREM CompactionKeepsBlocks == Spec => CompactKeepsBlocks
<1>. DEFINE Kept(i, b) ==
       (\A l \in Layers : Exists(i, l + 1) => ~Empty(Storages(i)[l + 1])) =>
         RuntimeID(i, b, 0)' \in
           {RuntimeID(i, b, 0)} \cup (IF RuntimeID(i, b, 0) = 0 THEN {Air} ELSE {})
<1>1. ASSUME TypeOK, Compact, NEW i \in Subs, NEW b \in Positions  PROVE Kept(i, b)
  <2>. SUFFICES ASSUME \A l \in Layers : Exists(i, l + 1) => ~Empty(Storages(i)[l + 1])
                PROVE  RuntimeID(i, b, 0)' \in
                         {RuntimeID(i, b, 0)} \cup (IF RuntimeID(i, b, 0) = 0 THEN {Air} ELSE {})
    OBVIOUS
  <2>1. sub'[i] = IF sub[i] = NoSub THEN NoSub ELSE CompactSub(sub[i])  BY <1>1 DEF Compact
  <2>2. CASE sub[i] = NoSub  BY <2>1, <2>2 DEF RuntimeID
  <2>3. CASE sub[i] = <<>>
    <3>1. sub[i] # NoSub /\ sub[i] \in Seq(Layer)  BY <2>3, NoSubNotLayers
    <3>2. sub'[i] = NoSub
      <4>1. ~\E x \in Seq(Layer) \ {<<>>} : Len(x) <= Len(<<>>)  OBVIOUS
      <4>. QED  BY <2>1, <2>3, <3>1, <4>1, CompactSubKeeps
    <3>. QED  BY <2>3, <3>1, <3>2 DEF RuntimeID
  <2>4. CASE sub[i] \notin {NoSub, <<>>}
    <3>1. /\ sub[i] \in Seq(Layer) /\ Storages(i) = sub[i] /\ NoSub \notin Seq(Layer)
          /\ Len(sub[i]) \in Nat /\ Len(sub[i]) > 0
      <4>1. Storages(i) \in Seq(Layer) /\ Storages(i) = sub[i]  BY <1>1, <2>4, StoragesTyped
      <4>. QED  BY <2>4, <4>1, NoSubNotLayers
    <3>2. sub'[i] = CompactSub(sub[i])  BY <2>1, <2>4
    <3>3. RuntimeID(i, b, 0) = sub[i][1].blocks[b]  BY <2>4, <3>1 DEF RuntimeID
    <3>4. CASE ~Empty(sub[i][1])
      <4>1. sub'[i] \in Seq(Layer) \ {<<>>} /\ sub'[i][1].blocks = sub[i][1].blocks
        <5>1. sub[i] # <<>> /\ sub[i][1] \in Layer  BY <2>4, <3>1
        <5>2. sub'[i] \in Seq(Layer) \ {<<>>} /\ sub'[i][1] = Tidied(sub[i][1])
          BY <3>1, <3>2, <3>4, <5>1, CompactSubKeeps
        <5>. QED  BY <5>1, <5>2, TidiedTyped
      <4>2. sub'[i] # NoSub /\ Len(sub'[i]) \in Nat /\ Len(sub'[i]) > 0  BY <3>1, <4>1
      <4>. QED  BY <3>3, <4>1, <4>2 DEF RuntimeID
    <3>5. CASE Empty(sub[i][1])
      <4>1. RuntimeID(i, b, 0) = 0  BY <3>3, <3>5 DEF Empty, NoBlocks
      <4>2. Len(sub[i]) = 1
        <5>1. 0 \in Layers /\ 0 + 1 = 1  BY ColumnAssumption DEF Layers
        <5>2. ~Exists(i, 1)  BY <3>1, <3>5, <5>1
        <5>3. ~(1 < Len(sub[i]))  BY <2>4, <3>1, <5>2, Zenon DEF Exists
        <5>4. \A n \in Nat : n > 0 /\ ~(1 < n) => n = 1  OBVIOUS
        <5>. QED  BY <3>1, <5>3, <5>4, Zenon
      <4>3. sub'[i] = NoSub  BY <3>1, <3>2, <3>5, <4>2, CompactSubKeeps
      <4>. QED  BY <4>1, <4>3 DEF RuntimeID
    <3>. QED  BY <3>4, <3>5
  <2>. QED  BY <2>2, <2>3, <2>4
<1>. HIDE DEF Kept
<1>2. TypeOK => [Compact => \A i \in Subs, b \in Positions : Kept(i, b)]_vars  BY <1>1
<1>. QED  BY <1>2, TypeCorrect, PTL DEF CompactKeepsBlocks, Kept
=============================================================================
