---------------------------- MODULE MCChunkLight ----------------------------
(* Instances of ChunkLight: chunks three blocks wide, sub chunks two high. *)
EXTENDS ChunkLight, TLC

Lamp == 1
Leaf == 2
Stone == 3
MCEmission == (0 :> 0) @@ (Lamp :> 3) @@ (Leaf :> 0) @@ (Stone :> 0)
MCFilter == (0 :> 0) @@ (Lamp :> 3) @@ (Leaf :> 1) @@ (Stone :> 3)

MCOrder ==
  <<<<-1, -1>>, <<-1, 0>>, <<-1, 1>>, <<0, -1>>, <<0, 0>>, <<0, 1>>, <<1, -1>>, <<1, 0>>, <<1, 1>>>>

\* One layer with these blocks, given as <<position, id>>.
Layer(blocks) ==
  [p \in Positions |->
     IF \E b \in blocks : b[1] = p THEN (CHOOSE b \in blocks : b[1] = p)[2] ELSE 0]

Chunk2(bottom, top) == (0 :> bottom) @@ (1 :> top)
Nil == Chunk2(NoSub, NoSub)
Flat(blocks) == Chunk2(<<Layer(blocks)>>, NoSub)

\* The middle chunk m, the chunk e beyond two of its sides, nothing elsewhere.
Scene(m, e, sides) ==
  [c \in Chunks |-> IF c = Centre THEN m ELSE IF c \in sides THEN e ELSE Nil]

Far == {<<1, 0>>, <<0, 1>>}
Near == {<<-1, 0>>, <<0, -1>>}

Lamps == {{}} \cup {{<<p, Lamp>>} : p \in {<<1, 1, 1>>, <<2, 0, 1>>, <<1, 0, 2>>}}
Others == {{}, {<<<<2, 1, 2>>, Leaf>>}, {<<<<1, 0, 0>>, Stone>>}}
Edge == Flat({<<<<0, 0, 1>>, Leaf>>})

\* Of one layer, of which the lamps shine across a border or stop before it.
Plain == {Scene(Flat(l \cup o), e, Far) : l \in Lamps, o \in Others, e \in {Nil, Edge}}

\* Of several: a roof over nothing, a ledge over nothing and over rock, a lamp on the
\* second layer, a sub chunk of air above and below others, a third layer.
Rock == <<Layer({<<p, Stone>> : p \in Positions})>>
Ledge == <<Layer({<<<<1, 1, 1>>, Stone>>, <<<<2, 0, 0>>, Leaf>>})>>
Double == <<Layer({<<<<0, 0, 1>>, Leaf>>}), Layer({<<<<0, 0, 1>>, Lamp>>})>>
Triple == <<Layer({}), Layer({<<<<1, 1, 0>>, Lamp>>}), Layer({<<<<1, 0, 1>>, Leaf>>})>>
Layered ==
  {Scene(m, Edge, Near) :
     m \in {Chunk2(NoSub, Rock), Chunk2(NoSub, Ledge), Chunk2(Rock, Ledge),
            Chunk2(Double, NoSub), Chunk2(Double, <<Layer({})>>),
            Chunk2(<<Layer({})>>, Double), Chunk2(<<Layer({})>>, Triple), Chunk2(Triple, Rock)}}

\* A leaf in a roof over nothing, which light from the middle chunk falls through.
Hollow ==
  {Scene(Chunk2(<<Layer({<<<<0, 0, 0>>, Stone>>})>>, <<Layer({<<<<2, 0, 1>>, Lamp>>})>>),
         Chunk2(NoSub, <<[Rock[1] EXCEPT ![<<0, 0, 1>>] = Leaf], Layer({})>>), Far)}

MCScenes == Plain \cup Layered \cup Hollow
=============================================================================
