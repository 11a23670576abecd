--------------------------- MODULE ChunkLight_proofs ---------------------------
(***************************************************************************)
(* Proofs about ChunkLight, for chunks of any size, any tables of blocks   *)
(* and any order of filling.                                               *)
(***************************************************************************)
EXTENDS ChunkLight, WellFoundedInduction, SequenceTheorems, TLAPS

-----------------------------------------------------------------------------
(* Induction over a set of naturals, and the highest of a bounded one. *)

LEMMA Least ==
  ASSUME NEW T \in SUBSET Nat, T # {}
  PROVE  \E n \in T : \A m \in T : n <= m
<1>. DEFINE R == {r \in Nat \X Nat : r[1] < r[2]}
<1>1. IsWellFoundedOn(R, Nat)  BY NatLessThanWellFounded DEF OpToRel
<1>2. \A m, n \in Nat : m < n => <<m, n>> \in R  OBVIOUS
<1>. HIDE DEF R
<1>3. PICK n \in T : \A m \in T : <<m, n>> \notin R  BY <1>1, WFMin
<1>4. \A m \in T : ~(m < n)  BY <1>2, <1>3
<1>. QED  BY <1>4

LEMMA Induction ==
  ASSUME NEW T \in SUBSET Nat, 0 \in T, \A n \in T : n + 1 \in T
  PROVE  T = Nat
<1>. SUFFICES ASSUME Nat \ T # {} PROVE FALSE  OBVIOUS
<1>1. PICK n \in Nat \ T : \A m \in Nat \ T : n <= m  BY Least
<1>2. n - 1 \in Nat  OBVIOUS
<1>3. n - 1 \in T  BY <1>1, <1>2
<1>. QED  BY <1>3

LEMMA HighestFound ==
  ASSUME NEW S \in SUBSET Nat, S # {}, NEW bound \in Nat, \A m \in S : m <= bound
  PROVE  Highest(S) \in S /\ \A m \in S : m <= Highest(S)
<1>. DEFINE T == {bound - m : m \in S}
<1>1. T \in SUBSET Nat /\ T # {}
  <2>1. \A m \in S : bound - m \in Nat  OBVIOUS
  <2>. QED  BY <2>1
<1>2. PICK t \in T : \A u \in T : t <= u  BY <1>1, Least
<1>3. PICK n \in S : t = bound - n  BY <1>2
<1>4. \A m \in S : m <= n  BY <1>2, <1>3
<1>. QED  BY <1>4 DEF Highest

-----------------------------------------------------------------------------
(* Cells, chunks and sub chunks. *)

LEMMA Sizes ==
  /\ Width \in Nat /\ Width > 1 /\ SubHeight \in Nat /\ SubHeight > 1
  /\ SubCount \in Nat /\ SubCount > 0
  /\ Height \in Nat /\ Height > 1 /\ Height = SubCount * SubHeight
  /\ MaxLight \in Nat /\ 1 < MaxLight /\ MaxLight <= Width
<1>1. Width \in Nat /\ Width > 1 /\ SubHeight \in Nat /\ SubHeight > 1
      /\ SubCount \in Nat /\ SubCount > 0 /\ MaxLight \in Nat /\ 1 < MaxLight /\ MaxLight <= Width
  BY LightAssumption
<1>2. \A a, b \in Nat : a > 0 /\ b > 1 => a * b \in Nat /\ a * b > 1
  <2>. SUFFICES ASSUME NEW a \in Nat, NEW b \in Nat, a > 0, b > 1 PROVE a * b \in Nat /\ a * b > 1
    OBVIOUS
  <2>1. a * b >= 1 * b  OBVIOUS
  <2>. QED  BY <2>1
<1>. QED  BY <1>1, <1>2 DEF Height

\* The digits of a number.
LEMMA Digits ==
  ASSUME NEW q \in Int, NEW b \in Nat \ {0}, NEW r \in 0 .. b - 1
  PROVE  (b * q + r) \div b = q /\ (b * q + r) % b = r
OBVIOUS

LEMMA Divided ==
  ASSUME NEW a \in Int, NEW b \in Nat \ {0}
  PROVE  a \div b \in Int /\ a % b \in 0 .. b - 1 /\ a = b * (a \div b) + (a % b)
OBVIOUS

LEMMA DividedBelow ==
  ASSUME NEW a \in Nat, NEW b \in Nat \ {0}, NEW c \in Nat, a < b * c
  PROVE  a \div b \in 0 .. c - 1
OBVIOUS

LEMMA DividedInArea ==
  ASSUME NEW x \in -Width .. 2 * Width - 1
  PROVE  x \div Width \in -1 .. 1
BY Sizes

\* A cell is in a chunk, in a sub chunk and at a position of it.
LEMMA CellPlaced ==
  ASSUME NEW n \in Cells
  PROVE  /\ ChunkOf(n) \in Chunks /\ SubOf(n) \in Subs
         /\ <<n[1] % Width, n[2] % SubHeight, n[3] % Width>> \in Positions
<1>1. n[1] \in -Width .. 2 * Width - 1 /\ n[3] \in -Width .. 2 * Width - 1 /\ n[2] \in 0 .. Height - 1
  BY DEF Cells
<1>2. ChunkOf(n) \in Chunks  BY <1>1, DividedInArea DEF ChunkOf, Chunks
<1>3. SubOf(n) \in Subs
  <2>1. n[2] \in Nat /\ n[2] < SubHeight * SubCount  BY <1>1, Sizes
  <2>. QED  BY <2>1, Sizes, DividedBelow DEF SubOf, Subs
<1>4. /\ n[1] % Width \in 0 .. Width - 1 /\ n[3] % Width \in 0 .. Width - 1
      /\ n[2] % SubHeight \in 0 .. SubHeight - 1
  <2>1. n[1] \in Int /\ n[2] \in Int /\ n[3] \in Int  BY <1>1, Sizes
  <2>2. Width \in Nat \ {0} /\ SubHeight \in Nat \ {0}  BY Sizes
  <2>. QED  BY <2>1, <2>2, Divided
<1>. QED  BY <1>2, <1>3, <1>4 DEF Positions

\* The cells of a chunk.
LEMMA InChunk ==
  ASSUME NEW x \in Int, NEW c \in Int
  PROVE  x \div Width = c <=> x \in Width * c .. Width * c + Width - 1
BY Sizes

LEMMA CentreCells ==
  ASSUME NEW n \in Cells
  PROVE  ChunkOf(n) = Centre <=> n[1] \in 0 .. Width - 1 /\ n[3] \in 0 .. Width - 1
<1>1. n[1] \in Int /\ n[3] \in Int  BY Sizes DEF Cells
<1>2. \A x \in Int : x \div Width = 0 <=> x \in 0 .. Width - 1
  <2>1. \A x \in Int : x \div Width = 0 <=> x \in Width * 0 .. Width * 0 + Width - 1  BY InChunk
  <2>. QED  BY <2>1, Sizes
<1>. QED  BY <1>1, <1>2 DEF ChunkOf, Centre

-----------------------------------------------------------------------------
(* The cells around a cell. *)

Points == Int \X Int \X Int

Elements(s) == {s[i] : i \in 1 .. Len(s)}

LEMMA ConcatElements ==
  ASSUME NEW T, NEW s \in Seq(T), NEW t \in Seq(T)
  PROVE  s \o t \in Seq(T) /\ Elements(s \o t) = Elements(s) \cup Elements(t)
<1>1. /\ s \o t \in Seq(T) /\ Len(s \o t) = Len(s) + Len(t)
      /\ Len(s) \in Nat /\ Len(t) \in Nat
      /\ \A i \in 1 .. Len(s) + Len(t) :
           (s \o t)[i] = IF i <= Len(s) THEN s[i] ELSE t[i - Len(s)]
  BY ConcatProperties
<1>. DEFINE c == s \o t
<1>. HIDE DEF c
<1>2. /\ c \in Seq(T) /\ Len(c) = Len(s) + Len(t) /\ Len(s) \in Nat /\ Len(t) \in Nat
      /\ \A i \in 1 .. Len(c) : c[i] = IF i <= Len(s) THEN s[i] ELSE t[i - Len(s)]
  BY <1>1 DEF c
<1>3. \A i \in 1 .. Len(s) : i \in 1 .. Len(c) /\ c[i] = s[i]  BY <1>2
<1>4. ASSUME NEW i \in 1 .. Len(t)
      PROVE  Len(s) + i \in 1 .. Len(c) /\ c[Len(s) + i] = t[i]
  <2>1. Len(s) + i \in 1 .. Len(c)  BY <1>2
  <2>2. ~(Len(s) + i <= Len(s)) /\ (Len(s) + i) - Len(s) = i  BY <1>2
  <2>. QED  BY <1>2, <2>1, <2>2
<1>5. \A i \in 1 .. Len(c) : \/ i \in 1 .. Len(s) /\ c[i] = s[i]
                             \/ i - Len(s) \in 1 .. Len(t) /\ c[i] = t[i - Len(s)]
  BY <1>2
<1>6. Elements(c) \subseteq Elements(s) \cup Elements(t)  BY <1>5 DEF Elements
<1>7. Elements(s) \subseteq Elements(c)  BY <1>3 DEF Elements
<1>8. Elements(t) \subseteq Elements(c)  BY <1>4 DEF Elements
<1>. QED  BY <1>2, <1>6, <1>7, <1>8 DEF c

LEMMA FewElements ==
  ASSUME NEW T, NEW a \in T
  PROVE  /\ <<a>> \in Seq(T) /\ Elements(<<a>>) = {a}
         /\ <<>> \in Seq(T) /\ Elements(<<>>) = {}
<1>1. Len(<<a>>) = 1 /\ 1 .. 1 = {1} /\ Len(<<>>) = 0 /\ 1 .. 0 = {}  OBVIOUS
<1>2. Elements(<<a>>) = {a}
  <2>1. Elements(<<a>>) = {<<a>>[i] : i \in {1}}  BY <1>1 DEF Elements
  <2>. QED  BY <2>1
<1>3. Elements(<<>>) = {}  BY <1>1 DEF Elements
<1>. QED  BY <1>2, <1>3

\* Six cells, of which the bottom and the top of the world have five.
LEMMA AroundCell ==
  ASSUME NEW n \in Points
  PROVE  /\ Neighbours(n) \in Seq(Points)
         /\ Around(n) = Elements(Neighbours(n))
         /\ Around(n) = {<<n[1] - 1, n[2], n[3]>>, <<n[1] + 1, n[2], n[3]>>,
                         <<n[1], n[2], n[3] - 1>>, <<n[1], n[2], n[3] + 1>>}
                        \cup (IF n[2] > 0 THEN {<<n[1], n[2] - 1, n[3]>>} ELSE {})
                        \cup (IF n[2] < Height - 1 THEN {<<n[1], n[2] + 1, n[3]>>} ELSE {})
<1>. DEFINE a == <<n[1] - 1, n[2], n[3]>>
            b == <<n[1] + 1, n[2], n[3]>>
            c == <<n[1], n[2], n[3] - 1>>
            d == <<n[1], n[2], n[3] + 1>>
            e == <<n[1], n[2] - 1, n[3]>>
            f == <<n[1], n[2] + 1, n[3]>>
            low == IF n[2] > 0 THEN <<e>> ELSE <<>>
            high == IF n[2] < Height - 1 THEN <<f>> ELSE <<>>
<1>1. a \in Points /\ b \in Points /\ c \in Points /\ d \in Points /\ e \in Points /\ f \in Points
  BY DEF Points
<1>2. Neighbours(n) = (<<a, b, c, d>> \o low) \o high  BY DEF Neighbours
<1>3. Around(n) = Elements(Neighbours(n))  BY DEF Around, Elements
<1>. HIDE DEF a, b, c, d, e, f
<1>4. <<a, b, c, d>> \in Seq(Points) /\ Elements(<<a, b, c, d>>) = {a, b, c, d}
  <2>1. <<a, b, c, d>> \in Seq(Points)  BY <1>1
  <2>2. Len(<<a, b, c, d>>) = 4 /\ 1 .. 4 = {1, 2, 3, 4}  OBVIOUS
  <2>3. Elements(<<a, b, c, d>>) = {<<a, b, c, d>>[i] : i \in {1, 2, 3, 4}}  BY <2>2 DEF Elements
  <2>. QED  BY <2>1, <2>3
<1>5. low \in Seq(Points) /\ Elements(low) = IF n[2] > 0 THEN {e} ELSE {}
  BY <1>1, FewElements
<1>6. high \in Seq(Points) /\ Elements(high) = IF n[2] < Height - 1 THEN {f} ELSE {}
  BY <1>1, FewElements
<1>. HIDE DEF low, high
<1>. DEFINE four == <<a, b, c, d>>
<1>. HIDE DEF four
<1>7. /\ four \o low \in Seq(Points)
      /\ Elements(four \o low) = {a, b, c, d} \cup Elements(low)
  <2>1. four \in Seq(Points) /\ Elements(four) = {a, b, c, d}  BY <1>4 DEF four
  <2>. QED  BY <1>5, <2>1, ConcatElements
<1>8. /\ (four \o low) \o high \in Seq(Points)
      /\ Elements((four \o low) \o high) = ({a, b, c, d} \cup Elements(low)) \cup Elements(high)
  <2>. DEFINE five == four \o low
  <2>1. five \in Seq(Points) /\ Elements(five) = {a, b, c, d} \cup Elements(low)  BY <1>7
  <2>. HIDE DEF five
  <2>2. five \o high \in Seq(Points) /\ Elements(five \o high) = Elements(five) \cup Elements(high)
    BY <1>6, <2>1, ConcatElements
  <2>. QED  BY <2>1, <2>2 DEF five
<1>9. Around(n) = ({a, b, c, d} \cup (IF n[2] > 0 THEN {e} ELSE {}))
                  \cup (IF n[2] < Height - 1 THEN {f} ELSE {})
  BY <1>2, <1>3, <1>5, <1>6, <1>8, Zenon DEF four
<1>10. Neighbours(n) \in Seq(Points)  BY <1>2, <1>8 DEF four
<1>. QED  BY <1>3, <1>9, <1>10 DEF a, b, c, d, e, f

LEMMA AroundBack ==
  ASSUME NEW n \in Cells, NEW d \in Around(n)
  PROVE  /\ d \in Int \X (0 .. Height - 1) \X Int /\ n \in Around(d) /\ d # n
         /\ d[1] \in n[1] - 1 .. n[1] + 1 /\ d[3] \in n[3] - 1 .. n[3] + 1
<1>1. n \in Points /\ n \in Int \X (0 .. Height - 1) \X Int  BY Sizes DEF Cells, Points
<1>2. d \in {<<n[1] - 1, n[2], n[3]>>, <<n[1] + 1, n[2], n[3]>>,
             <<n[1], n[2], n[3] - 1>>, <<n[1], n[2], n[3] + 1>>}
            \cup (IF n[2] > 0 THEN {<<n[1], n[2] - 1, n[3]>>} ELSE {})
            \cup (IF n[2] < Height - 1 THEN {<<n[1], n[2] + 1, n[3]>>} ELSE {})
  BY <1>1, AroundCell
<1>3. d \in Int \X (0 .. Height - 1) \X Int /\ d # n  BY <1>1, <1>2, Sizes
<1>4. d[1] \in n[1] - 1 .. n[1] + 1 /\ d[3] \in n[3] - 1 .. n[3] + 1  BY <1>1, <1>2
<1>5. d \in Points /\ Height \in Nat  BY <1>3, Sizes DEF Points
<1>6. n \in {<<d[1] - 1, d[2], d[3]>>, <<d[1] + 1, d[2], d[3]>>,
             <<d[1], d[2], d[3] - 1>>, <<d[1], d[2], d[3] + 1>>}
            \cup (IF d[2] > 0 THEN {<<d[1], d[2] - 1, d[3]>>} ELSE {})
            \cup (IF d[2] < Height - 1 THEN {<<d[1], d[2] + 1, d[3]>>} ELSE {})
  BY <1>1, <1>2, <1>5
<1>. QED  BY <1>3, <1>4, <1>5, <1>6, AroundCell

LEMMA AppendElements ==
  ASSUME NEW T, NEW s \in Seq(T), NEW e \in T
  PROVE  Append(s, e) \in Seq(T) /\ Elements(Append(s, e)) = Elements(s) \cup {e}
<1>. DEFINE c == Append(s, e)
<1>1. /\ c \in Seq(T) /\ Len(c) = Len(s) + 1 /\ Len(s) \in Nat
      /\ c[Len(s) + 1] = e /\ \A i \in 1 .. Len(s) : c[i] = s[i]
  BY AppendProperties
<1>. HIDE DEF c
<1>2. 1 .. Len(c) = (1 .. Len(s)) \cup {Len(s) + 1}  BY <1>1
<1>3. Elements(c) = Elements(s) \cup {e}  BY <1>1, <1>2 DEF Elements
<1>. QED  BY <1>1, <1>3 DEF c

LEMMA HeadAndRest ==
  ASSUME NEW T, NEW s \in Seq(T), s # <<>>
  PROVE  /\ Head(s) \in T /\ Tail(s) \in Seq(T)
         /\ Elements(s) = {Head(s)} \cup Elements(Tail(s))
<1>. DEFINE t == Tail(s)
<1>1. /\ Head(s) \in T /\ Head(s) = s[1] /\ t \in Seq(T) /\ Len(t) = Len(s) - 1
      /\ Len(s) \in Nat /\ Len(s) > 0 /\ \A i \in 1 .. Len(s) - 1 : t[i] = s[i + 1]
  BY HeadTailProperties, EmptySeq
<1>. HIDE DEF t
<1>2. Elements(t) \subseteq Elements(s)
  <2>1. \A i \in 1 .. Len(t) : i + 1 \in 1 .. Len(s) /\ t[i] = s[i + 1]  BY <1>1
  <2>. QED  BY <2>1 DEF Elements
<1>3. Elements(s) \subseteq {s[1]} \cup Elements(t)
  <2>1. \A i \in 1 .. Len(s) : i = 1 \/ (i - 1 \in 1 .. Len(t) /\ t[i - 1] = s[i])
    <3>. SUFFICES ASSUME NEW i \in 1 .. Len(s), i # 1
                  PROVE  i - 1 \in 1 .. Len(t) /\ t[i - 1] = s[i]
      OBVIOUS
    <3>1. i - 1 \in 1 .. Len(s) - 1 /\ (i - 1) + 1 = i  BY <1>1
    <3>. QED  BY <1>1, <3>1
  <2>. QED  BY <2>1 DEF Elements
<1>4. s[1] \in Elements(s)  BY <1>1 DEF Elements
<1>. QED  BY <1>1, <1>2, <1>3, <1>4 DEF t

LEMMA NoElements == ASSUME NEW T, NEW s \in Seq(T) PROVE s = <<>> <=> Elements(s) = {}
<1>1. s # <<>> => 1 \in 1 .. Len(s)  BY EmptySeq
<1>2. 1 .. Len(<<>>) = {}  OBVIOUS
<1>. QED  BY <1>1, <1>2 DEF Elements

-----------------------------------------------------------------------------
(* The nodes that a loop appends. *)

\* made is what the loop over cells has appended after each of the first n.
Makes(made, cells, level, first, n) ==
  made = [i \in 0 .. n |->
            IF i = 0 THEN <<>>
            ELSE IF level[cells[i]] > 0
            THEN Append(made[i - 1], Node(cells[i], level[cells[i]], first))
            ELSE made[i - 1]]

LEMMA LoopDefined ==
  ASSUME NEW cells, NEW level, NEW first
  PROVE  \A n \in Nat : \E made : Makes(made, cells, level, first, n)
<1>. DEFINE Step(made, i) ==
              IF i = 0 THEN <<>>
              ELSE IF level[cells[i]] > 0
              THEN Append(made[i - 1], Node(cells[i], level[cells[i]], first))
              ELSE made[i - 1]
            T == {n \in Nat : \E made : Makes(made, cells, level, first, n)}
<1>1. \A made, n : Makes(made, cells, level, first, n) <=> made = [i \in 0 .. n |-> Step(made, i)]
  BY DEF Makes
<1>2. ASSUME NEW made, NEW other, NEW i \in Nat, i # 0 => made[i - 1] = other[i - 1]
      PROVE  Step(made, i) = Step(other, i)
  BY <1>2
<1>3. \A made, other : Step(made, 0) = Step(other, 0)  OBVIOUS
<1>. HIDE DEF Step
<1>4. 0 \in T
  <2>. DEFINE made == [i \in 0 .. 0 |-> Step(<<>>, 0)]
  <2>1. \A i \in 0 .. 0 : i = 0  OBVIOUS
  <2>2. made = [i \in 0 .. 0 |-> Step(made, i)]  BY <1>3, <2>1
  <2>. HIDE DEF made
  <2>. QED  BY <1>1, <2>2
<1>5. ASSUME NEW n \in T  PROVE n + 1 \in T
  <2>1. n \in Nat /\ n + 1 \in Nat  OBVIOUS
  <2>2. PICK made : made = [i \in 0 .. n |-> Step(made, i)]  BY <1>1
  <2>. DEFINE next == [i \in 0 .. n + 1 |-> IF i <= n THEN made[i] ELSE Step(made, i)]
  <2>3. /\ \A i \in 0 .. n : next[i] = made[i]
        /\ next[n + 1] = Step(made, n + 1)
        /\ next = [i \in 0 .. n + 1 |-> next[i]]
    BY <2>1
  <2>. HIDE DEF next
  <2>4. ASSUME NEW i \in 0 .. n + 1  PROVE next[i] = Step(next, i)
    <3>1. i \in Nat /\ (i # 0 => i - 1 \in 0 .. n)  BY <2>1
    <3>2. i # 0 => made[i - 1] = next[i - 1]  BY <2>3, <3>1
    <3>3. Step(made, i) = Step(next, i)  BY <1>2, <3>1, <3>2
    <3>4. CASE i = n + 1  BY <2>3, <3>3, <3>4
    <3>5. CASE i # n + 1
      <4>1. i \in 0 .. n  BY <2>1, <3>5
      <4>. QED  BY <2>2, <2>3, <3>3, <4>1
    <3>. QED  BY <3>4, <3>5
  <2>5. next = [i \in 0 .. n + 1 |-> Step(next, i)]  BY <2>3, <2>4
  <2>. QED  BY <1>1, <2>1, <2>5
<1>6. T \in SUBSET Nat  OBVIOUS
<1>. HIDE DEF T
<1>7. T = Nat  BY <1>4, <1>5, <1>6, Induction
<1>. QED  BY <1>7 DEF T

\* There is a node at each cell that is given a level above 0, and no other.
NodesOf(nodes, cells, level, first) ==
  /\ \A q \in nodes : \E c \in cells : level[c] > 0 /\ q = Node(c, level[c], first)
  /\ \A c \in cells : level[c] > 0 => Node(c, level[c], first) \in nodes

LEMMA NodesMade ==
  ASSUME NEW D, NEW cells \in Seq(D), NEW level, \A c \in D : level[c] \in Int,
         NEW first \in BOOLEAN
  PROVE  /\ NodesAt(cells, level, first) \in Seq([at : D, level : Nat \ {0}, first : BOOLEAN])
         /\ NodesOf(Elements(NodesAt(cells, level, first)), Elements(cells), level, first)
<1>. DEFINE N == Len(cells)
            R == [at : D, level : Nat \ {0}, first : BOOLEAN]
            made == CHOOSE m : Makes(m, cells, level, first, N)
            At(i) == Node(cells[i], level[cells[i]], first)
            Wanted(i) == {j \in 1 .. i : level[cells[j]] > 0}
            Fine(i) == made[i] \in Seq(R) /\ Elements(made[i]) = {At(j) : j \in Wanted(i)}
            T == {i \in Nat : i <= N => Fine(i)}
<1>1. N \in Nat /\ \A i \in 1 .. N : cells[i] \in D  OBVIOUS
<1>2. NodesAt(cells, level, first) = made[N]  BY DEF NodesAt, Makes
<1>3. Makes(made, cells, level, first, N)
  <2>1. \E m : Makes(m, cells, level, first, N)  BY <1>1, LoopDefined
  <2>. QED  BY <2>1
<1>. HIDE DEF made, N
<1>4. \A i \in 0 .. N : made[i] = IF i = 0 THEN <<>>
                                  ELSE IF level[cells[i]] > 0
                                  THEN Append(made[i - 1], At(i)) ELSE made[i - 1]
  BY <1>3, Zenon DEF Makes
<1>5. \A i \in 1 .. N : level[cells[i]] > 0 => At(i) \in R
  BY <1>1 DEF Node
<1>. HIDE DEF At, R
<1>6. 0 \in T
  <2>. 0 \in 0 .. N  BY <1>1
  <2>1. made[0] = <<>>  BY <1>4, Zenon
  <2>2. Wanted(0) = {}  OBVIOUS
  <2>3. made[0] \in Seq(R) /\ Elements(made[0]) = {}
    <3>1. <<>> \in Seq(R) /\ 1 .. Len(<<>>) = {}  OBVIOUS
    <3>. QED  BY <2>1, <3>1 DEF Elements
  <2>. QED  BY <2>2, <2>3
<1>7. ASSUME NEW i \in T  PROVE i + 1 \in T
  <2>. SUFFICES ASSUME i + 1 <= N PROVE Fine(i + 1)  OBVIOUS
  <2>1. i \in Nat /\ i + 1 \in 1 .. N /\ i + 1 \in 0 .. N /\ i + 1 # 0 /\ (i + 1) - 1 = i /\ i <= N
    BY <1>1
  <2>2. Fine(i)  BY <2>1
  <2>3. made[i + 1] = IF level[cells[i + 1]] > 0 THEN Append(made[i], At(i + 1)) ELSE made[i]
    <3>1. made[i + 1] = IF i + 1 = 0 THEN <<>>
                        ELSE IF level[cells[i + 1]] > 0
                        THEN Append(made[(i + 1) - 1], At(i + 1)) ELSE made[(i + 1) - 1]
      BY <1>4, <2>1, Zenon
    <3>. QED  BY <2>1, <3>1
  <2>4. Wanted(i + 1) = Wanted(i) \cup (IF level[cells[i + 1]] > 0 THEN {i + 1} ELSE {})
    BY <2>1
  <2>5. CASE level[cells[i + 1]] > 0
    <3>1. At(i + 1) \in R  BY <1>5, <2>1, <2>5
    <3>2. /\ made[i + 1] \in Seq(R)
          /\ Elements(made[i + 1]) = Elements(made[i]) \cup {At(i + 1)}
      BY <2>2, <2>3, <2>5, <3>1, AppendElements
    <3>3. Wanted(i + 1) = Wanted(i) \cup {i + 1}  BY <2>4, <2>5
    <3>. HIDE DEF Wanted
    <3>. QED  BY <2>2, <3>2, <3>3
  <2>6. CASE ~(level[cells[i + 1]] > 0)
    <3>1. Wanted(i + 1) = Wanted(i) /\ made[i + 1] = made[i]  BY <2>3, <2>4, <2>6
    <3>. HIDE DEF Wanted
    <3>. QED  BY <2>2, <3>1
  <2>. QED  BY <2>5, <2>6
<1>8. Fine(N)
  <2>1. T \in SUBSET Nat  OBVIOUS
  <2>. HIDE DEF T
  <2>2. N \in T  BY <1>1, <1>6, <1>7, <2>1, Induction
  <2>. QED  BY <1>1, <2>2 DEF T
<1>9. /\ \A j \in Wanted(N) :
           \E c \in Elements(cells) : level[c] > 0 /\ At(j) = Node(c, level[c], first)
      /\ \A c \in Elements(cells) :
           level[c] > 0 => \E j \in Wanted(N) : At(j) = Node(c, level[c], first)
  BY DEF At, Elements, N
<1>. HIDE DEF Wanted
<1>10. NodesOf(Elements(made[N]), Elements(cells), level, first)  BY <1>8, <1>9 DEF NodesOf
<1>. QED  BY <1>2, <1>8, <1>10 DEF R, N

-----------------------------------------------------------------------------
(* The cells of a chunk, in the orders in which the loops go over them. *)

\* The cell of chunk c and place <<x, y, z>> in it.
CellOf(c, x, y, z) == <<Width * c[1] + x, y, Width * c[2] + z>>

LEMMA CellOfChunk ==
  ASSUME NEW c \in Chunks, NEW x \in 0 .. Width - 1, NEW y \in 0 .. Height - 1, NEW z \in 0 .. Width - 1
  PROVE  CellOf(c, x, y, z) \in Cells /\ ChunkOf(CellOf(c, x, y, z)) = c
<1>1. /\ c = <<c[1], c[2]>> /\ c[1] \in -1 .. 1 /\ c[2] \in -1 .. 1
      /\ Width \in Nat \ {0} /\ Height \in Nat
  BY Sizes DEF Chunks
<1>2. \A a \in -1 .. 1, r \in 0 .. Width - 1 :
        Width * a + r \in -Width .. 2 * Width - 1 /\ (Width * a + r) \div Width = a
  <2>. SUFFICES ASSUME NEW a \in -1 .. 1, NEW r \in 0 .. Width - 1
                PROVE  Width * a + r \in -Width .. 2 * Width - 1 /\ (Width * a + r) \div Width = a
    OBVIOUS
  <2>1. (Width * a + r) \div Width = a
    <3>1. a \in Int /\ Width \in Nat \ {0}  BY <1>1
    <3>. QED  BY <3>1, Digits, Zenon
  <2>2. a = -1 \/ a = 0 \/ a = 1  OBVIOUS
  <2>3. Width * a \in {-Width, 0, Width}  BY <1>1, <2>2
  <2>. QED  BY <1>1, <2>1, <2>3
<1>3. CellOf(c, x, y, z) \in Cells  BY <1>1, <1>2 DEF CellOf, Cells
<1>. QED  BY <1>1, <1>2, <1>3 DEF CellOf, ChunkOf

LEMMA CellIsOf ==
  ASSUME NEW n \in Cells
  PROVE  \E x \in 0 .. Width - 1, z \in 0 .. Width - 1 :
           n = CellOf(ChunkOf(n), x, n[2], z) /\ n[2] \in 0 .. Height - 1
<1>1. /\ n = <<n[1], n[2], n[3]>> /\ n[1] \in Int /\ n[3] \in Int /\ n[2] \in 0 .. Height - 1
      /\ Width \in Nat \ {0}
  BY Sizes DEF Cells
<1>2. /\ n[1] % Width \in 0 .. Width - 1 /\ n[1] = Width * (n[1] \div Width) + (n[1] % Width)
      /\ n[3] % Width \in 0 .. Width - 1 /\ n[3] = Width * (n[3] \div Width) + (n[3] % Width)
  BY <1>1, Divided
<1>3. n = CellOf(ChunkOf(n), n[1] % Width, n[2], n[3] % Width)
  BY <1>1, <1>2 DEF CellOf, ChunkOf
<1>. QED  BY <1>1, <1>2, <1>3

CellsOf(c) == {n \in Cells : ChunkOf(n) = c}

\* Layer after layer, they are all gone over.
LEMMA LayersCover ==
  ASSUME NEW c \in Chunks
  PROVE  ByLayer(c) \in Seq(CellsOf(c)) /\ Elements(ByLayer(c)) = CellsOf(c)
<1>. DEFINE N == Height * Width * Width
            s == ByLayer(c)
            At(i) == CellOf(c, ((i - 1) \div Width) % Width, (i - 1) \div (Width * Width), (i - 1) % Width)
<1>1. /\ Width \in Nat \ {0} /\ Height \in Nat \ {0}
      /\ Width * Width \in Nat \ {0} /\ N \in Nat /\ N = (Width * Width) * Height
  <2>1. \A a, b \in Nat \ {0} : a * b \in Nat \ {0}  OBVIOUS
  <2>. QED  BY <2>1, Sizes
<1>2. s = [i \in 1 .. N |-> At(i)]  BY DEF ByLayer, CellOf
<1>3. \A i \in 1 .. N : At(i) \in CellsOf(c)
  <2>. SUFFICES ASSUME NEW i \in 1 .. N PROVE At(i) \in CellsOf(c)  OBVIOUS
  <2>1. i - 1 \in Nat /\ i - 1 < (Width * Width) * Height  BY <1>1
  <2>2. (i - 1) \div (Width * Width) \in 0 .. Height - 1  BY <1>1, <2>1, DividedBelow
  <2>3. (i - 1) % Width \in 0 .. Width - 1 /\ (i - 1) \div Width \in Int  BY <1>1, <2>1, Divided
  <2>4. ((i - 1) \div Width) % Width \in 0 .. Width - 1  BY <1>1, <2>3, Divided
  <2>. QED  BY <2>2, <2>3, <2>4, CellOfChunk DEF CellsOf
<1>4. ASSUME NEW n \in CellsOf(c)  PROVE \E i \in 1 .. N : At(i) = n
  <2>1. PICK x \in 0 .. Width - 1, z \in 0 .. Width - 1 :
          n = CellOf(c, x, n[2], z) /\ n[2] \in 0 .. Height - 1
    BY CellIsOf DEF CellsOf
  <2>. DEFINE y == n[2]
              a == Width * y + x
              b == Width * a + z
  <2>2. y \in 0 .. Height - 1 /\ a \in Int /\ b \in Int  BY <1>1, <2>1
  <2>3. b \div Width = a /\ b % Width = z  BY <1>1, <2>2, Digits
  <2>4. a % Width = x
    <3>1. y \in Int /\ Width \in Nat \ {0}  BY <1>1, <2>2
    <3>. QED  BY <2>1, <3>1, Digits, Zenon
  <2>5. b = (Width * Width) * y + (Width * x + z)  BY <1>1, <2>2
  <2>6. Width * x + z \in 0 .. (Width * Width) - 1
    <3>1. Width * x >= 0 /\ Width * x <= Width * (Width - 1)  BY <1>1
    <3>2. Width * (Width - 1) = Width * Width - Width  BY <1>1
    <3>. QED  BY <1>1, <3>1, <3>2
  <2>7. b \div (Width * Width) = y
    <3>1. y \in Int /\ Width * Width \in Nat \ {0}  BY <1>1, <2>2
    <3>2. ((Width * Width) * y + (Width * x + z)) \div (Width * Width) = y
      BY <2>6, <3>1, Digits, Zenon
    <3>. QED  BY <2>5, <3>2
  <2>8. b \in 0 .. N - 1
    <3>1. (Width * Width) * y >= 0 /\ (Width * Width) * y <= (Width * Width) * (Height - 1)
      BY <1>1, <2>2
    <3>2. (Width * Width) * (Height - 1) = N - Width * Width  BY <1>1
    <3>. DEFINE p == (Width * Width) * y
                q == Width * x + z
                ww == Width * Width
    <3>3. p \in Int /\ q \in Int /\ ww \in Int /\ 0 <= p /\ p <= N - ww /\ 0 <= q /\ q <= ww - 1
      BY <1>1, <2>2, <2>6, <3>1, <3>2
    <3>4. b = p + q  BY <2>5
    <3>. HIDE DEF p, q, ww, b, N
    <3>. QED  BY <1>1, <3>3, <3>4
  <2>. HIDE DEF y, a, b, N
  <2>9. b + 1 \in 1 .. N /\ (b + 1) - 1 = b  BY <1>1, <2>8
  <2>10. At(b + 1) = CellOf(c, x, y, z)  BY <2>3, <2>4, <2>7, <2>9
  <2>. QED  BY <2>1, <2>9, <2>10 DEF y
<1>. HIDE DEF s, At, N
<1>5. s \in Seq(CellsOf(c)) /\ Len(s) = N  BY <1>1, <1>2, <1>3
<1>6. Elements(s) = CellsOf(c)  BY <1>2, <1>3, <1>4, <1>5 DEF Elements
<1>. QED  BY <1>5, <1>6 DEF s

\* Column after column too.
LEMMA ColumnsCover ==
  ASSUME NEW c \in Chunks
  PROVE  ByColumn(c) \in Seq(CellsOf(c)) /\ Elements(ByColumn(c)) = CellsOf(c)
<1>. DEFINE N == Height * Width * Width
            s == ByColumn(c)
            At(i) == CellOf(c, (i - 1) \div (Height * Width), (i - 1) % Height, ((i - 1) \div Height) % Width)
<1>1. /\ Width \in Nat \ {0} /\ Height \in Nat \ {0}
      /\ Height * Width \in Nat \ {0} /\ N \in Nat /\ N = (Height * Width) * Width
  <2>1. \A a, b \in Nat \ {0} : a * b \in Nat \ {0}  OBVIOUS
  <2>. QED  BY <2>1, Sizes
<1>2. s = [i \in 1 .. N |-> At(i)]  BY DEF ByColumn, CellOf
<1>3. \A i \in 1 .. N : At(i) \in CellsOf(c)
  <2>. SUFFICES ASSUME NEW i \in 1 .. N PROVE At(i) \in CellsOf(c)  OBVIOUS
  <2>1. i - 1 \in Nat /\ i - 1 < (Height * Width) * Width  BY <1>1
  <2>2. (i - 1) \div (Height * Width) \in 0 .. Width - 1  BY <1>1, <2>1, DividedBelow
  <2>3. (i - 1) % Height \in 0 .. Height - 1 /\ (i - 1) \div Height \in Int  BY <1>1, <2>1, Divided
  <2>4. ((i - 1) \div Height) % Width \in 0 .. Width - 1  BY <1>1, <2>3, Divided
  <2>. QED  BY <2>2, <2>3, <2>4, CellOfChunk DEF CellsOf
<1>4. ASSUME NEW n \in CellsOf(c)  PROVE \E i \in 1 .. N : At(i) = n
  <2>1. PICK x \in 0 .. Width - 1, z \in 0 .. Width - 1 :
          n = CellOf(c, x, n[2], z) /\ n[2] \in 0 .. Height - 1
    BY CellIsOf DEF CellsOf
  <2>. DEFINE y == n[2]
              a == Width * x + z
              b == Height * a + y
  <2>2. y \in 0 .. Height - 1 /\ a \in Int /\ b \in Int  BY <1>1, <2>1
  <2>3. b \div Height = a /\ b % Height = y  BY <1>1, <2>2, Digits
  <2>4. a % Width = z
    <3>1. x \in Int /\ Width \in Nat \ {0}  BY <1>1, <2>2
    <3>. QED  BY <2>1, <3>1, Digits, Zenon
  <2>5. b = (Height * Width) * x + (Height * z + y)  BY <1>1, <2>2
  <2>6. Height * z + y \in 0 .. (Height * Width) - 1
    <3>1. Height * z >= 0 /\ Height * z <= Height * (Width - 1)  BY <1>1
    <3>2. Height * (Width - 1) = Height * Width - Height  BY <1>1
    <3>. QED  BY <1>1, <2>2, <3>1, <3>2
  <2>7. b \div (Height * Width) = x
    <3>1. x \in Int /\ Height * Width \in Nat \ {0}  BY <1>1, <2>2
    <3>2. ((Height * Width) * x + (Height * z + y)) \div (Height * Width) = x
      BY <2>6, <3>1, Digits, Zenon
    <3>. QED  BY <2>5, <3>2
  <2>8. b \in 0 .. N - 1
    <3>1. (Height * Width) * x >= 0 /\ (Height * Width) * x <= (Height * Width) * (Width - 1)
      BY <1>1, <2>2
    <3>2. (Height * Width) * (Width - 1) = N - Height * Width  BY <1>1
    <3>. QED  BY <1>1, <2>2, <2>5, <2>6, <3>1, <3>2
  <2>. HIDE DEF y, a, b, N
  <2>9. b + 1 \in 1 .. N /\ (b + 1) - 1 = b  BY <1>1, <2>8
  <2>10. At(b + 1) = CellOf(c, x, y, z)  BY <2>3, <2>4, <2>7, <2>9
  <2>. QED  BY <2>1, <2>9, <2>10 DEF y
<1>. HIDE DEF s, At, N
<1>5. s \in Seq(CellsOf(c)) /\ Len(s) = N  BY <1>1, <1>2, <1>3
<1>6. Elements(s) = CellsOf(c)  BY <1>2, <1>3, <1>4, <1>5 DEF Elements
<1>. QED  BY <1>5, <1>6 DEF s

-----------------------------------------------------------------------------
(* The blocks at a cell, and the light they take and give. *)

Layer == [Positions -> Ids]

SubTyped == sub \in [Chunks -> [Subs -> {NoSub} \cup Seq(Layer)]]

\* The sub chunks of the cells C are there, new ones without layers; the others are as they were.
Made(C) ==
  /\ SubTyped'
  /\ \A n \in Cells : /\ SubAt(n) # NoSub => SubAt(n)' = SubAt(n)
                      /\ SubAt(n) = NoSub => SubAt(n)' \in {NoSub, <<>>}
                      /\ n \in C => SubAt(n)' # NoSub

\* Bare sub chunks may be gone.
Bared ==
  /\ SubTyped'
  /\ \A n \in Cells : SubAt(n)' = SubAt(n) \/ (SubAt(n)' = NoSub /\ SubAt(n) # NoSub /\ Bare(SubAt(n)))

LEMMA NoSubNotLayers == NoSub \notin Seq(Layer) /\ NoSub # <<>>
<1>1. <<>> \in Seq(Layer)  OBVIOUS
<1>. QED  BY <1>1, LightAssumption DEF Layer

LEMMA SubAtTyped == ASSUME SubTyped, NEW n \in Cells PROVE SubAt(n) \in {NoSub} \cup Seq(Layer)
BY CellPlaced DEF SubTyped, SubAt

LEMMA BlocksTyped ==
  ASSUME SubTyped, NEW n \in Cells
  PROVE  BlocksAt(n) \in Seq(Ids)
<1>1. CASE SubAt(n) = NoSub  BY <1>1 DEF BlocksAt
<1>2. CASE SubAt(n) # NoSub
  <2>. DEFINE s == SubAt(n)
              p == <<n[1] % Width, n[2] % SubHeight, n[3] % Width>>
  <2>1. s \in Seq(Layer) /\ p \in Positions  BY <1>2, SubAtTyped, CellPlaced
  <2>2. BlocksAt(n) = [l \in 1 .. Len(s) |-> s[l][p]]  BY <1>2 DEF BlocksAt
  <2>. HIDE DEF s, p
  <2>3. Len(s) \in Nat /\ \A l \in 1 .. Len(s) : s[l][p] \in Ids  BY <2>1 DEF Layer
  <2>. QED  BY <2>2, <2>3
<1>. QED  BY <1>1, <1>2

LEMMA LevelsTyped ==
  ASSUME SubTyped, NEW n \in Cells
  PROVE  FilterLevel(n) \in 0 .. MaxLight /\ EmissionLevel(n) \in 0 .. MaxLight
<1>. DEFINE b == BlocksAt(n)
            F == {0} \cup {Filter[b[l]] : l \in {k \in 1 .. Len(b) : b[k] # 0}}
            E == {0} \cup {Emission[b[l]] : l \in {k \in 1 .. Len(b) : b[k] # 0 \/ Len(b) > 2}}
<1>1. b \in Seq(Ids) /\ MaxLight \in Nat  BY BlocksTyped, Sizes
<1>2. FilterLevel(n) = Highest(F) /\ EmissionLevel(n) = Highest(E)
  BY DEF FilterLevel, EmissionLevel
<1>. HIDE DEF b
<1>3. F \subseteq 0 .. MaxLight /\ E \subseteq 0 .. MaxLight
  <2>1. \A l \in 1 .. Len(b) : Filter[b[l]] \in 0 .. MaxLight /\ Emission[b[l]] \in 0 .. MaxLight
    <3>1. \A l \in 1 .. Len(b) : b[l] \in Ids  BY <1>1
    <3>. QED  BY <3>1, LightAssumption
  <2>2. 0 \in 0 .. MaxLight  BY <1>1
  <2>. QED  BY <2>1, <2>2
<1>4. F # {} /\ E # {}  OBVIOUS
<1>. HIDE DEF F, E
<1>5. Highest(F) \in F /\ Highest(E) \in E
  <2>1. F \in SUBSET Nat /\ E \in SUBSET Nat /\ (\A m \in F : m <= MaxLight) /\ \A m \in E : m <= MaxLight
    BY <1>1, <1>3
  <2>. QED  BY <1>1, <1>4, <2>1, HighestFound
<1>. QED  BY <1>2, <1>3, <1>5

\* What takes light is a block of a layer.
LEMMA FilterNeedsLayer ==
  ASSUME NEW n \in Cells, SubAt(n) \in {NoSub, <<>>}
  PROVE  FilterLevel(n) = 0 /\ EmissionLevel(n) = 0
<1>. DEFINE b == BlocksAt(n)
<1>1. Len(b) = 0  BY DEF BlocksAt
<1>. HIDE DEF b
<1>2. {k \in 1 .. Len(b) : b[k] # 0} = {} /\ {k \in 1 .. Len(b) : b[k] # 0 \/ Len(b) > 2} = {}
  BY <1>1
<1>3. /\ FilterLevel(n) = Highest({0} \cup {Filter[b[l]] : l \in {}})
      /\ EmissionLevel(n) = Highest({0} \cup {Emission[b[l]] : l \in {}})
  BY <1>2 DEF FilterLevel, EmissionLevel, b
<1>4. {0} \cup {Filter[b[l]] : l \in {}} = {0} /\ {0} \cup {Emission[b[l]] : l \in {}} = {0}
  OBVIOUS
<1>5. Highest({0}) = 0
  <2>1. Highest({0}) \in {0}  BY HighestFound
  <2>. QED  BY <2>1
<1>. QED  BY <1>3, <1>4, <1>5

\* Making dark sub chunks and removing bare ones changes no level.
LevelsKept ==
  \A n \in Cells : FilterLevel(n)' = FilterLevel(n) /\ EmissionLevel(n)' = EmissionLevel(n)

LEMMA SameBlocks ==
  ASSUME NEW n \in Cells, BlocksAt(n)' = BlocksAt(n)
  PROVE  FilterLevel(n)' = FilterLevel(n) /\ EmissionLevel(n)' = EmissionLevel(n)
BY DEF FilterLevel, EmissionLevel

LEMMA SameSub ==
  ASSUME NEW n \in Cells, SubAt(n)' = SubAt(n)
  PROVE  FilterLevel(n)' = FilterLevel(n) /\ EmissionLevel(n)' = EmissionLevel(n)
<1>1. BlocksAt(n)' = BlocksAt(n)  BY DEF BlocksAt
<1>. QED  BY <1>1, SameBlocks

LEMMA MakingKeepsLevels == ASSUME NEW C, Made(C) PROVE LevelsKept
<1>. SUFFICES ASSUME NEW n \in Cells
              PROVE  FilterLevel(n)' = FilterLevel(n) /\ EmissionLevel(n)' = EmissionLevel(n)
  BY DEF LevelsKept
<1>1. CASE SubAt(n)' = SubAt(n)  BY <1>1, SameSub
<1>2. CASE SubAt(n)' # SubAt(n)
  <2>1. SubAt(n) = NoSub /\ SubAt(n)' = <<>>  BY <1>2 DEF Made
  <2>2. BlocksAt(n) = <<>>  BY <2>1 DEF BlocksAt
  <2>3. BlocksAt(n)' = <<>>
    <3>1. SubAt(n)' # NoSub /\ 1 .. Len(<<>>) = {}  BY <2>1, NoSubNotLayers
    <3>2. BlocksAt(n)' = [l \in 1 .. Len(<<>>) |->
                            <<>>[l][<<n[1] % Width, n[2] % SubHeight, n[3] % Width>>]]
      BY <2>1, <3>1 DEF BlocksAt
    <3>. QED  BY <3>2
  <2>. QED  BY <2>2, <2>3, SameBlocks
<1>. QED  BY <1>1, <1>2

LEMMA BareTakesNoLight ==
  ASSUME SubTyped, NEW n \in Cells, SubAt(n) # NoSub, Bare(SubAt(n))
  PROVE  FilterLevel(n) = 0 /\ EmissionLevel(n) = 0
<1>1. CASE SubAt(n) = <<>>  BY <1>1, FilterNeedsLayer
<1>2. CASE SubAt(n) # <<>>
  <2>. DEFINE b == BlocksAt(n)
  <2>1. Len(SubAt(n)) = 1 /\ SubAt(n)[1] = [p \in Positions |-> 0]  BY <1>2 DEF Bare
  <2>2. b = [l \in 1 .. 1 |-> 0]
    <3>1. <<n[1] % Width, n[2] % SubHeight, n[3] % Width>> \in Positions  BY CellPlaced
    <3>2. \A l \in 1 .. 1 : SubAt(n)[l][<<n[1] % Width, n[2] % SubHeight, n[3] % Width>>] = 0
      BY <2>1, <3>1
    <3>. QED  BY <2>1, <3>2 DEF BlocksAt
  <2>3. Len(b) = 1 /\ \A k \in 1 .. Len(b) : b[k] = 0  BY <2>2
  <2>. HIDE DEF b
  <2>4. {k \in 1 .. Len(b) : b[k] # 0} = {} /\ {k \in 1 .. Len(b) : b[k] # 0 \/ Len(b) > 2} = {}
    BY <2>3
  <2>5. /\ FilterLevel(n) = Highest({0} \cup {Filter[b[l]] : l \in {}})
        /\ EmissionLevel(n) = Highest({0} \cup {Emission[b[l]] : l \in {}})
    BY <2>4 DEF FilterLevel, EmissionLevel, b
  <2>6. {0} \cup {Filter[b[l]] : l \in {}} = {0} /\ {0} \cup {Emission[b[l]] : l \in {}} = {0}
    OBVIOUS
  <2>7. Highest({0}) = 0
    <3>1. Highest({0}) \in {0}  BY HighestFound
    <3>. QED  BY <3>1
  <2>. QED  BY <2>5, <2>6, <2>7
<1>. QED  BY <1>1, <1>2

LEMMA BaringKeepsLevels == ASSUME SubTyped, Bared PROVE LevelsKept
<1>. SUFFICES ASSUME NEW n \in Cells
              PROVE  FilterLevel(n)' = FilterLevel(n) /\ EmissionLevel(n)' = EmissionLevel(n)
  BY DEF LevelsKept
<1>1. CASE SubAt(n)' = SubAt(n)  BY <1>1, SameSub
<1>2. CASE SubAt(n)' # SubAt(n)
  <2>1. SubAt(n)' = NoSub /\ SubAt(n) # NoSub /\ Bare(SubAt(n))  BY <1>2 DEF Bared
  <2>2. FilterLevel(n) = 0 /\ EmissionLevel(n) = 0  BY <2>1, BareTakesNoLight
  <2>3. SubAt(n)' \in {NoSub, <<>>}  BY <2>1
  <2>4. (FilterLevel(n) = 0 /\ EmissionLevel(n) = 0)'
    <3>1. (SubAt(n) \in {NoSub, <<>>})'  BY <2>3
    <3>. QED  BY <3>1, FilterNeedsLayer, PTL
  <2>. QED  BY <2>2, <2>4
<1>. QED  BY <1>1, <1>2

-----------------------------------------------------------------------------
(* What the operations do to the sub chunks and to the light. *)

LightTyped == light \in [Kinds -> [Cells -> 0 .. MaxLight]]

DarkAboveSubs == \A k \in Kinds, n \in Cells : SubAt(n) = NoSub => light[k][n] = 0

LEMMA SubsMadeMakes ==
  ASSUME SubTyped, NEW C, sub' = SubsMade(C)
  PROVE  Made(C)
<1>1. sub' = [c \in Chunks |-> [i \in Subs |->
                IF sub[c][i] = NoSub /\ \E n \in C : ChunkOf(n) = c /\ SubOf(n) = i
                THEN <<>> ELSE sub[c][i]]]
  BY DEF SubsMade
<1>2. SubTyped'
  <2>1. <<>> \in Seq(Layer)  OBVIOUS
  <2>2. \A c \in Chunks, i \in Subs :
          (IF sub[c][i] = NoSub /\ \E n \in C : ChunkOf(n) = c /\ SubOf(n) = i
           THEN <<>> ELSE sub[c][i]) \in {NoSub} \cup Seq(Layer)
    BY <2>1 DEF SubTyped
  <2>. QED  BY <1>1, <2>2 DEF SubTyped
<1>3. ASSUME NEW n \in Cells
      PROVE  /\ SubAt(n) # NoSub => SubAt(n)' = SubAt(n)
             /\ SubAt(n) = NoSub => SubAt(n)' \in {NoSub, <<>>}
             /\ n \in C => SubAt(n)' # NoSub
  <2>1. ChunkOf(n) \in Chunks /\ SubOf(n) \in Subs  BY CellPlaced
  <2>2. SubAt(n)' = IF SubAt(n) = NoSub /\ \E m \in C : ChunkOf(m) = ChunkOf(n) /\ SubOf(m) = SubOf(n)
                    THEN <<>> ELSE SubAt(n)
    BY <1>1, <2>1 DEF SubAt
  <2>. QED  BY <2>2, NoSubNotLayers
<1>. QED  BY <1>2, <1>3 DEF Made

LEMMA SubsUnchanged == ASSUME SubTyped, UNCHANGED sub PROVE Made({})
BY DEF SubTyped, Made, SubAt

LEMMA RemovalBares ==
  ASSUME SubTyped, LightTyped, NEW C \in SUBSET Chunks, RemoveEmptySubChunks(C)
  PROVE  /\ Bared /\ LightTyped'
         /\ \A k \in Kinds, n \in Cells :
              /\ light'[k][n] \in {0, light[k][n]}
              /\ SubAt(n)' # NoSub => light'[k][n] = light[k][n]
              /\ SubAt(n)' = NoSub => light'[k][n] = 0 \/ SubAt(n) = NoSub
              /\ ChunkOf(n) \notin C => light'[k][n] = light[k][n]
<1>1. sub' = [c \in Chunks |-> [i \in Subs |->
                IF c \in C /\ i \in EmptySubs(c) THEN NoSub ELSE sub[c][i]]]
  BY DEF RemoveEmptySubChunks
<1>2. light' = [k \in Kinds |-> [n \in Cells |->
                  IF ChunkOf(n) \in C /\ SubOf(n) \in EmptySubs(ChunkOf(n))
                  THEN 0 ELSE light[k][n]]]
  BY DEF RemoveEmptySubChunks
<1>3. SubTyped'
  <2>1. \A c \in Chunks, i \in Subs :
          (IF c \in C /\ i \in EmptySubs(c) THEN NoSub ELSE sub[c][i]) \in {NoSub} \cup Seq(Layer)
    BY DEF SubTyped
  <2>. QED  BY <1>1, <2>1 DEF SubTyped
<1>4. LightTyped'
  <2>1. \A k \in Kinds, n \in Cells :
          (IF ChunkOf(n) \in C /\ SubOf(n) \in EmptySubs(ChunkOf(n))
           THEN 0 ELSE light[k][n]) \in 0 .. MaxLight
    BY Sizes DEF LightTyped
  <2>. QED  BY <1>2, <2>1 DEF LightTyped
<1>5. ASSUME NEW n \in Cells
      PROVE  /\ SubAt(n)' = IF ChunkOf(n) \in C /\ SubOf(n) \in EmptySubs(ChunkOf(n))
                            THEN NoSub ELSE SubAt(n)
             /\ SubOf(n) \in EmptySubs(ChunkOf(n)) => SubAt(n) # NoSub /\ Bare(SubAt(n))
  <2>1. ChunkOf(n) \in Chunks /\ SubOf(n) \in Subs  BY CellPlaced
  <2>2. SubAt(n)' = IF ChunkOf(n) \in C /\ SubOf(n) \in EmptySubs(ChunkOf(n))
                    THEN NoSub ELSE SubAt(n)
    BY <1>1, <2>1 DEF SubAt
  <2>3. SubOf(n) \in EmptySubs(ChunkOf(n)) => SubAt(n) # NoSub /\ Bare(SubAt(n))
    BY DEF EmptySubs, SubAt
  <2>. QED  BY <2>2, <2>3
<1>6. ASSUME NEW k \in Kinds, NEW n \in Cells
      PROVE  /\ light'[k][n] \in {0, light[k][n]}
             /\ SubAt(n)' # NoSub => light'[k][n] = light[k][n]
             /\ SubAt(n)' = NoSub => light'[k][n] = 0 \/ SubAt(n) = NoSub
             /\ ChunkOf(n) \notin C => light'[k][n] = light[k][n]
  <2>1. light'[k][n] = IF ChunkOf(n) \in C /\ SubOf(n) \in EmptySubs(ChunkOf(n))
                       THEN 0 ELSE light[k][n]
    BY <1>2
  <2>. QED  BY <1>5, <2>1
<1>7. Bared  BY <1>3, <1>5 DEF Bared
<1>. QED  BY <1>4, <1>6, <1>7

-----------------------------------------------------------------------------
(* The heightmap. *)

ColumnCell(n, y) == <<n[1], y, n[3]>>

LEMMA ColumnCells ==
  ASSUME NEW n \in Cells, NEW y \in 0 .. Height - 1
  PROVE  ColumnCell(n, y) \in Cells /\ ChunkOf(ColumnCell(n, y)) = ChunkOf(n)
BY DEF ColumnCell, Cells, ChunkOf

LEMMA HighestYFound ==
  ASSUME NEW c \in Chunks
  PROVE  /\ HighestY(c) \in 0 .. Height - 1
         /\ \A n \in CellsOf(c) : SubAt(n) # NoSub => n[2] <= HighestY(c)
<1>. DEFINE S == {0} \cup {i * SubHeight + SubHeight - 1 : i \in {j \in Subs : sub[c][j] # NoSub}}
<1>1. \A i \in Subs : i * SubHeight + SubHeight - 1 \in 0 .. Height - 1
  <2>. SUFFICES ASSUME NEW i \in Subs PROVE i * SubHeight + SubHeight - 1 \in 0 .. Height - 1
    OBVIOUS
  <2>1. i \in Nat /\ i <= SubCount - 1 /\ SubCount \in Nat /\ SubHeight \in Nat /\ SubHeight > 1
    BY Sizes DEF Subs
  <2>2. i * SubHeight >= 0 /\ i * SubHeight <= (SubCount - 1) * SubHeight  BY <2>1
  <2>3. (SubCount - 1) * SubHeight = Height - SubHeight  BY <2>1, Sizes
  <2>. QED  BY <2>1, <2>2, <2>3, Sizes
<1>2. S \subseteq 0 .. Height - 1 /\ S # {}  BY <1>1, Sizes
<1>3. HighestY(c) = Highest(S)  BY DEF HighestY
<1>4. \A i \in Subs : sub[c][i] # NoSub => i * SubHeight + SubHeight - 1 \in S  OBVIOUS
<1>. HIDE DEF S
<1>5. Highest(S) \in S /\ \A m \in S : m <= Highest(S)
  <2>1. S \in SUBSET Nat /\ Height - 1 \in Nat /\ \A m \in S : m <= Height - 1  BY <1>2, Sizes
  <2>. QED  BY <1>2, <2>1, HighestFound
<1>6. ASSUME NEW n \in CellsOf(c), SubAt(n) # NoSub  PROVE n[2] <= HighestY(c)
  <2>. DEFINE i == n[2] \div SubHeight
  <2>1. n \in Cells /\ ChunkOf(n) = c /\ i = SubOf(n) /\ i \in Subs
    BY CellPlaced DEF CellsOf, SubOf
  <2>2. i * SubHeight + SubHeight - 1 \in S  BY <1>4, <1>6, <2>1 DEF SubAt
  <2>3. n[2] \in Int /\ SubHeight \in Nat \ {0}  BY <2>1, Sizes DEF Cells
  <2>4. n[2] % SubHeight \in 0 .. SubHeight - 1 /\ n[2] = SubHeight * i + (n[2] % SubHeight) /\ i \in Int
    BY <2>3, Divided
  <2>5. n[2] <= i * SubHeight + SubHeight - 1  BY <2>3, <2>4
  <2>6. i * SubHeight + SubHeight - 1 <= Highest(S) /\ Highest(S) \in Int
    <3>1. i * SubHeight + SubHeight - 1 <= Highest(S)  BY <1>5, <2>2, Zenon
    <3>2. Highest(S) \in Int
      <4>1. S \subseteq Int  BY <1>2
      <4>. QED  BY <1>5, <4>1
    <3>. QED  BY <3>1, <3>2
  <2>7. i * SubHeight + SubHeight - 1 \in Int  BY <2>3, <2>4
  <2>. QED  BY <1>3, <2>3, <2>5, <2>6, <2>7
<1>. QED  BY <1>2, <1>3, <1>5, <1>6

\* Above its height nothing in a column takes light; at it something does, or it is 0.
LEMMA HeightFound ==
  ASSUME SubTyped, NEW n \in Cells
  PROVE  /\ HeightOf(n) \in 0 .. HighestY(ChunkOf(n))
         /\ \A y \in 0 .. Height - 1 : y > HeightOf(n) => FilterLevel(ColumnCell(n, y)) = 0
         /\ HeightOf(n) > 0 => FilterLevel(ColumnCell(n, HeightOf(n))) > 0
<1>. DEFINE top == HighestY(ChunkOf(n))
            S == {0} \cup {y \in 0 .. top : FilterLevel(<<n[1], y, n[3]>>) > 0}
<1>1. top \in 0 .. Height - 1 /\ Height \in Nat  BY CellPlaced, HighestYFound, Sizes
<1>2. HeightOf(n) = Highest(S)  BY DEF HeightOf
<1>3. \A m \in CellsOf(ChunkOf(n)) : SubAt(m) # NoSub => m[2] <= top  BY CellPlaced, HighestYFound
<1>. HIDE DEF top
<1>4. S \subseteq 0 .. top /\ S # {} /\ 0 .. top \subseteq 0 .. Height - 1  BY <1>1
<1>5. /\ \A y \in 0 .. top : FilterLevel(ColumnCell(n, y)) > 0 => y \in S
      /\ \A y \in S : y # 0 => FilterLevel(ColumnCell(n, y)) > 0
  BY DEF ColumnCell
<1>. HIDE DEF S
<1>6. Highest(S) \in S /\ \A m \in S : m <= Highest(S)
  <2>1. S \in SUBSET Nat /\ top \in Nat /\ \A m \in S : m <= top  BY <1>1, <1>4
  <2>. QED  BY <1>4, <2>1, HighestFound
<1>7. Highest(S) \in 0 .. top  BY <1>4, <1>6
<1>8. ASSUME NEW y \in 0 .. Height - 1, y > Highest(S)  PROVE FilterLevel(ColumnCell(n, y)) = 0
  <2>1. ColumnCell(n, y) \in Cells /\ ChunkOf(ColumnCell(n, y)) = ChunkOf(n)  BY ColumnCells
  <2>2. CASE y <= top
    <3>1. y \in 0 .. top /\ ~(y <= Highest(S))  BY <1>1, <1>7, <1>8, <2>2
    <3>2. ~(FilterLevel(ColumnCell(n, y)) > 0)  BY <1>5, <1>6, <3>1
    <3>3. FilterLevel(ColumnCell(n, y)) \in 0 .. MaxLight  BY <2>1, LevelsTyped
    <3>. QED  BY <3>2, <3>3
  <2>3. CASE ~(y <= top)
    <3>1. ColumnCell(n, y)[2] = y  BY DEF ColumnCell
    <3>2. SubAt(ColumnCell(n, y)) = NoSub  BY <1>3, <2>1, <2>3, <3>1 DEF CellsOf
    <3>. QED  BY <2>1, <3>2, FilterNeedsLayer
  <2>. QED  BY <2>2, <2>3
<1>9. Highest(S) > 0 => FilterLevel(ColumnCell(n, Highest(S))) > 0  BY <1>5, <1>6
<1>. QED  BY <1>2, <1>7, <1>8, <1>9 DEF top

Clear(n) == \A y \in n[2] .. Height - 1 : FilterLevel(ColumnCell(n, y)) = 0

LEMMA OpenIsClear == ASSUME SubTyped, NEW n \in Cells, OpenToSky(n) PROVE Clear(n)
<1>1. HeightOf(n) < n[2] /\ n[2] \in 0 .. Height - 1  BY DEF OpenToSky, Cells
<1>2. HeightOf(n) \in Int
  <2>1. HeightOf(n) \in 0 .. HighestY(ChunkOf(n))  BY HeightFound
  <2>. QED  BY <2>1
<1>3. \A y \in n[2] .. Height - 1 : y \in 0 .. Height - 1 /\ y > HeightOf(n)  BY <1>1, <1>2, Sizes
<1>. QED  BY <1>3, HeightFound DEF Clear

-----------------------------------------------------------------------------
(* The inductive invariant. *)

Nodes == [at : Cells, level : 1 .. MaxLight, first : BOOLEAN]

Fills == stage \in {"fillblock", "fillsky"}
Spreads == stage \in {"spreadblock", "spreadsky"}

\* Which loops run when, and that a queue is left empty.
Stages ==
  /\ Fills => calls < Len(Order)
  /\ Spreads \/ stage = "over" => calls = Len(Order)
  /\ stage \in {"idle", "over"} => queue = <<>>

\* A chunk is dark until FillLight is called for it.
Unfilled ==
  \A i \in 1 .. Len(Order) :
    i > calls + (IF stage = "idle" THEN 0 ELSE 1) =>
      \A k \in Kinds, n \in CellsOf(Order[i]) : light[k][n] = 0

\* Light begins at the cell of the node.
Begins(k, q) ==
  IF k = "block" THEN q.level = EmissionLevel(q.at) ELSE q.level = MaxLight /\ Clear(q.at)

\* A node of FillLight is in its chunk, and begins there or has its level from a neighbour.
FillNode(k, q) ==
  /\ ~q.first /\ ChunkOf(q.at) = Chunk
  /\ \/ Begins(k, q)
     \/ \E d \in Around(q.at) \cap Cells : light[k][d] > q.level + FilterLevel(q.at)

\* How far out of the middle chunk.
Out(x) == IF x < 0 THEN -x ELSE IF x > Width - 1 THEN x - (Width - 1) ELSE 0

\* A node of SpreadLight is in the middle chunk, or was brought by a neighbour and has
\* lost a level at each step from there.
SpreadNode(k, q) ==
  /\ q.first => ChunkOf(q.at) = Centre /\ light[k][q.at] >= q.level
  /\ ~q.first => /\ Out(q.at[1]) + q.level <= MaxLight + 1
                 /\ Out(q.at[3]) + q.level <= MaxLight + 1
                 /\ \E d \in Around(q.at) \cap Cells : light[k][d] >= q.level

QueueRight ==
  /\ Fills => \A q \in Elements(queue) : FillNode(Kind, q)
  /\ Spreads => \A q \in Elements(queue) : SpreadNode(Kind, q)

IInv == TypeOK /\ Stages /\ Unfilled /\ QueueRight /\ Explained

\* TypeOK by its parts.
LEMMA TypeParts ==
  TypeOK <=> /\ SubTyped /\ LightTyped /\ DarkAboveSubs
             /\ queue \in Seq(Nodes)
             /\ stage \in {"idle", "fillblock", "fillsky", "spreadblock", "spreadsky", "over"}
             /\ calls \in 0 .. Len(Order)
BY Zenon DEF TypeOK, SubTyped, LightTyped, DarkAboveSubs, Nodes, Layer

LEMMA TypePartsNext ==
  ASSUME SubTyped', LightTyped', DarkAboveSubs', queue' \in Seq(Nodes),
         stage' \in {"idle", "fillblock", "fillsky", "spreadblock", "spreadsky", "over"},
         calls' \in 0 .. Len(Order)
  PROVE  TypeOK'
BY Zenon DEF TypeOK, SubTyped, LightTyped, DarkAboveSubs, Nodes, Layer

LEMMA OrderTyped ==
  /\ Len(Order) \in Nat
  /\ calls \in 0 .. Len(Order) - 1 => Chunk \in Chunks
BY LightAssumption DEF Chunk

\* Explained by its parts.
Lit(k, n) ==
  \/ IF k = "block" THEN light[k][n] = EmissionLevel(n) ELSE light[k][n] = MaxLight /\ Clear(n)
  \/ \E d \in Around(n) \cap Cells : light[k][d] > light[k][n] + FilterLevel(n)

LEMMA ExplainedIs ==
  Explained <=> (stage # "over" => \A k \in Kinds, n \in Cells : light[k][n] > 0 => Lit(k, n))
BY Zenon DEF Explained, Lit, Source, Clear, ColumnCell

LEMMA ExplainedNext ==
  ASSUME \A k \in Kinds, n \in Cells : light'[k][n] > 0 => Lit(k, n)'
  PROVE  Explained'
BY Zenon DEF Explained, Lit, Source, Clear, ColumnCell

LEMMA ClearKept == ASSUME LevelsKept, NEW n \in Cells PROVE Clear(n)' <=> Clear(n)
<1>1. \A y \in n[2] .. Height - 1 : ColumnCell(n, y) \in Cells
  <2>1. n[2] \in 0 .. Height - 1 /\ Height \in Nat  BY Sizes DEF Cells
  <2>2. n[2] .. Height - 1 \subseteq 0 .. Height - 1  BY <2>1
  <2>. QED  BY <2>2, ColumnCells
<1>2. \A y \in n[2] .. Height - 1 : FilterLevel(ColumnCell(n, y))' = FilterLevel(ColumnCell(n, y))
  BY <1>1 DEF LevelsKept
<1>. QED  BY <1>2 DEF Clear

\* A cell that keeps its light is lit as before while its neighbours lose none.
LEMMA LitKept ==
  ASSUME LightTyped, LightTyped', SubTyped, LevelsKept, NEW k \in Kinds, NEW n \in Cells, Lit(k, n),
         light'[k][n] = light[k][n],
         \A d \in Cells : light'[k][d] >= light[k][d]
  PROVE  Lit(k, n)'
<1>1. Clear(n)' <=> Clear(n)  BY ClearKept
<1>2. EmissionLevel(n)' = EmissionLevel(n) /\ FilterLevel(n)' = FilterLevel(n) /\ FilterLevel(n) \in Int
  BY LevelsTyped DEF LevelsKept
<1>3. ASSUME NEW d \in Around(n) \cap Cells, light[k][d] > light[k][n] + FilterLevel(n)
      PROVE  light'[k][d] > light'[k][n] + FilterLevel(n)'
  <2>1. light[k][d] \in Int /\ light'[k][d] \in Int /\ light[k][n] \in Int  BY DEF LightTyped
  <2>. QED  BY <1>2, <1>3, <2>1
<1>4. (Around(n) \cap Cells)' = Around(n) \cap Cells  OBVIOUS
<1>. QED  BY <1>1, <1>2, <1>3 DEF Lit

LEMMA SeqOfElements ==
  ASSUME NEW T, NEW s \in Seq(T), NEW U, Elements(s) \subseteq U
  PROVE  s \in Seq(U)
<1>1. Len(s) \in Nat /\ s = [i \in 1 .. Len(s) |-> s[i]]  OBVIOUS
<1>2. \A i \in 1 .. Len(s) : s[i] \in U  BY DEF Elements
<1>. QED  BY <1>1, <1>2

LEMMA InitRight == Init => IInv
<1>. SUFFICES ASSUME Init PROVE IInv  OBVIOUS
<1>1. SubTyped  BY LightAssumption DEF Init, SubTyped, Layer
<1>2. light = [k \in Kinds |-> [n \in Cells |-> 0]] /\ queue = <<>> /\ stage = "idle" /\ calls = 0
  BY DEF Init
<1>3. LightTyped /\ DarkAboveSubs  BY <1>2, Sizes DEF LightTyped, DarkAboveSubs
<1>4. TypeOK
  <2>1. queue \in Seq(Nodes)  BY <1>2
  <2>2. calls \in 0 .. Len(Order)  BY <1>2, OrderTyped
  <2>. QED  BY <1>1, <1>2, <1>3, <2>1, <2>2, TypeParts
<1>5. Stages  BY <1>2 DEF Stages, Fills, Spreads
<1>6. Unfilled  BY <1>2 DEF Unfilled, CellsOf
<1>7. QueueRight  BY <1>2 DEF QueueRight, Fills, Spreads
<1>8. Explained
  <2>1. \A k \in Kinds, n \in Cells : light[k][n] = 0  BY <1>2
  <2>2. \A k \in Kinds, n \in Cells : ~(light[k][n] > 0)  BY <2>1
  <2>. QED  BY <2>2, ExplainedIs
<1>. QED  BY <1>4, <1>5, <1>6, <1>7, <1>8 DEF IInv

\* The nodes a call starts with, one at each cell of the chunk that is given a level.
LEMMA FirstNodes ==
  ASSUME NEW c \in Chunks, NEW cells \in Seq(CellsOf(c)), Elements(cells) = CellsOf(c),
         NEW level, \A n \in CellsOf(c) : level[n] \in 0 .. MaxLight, NEW first \in BOOLEAN
  PROVE  /\ NodesAt(cells, level, first) \in Seq(Nodes)
         /\ NodesOf(Elements(NodesAt(cells, level, first)), CellsOf(c), level, first)
<1>. DEFINE D == CellsOf(c)
            made == NodesAt(cells, level, first)
<1>1. \A n \in D : level[n] \in Int  BY Sizes
<1>2. made \in Seq([at : D, level : Nat \ {0}, first : BOOLEAN]) /\ NodesOf(Elements(made), D, level, first)
  <2>. HIDE DEF D
  <2>1. cells \in Seq(D) /\ Elements(cells) = D  BY DEF D
  <2>. QED  BY <1>1, <2>1, NodesMade
<1>3. Elements(made) \subseteq Nodes
  <2>. SUFFICES ASSUME NEW n \in D, level[n] > 0 PROVE Node(n, level[n], first) \in Nodes
    BY <1>2 DEF NodesOf
  <2>1. n \in Cells /\ level[n] \in 1 .. MaxLight  BY Sizes DEF CellsOf
  <2>. QED  BY <2>1 DEF Node, Nodes
<1>. HIDE DEF made, D
<1>4. made \in Seq(Nodes)  BY <1>2, <1>3, SeqOfElements
<1>. QED  BY <1>2, <1>4 DEF made, D

\* FillLight of a dark chunk changes no light.
LEMMA FillLightStarts ==
  ASSUME IInv, FillLight
  PROVE  /\ Chunk \in Chunks /\ calls' = calls /\ Chunk' = Chunk
         /\ Bared /\ LevelsKept /\ LightTyped'
         /\ \A k \in Kinds, n \in Cells : light'[k][n] = light[k][n]
         /\ \A k \in Kinds, n \in CellsOf(Chunk) : light[k][n] = 0
         /\ queue' \in Seq(Nodes)
         /\ \A q \in Elements(queue') : /\ ~q.first /\ ChunkOf(q.at) = Chunk
                                        /\ q.level = EmissionLevel(q.at)
<1>1. TypeOK /\ stage = "idle" /\ calls < Len(Order) /\ calls' = calls /\ stage' = "fillblock"
  BY DEF IInv, FillLight
<1>2. SubTyped /\ LightTyped /\ calls \in 0 .. Len(Order)  BY <1>1, TypeParts
<1>3. Chunk \in Chunks /\ calls + 1 \in 1 .. Len(Order) /\ Chunk = Order[calls + 1] /\ calls + 1 > calls + 0
  BY <1>1, <1>2, OrderTyped DEF Chunk
<1>4. \A k \in Kinds, n \in CellsOf(Chunk) : light[k][n] = 0
  BY <1>1, <1>3 DEF IInv, Unfilled
<1>5. RemoveEmptySubChunks({Chunk})  BY DEF FillLight
<1>6. /\ Bared /\ LightTyped'
      /\ \A k \in Kinds, n \in Cells : /\ light'[k][n] \in {0, light[k][n]}
                                       /\ ChunkOf(n) \notin {Chunk} => light'[k][n] = light[k][n]
  <2>. DEFINE C == {Chunk}
  <2>1. C \in SUBSET Chunks  BY <1>3
  <2>2. RemoveEmptySubChunks(C)  BY <1>5
  <2>3. C = {Chunk}  OBVIOUS
  <2>. HIDE DEF C
  <2>4. /\ Bared /\ LightTyped'
        /\ \A k \in Kinds, n \in Cells : /\ light'[k][n] \in {0, light[k][n]}
                                         /\ ChunkOf(n) \notin C => light'[k][n] = light[k][n]
    BY <1>2, <2>1, <2>2, RemovalBares
  <2>. QED  BY <2>3, <2>4
<1>7. \A k \in Kinds, n \in Cells : light'[k][n] = light[k][n]
  BY <1>4, <1>6 DEF CellsOf
<1>8. LevelsKept  BY <1>2, <1>6, BaringKeepsLevels
<1>9. /\ queue' \in Seq(Nodes)
      /\ \A q \in Elements(queue') : ~q.first /\ ChunkOf(q.at) = Chunk /\ q.level = EmissionLevel(q.at)
  <2>. DEFINE level == [n \in Cells |-> EmissionLevel(n)]
              cells == ByLayer(Chunk)
              f == FALSE
              made == NodesAt(cells, level, f)
  <2>1. queue' = made \/ queue' = <<>>  BY DEF FillLight, BlockLightNodes
  <2>2. \A n \in CellsOf(Chunk) : level[n] = EmissionLevel(n) /\ level[n] \in 0 .. MaxLight
    BY <1>2, LevelsTyped DEF CellsOf
  <2>3. cells \in Seq(CellsOf(Chunk)) /\ Elements(cells) = CellsOf(Chunk) /\ f \in BOOLEAN
    BY <1>3, LayersCover
  <2>. HIDE DEF level, cells, f
  <2>4. made \in Seq(Nodes) /\ NodesOf(Elements(made), CellsOf(Chunk), level, f)
    BY <1>3, <2>2, <2>3, FirstNodes
  <2>. HIDE DEF made
  <2>5. \A q \in Elements(made) : ~q.first /\ ChunkOf(q.at) = Chunk /\ q.level = EmissionLevel(q.at)
    BY <2>2, <2>4 DEF NodesOf, Node, CellsOf, f
  <2>6. <<>> \in Seq(Nodes) /\ Elements(<<>>) = {}
    <3>1. <<>> \in Seq(Nodes) /\ 1 .. Len(<<>>) = {}  OBVIOUS
    <3>. QED  BY <3>1 DEF Elements
  <2>. QED  BY <2>1, <2>4, <2>5, <2>6
<1>. QED  BY <1>1, <1>3, <1>4, <1>6, <1>7, <1>8, <1>9 DEF Chunk

LEMMA FillLightRight == ASSUME IInv, FillLight PROVE IInv'
<1>1. /\ Chunk \in Chunks /\ calls' = calls /\ Chunk' = Chunk
      /\ Bared /\ LevelsKept /\ LightTyped'
      /\ \A k \in Kinds, n \in Cells : light'[k][n] = light[k][n]
      /\ queue' \in Seq(Nodes)
      /\ \A q \in Elements(queue') : /\ ~q.first /\ ChunkOf(q.at) = Chunk
                                     /\ q.level = EmissionLevel(q.at)
  BY FillLightStarts
<1>2. /\ SubTyped /\ LightTyped /\ DarkAboveSubs /\ calls \in 0 .. Len(Order) /\ Unfilled /\ Explained
      /\ stage = "idle" /\ stage' = "fillblock" /\ calls < Len(Order)
  BY TypeParts DEF IInv, FillLight
<1>3. TypeOK'
  <2>1. DarkAboveSubs'
    <3>. SUFFICES ASSUME NEW k \in Kinds, NEW n \in Cells, SubAt(n)' = NoSub PROVE light'[k][n] = 0
      BY DEF DarkAboveSubs
    <3>1. CASE SubAt(n) = NoSub  BY <1>1, <1>2, <3>1 DEF DarkAboveSubs
    <3>2. CASE SubAt(n) # NoSub
      <4>1. RemoveEmptySubChunks({Chunk}) /\ {Chunk} \in SUBSET Chunks  BY <1>1 DEF FillLight
      <4>2. SubAt(n)' = NoSub => light'[k][n] = 0 \/ SubAt(n) = NoSub
        BY <1>2, <4>1, RemovalBares
      <4>. QED  BY <3>2, <4>2
    <3>. QED  BY <3>1, <3>2
  <2>2. SubTyped' /\ calls' \in 0 .. Len(Order)  BY <1>1, <1>2 DEF Bared
  <2>. QED  BY <1>1, <1>2, <2>1, <2>2, TypePartsNext
<1>4. Stages'  BY <1>1, <1>2 DEF Stages, Fills, Spreads
<1>5. Unfilled'
  <2>1. \A i \in 1 .. Len(Order) : i > calls' + 1 => i > calls + 0  BY <1>1, <1>2, OrderTyped
  <2>2. \A i \in 1 .. Len(Order) : i > calls' + 1 =>
          \A k \in Kinds, n \in CellsOf(Order[i]) : light[k][n] = 0
    BY <1>2, <2>1 DEF Unfilled
  <2>. QED  BY <1>1, <1>2, <2>2 DEF Unfilled, CellsOf
<1>6. QueueRight'
  <2>1. Kind' = "block" /\ ~Spreads'  BY <1>2 DEF Kind, Spreads
  <2>2. \A q \in Elements(queue') : FillNode("block", q)'
    <3>1. \A q \in Elements(queue') : q.at \in Cells
      <4>1. \A i \in 1 .. Len(queue') : queue'[i] \in Nodes  BY <1>1
      <4>. QED  BY <4>1 DEF Elements, Nodes
    <3>2. \A q \in Elements(queue') : q.level = EmissionLevel(q.at)'
      BY <1>1, <3>1 DEF LevelsKept
    <3>. QED  BY <1>1, <3>2 DEF FillNode, Begins
  <2>. QED  BY <2>1, <2>2 DEF QueueRight, Elements
<1>7. Explained'
  <2>1. ASSUME NEW k \in Kinds, NEW n \in Cells, light'[k][n] > 0  PROVE Lit(k, n)'
    <3>1. Lit(k, n)  BY <1>1, <1>2, <2>1, ExplainedIs
    <3>2. \A d \in Cells : light'[k][d] >= light[k][d]  BY <1>1, <1>2 DEF LightTyped
    <3>. QED  BY <1>1, <1>2, <3>1, <3>2, LitKept
  <2>. QED  BY <2>1, ExplainedNext
<1>. QED  BY <1>3, <1>4, <1>5, <1>6, <1>7 DEF IInv

\* FillSkyLight lights cells that are open to the sky, and has nodes at others that are.
LEMMA FillSkyStarts ==
  ASSUME IInv, FillSkyLight
  PROVE  /\ Chunk \in Chunks /\ calls' = calls /\ Chunk' = Chunk
         /\ Made(HeightmapCells(Chunk)) /\ LevelsKept /\ LightTyped'
         /\ \A n \in Cells :
              /\ light'["block"][n] = light["block"][n]
              /\ light'["sky"][n] = IF ChunkOf(n) = Chunk /\ OpenToSky(n) /\ ~NeedsSkyNode(n)
                                    THEN MaxLight ELSE light["sky"][n]
         /\ queue' \in Seq(Nodes)
         /\ \A q \in Elements(queue') : /\ ~q.first /\ ChunkOf(q.at) = Chunk /\ q.level = MaxLight
                                        /\ OpenToSky(q.at)
         /\ \A n \in CellsOf(Chunk) :
              OpenToSky(n) /\ NeedsSkyNode(n) => Node(n, MaxLight, FALSE) \in Elements(queue')
<1>1. TypeOK /\ stage = "fillblock" /\ calls < Len(Order) /\ calls' = calls
  BY DEF IInv, FillSkyLight, Stages, Fills
<1>2. SubTyped /\ LightTyped /\ calls \in 0 .. Len(Order)  BY <1>1, TypeParts
<1>3. Chunk \in Chunks
  <2>1. calls \in 0 .. Len(Order) - 1  BY <1>1, <1>2, OrderTyped
  <2>. QED  BY <2>1, OrderTyped
<1>4. Made(HeightmapCells(Chunk))
  <2>1. sub' = SubsMade(HeightmapCells(Chunk))  BY DEF FillSkyLight
  <2>. QED  BY <1>2, <2>1, SubsMadeMakes
<1>5. LevelsKept  BY <1>4, MakingKeepsLevels
<1>6. /\ LightTyped'
      /\ \A n \in Cells :
           /\ light'["block"][n] = light["block"][n]
           /\ light'["sky"][n] = IF ChunkOf(n) = Chunk /\ OpenToSky(n) /\ ~NeedsSkyNode(n)
                                 THEN MaxLight ELSE light["sky"][n]
  <2>1. light' = [light EXCEPT !["sky"] = [n \in Cells |->
                     IF ChunkOf(n) = Chunk /\ OpenToSky(n) /\ ~NeedsSkyNode(n)
                     THEN MaxLight ELSE @[n]]]
    BY DEF FillSkyLight
  <2>. DEFINE new == [n \in Cells |->
                        IF ChunkOf(n) = Chunk /\ OpenToSky(n) /\ ~NeedsSkyNode(n)
                        THEN MaxLight ELSE light["sky"][n]]
  <2>2. "sky" \in Kinds /\ "block" \in Kinds  BY DEF Kinds
  <2>3. new \in [Cells -> 0 .. MaxLight]
    <3>1. MaxLight \in 0 .. MaxLight /\ light["sky"] \in [Cells -> 0 .. MaxLight]
      BY <1>2, <2>2, Sizes DEF LightTyped
    <3>. QED  BY <3>1
  <2>4. light' = [light EXCEPT !["sky"] = new]  BY <2>1
  <2>5. \A n \in Cells : new[n] = IF ChunkOf(n) = Chunk /\ OpenToSky(n) /\ ~NeedsSkyNode(n)
                                  THEN MaxLight ELSE light["sky"][n]
    OBVIOUS
  <2>. HIDE DEF new
  <2>6. light'["sky"] = new /\ light'["block"] = light["block"]  BY <1>2, <2>2, <2>4 DEF LightTyped
  <2>7. LightTyped'  BY <1>2, <2>2, <2>3, <2>4 DEF LightTyped
  <2>. QED  BY <2>5, <2>6, <2>7
<1>7. /\ queue' \in Seq(Nodes)
      /\ \A q \in Elements(queue') : /\ ~q.first /\ ChunkOf(q.at) = Chunk /\ q.level = MaxLight
                                     /\ OpenToSky(q.at)
      /\ \A n \in CellsOf(Chunk) :
           OpenToSky(n) /\ NeedsSkyNode(n) => Node(n, MaxLight, FALSE) \in Elements(queue')
  <2>. DEFINE level == [n \in Cells |-> IF OpenToSky(n) /\ NeedsSkyNode(n) THEN MaxLight ELSE 0]
              cells == ByColumn(Chunk)
              f == FALSE
              made == NodesAt(cells, level, f)
  <2>1. queue' = made  BY DEF FillSkyLight
  <2>2. /\ \A n \in CellsOf(Chunk) : level[n] = IF OpenToSky(n) /\ NeedsSkyNode(n) THEN MaxLight ELSE 0
        /\ \A n \in CellsOf(Chunk) : level[n] \in 0 .. MaxLight
    BY Sizes DEF CellsOf
  <2>3. cells \in Seq(CellsOf(Chunk)) /\ Elements(cells) = CellsOf(Chunk) /\ f \in BOOLEAN
    BY <1>3, ColumnsCover
  <2>. HIDE DEF level, cells, f
  <2>4. made \in Seq(Nodes) /\ NodesOf(Elements(made), CellsOf(Chunk), level, f)
    BY <1>3, <2>2, <2>3, FirstNodes
  <2>. HIDE DEF made
  <2>5. \A q \in Elements(made) : /\ ~q.first /\ ChunkOf(q.at) = Chunk /\ q.level = MaxLight
                                  /\ OpenToSky(q.at)
    BY <2>2, <2>4 DEF NodesOf, Node, CellsOf, f
  <2>6. \A n \in CellsOf(Chunk) :
          OpenToSky(n) /\ NeedsSkyNode(n) => Node(n, MaxLight, FALSE) \in Elements(made)
    <3>1. MaxLight > 0  BY Sizes
    <3>. QED  BY <2>2, <2>4, <3>1 DEF NodesOf, f
  <2>. QED  BY <2>1, <2>4, <2>5, <2>6
<1>. QED  BY <1>1, <1>3, <1>4, <1>5, <1>6, <1>7 DEF Chunk

LEMMA FillSkyLightRight == ASSUME IInv, FillSkyLight PROVE IInv'
<1>1. /\ Chunk \in Chunks /\ calls' = calls /\ Chunk' = Chunk
      /\ Made(HeightmapCells(Chunk)) /\ LevelsKept /\ LightTyped'
      /\ \A n \in Cells :
           /\ light'["block"][n] = light["block"][n]
           /\ light'["sky"][n] = IF ChunkOf(n) = Chunk /\ OpenToSky(n) /\ ~NeedsSkyNode(n)
                                 THEN MaxLight ELSE light["sky"][n]
      /\ queue' \in Seq(Nodes)
      /\ \A q \in Elements(queue') : /\ ~q.first /\ ChunkOf(q.at) = Chunk /\ q.level = MaxLight
                                     /\ OpenToSky(q.at)
  BY FillSkyStarts
<1>2. /\ SubTyped /\ LightTyped /\ DarkAboveSubs /\ calls \in 0 .. Len(Order) /\ Unfilled /\ Explained
      /\ stage = "fillblock" /\ stage' = "fillsky" /\ calls < Len(Order)
  BY TypeParts DEF IInv, FillSkyLight, Stages, Fills
<1>3. ASSUME NEW n \in Cells, ChunkOf(n) = Chunk, OpenToSky(n)  PROVE n \in HeightmapCells(Chunk)
  <2>1. HeightOf(n) \in 0 .. HighestY(Chunk) /\ HighestY(Chunk) \in 0 .. Height - 1
    BY <1>1, <1>2, <1>3, HeightFound, HighestYFound
  <2>2. n[2] \in Int /\ HeightOf(n) < n[2] /\ n[2] <= HighestY(Chunk)
    BY <1>3, Sizes DEF OpenToSky, Cells
  <2>. QED  BY <1>3, <2>1, <2>2 DEF HeightmapCells
<1>4. \A k \in Kinds : k = "block" \/ k = "sky"  BY DEF Kinds
<1>5. ASSUME NEW k \in Kinds, NEW n \in Cells
      PROVE  /\ light'[k][n] = light[k][n] \/ (k = "sky" /\ light'[k][n] = MaxLight /\ OpenToSky(n) /\ ChunkOf(n) = Chunk)
             /\ light'[k][n] >= light[k][n]
  <2>1. light[k][n] \in 0 .. MaxLight /\ MaxLight \in Nat  BY <1>2, Sizes DEF LightTyped
  <2>. QED  BY <1>1, <1>4, <2>1
<1>6. TypeOK'
  <2>1. DarkAboveSubs'
    <3>. SUFFICES ASSUME NEW k \in Kinds, NEW n \in Cells, SubAt(n)' = NoSub PROVE light'[k][n] = 0
      BY DEF DarkAboveSubs
    <3>1. SubAt(n) = NoSub /\ n \notin HeightmapCells(Chunk)  BY <1>1 DEF Made
    <3>2. light[k][n] = 0  BY <1>2, <3>1 DEF DarkAboveSubs
    <3>. QED  BY <1>3, <1>5, <3>1, <3>2
  <2>2. SubTyped' /\ calls' \in 0 .. Len(Order)  BY <1>1, <1>2 DEF Made
  <2>. QED  BY <1>1, <1>2, <2>1, <2>2, TypePartsNext
<1>7. Stages'  BY <1>1, <1>2 DEF Stages, Fills, Spreads
<1>8. Unfilled'
  <2>1. ASSUME NEW i \in 1 .. Len(Order), i > calls + 1, NEW n \in CellsOf(Order[i])
        PROVE  n \in Cells /\ ChunkOf(n) # Chunk
    <3>1. calls + 1 \in 1 .. Len(Order) /\ i # calls + 1  BY <1>2, <2>1, OrderTyped
    <3>2. Order[i] # Order[calls + 1]  BY <3>1, LightAssumption
    <3>. QED  BY <3>2 DEF CellsOf, Chunk
  <2>2. \A i \in 1 .. Len(Order) : i > calls + 1 =>
          \A k \in Kinds, n \in CellsOf(Order[i]) : light[k][n] = 0
    BY <1>2 DEF Unfilled
  <2>3. \A i \in 1 .. Len(Order) : i > calls + 1 =>
          \A k \in Kinds, n \in CellsOf(Order[i]) : light'[k][n] = 0
    BY <1>5, <2>1, <2>2
  <2>. QED  BY <1>1, <1>2, <2>3 DEF Unfilled, CellsOf
<1>9. QueueRight'
  <2>1. Kind' = "sky" /\ ~Spreads'  BY <1>2 DEF Kind, Spreads
  <2>2. ASSUME NEW q \in Elements(queue')  PROVE FillNode("sky", q)'
    <3>1. q.at \in Cells
      <4>1. \A i \in 1 .. Len(queue') : queue'[i] \in Nodes  BY <1>1
      <4>. QED  BY <4>1 DEF Elements, Nodes
    <3>2. OpenToSky(q.at)  BY <1>1
    <3>3. Clear(q.at)  BY <1>2, <3>1, <3>2, OpenIsClear
    <3>4. Clear(q.at)'  BY <1>1, <3>1, <3>3, ClearKept
    <3>. QED  BY <1>1, <3>4 DEF FillNode, Begins
  <2>. QED  BY <2>1, <2>2 DEF QueueRight, Elements
<1>10. Explained'
  <2>1. ASSUME NEW k \in Kinds, NEW n \in Cells, light'[k][n] > 0  PROVE Lit(k, n)'
    <3>1. CASE light'[k][n] = light[k][n]
      <4>1. Lit(k, n)  BY <1>2, <2>1, <3>1, ExplainedIs
      <4>2. \A d \in Cells : light'[k][d] >= light[k][d]  BY <1>5
      <4>. QED  BY <1>1, <1>2, <3>1, <4>1, <4>2, LitKept
    <3>2. CASE k = "sky" /\ light'[k][n] = MaxLight /\ OpenToSky(n)
      <4>1. Clear(n)  BY <1>2, <3>2, OpenIsClear
      <4>2. Clear(n)'  BY <1>1, <4>1, ClearKept
      <4>. QED  BY <3>2, <4>2 DEF Lit
    <3>. QED  BY <1>5, <3>1, <3>2
  <2>. QED  BY <2>1, ExplainedNext
<1>. QED  BY <1>6, <1>7, <1>8, <1>9, <1>10 DEF IInv

-----------------------------------------------------------------------------
(* Propagation. *)

\* What a step of propagation does to the light: one cell may become brighter.
Brightens(k, m) ==
  /\ LightTyped'
  /\ \A j \in Kinds, n \in Cells : /\ light'[j][n] >= light[j][n]
                                   /\ j # k \/ n # m => light'[j][n] = light[j][n]

LEMMA LightOfACell ==
  ASSUME LightTyped, NEW k \in Kinds, NEW n \in Cells
  PROVE  light[k][n] \in 0 .. MaxLight /\ light[k][n] \in Int /\ light[k][n] >= 0
BY Sizes DEF LightTyped

LEMMA Brightened ==
  ASSUME LightTyped, NEW k \in Kinds, NEW m \in Cells, NEW level \in 0 .. MaxLight,
         light' = IF light[k][m] < level THEN [light EXCEPT ![k][m] = level] ELSE light
  PROVE  /\ Brightens(k, m)
         /\ light'[k][m] = IF light[k][m] < level THEN level ELSE light[k][m]
         /\ light'[k][m] >= level
<1>1. LightTyped'  BY DEF LightTyped
<1>2. \A j \in Kinds, n \in Cells :
        light'[j][n] = IF j = k /\ n = m /\ light[k][m] < level THEN level ELSE light[j][n]
  BY DEF LightTyped
<1>3. level \in Int  BY Sizes
<1>4. \A j \in Kinds, n \in Cells : light[j][n] \in Int  BY LightOfACell
<1>. QED  BY <1>1, <1>2, <1>3, <1>4 DEF Brightens

LEMMA ExplainedGrows ==
  ASSUME SubTyped, LightTyped, LevelsKept, Explained, stage # "over",
         NEW k \in Kinds, NEW m \in Cells, Brightens(k, m),
         light'[k][m] # light[k][m] => Lit(k, m)'
  PROVE  Explained'
<1>1. ASSUME NEW j \in Kinds, NEW n \in Cells, light'[j][n] > 0  PROVE Lit(j, n)'
  <2>1. CASE light'[j][n] = light[j][n]
    <3>1. Lit(j, n)  BY <1>1, <2>1, ExplainedIs
    <3>2. LightTyped' /\ \A d \in Cells : light'[j][d] >= light[j][d]  BY DEF Brightens
    <3>. QED  BY <2>1, <3>1, <3>2, LitKept
  <2>2. CASE light'[j][n] # light[j][n]
    <3>1. j = k /\ n = m  BY <2>2 DEF Brightens
    <3>. QED  BY <2>2, <3>1
  <2>. QED  BY <2>1, <2>2
<1>. QED  BY <1>1, ExplainedNext

LEMMA PointInCell ==
  ASSUME NEW n \in Int \X (0 .. Height - 1) \X Int, ChunkOf(n) \in Chunks
  PROVE  n \in Cells
<1>1. \A x \in Int : x \div Width \in -1 .. 1 => x \in -Width .. 2 * Width - 1
  <2>. SUFFICES ASSUME NEW x \in Int, NEW c \in -1 .. 1, x \div Width = c
                PROVE  x \in -Width .. 2 * Width - 1
    OBVIOUS
  <2>1. x \in Width * c .. Width * c + Width - 1  BY InChunk
  <2>2. c = -1 \/ c = 0 \/ c = 1  OBVIOUS
  <2>. QED  BY <2>1, <2>2, Sizes
<1>2. n[1] \div Width \in -1 .. 1 /\ n[3] \div Width \in -1 .. 1  BY DEF ChunkOf, Chunks
<1>. QED  BY <1>1, <1>2 DEF Cells

LEMMA QueueTyped ==
  ASSUME TypeOK
  PROVE  \A q \in Elements(queue) : /\ q \in Nodes /\ q.at \in Cells /\ q.level \in 1 .. MaxLight
                                    /\ q.level \in Int /\ q.level >= 1 /\ q.level <= MaxLight
<1>1. queue \in Seq(Nodes)  BY TypeParts
<1>2. \A i \in 1 .. Len(queue) : queue[i] \in Nodes  BY <1>1
<1>. QED  BY <1>2, Sizes DEF Elements, Nodes

\* The nodes that a node of FillLight sends on.
Reached(node, brighter, nodes) ==
  /\ \A q \in nodes : \E n \in Around(node.at) :
       /\ brighter /\ ChunkOf(n) = Chunk
       /\ node.level - FilterLevel(n) - 1 > 0
       /\ q = Node(n, node.level - FilterLevel(n) - 1, FALSE)
  /\ \A n \in Around(node.at) :
       brighter /\ ChunkOf(n) = Chunk /\ node.level - FilterLevel(n) - 1 > 0 =>
         Node(n, node.level - FilterLevel(n) - 1, FALSE) \in nodes

LEMMA FillPropagateSteps ==
  ASSUME IInv, FillPropagate
  PROVE  \E node \in Nodes, new \in Seq(Nodes) :
           /\ Fills /\ calls < Len(Order) /\ Chunk \in Chunks /\ Kind \in Kinds
           /\ Chunk' = Chunk /\ Kind' = Kind /\ calls' = calls /\ stage' = stage
           /\ node \in Elements(queue) /\ FillNode(Kind, node)
           /\ Made({node.at}) /\ LevelsKept /\ Brightens(Kind, node.at)
           /\ light'[Kind][node.at] = IF light[Kind][node.at] < node.level
                                      THEN node.level ELSE light[Kind][node.at]
           /\ queue' \in Seq(Nodes)
           /\ Elements(queue) \subseteq {node} \cup Elements(queue')
           /\ Elements(queue') \subseteq Elements(queue) \cup Elements(new)
           /\ Elements(new) \subseteq Elements(queue')
           /\ Reached(node, light[Kind][node.at] < node.level, Elements(new))
<1>. DEFINE node == Head(queue)
            brighter == light[Kind][node.at] < node.level
            inside(n) == brighter /\ node.level > 1 /\ ChunkOf(n) = Chunk
            reached == [n \in Int \X Int \X Int |->
                          IF inside(n) THEN node.level - FilterLevel(n) - 1 ELSE 0]
            cells == Neighbours(node.at)
            f == FALSE
            new == NodesAt(cells, reached, f)
            S == {node.at} \cup {n \in Around(node.at) : inside(n)}
<1>1. /\ Fills /\ queue # <<>>
      /\ light' = IF brighter THEN [light EXCEPT ![Kind][node.at] = node.level] ELSE light
      /\ sub' = SubsMade(S)
      /\ queue' = Tail(queue) \o new
      /\ calls' = calls /\ stage' = stage
  BY DEF FillPropagate, Fills, Rest
<1>2. /\ TypeOK /\ SubTyped /\ LightTyped /\ queue \in Seq(Nodes) /\ QueueRight
      /\ calls \in 0 .. Len(Order) /\ calls < Len(Order)
  BY <1>1, TypeParts DEF IInv, Stages
<1>3. Chunk \in Chunks /\ Kind \in Kinds /\ Chunk' = Chunk /\ Kind' = Kind
  <2>1. calls \in 0 .. Len(Order) - 1  BY <1>2, OrderTyped
  <2>. QED  BY <1>1, <2>1, OrderTyped DEF Kind, Kinds, Chunk
<1>4. /\ node \in Nodes /\ Tail(queue) \in Seq(Nodes)
      /\ Elements(queue) = {node} \cup Elements(Tail(queue))
  BY <1>1, <1>2, HeadAndRest
<1>5. node.at \in Cells /\ node.level \in 1 .. MaxLight /\ node.level \in 0 .. MaxLight /\ node.level \in Int
  BY <1>4, Sizes DEF Nodes
<1>6. FillNode(Kind, node)  BY <1>1, <1>2, <1>4 DEF QueueRight
<1>7. Made({node.at})
  <2>1. Made(S) /\ node.at \in S
    <3>. HIDE DEF S
    <3>1. Made(S)  BY <1>1, <1>2, SubsMadeMakes
    <3>. QED  BY <3>1 DEF S
  <2>. HIDE DEF S, node
  <2>. QED  BY <2>1 DEF Made
<1>8. LevelsKept  BY <1>7, MakingKeepsLevels
<1>9. /\ Brightens(Kind, node.at)
      /\ light'[Kind][node.at] = IF brighter THEN node.level ELSE light[Kind][node.at]
  BY <1>1, <1>2, <1>3, <1>5, Brightened
<1>10. /\ new \in Seq(Nodes)
       /\ Reached(node, brighter, Elements(new))
  <2>. DEFINE D == Around(node.at)
  <2>1. node.at \in Points  BY <1>5, Sizes DEF Cells, Points
  <2>2. cells \in Seq(D) /\ Elements(cells) = D
    <3>1. cells \in Seq(Points) /\ D = Elements(cells)  BY <2>1, AroundCell
    <3>. HIDE DEF cells, D
    <3>. QED  BY <3>1, SeqOfElements
  <2>3. ASSUME NEW n \in D
        PROVE  /\ n \in Int \X Int \X Int /\ n \in Int \X (0 .. Height - 1) \X Int
               /\ ChunkOf(n) = Chunk => n \in Cells /\ FilterLevel(n) \in 0 .. MaxLight
    <3>1. n \in Int \X (0 .. Height - 1) \X Int  BY <1>5, AroundBack
    <3>2. n \in Int \X Int \X Int  BY <3>1, Sizes
    <3>3. ASSUME ChunkOf(n) = Chunk PROVE n \in Cells /\ FilterLevel(n) \in 0 .. MaxLight
      <4>1. n \in Cells  BY <1>3, <3>1, <3>3, PointInCell
      <4>. QED  BY <1>2, <4>1, LevelsTyped
    <3>. QED  BY <3>1, <3>2, <3>3
  <2>4. ASSUME NEW n \in D
        PROVE  /\ reached[n] = IF brighter /\ node.level > 1 /\ ChunkOf(n) = Chunk
                               THEN node.level - FilterLevel(n) - 1 ELSE 0
               /\ reached[n] \in Int /\ reached[n] <= MaxLight
    <3>1. reached[n] = IF brighter /\ node.level > 1 /\ ChunkOf(n) = Chunk
                       THEN node.level - FilterLevel(n) - 1 ELSE 0
      BY <2>3
    <3>. QED  BY <1>5, <2>3, <3>1, Sizes
  <2>. f \in BOOLEAN  OBVIOUS
  <2>. HIDE DEF cells, reached, f, D, brighter, node
  <2>5. new \in Seq([at : D, level : Nat \ {0}, first : BOOLEAN]) /\ NodesOf(Elements(new), D, reached, f)
    BY <2>2, <2>4, NodesMade
  <2>. HIDE DEF new
  <2>6. ASSUME NEW n \in D
        PROVE  reached[n] > 0 <=> brighter /\ ChunkOf(n) = Chunk /\ node.level - FilterLevel(n) - 1 > 0
    BY <1>5, <2>3, <2>4
  <2>7. Reached(node, brighter, Elements(new))
    <3>1. \A n \in D : reached[n] > 0 => reached[n] = node.level - FilterLevel(n) - 1
      BY <2>4, <2>6
    <3>2. ASSUME NEW q \in Elements(new)
          PROVE  \E n \in D : /\ brighter /\ ChunkOf(n) = Chunk
                              /\ node.level - FilterLevel(n) - 1 > 0
                              /\ q = Node(n, node.level - FilterLevel(n) - 1, FALSE)
      <4>1. PICK n \in D : reached[n] > 0 /\ q = Node(n, reached[n], f)  BY <2>5 DEF NodesOf
      <4>. QED  BY <2>6, <3>1, <4>1 DEF f
    <3>3. ASSUME NEW n \in D, brighter, ChunkOf(n) = Chunk, node.level - FilterLevel(n) - 1 > 0
          PROVE  Node(n, node.level - FilterLevel(n) - 1, FALSE) \in Elements(new)
      <4>1. reached[n] > 0  BY <2>6, <3>3
      <4>. QED  BY <2>5, <3>1, <4>1 DEF NodesOf, f
    <3>. QED  BY <3>2, <3>3 DEF Reached, D
  <2>8. Elements(new) \subseteq Nodes
    <3>1. ASSUME NEW n \in D, reached[n] > 0 PROVE Node(n, reached[n], f) \in Nodes
      <4>1. n \in Cells /\ reached[n] \in 1 .. MaxLight  BY <2>3, <2>4, <2>6, <3>1, Sizes
      <4>. QED  BY <4>1 DEF Node, Nodes
    <3>. QED  BY <2>5, <3>1 DEF NodesOf
  <2>. QED  BY <2>5, <2>7, <2>8, SeqOfElements
<1>. HIDE DEF node, new
<1>11. queue' \in Seq(Nodes) /\ Elements(queue') = Elements(Tail(queue)) \cup Elements(new)
  <2>. DEFINE t == Tail(queue)
  <2>1. t \in Seq(Nodes) /\ new \in Seq(Nodes) /\ queue' = t \o new  BY <1>1, <1>4, <1>10
  <2>. HIDE DEF t
  <2>2. t \o new \in Seq(Nodes) /\ Elements(t \o new) = Elements(t) \cup Elements(new)
    BY <2>1, ConcatElements
  <2>. QED  BY <2>1, <2>2 DEF t
<1>12. node \in Elements(queue)  BY <1>4
<1>. QED  BY <1>1, <1>2, <1>3, <1>4, <1>6, <1>7, <1>8, <1>9, <1>10, <1>11, <1>12

\* Making sub chunks where light goes keeps the type, and a call that is not over keeps
\* the chunks after it dark.
LEMMA TypeGrows ==
  ASSUME TypeOK, NEW k \in Kinds, NEW m \in Cells, Made({m}), Brightens(k, m),
         queue' \in Seq(Nodes), stage' = stage, calls' = calls
  PROVE  TypeOK'
<1>1. DarkAboveSubs'
  <2>. SUFFICES ASSUME NEW j \in Kinds, NEW n \in Cells, SubAt(n)' = NoSub PROVE light'[j][n] = 0
    BY DEF DarkAboveSubs
  <2>1. SubAt(n) = NoSub /\ n # m  BY DEF Made
  <2>2. light[j][n] = 0  BY <2>1, TypeParts DEF DarkAboveSubs
  <2>. QED  BY <2>1, <2>2 DEF Brightens
<1>2. LightTyped' /\ SubTyped'  BY DEF Brightens, Made
<1>. QED  BY <1>1, <1>2, TypeParts, TypePartsNext

LEMMA FillNodeKept ==
  ASSUME SubTyped, LightTyped, LevelsKept, Chunk' = Chunk, NEW k \in Kinds, NEW m \in Cells,
         Brightens(k, m), NEW q \in Nodes, FillNode(k, q)
  PROVE  FillNode(k, q)'
<1>1. q.at \in Cells /\ q.level \in Int  BY Sizes DEF Nodes
<1>2. FilterLevel(q.at)' = FilterLevel(q.at) /\ EmissionLevel(q.at)' = EmissionLevel(q.at)
      /\ FilterLevel(q.at) \in Int /\ (Clear(q.at)' <=> Clear(q.at))
  BY <1>1, LevelsTyped, ClearKept DEF LevelsKept
<1>3. Begins(k, q) => Begins(k, q)'  BY <1>2 DEF Begins
<1>4. ASSUME NEW d \in Around(q.at) \cap Cells, light[k][d] > q.level + FilterLevel(q.at)
      PROVE  light'[k][d] > q.level + FilterLevel(q.at)'
  <2>1. light[k][d] \in Int /\ light'[k][d] \in Int /\ light'[k][d] >= light[k][d]
    <3>1. light'[k][d] \in 0 .. MaxLight  BY DEF Brightens, LightTyped
    <3>. QED  BY <3>1, LightOfACell, Sizes DEF Brightens
  <2>. QED  BY <1>1, <1>2, <1>4, <2>1
<1>5. (Around(q.at) \cap Cells)' = Around(q.at) \cap Cells  OBVIOUS
<1>. QED  BY <1>3, <1>4, <1>5 DEF FillNode

LEMMA FillPropagateRight == ASSUME IInv, FillPropagate PROVE IInv'
<1>. PICK node \in Nodes, new \in Seq(Nodes) :
       /\ Fills /\ calls < Len(Order) /\ Chunk \in Chunks /\ Kind \in Kinds
       /\ Chunk' = Chunk /\ Kind' = Kind /\ calls' = calls /\ stage' = stage
       /\ node \in Elements(queue) /\ FillNode(Kind, node)
       /\ Made({node.at}) /\ LevelsKept /\ Brightens(Kind, node.at)
       /\ light'[Kind][node.at] = IF light[Kind][node.at] < node.level
                                  THEN node.level ELSE light[Kind][node.at]
       /\ queue' \in Seq(Nodes)
       /\ Elements(queue) \subseteq {node} \cup Elements(queue')
       /\ Elements(queue') \subseteq Elements(queue) \cup Elements(new)
       /\ Elements(new) \subseteq Elements(queue')
       /\ Reached(node, light[Kind][node.at] < node.level, Elements(new))
  BY FillPropagateSteps
<1>1. /\ TypeOK /\ SubTyped /\ LightTyped /\ QueueRight /\ Stages /\ Unfilled /\ Explained
      /\ calls \in 0 .. Len(Order) /\ stage \in {"fillblock", "fillsky"}
  BY TypeParts DEF IInv, Fills
<1>2. node.at \in Cells /\ node.level \in Int /\ node.level >= 1  BY Sizes DEF Nodes
<1>3. TypeOK'  BY <1>1, <1>2, TypeGrows
<1>4. Stages'  BY <1>1 DEF Stages, Fills, Spreads
<1>5. Unfilled'
  <2>1. ASSUME NEW i \in 1 .. Len(Order), i > calls + 1, NEW n \in CellsOf(Order[i])
        PROVE  n \in Cells /\ n # node.at
    <3>1. calls + 1 \in 1 .. Len(Order) /\ i # calls + 1  BY <1>1, <2>1, OrderTyped
    <3>2. Order[i] # Order[calls + 1]  BY <3>1, LightAssumption
    <3>. QED  BY <3>2 DEF CellsOf, Chunk, FillNode
  <2>2. \A i \in 1 .. Len(Order) : i > calls + 1 =>
          \A k \in Kinds, n \in CellsOf(Order[i]) : light[k][n] = 0
    BY <1>1 DEF Unfilled
  <2>3. \A i \in 1 .. Len(Order) : i > calls + 1 =>
          \A k \in Kinds, n \in CellsOf(Order[i]) : light'[k][n] = 0
    BY <2>1, <2>2 DEF Brightens
  <2>. QED  BY <1>1, <2>3 DEF Unfilled, CellsOf
<1>6. ASSUME NEW q \in Elements(new)  PROVE FillNode(Kind, q)'
  <2>1. PICK n \in Around(node.at) :
          /\ light[Kind][node.at] < node.level /\ ChunkOf(n) = Chunk
          /\ node.level - FilterLevel(n) - 1 > 0
          /\ q = Node(n, node.level - FilterLevel(n) - 1, FALSE)
    BY DEF Reached
  <2>2. q.at = n /\ q.level = node.level - FilterLevel(n) - 1 /\ ~q.first  BY <2>1 DEF Node
  <2>3. node.at \in Around(n) /\ n \in Cells
    <3>1. n \in Int \X (0 .. Height - 1) \X Int /\ node.at \in Around(n)  BY <1>2, AroundBack
    <3>. QED  BY <2>1, <3>1, PointInCell
  <2>4. FilterLevel(n)' = FilterLevel(n) /\ FilterLevel(n) \in Int
    BY <1>1, <2>3, LevelsTyped DEF LevelsKept
  <2>5. light'[Kind][node.at] > q.level + FilterLevel(n)'
    <3>1. light'[Kind][node.at] = node.level  BY <2>1
    <3>2. node.level > (node.level - FilterLevel(n) - 1) + FilterLevel(n)  BY <1>2, <2>4
    <3>. QED  BY <2>2, <2>4, <3>1, <3>2
  <2>6. \E d \in Around(q.at) \cap Cells : light'[Kind][d] > q.level + FilterLevel(q.at)'
    BY <1>2, <2>2, <2>3, <2>5
  <2>. QED  BY <2>1, <2>2, <2>6 DEF FillNode
<1>7. QueueRight'
  <2>1. ASSUME NEW q \in Elements(queue')  PROVE FillNode(Kind, q)'
    <3>1. CASE q \in Elements(queue)
      <4>1. q \in Nodes  BY <1>1, <3>1, QueueTyped
      <4>2. FillNode(Kind, q)  BY <1>1, <3>1 DEF QueueRight
      <4>. QED  BY <1>1, <1>2, <4>1, <4>2, FillNodeKept
    <3>2. CASE q \in Elements(new)  BY <1>6, <3>2
    <3>. QED  BY <3>1, <3>2
  <2>2. ~Spreads'  BY <1>1 DEF Spreads
  <2>. QED  BY <2>1, <2>2 DEF QueueRight, Elements, FillNode, Begins
<1>8. Explained'
  <2>1. ASSUME light'[Kind][node.at] # light[Kind][node.at]  PROVE Lit(Kind, node.at)'
    <3>1. light'[Kind][node.at] = node.level  BY <2>1
    <3>2. FillNode(Kind, node)'  BY <1>1, <1>2, FillNodeKept
    <3>. QED  BY <3>1, <3>2 DEF FillNode, Begins, Lit
  <2>2. stage # "over"  BY <1>1
  <2>. QED  BY <1>1, <1>2, <2>1, <2>2, ExplainedGrows
<1>. QED  BY <1>3, <1>4, <1>5, <1>7, <1>8 DEF IInv

LEMMA SameTyped ==
  ASSUME TypeOK, UNCHANGED <<sub, light>>, queue' \in Seq(Nodes),
         stage' \in {"idle", "fillblock", "fillsky", "spreadblock", "spreadsky", "over"},
         calls' \in 0 .. Len(Order)
  PROVE  TypeOK' /\ LevelsKept
<1>1. SubTyped' /\ LightTyped' /\ DarkAboveSubs'
  BY TypeParts DEF SubTyped, LightTyped, DarkAboveSubs, SubAt
<1>2. LevelsKept  BY TypeParts, SubsUnchanged, MakingKeepsLevels
<1>. QED  BY <1>1, <1>2, TypePartsNext

LEMMA SameExplained ==
  ASSUME TypeOK, Explained, stage # "over", UNCHANGED <<sub, light>>
  PROVE  Explained'
<1>1. LightTyped /\ SubTyped /\ LightTyped' /\ LevelsKept
  BY TypeParts, SubsUnchanged, MakingKeepsLevels DEF LightTyped
<1>2. ASSUME NEW k \in Kinds, NEW n \in Cells, light'[k][n] > 0  PROVE Lit(k, n)'
  <2>1. light[k][n] > 0 /\ light'[k][n] = light[k][n]  BY <1>2
  <2>2. Lit(k, n)  BY <2>1, ExplainedIs
  <2>3. \A d \in Cells : light'[k][d] >= light[k][d]  BY <1>1, LightOfACell
  <2>. QED  BY <1>1, <2>1, <2>2, <2>3, LitKept
<1>. QED  BY <1>2, ExplainedNext

LEMMA FillReturnsRight == ASSUME IInv, FillReturns PROVE IInv'
<1>1. /\ TypeOK /\ Stages /\ Unfilled /\ Explained
      /\ stage = "fillsky" /\ queue = <<>> /\ stage' = "idle" /\ calls' = calls + 1
      /\ UNCHANGED <<sub, light, queue>> /\ calls < Len(Order) /\ calls \in 0 .. Len(Order)
  BY TypeParts DEF IInv, FillReturns, Stages, Fills
<1>2. TypeOK'
  <2>1. queue' \in Seq(Nodes) /\ calls' \in 0 .. Len(Order)  BY <1>1, TypeParts, OrderTyped
  <2>. QED  BY <1>1, <2>1, SameTyped
<1>3. Stages'  BY <1>1 DEF Stages, Fills, Spreads
<1>4. Unfilled'
  <2>1. \A i \in 1 .. Len(Order) : i > calls' + 0 => i > calls + 1  BY <1>1, OrderTyped
  <2>2. \A i \in 1 .. Len(Order) : i > calls + 1 =>
          \A k \in Kinds, n \in CellsOf(Order[i]) : light[k][n] = 0
    BY <1>1 DEF Unfilled
  <2>. QED  BY <1>1, <2>1, <2>2 DEF Unfilled, CellsOf
<1>5. QueueRight'  BY <1>1 DEF QueueRight, Fills, Spreads
<1>6. Explained'  BY <1>1, SameExplained
<1>. QED  BY <1>2, <1>3, <1>4, <1>5, <1>6 DEF IInv

\* SpreadLight starts at cells of the middle chunk, with the light they have.
LEMMA SpreadStarts ==
  ASSUME TypeOK, NEW k \in Kinds, queue' = SpreadingNodes(k)
  PROVE  /\ queue' \in Seq(Nodes)
         /\ \A q \in Elements(queue') : /\ q.first /\ ChunkOf(q.at) = Centre
                                        /\ q.level = light[k][q.at]
         /\ \A n \in CellsOf(Centre) :
              NeedsSpreadingNode(k, n) => Node(n, light[k][n], TRUE) \in Elements(queue')
<1>. DEFINE level == [n \in Cells |-> IF NeedsSpreadingNode(k, n) THEN light[k][n] ELSE 0]
            cells == ByLayer(Centre)
            f == TRUE
            made == NodesAt(cells, level, f)
<1>1. Centre \in Chunks  BY DEF Centre, Chunks
<1>2. queue' = made  BY DEF SpreadingNodes
<1>3. ASSUME NEW n \in CellsOf(Centre)
      PROVE  /\ level[n] = IF NeedsSpreadingNode(k, n) THEN light[k][n] ELSE 0
             /\ level[n] \in 0 .. MaxLight
             /\ NeedsSpreadingNode(k, n) => level[n] = light[k][n] /\ level[n] > 0
  <2>1. n \in Cells  BY DEF CellsOf
  <2>2. light[k][n] \in 0 .. MaxLight /\ 0 \in 0 .. MaxLight
    BY <2>1, TypeParts, LightOfACell, Sizes
  <2>3. NeedsSpreadingNode(k, n) => light[k][n] > 0
    <3>1. NeedsSpreadingNode(k, n) => light[k][n] > 1  BY DEF NeedsSpreadingNode
    <3>2. light[k][n] \in Int  BY <2>1, TypeParts, LightOfACell
    <3>. QED  BY <3>1, <3>2
  <2>4. level[n] = IF NeedsSpreadingNode(k, n) THEN light[k][n] ELSE 0  BY <2>1
  <2>. QED  BY <2>2, <2>3, <2>4
<1>4. cells \in Seq(CellsOf(Centre)) /\ Elements(cells) = CellsOf(Centre) /\ f \in BOOLEAN
  BY <1>1, LayersCover
<1>. HIDE DEF level, cells, f
<1>5. made \in Seq(Nodes) /\ NodesOf(Elements(made), CellsOf(Centre), level, f)
  BY <1>1, <1>3, <1>4, FirstNodes
<1>. HIDE DEF made
<1>6. ASSUME NEW q \in Elements(made)
      PROVE  q.first /\ ChunkOf(q.at) = Centre /\ q.level = light[k][q.at]
  <2>1. PICK n \in CellsOf(Centre) : level[n] > 0 /\ q = Node(n, level[n], f)  BY <1>5 DEF NodesOf
  <2>2. q.at = n /\ q.level = level[n] /\ q.first = TRUE  BY <2>1 DEF Node, f
  <2>3. level[n] = light[k][n]  BY <1>3, <2>1
  <2>. QED  BY <2>2, <2>3 DEF CellsOf
<1>7. ASSUME NEW n \in CellsOf(Centre), NeedsSpreadingNode(k, n)
      PROVE  Node(n, light[k][n], TRUE) \in Elements(made)
  <2>1. level[n] = light[k][n] /\ level[n] > 0  BY <1>3, <1>7
  <2>. QED  BY <1>5, <2>1 DEF NodesOf, f
<1>. QED  BY <1>2, <1>5, <1>6, <1>7

LEMMA SpreadStartsRight ==
  ASSUME IInv, NEW k \in Kinds, queue' = SpreadingNodes(k), UNCHANGED <<sub, light, calls>>,
         stage # "over", calls = Len(Order),
         stage' = IF k = "block" THEN "spreadblock" ELSE "spreadsky"
  PROVE  IInv'
<1>1. /\ TypeOK /\ Unfilled /\ Explained /\ SubTyped /\ LightTyped
      /\ stage' \in {"spreadblock", "spreadsky"} /\ calls \in 0 .. Len(Order)
  BY TypeParts DEF IInv
<1>2. /\ queue' \in Seq(Nodes)
      /\ \A q \in Elements(queue') : q.first /\ ChunkOf(q.at) = Centre /\ q.level = light[k][q.at]
  BY <1>1, SpreadStarts
<1>3. TypeOK'  BY <1>1, <1>2, SameTyped
<1>4. Stages'  BY <1>1 DEF Stages, Fills, Spreads
<1>5. Unfilled'
  <2>1. \A i \in 1 .. Len(Order) : ~(i > calls' + (IF stage' = "idle" THEN 0 ELSE 1))
    BY <1>1, OrderTyped
  <2>. QED  BY <2>1 DEF Unfilled
<1>6. QueueRight'
  <2>1. Kind' = k /\ ~Fills'  BY <1>1 DEF Kind, Fills, Kinds
  <2>2. ASSUME NEW q \in Elements(queue')  PROVE SpreadNode(k, q)'
    <3>1. q.at \in Cells
      <4>1. \A i \in 1 .. Len(queue') : queue'[i] \in Nodes  BY <1>2
      <4>. QED  BY <4>1 DEF Elements, Nodes
    <3>2. light'[k][q.at] >= q.level  BY <1>1, <1>2, <3>1, LightOfACell
    <3>. QED  BY <1>2, <3>2 DEF SpreadNode
  <2>. QED  BY <2>1, <2>2 DEF QueueRight, Elements
<1>7. Explained'  BY <1>1, SameExplained
<1>. QED  BY <1>3, <1>4, <1>5, <1>6, <1>7 DEF IInv

LEMMA SpreadBlockLightRight == ASSUME IInv, SpreadBlockLight PROVE IInv'
<1>1. "block" \in Kinds  BY DEF Kinds
<1>. QED  BY <1>1, SpreadStartsRight DEF SpreadBlockLight

LEMMA SpreadSkyLightRight == ASSUME IInv, SpreadSkyLight PROVE IInv'
<1>1. "sky" \in Kinds /\ stage = "spreadblock"  BY DEF Kinds, SpreadSkyLight
<1>2. calls = Len(Order)  BY <1>1 DEF IInv, Stages, Spreads
<1>. QED  BY <1>1, <1>2, SpreadStartsRight DEF SpreadSkyLight

LEMMA SpreadReturnsRight == ASSUME IInv, SpreadReturns PROVE IInv'
<1>1. /\ TypeOK /\ SubTyped /\ LightTyped /\ DarkAboveSubs /\ stage = "spreadsky" /\ queue = <<>>
      /\ RemoveEmptySubChunks(Chunks) /\ stage' = "over" /\ UNCHANGED <<queue, calls>>
      /\ calls = Len(Order) /\ calls \in 0 .. Len(Order)
  BY TypeParts DEF IInv, SpreadReturns, Stages, Spreads
<1>2. /\ Bared /\ LightTyped'
      /\ \A k \in Kinds, n \in Cells :
           /\ light'[k][n] \in {0, light[k][n]}
           /\ SubAt(n)' = NoSub => light'[k][n] = 0 \/ SubAt(n) = NoSub
  <2>. DEFINE C == Chunks
  <2>1. C \in SUBSET Chunks /\ RemoveEmptySubChunks(C)  BY <1>1
  <2>. HIDE DEF C
  <2>. QED  BY <1>1, <2>1, RemovalBares
<1>3. TypeOK'
  <2>1. DarkAboveSubs'  BY <1>1, <1>2 DEF DarkAboveSubs
  <2>2. SubTyped' /\ queue' \in Seq(Nodes)  BY <1>1, <1>2, TypeParts DEF Bared
  <2>. QED  BY <1>1, <1>2, <2>1, <2>2, TypePartsNext
<1>4. Stages'  BY <1>1 DEF Stages, Fills, Spreads
<1>5. Unfilled'
  <2>1. \A i \in 1 .. Len(Order) : ~(i > calls' + (IF stage' = "idle" THEN 0 ELSE 1))
    BY <1>1, OrderTyped
  <2>. QED  BY <2>1 DEF Unfilled
<1>6. QueueRight'  BY <1>1 DEF QueueRight, Fills, Spreads
<1>7. Explained'  BY <1>1 DEF Explained
<1>. QED  BY <1>3, <1>4, <1>5, <1>6, <1>7 DEF IInv

\* The nodes that a node of SpreadLight sends on: one to each cell around it.
Sent(node, on, level, nodes) ==
  /\ \A q \in nodes : on /\ \E n \in Around(node.at) : q = Node(n, level, FALSE)
  /\ on => \A n \in Around(node.at) : Node(n, level, FALSE) \in nodes

\* They do not leave the area: they are fainter at every step out of the middle chunk.
LEMMA SentInside ==
  ASSUME SubTyped, LightTyped, NEW k \in Kinds, NEW node \in Nodes, SpreadNode(k, node),
         NEW n \in Around(node.at), LevelAt(node) >= 1
  PROVE  /\ n \in Cells /\ LevelAt(node) \in 1 .. MaxLight
         /\ Out(n[1]) + LevelAt(node) <= MaxLight + 1
         /\ Out(n[3]) + LevelAt(node) <= MaxLight + 1
<1>1. node.at \in Cells /\ node.level \in 1 .. MaxLight /\ node.level \in Int  BY Sizes DEF Nodes
<1>2. FilterLevel(node.at) \in Int /\ FilterLevel(node.at) >= 0  BY <1>1, LevelsTyped, Sizes
<1>3. /\ LevelAt(node) \in Int
      /\ node.first => LevelAt(node) = node.level
      /\ ~node.first => LevelAt(node) <= node.level - 1
  BY <1>1, <1>2 DEF LevelAt
<1>4. LevelAt(node) \in 1 .. MaxLight  BY <1>1, <1>3, Sizes
<1>5. /\ n \in Int \X (0 .. Height - 1) \X Int
      /\ n[1] \in node.at[1] - 1 .. node.at[1] + 1 /\ n[3] \in node.at[3] - 1 .. node.at[3] + 1
  BY <1>1, AroundBack
<1>6. node.at[1] \in Int /\ node.at[3] \in Int /\ n[1] \in Int /\ n[3] \in Int
  BY <1>1, <1>5, Sizes DEF Cells
<1>7. \A x, y \in Int : y \in x - 1 .. x + 1 =>
        /\ Out(y) \in Int /\ Out(x) \in Int /\ Out(y) <= Out(x) + 1
        /\ x \in 0 .. Width - 1 => Out(y) <= 1
  BY Sizes DEF Out
<1>8. ASSUME NEW x \in Int, NEW y \in Int, y \in x - 1 .. x + 1,
             node.first => x \in 0 .. Width - 1,
             ~node.first => Out(x) + node.level <= MaxLight + 1
      PROVE  Out(y) + LevelAt(node) <= MaxLight + 1
  <2>1. CASE node.first
    <3>1. Out(y) <= 1 /\ Out(y) \in Int  BY <1>7, <1>8, <2>1
    <3>. QED  BY <1>4, <3>1, Sizes
  <2>2. CASE ~node.first
    <3>1. Out(y) <= Out(x) + 1 /\ Out(y) \in Int /\ Out(x) \in Int  BY <1>7, <1>8
    <3>2. LevelAt(node) <= node.level - 1 /\ Out(x) + node.level <= MaxLight + 1
      BY <1>3, <1>8, <2>2
    <3>. QED  BY <1>1, <1>3, <3>1, <3>2, Sizes
  <2>. QED  BY <2>1, <2>2
<1>9. node.first => node.at[1] \in 0 .. Width - 1 /\ node.at[3] \in 0 .. Width - 1
  BY <1>1, CentreCells DEF SpreadNode
<1>10. ~node.first => /\ Out(node.at[1]) + node.level <= MaxLight + 1
                      /\ Out(node.at[3]) + node.level <= MaxLight + 1
  BY DEF SpreadNode
<1>11. /\ Out(n[1]) + LevelAt(node) <= MaxLight + 1
       /\ Out(n[3]) + LevelAt(node) <= MaxLight + 1
  BY <1>5, <1>6, <1>8, <1>9, <1>10
<1>12. \A y \in Int : Out(y) + LevelAt(node) <= MaxLight + 1 => y \in -Width .. 2 * Width - 1
  BY <1>4, Sizes DEF Out
<1>13. n[1] \in -Width .. 2 * Width - 1 /\ n[3] \in -Width .. 2 * Width - 1
  BY <1>6, <1>11, <1>12
<1>. QED  BY <1>4, <1>5, <1>11, <1>13 DEF Cells

LEMMA SpreadPropagateSteps ==
  ASSUME IInv, SpreadPropagate
  PROVE  \E node \in Nodes, new \in Seq(Nodes) :
           /\ Spreads /\ calls = Len(Order) /\ Kind \in Kinds
           /\ Kind' = Kind /\ calls' = calls /\ stage' = stage
           /\ node \in Elements(queue) /\ SpreadNode(Kind, node)
           /\ LevelAt(node) \in Int /\ LevelAt(node) <= MaxLight
           /\ Made({node.at}) /\ LevelsKept /\ Brightens(Kind, node.at)
           /\ light'[Kind][node.at] = IF LevelAt(node) > light[Kind][node.at]
                                      THEN LevelAt(node) ELSE light[Kind][node.at]
           /\ queue' \in Seq(Nodes)
           /\ Elements(queue) \subseteq {node} \cup Elements(queue')
           /\ Elements(queue') \subseteq Elements(queue) \cup Elements(new)
           /\ Elements(new) \subseteq Elements(queue')
           /\ Sent(node, node.first \/ LevelAt(node) > light[Kind][node.at], LevelAt(node),
                   Elements(new))
<1>. DEFINE node == Head(queue)
            level == LevelAt(node)
            brighter == level > light[Kind][node.at]
            on == node.first \/ brighter
            cells == Neighbours(node.at)
            next == IF on THEN cells ELSE <<>>
            new == [i \in 1 .. Len(next) |-> Node(next[i], level, FALSE)]
<1>1. /\ Spreads /\ queue # <<>>
      /\ light' = IF brighter THEN [light EXCEPT ![Kind][node.at] = level] ELSE light
      /\ sub' = SubsMade({node.at})
      /\ queue' = Tail(queue) \o new
      /\ calls' = calls /\ stage' = stage
  BY DEF SpreadPropagate, Spreads, Rest
<1>2. /\ TypeOK /\ SubTyped /\ LightTyped /\ queue \in Seq(Nodes) /\ QueueRight
      /\ calls = Len(Order)
  BY <1>1, TypeParts DEF IInv, Stages
<1>3. Kind \in Kinds /\ Kind' = Kind  BY <1>1 DEF Kind, Kinds
<1>4. /\ node \in Nodes /\ Tail(queue) \in Seq(Nodes)
      /\ Elements(queue) = {node} \cup Elements(Tail(queue))
  BY <1>1, <1>2, HeadAndRest
<1>. HIDE DEF node
<1>5. node.at \in Cells /\ node.level \in 1 .. MaxLight /\ node.level \in Int
  BY <1>4, Sizes DEF Nodes
<1>6. SpreadNode(Kind, node)  BY <1>1, <1>2, <1>4 DEF QueueRight
<1>7. Made({node.at}) /\ LevelsKept  BY <1>1, <1>2, SubsMadeMakes, MakingKeepsLevels
<1>8. level \in Int /\ level <= MaxLight
  <2>1. FilterLevel(node.at) \in 0 .. MaxLight  BY <1>2, <1>5, LevelsTyped
  <2>. QED  BY <1>5, <2>1, Sizes DEF LevelAt
<1>9. light[Kind][node.at] \in Int /\ light[Kind][node.at] >= 0  BY <1>2, <1>3, <1>5, LightOfACell
<1>10. /\ Brightens(Kind, node.at)
       /\ light'[Kind][node.at] = IF brighter THEN level ELSE light[Kind][node.at]
  <2>1. CASE brighter
    <3>1. level \in 0 .. MaxLight /\ light[Kind][node.at] < level  BY <1>8, <1>9, <2>1, Sizes
    <3>2. light' = IF light[Kind][node.at] < level
                   THEN [light EXCEPT ![Kind][node.at] = level] ELSE light
      BY <1>1, <3>1
    <3>. HIDE DEF level
    <3>3. /\ Brightens(Kind, node.at)
          /\ light'[Kind][node.at] = IF light[Kind][node.at] < level
                                     THEN level ELSE light[Kind][node.at]
      BY <1>2, <1>3, <1>5, <3>1, <3>2, Brightened
    <3>. QED  BY <2>1, <3>1, <3>3
  <2>2. CASE ~brighter
    <3>1. light' = light  BY <1>1, <2>2
    <3>2. LightTyped'  BY <1>2, <3>1 DEF LightTyped
    <3>3. \A j \in Kinds, n \in Cells : light'[j][n] >= light[j][n]  BY <1>2, <3>1, LightOfACell
    <3>. QED  BY <2>2, <3>1, <3>2, <3>3 DEF Brightens
  <2>. QED  BY <2>1, <2>2
<1>11. on => level >= 1
  <2>1. node.first => level = node.level  BY DEF LevelAt
  <2>. QED  BY <1>5, <1>8, <1>9, <2>1
<1>12. /\ new \in Seq(Nodes)
       /\ Sent(node, on, level, Elements(new))
  <2>1. CASE ~on
    <3>1. new = <<>>  BY <2>1
    <3>2. new \in Seq(Nodes) /\ Elements(new) = {}
      <4>1. <<>> \in Seq(Nodes) /\ 1 .. Len(<<>>) = {}  OBVIOUS
      <4>. QED  BY <3>1, <4>1 DEF Elements
    <3>. QED  BY <2>1, <3>2 DEF Sent
  <2>2. CASE on
    <3>1. node.at \in Points  BY <1>5, Sizes DEF Cells, Points
    <3>2. cells \in Seq(Points) /\ Around(node.at) = Elements(cells)  BY <3>1, AroundCell
    <3>3. new = [i \in 1 .. Len(cells) |-> Node(cells[i], level, FALSE)]  BY <2>2
    <3>4. \A n \in Around(node.at) : Node(n, level, FALSE) \in Nodes
      <4>. SUFFICES ASSUME NEW n \in Around(node.at) PROVE Node(n, level, FALSE) \in Nodes
        OBVIOUS
      <4>1. n \in Cells /\ level \in 1 .. MaxLight
        BY <1>2, <1>3, <1>4, <1>6, <1>11, <2>2, SentInside
      <4>. HIDE DEF level
      <4>. QED  BY <4>1 DEF Node, Nodes
    <3>. HIDE DEF cells, level, new, on
    <3>5. Len(cells) \in Nat /\ \A i \in 1 .. Len(cells) : cells[i] \in Around(node.at)
      BY <3>2 DEF Elements
    <3>6. new \in Seq(Nodes) /\ Len(new) = Len(cells)
          /\ \A i \in 1 .. Len(cells) : new[i] = Node(cells[i], level, FALSE)
      <4>1. \A i \in 1 .. Len(cells) : Node(cells[i], level, FALSE) \in Nodes  BY <3>4, <3>5
      <4>. DEFINE N == Len(cells)
                  F(i) == Node(cells[i], level, FALSE)
      <4>2. N \in Nat /\ (\A i \in 1 .. N : F(i) \in Nodes) /\ new = [i \in 1 .. N |-> F(i)]
        BY <3>3, <3>5, <4>1
      <4>. HIDE DEF N, F
      <4>3. new \in Seq(Nodes) /\ Len(new) = N /\ \A i \in 1 .. N : new[i] = F(i)
        BY <4>2
      <4>. QED  BY <4>3 DEF N, F
    <3>7. \A q \in Elements(new) : \E n \in Around(node.at) : q = Node(n, level, FALSE)
      BY <3>5, <3>6 DEF Elements
    <3>8. \A n \in Around(node.at) : Node(n, level, FALSE) \in Elements(new)
      BY <3>2, <3>6 DEF Elements
    <3>. QED  BY <2>2, <3>6, <3>7, <3>8 DEF Sent
  <2>. QED  BY <2>1, <2>2
<1>. HIDE DEF new
<1>13. queue' \in Seq(Nodes) /\ Elements(queue') = Elements(Tail(queue)) \cup Elements(new)
  <2>. DEFINE t == Tail(queue)
  <2>1. t \in Seq(Nodes) /\ new \in Seq(Nodes) /\ queue' = t \o new  BY <1>1, <1>4, <1>12
  <2>. HIDE DEF t
  <2>2. t \o new \in Seq(Nodes) /\ Elements(t \o new) = Elements(t) \cup Elements(new)
    BY <2>1, ConcatElements
  <2>. QED  BY <2>1, <2>2 DEF t
<1>14. node \in Elements(queue)  BY <1>4
<1>. QED  BY <1>1, <1>2, <1>3, <1>4, <1>6, <1>7, <1>8, <1>10, <1>12, <1>13, <1>14

LEMMA SpreadPropagateRight == ASSUME IInv, SpreadPropagate PROVE IInv'
<1>. PICK node \in Nodes, new \in Seq(Nodes) :
       /\ Spreads /\ calls = Len(Order) /\ Kind \in Kinds
       /\ Kind' = Kind /\ calls' = calls /\ stage' = stage
       /\ node \in Elements(queue) /\ SpreadNode(Kind, node)
       /\ LevelAt(node) \in Int /\ LevelAt(node) <= MaxLight
       /\ Made({node.at}) /\ LevelsKept /\ Brightens(Kind, node.at)
       /\ light'[Kind][node.at] = IF LevelAt(node) > light[Kind][node.at]
                                  THEN LevelAt(node) ELSE light[Kind][node.at]
       /\ queue' \in Seq(Nodes)
       /\ Elements(queue) \subseteq {node} \cup Elements(queue')
       /\ Elements(queue') \subseteq Elements(queue) \cup Elements(new)
       /\ Elements(new) \subseteq Elements(queue')
       /\ Sent(node, node.first \/ LevelAt(node) > light[Kind][node.at], LevelAt(node),
               Elements(new))
  BY SpreadPropagateSteps
<1>1. /\ TypeOK /\ SubTyped /\ LightTyped /\ QueueRight /\ Stages /\ Unfilled /\ Explained
      /\ calls \in 0 .. Len(Order) /\ stage \in {"spreadblock", "spreadsky"}
  BY TypeParts DEF IInv, Spreads
<1>2. node.at \in Cells /\ node.level \in Int /\ node.level >= 1  BY Sizes DEF Nodes
<1>3. TypeOK'  BY <1>1, <1>2, TypeGrows
<1>4. Stages'  BY <1>1 DEF Stages, Fills, Spreads
<1>5. Unfilled'
  <2>1. \A i \in 1 .. Len(Order) : ~(i > calls' + (IF stage' = "idle" THEN 0 ELSE 1))
    BY <1>1, OrderTyped
  <2>. QED  BY <2>1 DEF Unfilled
<1>. DEFINE level == LevelAt(node)
            was == light[Kind][node.at]
            now == light'[Kind][node.at]
<1>6. was \in Int /\ was >= 0 /\ now \in Int /\ now >= was
  <2>1. now \in 0 .. MaxLight  BY <1>2 DEF Brightens, LightTyped
  <2>. QED  BY <1>1, <1>2, <2>1, LightOfACell, Sizes DEF Brightens
<1>7. level \in Int /\ now = IF level > was THEN level ELSE was  OBVIOUS
<1>8. node.first => level = node.level /\ was >= node.level  BY DEF LevelAt, SpreadNode
<1>9. node.first \/ level > was => level >= 1 /\ now >= level  BY <1>2, <1>6, <1>7, <1>8
<1>10. ASSUME NEW q \in Elements(new)  PROVE SpreadNode(Kind, q)'
  <2>1. PICK n \in Around(node.at) : q = Node(n, level, FALSE)  BY DEF Sent
  <2>2. level >= 1 /\ now >= level  BY <1>9 DEF Sent
  <2>3. q.at = n /\ q.level = level /\ ~q.first  BY <2>1 DEF Node
  <2>4. Out(n[1]) + level <= MaxLight + 1 /\ Out(n[3]) + level <= MaxLight + 1
    BY <1>1, <2>2, SentInside
  <2>5. node.at \in Around(n) \cap Cells  BY <1>2, AroundBack
  <2>. HIDE DEF level
  <2>. QED  BY <2>2, <2>3, <2>4, <2>5 DEF SpreadNode
<1>11. QueueRight'
  <2>1. ASSUME NEW q \in Elements(queue')  PROVE SpreadNode(Kind, q)'
    <3>1. CASE q \in Elements(queue)
      <4>1. q.at \in Cells /\ q.level \in Int /\ SpreadNode(Kind, q)
        BY <1>1, <3>1, QueueTyped DEF QueueRight
      <4>2. ASSUME NEW d \in Cells, light[Kind][d] >= q.level  PROVE light'[Kind][d] >= q.level
        <5>1. light[Kind][d] \in Int /\ light'[Kind][d] \in 0 .. MaxLight /\ light'[Kind][d] >= light[Kind][d]
          BY <1>1, LightOfACell DEF Brightens, LightTyped
        <5>. QED  BY <4>1, <4>2, <5>1, Sizes
      <4>. QED  BY <4>1, <4>2 DEF SpreadNode
    <3>2. CASE q \in Elements(new)  BY <1>10, <3>2
    <3>. QED  BY <3>1, <3>2
  <2>2. ~Fills'  BY <1>1 DEF Fills
  <2>. QED  BY <2>1, <2>2 DEF QueueRight, Elements, SpreadNode
<1>12. Explained'
  <2>1. ASSUME now # was  PROVE Lit(Kind, node.at)'
    <3>1. level > was /\ now = level /\ ~node.first  BY <1>2, <1>6, <1>7, <1>8, <2>1
    <3>2. PICK d \in Around(node.at) \cap Cells : light[Kind][d] >= node.level
      BY <3>1 DEF SpreadNode
    <3>3. FilterLevel(node.at) \in Int /\ FilterLevel(node.at)' = FilterLevel(node.at)
      BY <1>1, <1>2, LevelsTyped DEF LevelsKept
    <3>4. level = node.level - FilterLevel(node.at) - 1  BY <3>1 DEF LevelAt
    <3>5. light[Kind][d] \in Int /\ light'[Kind][d] \in Int /\ light'[Kind][d] >= light[Kind][d]
      <4>1. light'[Kind][d] \in 0 .. MaxLight  BY DEF Brightens, LightTyped
      <4>. QED  BY <1>1, <4>1, LightOfACell, Sizes DEF Brightens
    <3>6. light'[Kind][d] > now + FilterLevel(node.at)'
      BY <1>2, <3>1, <3>2, <3>3, <3>4, <3>5
    <3>. QED  BY <3>2, <3>6 DEF Lit
  <2>2. stage # "over"  BY <1>1
  <2>. QED  BY <1>1, <1>2, <2>1, <2>2, ExplainedGrows
<1>. QED  BY <1>3, <1>4, <1>5, <1>11, <1>12 DEF IInv

LEMMA StutterRight == ASSUME IInv, UNCHANGED vars PROVE IInv'
<1>1. UNCHANGED <<sub, light, queue, stage, calls>> /\ TypeOK /\ Explained  BY DEF vars, IInv
<1>2. TypeOK'
  <2>1. /\ queue' \in Seq(Nodes) /\ calls' \in 0 .. Len(Order)
        /\ stage' \in {"idle", "fillblock", "fillsky", "spreadblock", "spreadsky", "over"}
    BY <1>1, TypeParts
  <2>. QED  BY <1>1, <2>1, SameTyped
<1>3. Stages'  BY <1>1 DEF IInv, Stages, Fills, Spreads
<1>4. Unfilled'  BY <1>1 DEF IInv, Unfilled, CellsOf
<1>5. Explained'
  <2>1. CASE stage = "over"  BY <1>1, <2>1 DEF Explained
  <2>2. CASE stage # "over"  BY <1>1, <2>2, SameExplained
  <2>. QED  BY <2>1, <2>2
<1>6. QueueRight'
  <2>1. /\ Fills' = Fills /\ Spreads' = Spreads /\ Kind' = Kind /\ Chunk' = Chunk
        /\ Elements(queue)' = Elements(queue) /\ light' = light
    BY <1>1 DEF Fills, Spreads, Kind, Chunk, Elements
  <2>2. LevelsKept  BY <1>1, TypeParts, SubsUnchanged, MakingKeepsLevels
  <2>3. ASSUME NEW q \in Elements(queue), FillNode(Kind, q)  PROVE FillNode(Kind, q)'
    <3>1. q.at \in Cells  BY <1>1, QueueTyped
    <3>2. FilterLevel(q.at)' = FilterLevel(q.at) /\ EmissionLevel(q.at)' = EmissionLevel(q.at)
          /\ (Clear(q.at)' <=> Clear(q.at))
      BY <1>1, <2>2, <3>1, TypeParts, ClearKept DEF LevelsKept
    <3>3. Begins(Kind, q) => Begins(Kind, q)'  BY <2>1, <3>2 DEF Begins
    <3>. QED  BY <2>1, <2>3, <3>2, <3>3 DEF FillNode
  <2>4. ASSUME NEW q \in Elements(queue), SpreadNode(Kind, q)  PROVE SpreadNode(Kind, q)'
    BY <2>1, <2>4 DEF SpreadNode
  <2>5. IInv  OBVIOUS
  <2>. QED  BY <2>1, <2>3, <2>4, <2>5 DEF IInv, QueueRight
<1>. QED  BY <1>2, <1>3, <1>4, <1>5, <1>6 DEF IInv

LEMMA StepRight == ASSUME IInv, [Next]_vars PROVE IInv'
BY FillLightRight, FillSkyLightRight, FillPropagateRight, FillReturnsRight, SpreadBlockLightRight,
   SpreadSkyLightRight, SpreadPropagateRight, SpreadReturnsRight, StutterRight DEF Next

LEMMA Invariant == Spec => []IInv
<1>1. IInv /\ [Next]_vars => IInv'  BY StepRight
<1>. QED  BY InitRight, <1>1, PTL DEF Spec

\* LightTypedAlways: nodes stay in the nine chunks, light is within its range, and what
\* has no sub chunk has none (light.go:99-117, 424-518).
THEOREM LightTypedAlways == Spec => []TypeOK
<1>1. IInv => TypeOK  BY DEF IInv
<1>. QED  BY Invariant, <1>1, PTL

\* LightHasOrigin: whatever the blocks are and the order of the queue, until the empty
\* sub chunks are removed each lit cell is where light begins or has a neighbour that is
\* brighter by more than the cell takes away (light.go:212-306, 309-506).
THEOREM LightHasOrigin == Spec => []Explained
<1>1. IInv => Explained  BY DEF IInv
<1>. QED  BY Invariant, <1>1, PTL

-----------------------------------------------------------------------------
(* Tops, heights and what is hidden from the sky. *)

\* The highest cell of the sub chunks J of a chunk.
TopOf(J) == Highest({0} \cup {i * SubHeight + SubHeight - 1 : i \in J})

Layered(c) == {j \in Subs : sub[c][j] \notin {NoSub, <<>>}}

LEMMA TopOfFound ==
  ASSUME NEW J \in SUBSET Subs
  PROVE  /\ TopOf(J) \in 0 .. Height - 1
         /\ TopOf(J) = 0 \/ \E j \in J : TopOf(J) = j * SubHeight + SubHeight - 1
         /\ \A j \in J : j * SubHeight + SubHeight - 1 <= TopOf(J)
<1>. DEFINE S == {0} \cup {i * SubHeight + SubHeight - 1 : i \in J}
<1>1. \A i \in Subs : i * SubHeight + SubHeight - 1 \in 0 .. Height - 1
  <2>. SUFFICES ASSUME NEW i \in Subs PROVE i * SubHeight + SubHeight - 1 \in 0 .. Height - 1
    OBVIOUS
  <2>1. i \in Nat /\ i <= SubCount - 1 /\ SubCount \in Nat /\ SubHeight \in Nat /\ SubHeight > 1
    BY Sizes DEF Subs
  <2>2. i * SubHeight >= 0 /\ i * SubHeight <= (SubCount - 1) * SubHeight  BY <2>1
  <2>3. (SubCount - 1) * SubHeight = Height - SubHeight  BY <2>1, Sizes
  <2>. QED  BY <2>1, <2>2, <2>3, Sizes
<1>2. S \subseteq 0 .. Height - 1 /\ S # {}  BY <1>1, Sizes
<1>3. Highest(S) \in S /\ \A m \in S : m <= Highest(S)
  <2>. HIDE DEF S
  <2>1. S \in SUBSET Nat /\ Height - 1 \in Nat /\ \A m \in S : m <= Height - 1  BY <1>2, Sizes
  <2>. QED  BY <1>2, <2>1, HighestFound
<1>4. \A j \in J : j * SubHeight + SubHeight - 1 \in S  OBVIOUS
<1>5. TopOf(J) = Highest(S)  BY DEF TopOf
<1>6. TopOf(J) \in S /\ \A m \in S : m <= TopOf(J)  BY <1>3, <1>5
<1>. QED  BY <1>2, <1>4, <1>6

LEMMA TopOfGrows ==
  ASSUME NEW J \in SUBSET Subs, NEW I \in SUBSET J
  PROVE  TopOf(I) <= TopOf(J)
<1>1. /\ TopOf(I) \in 0 .. Height - 1 /\ TopOf(J) \in 0 .. Height - 1
      /\ TopOf(I) = 0 \/ \E j \in I : TopOf(I) = j * SubHeight + SubHeight - 1
      /\ \A j \in J : j * SubHeight + SubHeight - 1 <= TopOf(J)
  <2>1. I \in SUBSET Subs  OBVIOUS
  <2>. QED  BY <2>1, TopOfFound
<1>. QED  BY <1>1, Sizes

LEMMA TopsFound ==
  ASSUME NEW c \in Chunks
  PROVE  /\ TopY(c) = TopOf(Layered(c)) /\ Layered(c) \in SUBSET Subs
         /\ TopY(c) \in 0 .. Height - 1
         /\ TopY(c) <= HighestY(c)
         /\ \A n \in CellsOf(c) : SubAt(n) \notin {NoSub, <<>>} => n[2] <= TopY(c)
<1>1. TopY(c) = TopOf(Layered(c)) /\ Layered(c) \in SUBSET Subs  BY DEF TopY, TopOf, Layered
<1>2. TopY(c) \in 0 .. Height - 1  BY <1>1, TopOfFound
<1>3. TopY(c) <= HighestY(c)
  <2>. DEFINE J == {j \in Subs : sub[c][j] # NoSub}
  <2>1. HighestY(c) = TopOf(J)  BY DEF HighestY, TopOf
  <2>2. J \in SUBSET Subs /\ Layered(c) \in SUBSET J  BY DEF Layered
  <2>. HIDE DEF J
  <2>. QED  BY <1>1, <2>1, <2>2, TopOfGrows
<1>4. ASSUME NEW n \in CellsOf(c), SubAt(n) \notin {NoSub, <<>>}  PROVE n[2] <= TopY(c)
  <2>1. n \in Cells /\ ChunkOf(n) = c /\ SubOf(n) \in Subs  BY CellPlaced DEF CellsOf
  <2>2. SubOf(n) \in Layered(c)  BY <1>4, <2>1 DEF SubAt, Layered
  <2>3. SubOf(n) * SubHeight + SubHeight - 1 <= TopY(c)  BY <1>1, <2>2, TopOfFound
  <2>4. n[2] \in Int /\ SubHeight \in Nat \ {0}  BY <2>1, Sizes DEF Cells
  <2>5. /\ n[2] % SubHeight \in 0 .. SubHeight - 1 /\ SubOf(n) \in Int
        /\ n[2] = SubHeight * SubOf(n) + (n[2] % SubHeight)
    BY <2>4, Divided DEF SubOf
  <2>6. n[2] <= SubOf(n) * SubHeight + SubHeight - 1  BY <2>4, <2>5
  <2>7. SubOf(n) * SubHeight + SubHeight - 1 \in Int  BY <2>4, <2>5
  <2>. QED  BY <1>2, <2>3, <2>4, <2>6, <2>7
<1>. QED  BY <1>1, <1>2, <1>3, <1>4

\* A sub chunk has a cell.
LEMMA SubHasCell ==
  ASSUME NEW c \in Chunks, NEW j \in Subs
  PROVE  \E n \in Cells : ChunkOf(n) = c /\ SubOf(n) = j
<1>. DEFINE y == j * SubHeight
<1>1. j \in Nat /\ j <= SubCount - 1 /\ SubCount \in Nat /\ SubHeight \in Nat \ {0} /\ SubHeight > 1
  BY Sizes DEF Subs
<1>2. y \in 0 .. Height - 1 /\ y \div SubHeight = j
  <2>1. j * SubHeight >= 0 /\ j * SubHeight <= (SubCount - 1) * SubHeight  BY <1>1
  <2>2. (SubCount - 1) * SubHeight = Height - SubHeight  BY <1>1, Sizes
  <2>3. y \in 0 .. Height - 1  BY <1>1, <2>1, <2>2, Sizes
  <2>4. 0 \in 0 .. SubHeight - 1 /\ j \in Int /\ y = SubHeight * j + 0  BY <1>1
  <2>5. (SubHeight * j + 0) \div SubHeight = j  BY <1>1, <2>4, Digits, Zenon
  <2>. QED  BY <2>3, <2>4, <2>5
<1>. HIDE DEF y
<1>3. 0 \in 0 .. Width - 1  BY Sizes
<1>4. CellOf(c, 0, y, 0) \in Cells /\ ChunkOf(CellOf(c, 0, y, 0)) = c
  BY <1>2, <1>3, CellOfChunk
<1>5. SubOf(CellOf(c, 0, y, 0)) = j  BY <1>2 DEF SubOf, CellOf
<1>. QED  BY <1>4, <1>5

\* New sub chunks have no layers, and bare ones go: no top gets higher.
LEMMA TopsSink ==
  ASSUME SubTyped, NEW c \in Chunks, Bared \/ \E C : Made(C)
  PROVE  TopY(c)' <= TopY(c)
<1>1. \A n \in Cells : SubAt(n)' \notin {NoSub, <<>>} => SubAt(n)' = SubAt(n)
  BY DEF Bared, Made
<1>2. Layered(c)' \in SUBSET Layered(c)
  <2>. SUFFICES ASSUME NEW j \in Subs, (sub[c][j])' \notin {NoSub, <<>>}
                PROVE  sub[c][j] \notin {NoSub, <<>>}
    BY DEF Layered
  <2>1. PICK n \in Cells : ChunkOf(n) = c /\ SubOf(n) = j  BY SubHasCell
  <2>2. SubAt(n) = sub[c][j] /\ SubAt(n)' = (sub[c][j])'  BY <2>1 DEF SubAt
  <2>. QED  BY <1>1, <2>2
<1>3. TopY(c) = TopOf(Layered(c)) /\ TopY(c)' = TopOf(Layered(c)') /\ Layered(c) \in SUBSET Subs
  BY DEF TopY, TopOf, Layered
<1>. QED  BY <1>2, <1>3, TopOfGrows

-----------------------------------------------------------------------------

\* The height of a column is that of its blocks, whatever sub chunks there are.
HeightRight(n) ==
  /\ HeightOf(n) \in 0 .. Height - 1
  /\ \A y \in 0 .. Height - 1 : y > HeightOf(n) => FilterLevel(ColumnCell(n, y)) = 0
  /\ HeightOf(n) > 0 => FilterLevel(ColumnCell(n, HeightOf(n))) > 0

LEMMA HeightIsRight == ASSUME SubTyped, NEW n \in Cells PROVE HeightRight(n)
<1>. DEFINE h == HeightOf(n)
<1>1. h \in 0 .. HighestY(ChunkOf(n)) /\ HighestY(ChunkOf(n)) \in 0 .. Height - 1
  BY CellPlaced, HeightFound, HighestYFound
<1>. HIDE DEF h
<1>2. h \in 0 .. Height - 1  BY <1>1, Sizes
<1>. QED  BY <1>2, HeightFound DEF h, HeightRight

LEMMA HeightKept ==
  ASSUME SubTyped, SubTyped', LevelsKept, NEW n \in Cells
  PROVE  HeightOf(n)' = HeightOf(n)
<1>1. HeightRight(n)  BY HeightIsRight
<1>2. HeightRight(n)'
  <2>1. SubTyped'  OBVIOUS
  <2>. QED  BY <2>1, HeightIsRight, PTL
<1>. SUFFICES ASSUME NEW h, h = HeightOf(n), NEW g, g = HeightOf(n)'  PROVE g = h
  OBVIOUS
<1>3. /\ h \in 0 .. Height - 1 /\ g \in 0 .. Height - 1
      /\ \A y \in 0 .. Height - 1 : /\ y > h => FilterLevel(ColumnCell(n, y)) = 0
                                    /\ y > g => FilterLevel(ColumnCell(n, y))' = 0
      /\ h > 0 => FilterLevel(ColumnCell(n, h)) > 0
      /\ g > 0 => FilterLevel(ColumnCell(n, g))' > 0
  BY <1>1, <1>2 DEF HeightRight
<1>4. \A y \in 0 .. Height - 1 : FilterLevel(ColumnCell(n, y))' = FilterLevel(ColumnCell(n, y))
  BY ColumnCells DEF LevelsKept
<1>5. ~(g > h)
  <2>. SUFFICES ASSUME g > h PROVE FALSE  OBVIOUS
  <2>1. g > 0  BY <1>3, Sizes
  <2>2. FilterLevel(ColumnCell(n, g)) = 0  BY <1>3
  <2>3. FilterLevel(ColumnCell(n, g)) > 0  BY <1>3, <1>4, <2>1
  <2>. QED  BY <2>2, <2>3
<1>6. ~(h > g)
  <2>. SUFFICES ASSUME h > g PROVE FALSE  OBVIOUS
  <2>1. h > 0  BY <1>3, Sizes
  <2>2. FilterLevel(ColumnCell(n, h))' = 0  BY <1>3
  <2>3. FilterLevel(ColumnCell(n, h)) > 0  BY <1>3, <2>1
  <2>. QED  BY <1>3, <1>4, <2>2, <2>3
<1>. QED  BY <1>3, <1>5, <1>6, Sizes

\* The cells whose columns HighestNeighbour looks at.
Columns(n) == {n} \cup {d \in Around(n) : ChunkOf(d) = ChunkOf(n)}

LEMMA ColumnsTyped ==
  ASSUME NEW n \in Cells, NEW m \in Columns(n)
  PROVE  m \in Cells /\ ChunkOf(m) = ChunkOf(n)
<1>1. CASE m = n  BY <1>1
<1>2. CASE m \in Around(n) /\ ChunkOf(m) = ChunkOf(n)
  <2>1. m \in Int \X (0 .. Height - 1) \X Int /\ ChunkOf(m) \in Chunks
    BY <1>2, AroundBack, CellPlaced
  <2>. QED  BY <1>2, <2>1, PointInCell
<1>. QED  BY <1>1, <1>2 DEF Columns

LEMMA HighestNeighbourFound ==
  ASSUME SubTyped, NEW n \in Cells
  PROVE  /\ HighestNeighbour(n) \in 0 .. Height - 1
         /\ \A m \in Columns(n) : HeightOf(m) <= HighestNeighbour(n)
<1>. DEFINE S == {HeightOf(m) : m \in Columns(n)}
<1>1. HighestNeighbour(n) = Highest(S)  BY DEF HighestNeighbour, Columns
<1>2. \A m \in Columns(n) : HeightOf(m) \in 0 .. Height - 1
  <2>. SUFFICES ASSUME NEW m \in Columns(n) PROVE HeightOf(m) \in 0 .. Height - 1  OBVIOUS
  <2>1. HeightRight(m)  BY ColumnsTyped, HeightIsRight
  <2>. QED  BY <2>1 DEF HeightRight
<1>3. S \subseteq 0 .. Height - 1 /\ HeightOf(n) \in S  BY <1>2 DEF Columns
<1>4. \A m \in Columns(n) : HeightOf(m) \in S  OBVIOUS
<1>. HIDE DEF S
<1>5. Highest(S) \in S /\ \A m \in S : m <= Highest(S)
  <2>1. S \in SUBSET Nat /\ S # {} /\ Height - 1 \in Nat /\ \A m \in S : m <= Height - 1
    BY <1>3, Sizes
  <2>. QED  BY <2>1, HighestFound
<1>. QED  BY <1>1, <1>3, <1>4, <1>5

LEMMA HighestNeighbourKept ==
  ASSUME SubTyped, SubTyped', LevelsKept, NEW n \in Cells
  PROVE  HighestNeighbour(n)' = HighestNeighbour(n)
<1>1. \A m \in Columns(n) : HeightOf(m)' = HeightOf(m)  BY ColumnsTyped, HeightKept
<1>2. {HeightOf(m) : m \in Columns(n)}' = {HeightOf(m) : m \in Columns(n)}
  <2>1. Columns(n)' = Columns(n)  BY DEF Columns
  <2>. QED  BY <1>1, <2>1
<1>3. /\ HighestNeighbour(n) = Highest({HeightOf(m) : m \in Columns(n)})
      /\ HighestNeighbour(n)' = Highest({HeightOf(m) : m \in Columns(n)}')
  BY DEF HighestNeighbour, Columns, Highest
<1>. QED  BY <1>2, <1>3

LEMMA SameColumn ==
  ASSUME NEW n \in Points, NEW m \in Points, n[1] = m[1], n[3] = m[3]
  PROVE  HeightOf(n) = HeightOf(m) /\ ChunkOf(n) = ChunkOf(m)
BY DEF HeightOf, ChunkOf

\* The columns around two cells of a column are the same.
LEMMA SameColumns ==
  ASSUME NEW n \in Cells, NEW d \in Cells, n[1] = d[1], n[3] = d[3], NEW m \in Columns(n)
  PROVE  \E o \in Columns(d) : HeightOf(o) = HeightOf(m)
<1>1. n \in Points /\ d \in Points /\ ChunkOf(n) = ChunkOf(d)  BY Sizes DEF Cells, Points, ChunkOf
<1>. DEFINE o == <<m[1], d[2], m[3]>>
<1>2. m \in Cells /\ ChunkOf(m) = ChunkOf(n)  BY ColumnsTyped
<1>3. m \in Points /\ o \in Points  BY <1>1, <1>2, Sizes DEF Cells, Points
<1>4. HeightOf(o) = HeightOf(m) /\ ChunkOf(o) = ChunkOf(m)  BY <1>3, SameColumn
<1>5. o = d \/ o \in Around(d)
  <2>1. CASE m = n  BY <1>1, <2>1 DEF Points
  <2>2. CASE m \in Around(n)
    <3>1. m \in {<<n[1] - 1, n[2], n[3]>>, <<n[1] + 1, n[2], n[3]>>,
                 <<n[1], n[2], n[3] - 1>>, <<n[1], n[2], n[3] + 1>>}
                \cup (IF n[2] > 0 THEN {<<n[1], n[2] - 1, n[3]>>} ELSE {})
                \cup (IF n[2] < Height - 1 THEN {<<n[1], n[2] + 1, n[3]>>} ELSE {})
      BY <1>1, <2>2, AroundCell
    <3>2. {<<d[1] - 1, d[2], d[3]>>, <<d[1] + 1, d[2], d[3]>>,
           <<d[1], d[2], d[3] - 1>>, <<d[1], d[2], d[3] + 1>>} \subseteq Around(d)
      BY <1>1, AroundCell
    <3>3. \/ m[1] = n[1] /\ m[3] = n[3]
          \/ o \in {<<d[1] - 1, d[2], d[3]>>, <<d[1] + 1, d[2], d[3]>>,
                    <<d[1], d[2], d[3] - 1>>, <<d[1], d[2], d[3] + 1>>}
      BY <3>1
    <3>4. d = <<d[1], d[2], d[3]>>  BY <1>1 DEF Points
    <3>. QED  BY <3>2, <3>3, <3>4
  <2>. QED  BY <2>1, <2>2 DEF Columns
<1>6. o \in Columns(d)  BY <1>1, <1>2, <1>4, <1>5 DEF Columns
<1>. QED  BY <1>4, <1>6

LEMMA HighestNeighbourOfColumn ==
  ASSUME NEW n \in Cells, NEW d \in Cells, n[1] = d[1], n[3] = d[3]
  PROVE  HighestNeighbour(n) = HighestNeighbour(d)
<1>1. \A m \in Columns(n) : \E o \in Columns(d) : HeightOf(o) = HeightOf(m)  BY SameColumns
<1>2. \A m \in Columns(d) : \E o \in Columns(n) : HeightOf(o) = HeightOf(m)  BY SameColumns
<1>3. {HeightOf(m) : m \in Columns(n)} = {HeightOf(m) : m \in Columns(d)}  BY <1>1, <1>2
<1>4. /\ HighestNeighbour(n) = Highest({HeightOf(m) : m \in Columns(n)})
      /\ HighestNeighbour(d) = Highest({HeightOf(m) : m \in Columns(d)})
  BY DEF HighestNeighbour, Columns
<1>. QED  BY <1>3, <1>4

LEMMA HiddenStays ==
  ASSUME SubTyped, SubTyped', LevelsKept, Bared \/ \E C : Made(C), NEW d \in Cells, Hidden(d)
  PROVE  Hidden(d)'
<1>1. ChunkOf(d) \in Chunks /\ d[2] \in Int
  <2>1. ChunkOf(d) \in Chunks  BY CellPlaced
  <2>2. d[2] \in 0 .. Height - 1  BY DEF Cells
  <2>. QED  BY <2>1, <2>2, Sizes
<1>. DEFINE top == TopY(ChunkOf(d))
<1>2. top' <= top  BY <1>1, TopsSink
<1>3. top \in 0 .. Height - 1  BY <1>1, TopsFound
<1>4. top' \in 0 .. Height - 1
  <2>1. top' = TopOf(Layered(ChunkOf(d))') /\ Layered(ChunkOf(d))' \in SUBSET Subs
    BY DEF TopY, TopOf, Layered
  <2>. QED  BY <2>1, TopOfFound
<1>5. FilterLevel(d)' = FilterLevel(d)  BY DEF LevelsKept
<1>6. HighestNeighbour(d)' = HighestNeighbour(d)  BY HighestNeighbourKept
<1>7. /\ Hidden(d) <=> \/ d[2] > top
                       \/ d[2] = top /\ FilterLevel(d) > 0
                       \/ d[2] = 0 /\ HighestNeighbour(d) = 1
      /\ Hidden(d)' <=> \/ d[2] > top'
                        \/ d[2] = top' /\ FilterLevel(d)' > 0
                        \/ d[2] = 0 /\ HighestNeighbour(d)' = 1
  BY DEF Hidden
<1>. HIDE DEF top
<1>8. top \in Int /\ top' \in Int  BY <1>3, <1>4, Sizes
<1>. QED  BY <1>1, <1>2, <1>5, <1>6, <1>7, <1>8

-----------------------------------------------------------------------------
(* Light that has not flowed yet is due: a node in the queue will bring it. *)

Above(d) == <<d[1], d[2] + 1, d[3]>>

Exempt(k, d) == k = "sky" /\ Hidden(d)

\* FillLight has a node at d, or one at the dark cell above it that the sky lights.
FillDue(k, n, d) ==
  \E q \in Elements(queue) :
    \/ q.at = d /\ q.level >= light[k][n] - FilterLevel(d) - 1
    \/ /\ k = "sky" /\ q.at = Above(d) /\ q.level = MaxLight
       /\ light[k][Above(d)] < MaxLight

\* SpreadLight has a node at n that sends to d, or one at d, which has not been dimmed yet.
SpreadDue(k, n, d) ==
  \E q \in Elements(queue) :
    \/ q.first /\ q.at = n /\ q.level = light[k][n]
    \/ ~q.first /\ q.at = d /\ q.level >= light[k][n]

Due(k, n, d) ==
  \/ Exempt(k, d)
  \/ Flows(k, n, d)
  \/ Fills /\ k = Kind /\ ChunkOf(n) = Chunk /\ FillDue(k, n, d)
  \/ Spreads /\ k = Kind /\ SpreadDue(k, n, d)

\* Within a chunk.
Inside ==
  stage # "over" =>
    \A k \in Kinds, n \in Cells : \A d \in Around(n) \cap Cells :
      ChunkOf(n) = ChunkOf(d) => Due(k, n, d)

\* From the middle chunk into a layer of another, where the loops of SpreadLight look.
Crossing(n, d) ==
  /\ ChunkOf(n) = Centre /\ ChunkOf(d) # Centre
  /\ SubAt(d) \notin {NoSub, <<>>}
  /\ ~(n[3] = Width - 1 /\ n[1] \in 1 .. Width - 2)

Across ==
  Spreads =>
    \A k \in Kinds, n \in Cells : \A d \in Around(n) \cap Cells : Crossing(n, d) =>
      \/ k = "sky" /\ stage = "spreadblock"
      \/ Flows(k, n, d)
      \/ k = Kind /\ SpreadDue(k, n, d)

\* The sky has not lit a chunk before its blocks have.
NoSky == stage = "fillblock" => \A n \in CellsOf(Chunk) : light["sky"][n] = 0

JInv == IInv /\ NoSky /\ Inside /\ Across /\ (stage = "over" => Filled /\ Crossed)

\* With nothing in the queue, or only light of the other kind, nothing is due.
LEMMA NothingDue ==
  ASSUME Inside, stage # "over", NEW k \in Kinds, NEW n \in Cells, NEW d \in Around(n) \cap Cells,
         ChunkOf(n) = ChunkOf(d), queue = <<>> \/ k # Kind
  PROVE  Exempt(k, d) \/ Flows(k, n, d)
<1>1. Due(k, n, d)  BY DEF Inside
<1>2. queue = <<>> => Elements(queue) = {}
  <2>1. 1 .. Len(<<>>) = {}  OBVIOUS
  <2>. QED  BY <2>1 DEF Elements
<1>3. queue = <<>> => ~FillDue(k, n, d) /\ ~SpreadDue(k, n, d)  BY <1>2 DEF FillDue, SpreadDue
<1>. QED  BY <1>1, <1>3 DEF Due

\* What was exempt stays so, and light that has flowed has, while no other comes.
LEMMA DoneStays ==
  ASSUME SubTyped, SubTyped', LightTyped, LightTyped', LevelsKept, Bared \/ \E C : Made(C),
         NEW k \in Kinds, NEW n \in Cells, NEW d \in Cells,
         light'[k][n] = light[k][n], light'[k][d] >= light[k][d],
         Exempt(k, d) \/ Flows(k, n, d)
  PROVE  Exempt(k, d)' \/ Flows(k, n, d)'
<1>1. Exempt(k, d) => Exempt(k, d)'  BY HiddenStays DEF Exempt
<1>2. ASSUME Flows(k, n, d)  PROVE Flows(k, n, d)'
  <2>1. FilterLevel(d)' = FilterLevel(d) /\ FilterLevel(d) \in Int
    BY LevelsTyped, Sizes DEF LevelsKept
  <2>2. light[k][n] \in Int /\ light[k][d] \in Int /\ light'[k][d] \in Int
    BY Sizes DEF LightTyped
  <2>3. light[k][d] >= light[k][n] - FilterLevel(d) - 1  BY <1>2 DEF Flows
  <2>4. light'[k][d] >= light'[k][n] - FilterLevel(d)' - 1  BY <2>1, <2>2, <2>3
  <2>. QED  BY <2>4 DEF Flows
<1>. QED  BY <1>1, <1>2

LEMMA InitDue == Init => JInv
<1>. SUFFICES ASSUME Init PROVE JInv  OBVIOUS
<1>1. IInv  BY InitRight
<1>2. light = [k \in Kinds |-> [n \in Cells |-> 0]] /\ stage = "idle" /\ SubTyped
  BY <1>1, TypeParts DEF Init, IInv
<1>3. ASSUME NEW k \in Kinds, NEW n \in Cells, NEW d \in Cells  PROVE Flows(k, n, d)
  <2>1. light[k][n] = 0 /\ light[k][d] = 0  BY <1>2
  <2>2. FilterLevel(d) \in 0 .. MaxLight  BY <1>2, LevelsTyped
  <2>3. 0 >= 0 - FilterLevel(d) - 1  BY <2>2, Sizes
  <2>. QED  BY <2>1, <2>3 DEF Flows
<1>4. Inside  BY <1>3 DEF Inside, Due
<1>. QED  BY <1>1, <1>2, <1>4 DEF JInv, NoSky, Across, Spreads

LEMMA FillLightDue == ASSUME JInv, FillLight PROVE JInv'
<1>1. IInv /\ IInv' /\ Inside /\ stage = "idle" /\ stage' = "fillblock" /\ queue = <<>>
  BY FillLightRight DEF JInv, FillLight, IInv, Stages
<1>2. /\ Bared /\ LevelsKept /\ LightTyped' /\ Chunk' = Chunk
      /\ \A k \in Kinds, n \in Cells : light'[k][n] = light[k][n]
      /\ \A k \in Kinds, n \in CellsOf(Chunk) : light[k][n] = 0
  BY <1>1, FillLightStarts
<1>3. SubTyped /\ LightTyped /\ SubTyped'  BY <1>1, <1>2, TypeParts DEF IInv, Bared
<1>4. Inside'
  <2>1. ASSUME NEW k \in Kinds, NEW n \in Cells, NEW d \in Around(n) \cap Cells, ChunkOf(n) = ChunkOf(d)
        PROVE  Exempt(k, d)' \/ Flows(k, n, d)'
    <3>1. Exempt(k, d) \/ Flows(k, n, d)  BY <1>1, <2>1, NothingDue
    <3>2. light'[k][n] = light[k][n] /\ light'[k][d] >= light[k][d]  BY <1>2, <1>3, LightOfACell
    <3>. QED  BY <1>2, <1>3, <3>1, <3>2, DoneStays
  <2>2. \A n : Around(n)' = Around(n) /\ ChunkOf(n)' = ChunkOf(n)  OBVIOUS
  <2>. QED  BY <2>1 DEF Inside, Due
<1>5. NoSky'
  <2>1. "sky" \in Kinds  BY DEF Kinds
  <2>. QED  BY <1>2, <2>1 DEF NoSky, CellsOf
<1>. QED  BY <1>1, <1>4, <1>5 DEF JInv, Across, Spreads

\* A step between two loops leaves the light alone.
LEMMA BetweenLoops ==
  ASSUME JInv, UNCHANGED <<sub, light>>, queue = <<>>, stage # "over", stage' # "over"
  PROVE  Inside'
<1>1. Inside /\ SubTyped /\ LightTyped  BY TypeParts DEF JInv, IInv
<1>2. SubTyped' /\ LightTyped' /\ LevelsKept /\ Made({})
  BY <1>1, SubsUnchanged, MakingKeepsLevels DEF LightTyped, SubTyped
<1>3. ASSUME NEW k \in Kinds, NEW n \in Cells, NEW d \in Around(n) \cap Cells, ChunkOf(n) = ChunkOf(d)
      PROVE  Exempt(k, d)' \/ Flows(k, n, d)'
  <2>1. Exempt(k, d) \/ Flows(k, n, d)  BY <1>1, <1>3, NothingDue
  <2>2. light'[k][n] = light[k][n] /\ light'[k][d] >= light[k][d]  BY <1>1, LightOfACell
  <2>. QED  BY <1>1, <1>2, <2>1, <2>2, DoneStays
<1>. QED  BY <1>3 DEF Inside, Due

LEMMA FillReturnsDue == ASSUME JInv, FillReturns PROVE JInv'
<1>1. IInv' /\ stage' = "idle"  BY FillReturnsRight DEF JInv, FillReturns
<1>2. Inside'  BY BetweenLoops DEF FillReturns
<1>. QED  BY <1>1, <1>2 DEF JInv, NoSky, Across, Spreads

\* The first nodes are due where the light of the middle chunk may cross.
LEMMA SpreadStartsDue ==
  ASSUME JInv, NEW k \in Kinds, queue' = SpreadingNodes(k), UNCHANGED <<sub, light, calls>>,
         stage # "over", calls = Len(Order), queue = <<>>,
         stage' = IF k = "block" THEN "spreadblock" ELSE "spreadsky",
         k = "sky" => stage = "spreadblock"
  PROVE  JInv'
<1>1. IInv' /\ Inside'  BY SpreadStartsRight, BetweenLoops DEF JInv
<1>2. /\ SubTyped /\ LightTyped /\ DarkAboveSubs /\ TypeOK /\ Across
      /\ Kind' = k /\ (stage' = "spreadblock" => k = "block")
  BY TypeParts DEF JInv, IInv, Kind, Kinds
<1>3. LevelsKept  BY <1>2, SubsUnchanged, MakingKeepsLevels
<1>4. \A n \in CellsOf(Centre) :
        NeedsSpreadingNode(k, n) => Node(n, light[k][n], TRUE) \in Elements(queue')
  BY <1>2, SpreadStarts
<1>5. ASSUME NEW n \in Cells, NEW d \in Around(n) \cap Cells, Crossing(n, d)
      PROVE  Flows(k, n, d)' \/ SpreadDue(k, n, d)'
  <2>1. /\ light[k][n] \in Int /\ light[k][n] >= 0 /\ light[k][d] \in Int /\ light[k][d] >= 0
        /\ FilterLevel(d) \in Int /\ FilterLevel(d) >= 0 /\ FilterLevel(d)' = FilterLevel(d)
    BY <1>2, <1>3, LightOfACell, LevelsTyped, Sizes DEF LevelsKept
  <2>2. CASE light[k][n] > 1 /\ light[k][d] < light[k][n]
    <3>1. SubAt(n) # NoSub
      <4>1. light[k][n] # 0  BY <2>2
      <4>. QED  BY <1>2, <4>1 DEF DarkAboveSubs
    <3>2. Visited(n)
      <4>1. n[1] \in 0 .. Width - 1 /\ n[3] \in 0 .. Width - 1  BY <1>5, CentreCells DEF Crossing
      <4>2. ~(d[1] \in 0 .. Width - 1 /\ d[3] \in 0 .. Width - 1)
        BY <1>5, CentreCells DEF Crossing
      <4>3. /\ d[1] \in n[1] - 1 .. n[1] + 1 /\ d[3] \in n[3] - 1 .. n[3] + 1
            /\ d[1] = n[1] \/ d[3] = n[3]
        <5>1. n \in Points  BY Sizes DEF Cells, Points
        <5>. QED  BY <5>1, AroundCell, AroundBack
      <4>4. n[1] \in {0, Width - 1} \/ n[3] \in {0, Width - 1}  BY <4>1, <4>2, <4>3, Sizes
      <4>5. ~(n[3] = Width - 1 /\ n[1] \in 1 .. Width - 2)  BY <1>5 DEF Crossing
      <4>6. n[3] = 0 \/ n[1] \in {0, Width - 1}  BY <4>1, <4>4, <4>5, Sizes
      <4>. QED  BY <4>6 DEF Visited
    <3>3. NeedsSpreadingNode(k, n)  BY <1>5, <2>2, <3>1, <3>2 DEF NeedsSpreadingNode, Crossing
    <3>4. Node(n, light[k][n], TRUE) \in Elements(queue')
      BY <1>4, <1>5, <3>3 DEF CellsOf, Crossing
    <3>5. SpreadDue(k, n, d)'
      <4>. DEFINE q == Node(n, light[k][n], TRUE)
      <4>1. q.first /\ q.at = n /\ q.level = light'[k][n]  BY DEF Node
      <4>. QED  BY <3>4, <4>1 DEF SpreadDue, Elements
    <3>. QED  BY <3>5
  <2>3. CASE ~(light[k][n] > 1 /\ light[k][d] < light[k][n])
    <3>1. light[k][d] >= light[k][n] - FilterLevel(d) - 1  BY <2>1, <2>3
    <3>. QED  BY <2>1, <3>1 DEF Flows
  <2>. QED  BY <2>2, <2>3
<1>6. ASSUME NEW j \in Kinds, NEW n \in Cells, NEW d \in Around(n) \cap Cells, Crossing(n, d)
      PROVE  \/ j = "sky" /\ stage' = "spreadblock"
             \/ Flows(j, n, d)'
             \/ j = Kind' /\ SpreadDue(j, n, d)'
  <2>1. CASE j = k  BY <1>2, <1>5, <1>6, <2>1
  <2>2. CASE j # k /\ k = "sky"
    <3>1. j = "block" /\ stage = "spreadblock" /\ Spreads  BY <2>2 DEF Kinds, Spreads
    <3>2. Flows(j, n, d) \/ SpreadDue(j, n, d)  BY <1>2, <1>6, <3>1 DEF Across
    <3>3. ~SpreadDue(j, n, d)
      <4>1. Elements(queue) = {}
        <5>1. 1 .. Len(<<>>) = {}  OBVIOUS
        <5>. QED  BY <5>1 DEF Elements
      <4>. QED  BY <4>1 DEF SpreadDue
    <3>4. Flows(j, n, d)'
      <4>1. FilterLevel(d)' = FilterLevel(d)  BY <1>3 DEF LevelsKept
      <4>. QED  BY <3>2, <3>3, <4>1 DEF Flows
    <3>. QED  BY <3>4
  <2>3. CASE j # k /\ k # "sky"  BY <2>3 DEF Kinds
  <2>. QED  BY <2>1, <2>2, <2>3
<1>7. Across'
  <2>1. ASSUME NEW n \in Cells, NEW d \in Cells, Crossing(n, d)'  PROVE Crossing(n, d)
    BY <2>1 DEF Crossing, SubAt
  <2>. QED  BY <1>6, <2>1 DEF Across
<1>. QED  BY <1>1, <1>7 DEF JInv, NoSky

LEMMA SpreadBlockLightDue == ASSUME JInv, SpreadBlockLight PROVE JInv'
<1>1. "block" \in Kinds /\ "block" # "sky"  BY DEF Kinds
<1>2. queue = <<>>  BY DEF SpreadBlockLight, JInv, IInv, Stages
<1>. QED  BY <1>1, <1>2, SpreadStartsDue DEF SpreadBlockLight

LEMMA SpreadSkyLightDue == ASSUME JInv, SpreadSkyLight PROVE JInv'
<1>1. "sky" \in Kinds /\ stage = "spreadblock"  BY DEF Kinds, SpreadSkyLight
<1>2. calls = Len(Order)  BY <1>1 DEF JInv, IInv, Stages, Spreads
<1>. QED  BY <1>1, <1>2, SpreadStartsDue DEF SpreadSkyLight

\* A step of SpreadLight keeps light due or lets it flow, within a chunk and across.
LEMMA SpreadStepDue ==
  ASSUME SubTyped, SubTyped', LightTyped, LightTyped', LevelsKept,
         NEW k \in Kinds, NEW node \in Nodes, NEW nodes, NEW n \in Cells, NEW d \in Around(n) \cap Cells,
         SpreadNode(k, node), Brightens(k, node.at),
         light'[k][node.at] = IF LevelAt(node) > light[k][node.at]
                              THEN LevelAt(node) ELSE light[k][node.at],
         Elements(queue) \subseteq {node} \cup Elements(queue)',
         nodes \subseteq Elements(queue)',
         Sent(node, node.first \/ LevelAt(node) > light[k][node.at], LevelAt(node), nodes),
         Flows(k, n, d) \/ SpreadDue(k, n, d)
  PROVE  Flows(k, n, d)' \/ SpreadDue(k, n, d)'
<1>. DEFINE m == node.at
            level == LevelAt(node)
<1>1. m \in Cells /\ node.level \in Int  BY Sizes DEF Nodes
<1>2. /\ light[k][n] \in Int /\ light[k][d] \in Int /\ light'[k][n] \in Int /\ light'[k][d] \in Int
      /\ light'[k][d] >= light[k][d]
      /\ FilterLevel(d) \in Int /\ FilterLevel(d) >= 0 /\ FilterLevel(d)' = FilterLevel(d)
  BY LevelsTyped, Sizes DEF LevelsKept, LightTyped, Brightens
<1>3. level \in Int
  <2>1. FilterLevel(m) \in 0 .. MaxLight  BY <1>1, LevelsTyped
  <2>. QED  BY <1>1, <2>1, Sizes DEF LevelAt
<1>4. ASSUME node.first \/ level > light[k][m], m = n, level = light'[k][n]
      PROVE  SpreadDue(k, n, d)'
  <2>1. Node(d, level, FALSE) \in nodes  BY <1>4 DEF Sent
  <2>. DEFINE q == Node(d, level, FALSE)
  <2>2. q \in Elements(queue)' /\ ~q.first /\ q.at = d /\ q.level >= light'[k][n]
    BY <1>2, <1>4, <2>1 DEF Node
  <2>. HIDE DEF q
  <2>. QED  BY <2>2 DEF SpreadDue
<1>5. CASE n = m /\ level > light[k][m]  BY <1>4, <1>5
<1>6. CASE ~(n = m /\ level > light[k][m])
  <2>1. light'[k][n] = light[k][n]  BY <1>6 DEF Brightens
  <2>2. CASE Flows(k, n, d)
    <3>1. light[k][d] >= light[k][n] - FilterLevel(d) - 1  BY <2>2 DEF Flows
    <3>2. light'[k][d] >= light'[k][n] - FilterLevel(d)' - 1  BY <1>2, <2>1, <3>1
    <3>. QED  BY <3>2 DEF Flows
  <2>3. CASE SpreadDue(k, n, d)
    <3>1. PICK q \in Elements(queue) : \/ q.first /\ q.at = n /\ q.level = light[k][n]
                                       \/ ~q.first /\ q.at = d /\ q.level >= light[k][n]
      BY <2>3 DEF SpreadDue
    <3>2. CASE q # node
      <4>1. q \in Elements(queue)'  BY <3>2
      <4>. QED  BY <2>1, <3>1, <4>1 DEF SpreadDue
    <3>3. CASE q = node /\ node.first
      <4>1. m = n /\ level = light[k][n]  BY <3>1, <3>3 DEF LevelAt
      <4>. QED  BY <1>4, <2>1, <3>3, <4>1
    <3>4. CASE q = node /\ ~node.first
      <4>1. m = d /\ node.level >= light[k][n]  BY <3>1, <3>4
      <4>2. level = node.level - FilterLevel(d) - 1  BY <3>4, <4>1 DEF LevelAt
      <4>3. light'[k][d] >= level
        <5>1. light'[k][d] = IF level > light[k][d] THEN level ELSE light[k][d]  BY <4>1
        <5>. HIDE DEF level
        <5>. QED  BY <1>2, <1>3, <5>1
      <4>4. light'[k][d] >= light'[k][n] - FilterLevel(d)' - 1
        <5>. HIDE DEF level, m
        <5>. QED  BY <1>1, <1>2, <1>3, <2>1, <4>1, <4>2, <4>3
      <4>. QED  BY <4>4 DEF Flows
    <3>. QED  BY <3>2, <3>3, <3>4
  <2>. QED  BY <2>2, <2>3
<1>. QED  BY <1>5, <1>6

LEMMA SpreadPropagateDue == ASSUME JInv, SpreadPropagate PROVE JInv'
<1>1. IInv /\ IInv' /\ Inside /\ Across  BY SpreadPropagateRight DEF JInv
<1>. PICK node \in Nodes, new \in Seq(Nodes) :
       /\ Spreads /\ calls = Len(Order) /\ Kind \in Kinds
       /\ Kind' = Kind /\ calls' = calls /\ stage' = stage
       /\ node \in Elements(queue) /\ SpreadNode(Kind, node)
       /\ LevelAt(node) \in Int /\ LevelAt(node) <= MaxLight
       /\ Made({node.at}) /\ LevelsKept /\ Brightens(Kind, node.at)
       /\ light'[Kind][node.at] = IF LevelAt(node) > light[Kind][node.at]
                                  THEN LevelAt(node) ELSE light[Kind][node.at]
       /\ queue' \in Seq(Nodes)
       /\ Elements(queue) \subseteq {node} \cup Elements(queue')
       /\ Elements(queue') \subseteq Elements(queue) \cup Elements(new)
       /\ Elements(new) \subseteq Elements(queue')
       /\ Sent(node, node.first \/ LevelAt(node) > light[Kind][node.at], LevelAt(node),
               Elements(new))
  BY <1>1, SpreadPropagateSteps
<1>2. /\ SubTyped /\ LightTyped /\ SubTyped' /\ LightTyped'
      /\ stage \in {"spreadblock", "spreadsky"} /\ Spreads' /\ ~Fills
      /\ Elements(queue)' = Elements(queue')
  BY <1>1, TypeParts DEF IInv, Made, Brightens, Spreads, Fills, Elements
<1>3. ASSUME NEW n \in Cells, NEW d \in Around(n) \cap Cells,
             Flows(Kind, n, d) \/ SpreadDue(Kind, n, d)
      PROVE  Flows(Kind, n, d)' \/ SpreadDue(Kind, n, d)'
  <2>. SUFFICES ASSUME NEW k \in Kinds, k = Kind, k = Kind'
                PROVE  Flows(k, n, d)' \/ SpreadDue(k, n, d)'
    OBVIOUS
  <2>. DEFINE nodes == Elements(new)
  <2>1. /\ k \in Kinds /\ SpreadNode(k, node) /\ Brightens(k, node.at)
        /\ light'[k][node.at] = IF LevelAt(node) > light[k][node.at]
                                THEN LevelAt(node) ELSE light[k][node.at]
        /\ Elements(queue) \subseteq {node} \cup Elements(queue)'
        /\ nodes \subseteq Elements(queue)'
        /\ Sent(node, node.first \/ LevelAt(node) > light[k][node.at], LevelAt(node), nodes)
        /\ Flows(k, n, d) \/ SpreadDue(k, n, d)
    BY <1>2, <1>3
  <2>. HIDE DEF nodes
  <2>. QED  BY <1>2, <2>1, SpreadStepDue
<1>4. Inside'
  <2>1. ASSUME NEW k \in Kinds, NEW n \in Cells, NEW d \in Around(n) \cap Cells, ChunkOf(n) = ChunkOf(d)
        PROVE  Exempt(k, d)' \/ Flows(k, n, d)' \/ (k = Kind /\ SpreadDue(k, n, d)')
    <3>1. Exempt(k, d) => Exempt(k, d)'  BY <1>2, HiddenStays DEF Exempt
    <3>2. CASE k = Kind
      <4>1. Due(k, n, d)  BY <1>1, <1>2, <2>1 DEF Inside
      <4>2. Exempt(k, d) \/ Flows(k, n, d) \/ SpreadDue(k, n, d)  BY <1>2, <4>1 DEF Due
      <4>. QED  BY <1>3, <3>1, <3>2, <4>2
    <3>3. CASE k # Kind
      <4>1. Exempt(k, d) \/ Flows(k, n, d)  BY <1>1, <1>2, <2>1, <3>3, NothingDue
      <4>2. light'[k][n] = light[k][n] /\ light'[k][d] >= light[k][d]  BY <3>3 DEF Brightens
      <4>. QED  BY <1>2, <4>1, <4>2, DoneStays
    <3>. QED  BY <3>2, <3>3
  <2>. QED  BY <1>2, <2>1 DEF Inside, Due
<1>5. Across'
  <2>1. ASSUME NEW n \in Cells, NEW d \in Cells, Crossing(n, d)'  PROVE Crossing(n, d)
    BY <2>1 DEF Crossing, Made
  <2>2. ASSUME NEW k \in Kinds, NEW n \in Cells, NEW d \in Around(n) \cap Cells, Crossing(n, d)
        PROVE  \/ k = "sky" /\ stage' = "spreadblock"
               \/ Flows(k, n, d)'
               \/ k = Kind' /\ SpreadDue(k, n, d)'
    <3>1. \/ k = "sky" /\ stage = "spreadblock"
          \/ Flows(k, n, d)
          \/ k = Kind /\ SpreadDue(k, n, d)
      BY <1>1, <2>2 DEF Across
    <3>2. CASE k = "sky" /\ stage = "spreadblock"  BY <3>2
    <3>3. CASE k = Kind /\ (Flows(k, n, d) \/ SpreadDue(k, n, d))  BY <1>3, <3>3
    <3>4. CASE k # Kind /\ Flows(k, n, d)
      <4>1. light'[k][n] = light[k][n] /\ light'[k][d] >= light[k][d]  BY <3>4 DEF Brightens
      <4>2. FilterLevel(d)' = FilterLevel(d) /\ FilterLevel(d) \in Int
        BY <1>2, LevelsTyped, Sizes DEF LevelsKept
      <4>3. light[k][n] \in Int /\ light[k][d] \in Int /\ light'[k][d] \in Int
        BY <1>2, Sizes DEF LightTyped
      <4>4. light'[k][d] >= light'[k][n] - FilterLevel(d)' - 1
        BY <3>4, <4>1, <4>2, <4>3 DEF Flows
      <4>. QED  BY <4>4 DEF Flows
    <3>. QED  BY <3>1, <3>2, <3>3, <3>4
  <2>. QED  BY <2>1, <2>2 DEF Across
<1>. QED  BY <1>1, <1>2, <1>4, <1>5 DEF JInv, NoSky

\* A step of FillLight keeps light due or lets it flow.
LEMMA FillStepDue ==
  ASSUME SubTyped, SubTyped', LightTyped, LightTyped', LevelsKept,
         NEW k \in Kinds, NEW node \in Nodes, NEW nodes, NEW n \in Cells, NEW d \in Around(n) \cap Cells,
         ChunkOf(d) = Chunk, Brightens(k, node.at),
         light'[k][node.at] = IF light[k][node.at] < node.level
                              THEN node.level ELSE light[k][node.at],
         Elements(queue) \subseteq Nodes,
         Elements(queue) \subseteq {node} \cup Elements(queue)',
         nodes \subseteq Elements(queue)',
         Reached(node, light[k][node.at] < node.level, nodes),
         Flows(k, n, d) \/ FillDue(k, n, d)
  PROVE  Flows(k, n, d)' \/ FillDue(k, n, d)'
<1>. DEFINE m == node.at
            level == node.level
<1>1. m \in Cells /\ level \in Int /\ level <= MaxLight /\ MaxLight \in Int  BY Sizes DEF Nodes
<1>2. /\ light[k][n] \in Int /\ light[k][d] \in Int /\ light'[k][n] \in Int /\ light'[k][d] \in Int
      /\ light'[k][d] >= light[k][d] /\ light'[k][d] >= 0 /\ light'[k][n] <= MaxLight
      /\ FilterLevel(d) \in Int /\ FilterLevel(d) >= 0 /\ FilterLevel(d)' = FilterLevel(d)
  BY LevelsTyped, Sizes DEF LevelsKept, LightTyped, Brightens
<1>3. ASSUME light[k][m] < level, d \in Around(m), level >= light'[k][n]
      PROVE  Flows(k, n, d)' \/ FillDue(k, n, d)'
  <2>1. CASE level - FilterLevel(d) - 1 > 0
    <3>. DEFINE q == Node(d, level - FilterLevel(d) - 1, FALSE)
    <3>1. q \in nodes  BY <1>3, <2>1 DEF Reached
    <3>2. q \in Elements(queue)' /\ q.at = d /\ q.level = level - FilterLevel(d) - 1
      BY <3>1 DEF Node
    <3>. HIDE DEF q
    <3>3. q.level >= light'[k][n] - FilterLevel(d)' - 1
      <4>. HIDE DEF level
      <4>. QED  BY <1>1, <1>2, <1>3, <3>2
    <3>. QED  BY <3>2, <3>3 DEF FillDue
  <2>2. CASE ~(level - FilterLevel(d) - 1 > 0)
    <3>1. light'[k][d] >= light'[k][n] - FilterLevel(d)' - 1
      <4>. HIDE DEF level
      <4>. QED  BY <1>1, <1>2, <1>3, <2>2
    <3>. QED  BY <3>1 DEF Flows
  <2>. QED  BY <2>1, <2>2
<1>4. CASE n = m /\ light[k][m] < level
  <2>1. light'[k][n] = level  BY <1>4
  <2>. QED  BY <1>1, <1>3, <1>4, <2>1
<1>5. CASE ~(n = m /\ light[k][m] < level)
  <2>1. light'[k][n] = light[k][n]  BY <1>5 DEF Brightens
  <2>2. CASE Flows(k, n, d)
    <3>1. light[k][d] >= light[k][n] - FilterLevel(d) - 1  BY <2>2 DEF Flows
    <3>2. light'[k][d] >= light'[k][n] - FilterLevel(d)' - 1  BY <1>2, <2>1, <3>1
    <3>. QED  BY <3>2 DEF Flows
  <2>3. ASSUME k = "sky", m = Above(d), level = MaxLight, light[k][m] < MaxLight
        PROVE  Flows(k, n, d)' \/ FillDue(k, n, d)'
    <3>1. d \in Around(m)
      <4>1. d[2] \in 0 .. Height - 1 /\ d = <<d[1], d[2], d[3]>>  BY DEF Cells
      <4>2. m[1] = d[1] /\ m[2] = d[2] + 1 /\ m[3] = d[3]  BY <2>3 DEF Above
      <4>3. m[2] > 0 /\ d = <<m[1], m[2] - 1, m[3]>>  BY <4>1, <4>2, Sizes
      <4>4. m \in Points  BY <1>1, Sizes DEF Cells, Points
      <4>. HIDE DEF m
      <4>. QED  BY <4>3, <4>4, AroundCell
    <3>. QED  BY <1>2, <1>3, <2>3, <3>1
  <2>4. CASE FillDue(k, n, d)
    <3>1. PICK q \in Elements(queue) :
            \/ q.at = d /\ q.level >= light[k][n] - FilterLevel(d) - 1
            \/ k = "sky" /\ q.at = Above(d) /\ q.level = MaxLight /\ light[k][Above(d)] < MaxLight
      BY <2>4 DEF FillDue
    <3>2. CASE q.at = d /\ q.level >= light[k][n] - FilterLevel(d) - 1
      <4>1. CASE q # node
        <5>1. q \in Elements(queue)'  BY <4>1
        <5>2. q.level >= light'[k][n] - FilterLevel(d)' - 1  BY <1>2, <2>1, <3>2
        <5>. QED  BY <3>2, <5>1, <5>2 DEF FillDue
      <4>2. CASE q = node
        <5>1. light'[k][d] = IF light[k][d] < level THEN level ELSE light[k][d]  BY <3>2, <4>2
        <5>2. level >= light[k][n] - FilterLevel(d) - 1  BY <3>2, <4>2
        <5>3. light'[k][d] >= light'[k][n] - FilterLevel(d)' - 1
          <6>. HIDE DEF level
          <6>. QED  BY <1>1, <1>2, <2>1, <5>1, <5>2
        <5>. QED  BY <5>3 DEF Flows
      <4>. QED  BY <4>1, <4>2
    <3>3. CASE k = "sky" /\ q.at = Above(d) /\ q.level = MaxLight /\ light[k][Above(d)] < MaxLight
      <4>1. Above(d) \in Cells  BY <3>3 DEF Nodes
      <4>2. CASE m = Above(d) /\ level = MaxLight  BY <2>3, <3>3, <4>2
      <4>3. CASE ~(m = Above(d) /\ level = MaxLight)
        <5>1. q # node /\ q \in Elements(queue)'  BY <3>3, <4>3
        <5>2. light'[k][Above(d)] < MaxLight
          <6>1. CASE m = Above(d)
            <7>1. light'[k][m] = level \/ light'[k][m] = light[k][m]  OBVIOUS
            <7>2. level < MaxLight  BY <1>1, <4>3, <6>1
            <7>. QED  BY <3>3, <6>1, <7>1, <7>2
          <6>2. CASE m # Above(d)
            <7>1. light'[k][Above(d)] = light[k][Above(d)]  BY <4>1, <6>2 DEF Brightens
            <7>. QED  BY <3>3, <7>1
          <6>. QED  BY <6>1, <6>2
        <5>. QED  BY <3>3, <5>1, <5>2 DEF FillDue
      <4>. QED  BY <4>2, <4>3
    <3>. QED  BY <3>1, <3>2, <3>3
  <2>. QED  BY <2>2, <2>4
<1>. QED  BY <1>4, <1>5

LEMMA FillPropagateDue == ASSUME JInv, FillPropagate PROVE JInv'
<1>1. IInv /\ IInv' /\ Inside /\ NoSky  BY FillPropagateRight DEF JInv
<1>. PICK node \in Nodes, new \in Seq(Nodes) :
       /\ Fills /\ calls < Len(Order) /\ Chunk \in Chunks /\ Kind \in Kinds
       /\ Chunk' = Chunk /\ Kind' = Kind /\ calls' = calls /\ stage' = stage
       /\ node \in Elements(queue) /\ FillNode(Kind, node)
       /\ Made({node.at}) /\ LevelsKept /\ Brightens(Kind, node.at)
       /\ light'[Kind][node.at] = IF light[Kind][node.at] < node.level
                                  THEN node.level ELSE light[Kind][node.at]
       /\ queue' \in Seq(Nodes)
       /\ Elements(queue) \subseteq {node} \cup Elements(queue')
       /\ Elements(queue') \subseteq Elements(queue) \cup Elements(new)
       /\ Elements(new) \subseteq Elements(queue')
       /\ Reached(node, light[Kind][node.at] < node.level, Elements(new))
  BY <1>1, FillPropagateSteps
<1>2. /\ SubTyped /\ LightTyped /\ SubTyped' /\ LightTyped'
      /\ stage \in {"fillblock", "fillsky"} /\ Fills' /\ ~Spreads
      /\ Elements(queue)' = Elements(queue')
  BY <1>1, TypeParts DEF IInv, Made, Brightens, Spreads, Fills, Elements
<1>3. ASSUME NEW n \in Cells, NEW d \in Around(n) \cap Cells, ChunkOf(d) = Chunk,
             Flows(Kind, n, d) \/ FillDue(Kind, n, d)
      PROVE  Flows(Kind, n, d)' \/ FillDue(Kind, n, d)'
  <2>. SUFFICES ASSUME NEW k \in Kinds, k = Kind, k = Kind'
                PROVE  Flows(k, n, d)' \/ FillDue(k, n, d)'
    OBVIOUS
  <2>. DEFINE nodes == Elements(new)
  <2>1. Elements(queue) \subseteq Nodes  BY <1>1, QueueTyped DEF IInv
  <2>2. /\ Brightens(k, node.at)
        /\ light'[k][node.at] = IF light[k][node.at] < node.level
                                THEN node.level ELSE light[k][node.at]
        /\ Elements(queue) \subseteq {node} \cup Elements(queue)'
        /\ nodes \subseteq Elements(queue)'
        /\ Reached(node, light[k][node.at] < node.level, nodes)
        /\ Flows(k, n, d) \/ FillDue(k, n, d)
    BY <1>2, <1>3
  <2>. HIDE DEF nodes
  <2>. QED  BY <1>2, <1>3, <2>1, <2>2, FillStepDue
<1>4. Inside'
  <2>1. ASSUME NEW k \in Kinds, NEW n \in Cells, NEW d \in Around(n) \cap Cells, ChunkOf(n) = ChunkOf(d)
        PROVE  \/ Exempt(k, d)' \/ Flows(k, n, d)'
               \/ k = Kind /\ ChunkOf(n) = Chunk /\ FillDue(k, n, d)'
    <3>1. Exempt(k, d) => Exempt(k, d)'  BY <1>2, HiddenStays DEF Exempt
    <3>2. CASE k = Kind /\ ChunkOf(n) = Chunk
      <4>1. Due(k, n, d)  BY <1>1, <1>2, <2>1 DEF Inside
      <4>2. Exempt(k, d) \/ Flows(k, n, d) \/ FillDue(k, n, d)  BY <1>2, <4>1 DEF Due
      <4>. QED  BY <1>3, <2>1, <3>1, <3>2, <4>2
    <3>3. CASE ~(k = Kind /\ ChunkOf(n) = Chunk)
      <4>1. Due(k, n, d)  BY <1>1, <1>2, <2>1 DEF Inside
      <4>2. Exempt(k, d) \/ Flows(k, n, d)  BY <1>2, <3>3, <4>1 DEF Due
      <4>3. k # Kind \/ (n # node.at /\ d # node.at)  BY <2>1, <3>3 DEF FillNode
      <4>4. light'[k][n] = light[k][n] /\ light'[k][d] >= light[k][d]  BY <4>3 DEF Brightens
      <4>. QED  BY <1>2, <4>2, <4>4, DoneStays
    <3>. QED  BY <3>2, <3>3
  <2>. QED  BY <1>2, <2>1 DEF Inside, Due
<1>5. NoSky'
  <2>. SUFFICES ASSUME stage = "fillblock", NEW n \in CellsOf(Chunk)  PROVE light'["sky"][n] = 0
    BY DEF NoSky, CellsOf
  <2>1. Kind = "block" /\ "sky" \in Kinds /\ n \in Cells  BY DEF Kind, Kinds, CellsOf
  <2>. QED  BY <1>1, <2>1 DEF NoSky, Brightens
<1>. QED  BY <1>1, <1>2, <1>4, <1>5 DEF JInv, Across, Spreads, Fills

\* Filled and Crossed by pairs of cells.
LEMMA FilledIs ==
  ASSUME \A k \in Kinds, n \in Cells : \A d \in Around(n) \cap Cells :
           ChunkOf(n) = ChunkOf(d) /\ SubAt(n) # NoSub /\ SubAt(d) # NoSub =>
             Exempt(k, d) \/ Flows(k, n, d)
  PROVE  Filled
<1>1. ASSUME NEW i \in 1 .. calls, NEW k \in Kinds, NEW b \in Beside({Order[i]}, {Order[i]})
      PROVE  (k = "sky" /\ Hidden(b[2])) \/ Flows(k, b[1], b[2])
  <2>1. PICK n \in Cells, d \in Cells :
          /\ d \in Around(n) /\ b = <<n, d>> /\ ChunkOf(n) = Order[i] /\ ChunkOf(d) = Order[i]
          /\ SubAt(n) # NoSub /\ SubAt(d) # NoSub
    BY DEF Beside
  <2>2. b[1] = n /\ b[2] = d  BY <2>1
  <2>. QED  BY <2>1, <2>2 DEF Exempt
<1>. QED  BY <1>1 DEF Filled

LEMMA CrossedIs ==
  ASSUME \A k \in Kinds, n \in Cells : \A d \in Around(n) \cap Cells :
           Crossing(n, d) /\ SubAt(n) # NoSub => Flows(k, n, d)
  PROVE  Crossed
<1>1. ASSUME NEW k \in Kinds, NEW b \in Beside({Centre}, Chunks \ {Centre})
      PROVE  \/ SubAt(b[2]) = <<>>
             \/ b[1][3] = Width - 1 /\ b[1][1] \in 1 .. Width - 2
             \/ Flows(k, b[1], b[2])
  <2>1. PICK n \in Cells, d \in Cells :
          /\ d \in Around(n) /\ b = <<n, d>> /\ ChunkOf(n) = Centre /\ ChunkOf(d) # Centre
          /\ SubAt(n) # NoSub /\ SubAt(d) # NoSub
    BY DEF Beside
  <2>2. b[1] = n /\ b[2] = d  BY <2>1
  <2>. QED  BY <2>1, <2>2 DEF Crossing
<1>. QED  BY <1>1 DEF Crossed

LEMMA SpreadReturnsDue == ASSUME JInv, SpreadReturns PROVE JInv'
<1>1. /\ IInv /\ IInv' /\ Inside /\ Across /\ stage = "spreadsky" /\ queue = <<>> /\ stage' = "over"
      /\ RemoveEmptySubChunks(Chunks)
  BY SpreadReturnsRight DEF JInv, SpreadReturns
<1>2. SubTyped /\ LightTyped  BY <1>1, TypeParts DEF IInv
<1>3. /\ Bared /\ LightTyped'
      /\ \A k \in Kinds, n \in Cells : SubAt(n)' # NoSub => light'[k][n] = light[k][n]
  <2>. DEFINE C == Chunks
  <2>1. C \in SUBSET Chunks /\ RemoveEmptySubChunks(C)  BY <1>1
  <2>. HIDE DEF C
  <2>. QED  BY <1>2, <2>1, RemovalBares
<1>4. SubTyped' /\ LevelsKept  BY <1>2, <1>3, BaringKeepsLevels DEF Bared
<1>5. Filled'
  <2>1. ASSUME NEW k \in Kinds, NEW n \in Cells, NEW d \in Around(n) \cap Cells,
               ChunkOf(n) = ChunkOf(d), SubAt(n)' # NoSub, SubAt(d)' # NoSub
        PROVE  (Exempt(k, d) \/ Flows(k, n, d))'
    <3>1. light'[k][n] = light[k][n] /\ light'[k][d] = light[k][d]  BY <1>3, <2>1
    <3>2. light'[k][d] >= light[k][d]  BY <1>2, <3>1, LightOfACell
    <3>3. Exempt(k, d) \/ Flows(k, n, d)  BY <1>1, <2>1, NothingDue
    <3>. QED  BY <1>2, <1>3, <1>4, <3>1, <3>2, <3>3, DoneStays
  <2>2. (\A k \in Kinds, n \in Cells : \A d \in Around(n) \cap Cells :
           ChunkOf(n) = ChunkOf(d) /\ SubAt(n) # NoSub /\ SubAt(d) # NoSub =>
             Exempt(k, d) \/ Flows(k, n, d))'
    BY <2>1
  <2>. QED  BY <2>2, FilledIs, PTL
<1>6. Crossed'
  <2>1. ASSUME NEW k \in Kinds, NEW n \in Cells, NEW d \in Around(n) \cap Cells,
               Crossing(n, d)', SubAt(n)' # NoSub
        PROVE  Flows(k, n, d)'
    <3>1. SubAt(d)' \notin {NoSub, <<>>} /\ SubAt(d)' = SubAt(d)  BY <1>3, <2>1 DEF Crossing, Bared
    <3>2. Crossing(n, d)  BY <2>1, <3>1 DEF Crossing
    <3>3. Flows(k, n, d) \/ SpreadDue(k, n, d)  BY <1>1, <3>2 DEF Across, Spreads
    <3>4. ~SpreadDue(k, n, d)
      <4>1. Elements(queue) = {}
        <5>1. 1 .. Len(<<>>) = {}  OBVIOUS
        <5>. QED  BY <1>1, <5>1 DEF Elements
      <4>. QED  BY <4>1 DEF SpreadDue
    <3>5. light'[k][n] = light[k][n] /\ light'[k][d] = light[k][d]  BY <1>3, <2>1, <3>1
    <3>6. FilterLevel(d)' = FilterLevel(d)  BY <1>4 DEF LevelsKept
    <3>. QED  BY <3>3, <3>4, <3>5, <3>6 DEF Flows
  <2>2. (\A k \in Kinds, n \in Cells : \A d \in Around(n) \cap Cells :
           Crossing(n, d) /\ SubAt(n) # NoSub => Flows(k, n, d))'
    BY <2>1
  <2>. QED  BY <2>2, CrossedIs, PTL
<1>. QED  BY <1>1, <1>5, <1>6 DEF JInv, NoSky, Inside, Across, Spreads

LEMMA StutterDue == ASSUME JInv, UNCHANGED vars PROVE JInv'
<1>1. /\ sub' = sub /\ light' = light /\ queue' = queue /\ stage' = stage /\ calls' = calls
      /\ IInv'
  BY StutterRight DEF vars, JInv
<1>2. JInv  OBVIOUS
<1>3. \A n : /\ ChunkOf(n)' = ChunkOf(n) /\ Around(n)' = Around(n) /\ SubAt(n)' = SubAt(n)
             /\ FilterLevel(n)' = FilterLevel(n) /\ Hidden(n)' = Hidden(n)
             /\ HighestNeighbour(n)' = HighestNeighbour(n)
  BY <1>1 DEF SubAt, FilterLevel, BlocksAt, Hidden, HighestNeighbour, HeightOf, HighestY, TopY
<1>4. \A k, n, d : /\ Flows(k, n, d)' = Flows(k, n, d) /\ Exempt(k, d)' = Exempt(k, d)
                   /\ FillDue(k, n, d)' = FillDue(k, n, d)
                   /\ SpreadDue(k, n, d)' = SpreadDue(k, n, d)
  BY <1>1, <1>3 DEF Flows, Exempt, FillDue, SpreadDue, Elements
<1>5. Kind' = Kind /\ Chunk' = Chunk /\ Fills' = Fills /\ Spreads' = Spreads
  BY <1>1 DEF Kind, Chunk, Fills, Spreads
<1>6. \A k, n, d : Due(k, n, d)' = Due(k, n, d)  BY <1>4, <1>5 DEF Due
<1>7. Inside'  BY <1>1, <1>2, <1>6 DEF JInv, Inside
<1>8. Across'  BY <1>1, <1>2, <1>3, <1>4, <1>5 DEF JInv, Across, Crossing
<1>9. NoSky'  BY <1>1, <1>2, <1>5 DEF JInv, NoSky, CellsOf
<1>10. (stage = "over" => Filled /\ Crossed)'
  <2>1. Beside({Centre}, Chunks \ {Centre})' = Beside({Centre}, Chunks \ {Centre})
        /\ \A c : Beside({c}, {c})' = Beside({c}, {c})
    BY <1>1 DEF Beside, SubAt
  <2>2. Filled' = Filled  BY <1>1, <1>3, <1>4, <2>1 DEF Filled
  <2>3. Crossed' = Crossed  BY <1>1, <1>3, <1>4, <2>1 DEF Crossed
  <2>. QED  BY <1>1, <1>2, <2>2, <2>3 DEF JInv
<1>. QED  BY <1>1, <1>7, <1>8, <1>9, <1>10 DEF JInv

\* Below a block of a column, or at it, what takes light has a layer.
LEMMA FilterBelowTop ==
  ASSUME SubTyped, NEW d \in Cells, FilterLevel(d) > 0
  PROVE  d[2] <= TopY(ChunkOf(d))
<1>1. SubAt(d) \notin {NoSub, <<>>}
  <2>1. SubAt(d) \in {NoSub, <<>>} => FilterLevel(d) = 0  BY FilterNeedsLayer
  <2>. QED  BY <2>1
<1>. QED  BY <1>1, CellPlaced, TopsFound DEF CellsOf

\* Beside a cell that the sky lights without a node, or below it, a cell is lit in the
\* same way, hidden, closed, or under one that has a node.
LEMMA SkySeen ==
  ASSUME SubTyped, NEW n \in Cells, NEW d \in Around(n) \cap Cells, ChunkOf(n) = ChunkOf(d),
         OpenToSky(n), ~NeedsSkyNode(n)
  PROVE  \/ Hidden(d)
         \/ OpenToSky(d)
         \/ FilterLevel(d) >= MaxLight - 1
         \/ /\ Above(d) \in Cells /\ ChunkOf(Above(d)) = ChunkOf(d)
            /\ OpenToSky(Above(d)) /\ NeedsSkyNode(Above(d))
<1>. DEFINE c == ChunkOf(n)
            h == HeightOf(n)
            g == HeightOf(d)
            top == HighestY(c)
            hn == HighestNeighbour(n)
<1>1. /\ c \in Chunks /\ n \in Points /\ d \in Points
      /\ n[2] \in 0 .. Height - 1 /\ d[2] \in 0 .. Height - 1 /\ Height \in Nat /\ Height > 1
      /\ n = <<n[1], n[2], n[3]>> /\ d = <<d[1], d[2], d[3]>>
  <2>1. c \in Chunks /\ Height \in Nat /\ Height > 1  BY CellPlaced, Sizes
  <2>2. n \in Points /\ d \in Points  BY Sizes DEF Cells, Points
  <2>3. n[2] \in 0 .. Height - 1 /\ d[2] \in 0 .. Height - 1  BY DEF Cells
  <2>4. n = <<n[1], n[2], n[3]>> /\ d = <<d[1], d[2], d[3]>>  BY <2>2 DEF Points
  <2>. QED  BY <2>1, <2>2, <2>3, <2>4
<1>2. top \in 0 .. Height - 1 /\ TopY(c) \in 0 .. Height - 1 /\ TopY(c) <= top
  BY <1>1, HighestYFound, TopsFound
<1>3. h \in 0 .. Height - 1 /\ g \in 0 .. Height - 1
  <2>1. HeightRight(n) /\ HeightRight(d)  BY HeightIsRight
  <2>. QED  BY <2>1 DEF HeightRight
<1>4. hn \in 0 .. Height - 1 /\ h <= hn /\ g <= hn
  <2>1. n \in Columns(n) /\ d \in Columns(n)  BY DEF Columns
  <2>. QED  BY <2>1, HighestNeighbourFound
<1>5. FilterLevel(ColumnCell(d, g)) > 0 \/ g = 0
  <2>1. HeightRight(d)  BY HeightIsRight
  <2>. QED  BY <1>3, <2>1 DEF HeightRight
<1>6. FilterLevel(d) \in 0 .. MaxLight /\ MaxLight \in Nat /\ MaxLight > 1  BY LevelsTyped, Sizes
<1>7. h < n[2] /\ n[2] <= top  BY DEF OpenToSky
<1>8. /\ n[2] - 1 = h => FilterLevel(<<n[1], n[2] - 1, n[3]>>) \notin 1 .. MaxLight - 2
      /\ ~(n[2] - 1 < (hn - 1) % Height)
  BY DEF NeedsSkyNode
<1>9. hn > 0 => (hn - 1) % Height = hn - 1
  <2>1. \A x \in 0 .. Height - 1 : x % Height = x  BY <1>1
  <2>. QED  BY <1>1, <1>4, <2>1
<1>10. hn = 0 => (hn - 1) % Height = Height - 1
  <2>1. (0 - 1) % Height = Height - 1  BY <1>1
  <2>. QED  BY <2>1
<1>11. OpenToSky(d) <=> g < d[2] /\ d[2] <= top  BY DEF OpenToSky
<1>12. d[2] > top => Hidden(d)
  <2>1. d[2] > top => d[2] > TopY(c)
    <3>. HIDE DEF top, c
    <3>. QED  BY <1>1, <1>2
  <2>. QED  BY <2>1 DEF Hidden
<1>. SUFFICES ASSUME d[2] <= g, d[2] <= top
              PROVE  \/ Hidden(d) \/ FilterLevel(d) >= MaxLight - 1
                     \/ /\ Above(d) \in Cells /\ ChunkOf(Above(d)) = ChunkOf(d)
                        /\ OpenToSky(Above(d)) /\ NeedsSkyNode(Above(d))
  <2>. HIDE DEF c, g, top, h, hn
  <2>. QED  BY <1>1, <1>2, <1>3, <1>11, <1>12
<1>13. d \in {<<n[1] - 1, n[2], n[3]>>, <<n[1] + 1, n[2], n[3]>>,
              <<n[1], n[2], n[3] - 1>>, <<n[1], n[2], n[3] + 1>>}
             \cup (IF n[2] > 0 THEN {<<n[1], n[2] - 1, n[3]>>} ELSE {})
             \cup (IF n[2] < Height - 1 THEN {<<n[1], n[2] + 1, n[3]>>} ELSE {})
  BY <1>1, AroundCell
<1>14. \/ d[2] = n[2]
       \/ d = <<n[1], n[2] - 1, n[3]>> /\ d[1] = n[1] /\ d[2] = n[2] - 1 /\ d[3] = n[3]
       \/ d[1] = n[1] /\ d[2] = n[2] + 1 /\ d[3] = n[3]
  BY <1>13
<1>15. d[1] = n[1] /\ d[3] = n[3] => g = h  BY <1>1, SameColumn
<1>. HIDE DEF h, g, top, hn, c
<1>16. CASE d[1] = n[1] /\ d[2] = n[2] + 1 /\ d[3] = n[3]
  BY <1>1, <1>3, <1>7, <1>15, <1>16
<1>17. CASE d = <<n[1], n[2] - 1, n[3]>> /\ d[1] = n[1] /\ d[2] = n[2] - 1 /\ d[3] = n[3]
  <2>1. g = h /\ n[2] - 1 = h /\ d[2] = h  BY <1>1, <1>3, <1>7, <1>15, <1>17
  <2>2. FilterLevel(d) \notin 1 .. MaxLight - 2  BY <1>8, <1>17, <2>1
  <2>3. CASE FilterLevel(d) > 0  BY <1>6, <2>2, <2>3
  <2>4. CASE FilterLevel(d) = 0
    <3>1. h = 0
      <4>1. ColumnCell(d, g) = d  BY <1>1, <2>1 DEF ColumnCell
      <4>2. ~(FilterLevel(d) > 0)  BY <2>4
      <4>. QED  BY <1>5, <2>1, <4>1, <4>2
    <3>2. hn = 1  BY <1>1, <1>4, <1>8, <1>9, <1>10, <2>1, <3>1
    <3>3. HighestNeighbour(d) = 1  BY <1>17, <3>2, HighestNeighbourOfColumn DEF hn
    <3>. QED  BY <2>1, <3>1, <3>3 DEF Hidden
  <2>. QED  BY <1>6, <2>3, <2>4
<1>18. CASE d[2] = n[2]
  <2>1. hn = d[2] /\ g = d[2] /\ g > 0  BY <1>1, <1>3, <1>4, <1>7, <1>8, <1>9, <1>18
  <2>2. FilterLevel(d) > 0
    <3>1. ColumnCell(d, g) = d  BY <1>1, <2>1 DEF ColumnCell
    <3>. QED  BY <1>5, <2>1, <3>1
  <2>3. CASE d[2] = top
    <3>1. d[2] <= TopY(c)  BY <2>2, FilterBelowTop DEF c
    <3>2. d[2] = TopY(c)  BY <1>1, <1>2, <2>3, <3>1
    <3>. QED  BY <2>2, <3>2 DEF Hidden, c
  <2>4. CASE d[2] # top
    <3>1. d[2] < top /\ d[2] + 1 \in 0 .. Height - 1  BY <1>1, <1>2, <2>4
    <3>2. Above(d) \in Cells  BY <3>1 DEF Above, Cells
    <3>3. Above(d) \in Points /\ Above(d)[1] = d[1] /\ Above(d)[3] = d[3] /\ Above(d)[2] = d[2] + 1
          /\ <<Above(d)[1], Above(d)[2] - 1, Above(d)[3]>> = d
      BY <1>1, <3>2, Sizes DEF Above, Cells, Points
    <3>4. HeightOf(Above(d)) = g /\ ChunkOf(Above(d)) = c
      BY <1>1, <3>3, SameColumn DEF g, c
    <3>5. OpenToSky(Above(d))
      <4>1. g < Above(d)[2] /\ Above(d)[2] <= top  BY <1>1, <1>2, <1>3, <2>1, <3>1, <3>3
      <4>. QED  BY <3>4, <4>1 DEF OpenToSky, top
    <3>6. CASE FilterLevel(d) <= MaxLight - 2
      <4>1. Above(d)[2] - 1 = HeightOf(Above(d))  BY <1>1, <2>1, <3>3, <3>4
      <4>2. FilterLevel(d) \in 1 .. MaxLight - 2  BY <1>6, <2>2, <3>6
      <4>3. NeedsSkyNode(Above(d))  BY <3>3, <4>1, <4>2 DEF NeedsSkyNode
      <4>. QED  BY <3>2, <3>4, <3>5, <4>3 DEF c
    <3>7. CASE ~(FilterLevel(d) <= MaxLight - 2)  BY <1>6, <3>7
    <3>. QED  BY <3>6, <3>7
  <2>. QED  BY <2>3, <2>4
<1>. QED  BY <1>14, <1>16, <1>17, <1>18

LEMMA FillSkyLightDue == ASSUME JInv, FillSkyLight PROVE JInv'
<1>1. /\ IInv /\ IInv' /\ Inside /\ NoSky /\ stage = "fillblock" /\ queue = <<>> /\ stage' = "fillsky"
  BY FillSkyLightRight DEF JInv, FillSkyLight
<1>2. /\ Chunk \in Chunks /\ Chunk' = Chunk
      /\ Made(HeightmapCells(Chunk)) /\ LevelsKept /\ LightTyped'
      /\ \A n \in Cells :
           /\ light'["block"][n] = light["block"][n]
           /\ light'["sky"][n] = IF ChunkOf(n) = Chunk /\ OpenToSky(n) /\ ~NeedsSkyNode(n)
                                 THEN MaxLight ELSE light["sky"][n]
      /\ \A n \in CellsOf(Chunk) :
           OpenToSky(n) /\ NeedsSkyNode(n) => Node(n, MaxLight, FALSE) \in Elements(queue')
  BY <1>1, FillSkyStarts
<1>3. SubTyped /\ LightTyped /\ SubTyped' /\ MaxLight \in Int /\ MaxLight > 1
  BY <1>1, <1>2, TypeParts, Sizes DEF IInv, Made
<1>4. \A n \in CellsOf(Chunk) : light["sky"][n] = 0  BY <1>1 DEF NoSky
<1>5. Kind' = "sky" /\ Fills' /\ Elements(queue)' = Elements(queue') /\ "sky" \in Kinds
  BY <1>1 DEF Kind, Fills, Elements, Kinds
<1>6. ASSUME NEW n \in Cells, NEW d \in Around(n) \cap Cells, ChunkOf(n) = Chunk, ChunkOf(d) = Chunk
      PROVE  Exempt("sky", d)' \/ Flows("sky", n, d)' \/ FillDue("sky", n, d)'
  <2>. DEFINE was == light'["sky"][n]
              now == light'["sky"][d]
              filter == FilterLevel(d)
  <2>1. /\ was = IF OpenToSky(n) /\ ~NeedsSkyNode(n) THEN MaxLight ELSE 0
        /\ now = IF OpenToSky(d) /\ ~NeedsSkyNode(d) THEN MaxLight ELSE 0
    BY <1>2, <1>4, <1>6 DEF CellsOf
  <2>2. filter \in Int /\ filter >= 0 /\ FilterLevel(d)' = filter
    BY <1>2, <1>3, LevelsTyped, Sizes DEF LevelsKept
  <2>3. now >= was - filter - 1 => Flows("sky", n, d)'
    BY <2>2 DEF Flows
  <2>4. now >= 0 /\ now \in Int /\ was \in Int /\ was <= MaxLight  BY <1>3, <2>1
  <2>5. CASE ~(OpenToSky(n) /\ ~NeedsSkyNode(n))
    <3>1. was = 0  BY <2>1, <2>5
    <3>. HIDE DEF was, now, filter
    <3>. QED  BY <2>2, <2>3, <2>4, <3>1
  <2>6. CASE OpenToSky(n) /\ ~NeedsSkyNode(n)
    <3>1. CASE Hidden(d)
      <4>1. Hidden(d)'  BY <1>2, <1>3, <3>1, HiddenStays
      <4>. QED  BY <4>1 DEF Exempt
    <3>2. CASE OpenToSky(d)
      <4>1. CASE NeedsSkyNode(d)
        <5>. DEFINE q == Node(d, MaxLight, FALSE)
        <5>1. q \in Elements(queue)'  BY <1>2, <1>5, <1>6, <3>2, <4>1 DEF CellsOf
        <5>2. q.at = d /\ q.level = MaxLight  BY DEF Node
        <5>. HIDE DEF q
        <5>3. MaxLight >= was - filter - 1
          <6>. HIDE DEF was, filter
          <6>. QED  BY <1>3, <2>2, <2>4
        <5>4. q.level >= light'["sky"][n] - FilterLevel(d)' - 1  BY <2>2, <5>2, <5>3
        <5>. QED  BY <5>1, <5>2, <5>4 DEF FillDue
      <4>2. CASE ~NeedsSkyNode(d)
        <5>1. now = MaxLight  BY <2>1, <3>2, <4>2
        <5>. HIDE DEF was, now, filter
        <5>. QED  BY <1>3, <2>2, <2>3, <2>4, <5>1
      <4>. QED  BY <4>1, <4>2
    <3>3. CASE FilterLevel(d) >= MaxLight - 1
      <4>1. filter >= MaxLight - 1  BY <3>3
      <4>. HIDE DEF was, now, filter
      <4>. QED  BY <1>3, <2>2, <2>3, <2>4, <4>1
    <3>4. CASE /\ Above(d) \in Cells /\ ChunkOf(Above(d)) = ChunkOf(d)
               /\ OpenToSky(Above(d)) /\ NeedsSkyNode(Above(d))
      <4>. DEFINE q == Node(Above(d), MaxLight, FALSE)
      <4>1. q \in Elements(queue)'  BY <1>2, <1>5, <1>6, <3>4 DEF CellsOf
      <4>2. q.at = Above(d) /\ q.level = MaxLight  BY DEF Node
      <4>. HIDE DEF q
      <4>3. light'["sky"][Above(d)] = 0  BY <1>2, <1>4, <1>6, <3>4 DEF CellsOf
      <4>4. light'["sky"][Above(d)] < MaxLight  BY <1>3, <4>3
      <4>. QED  BY <4>1, <4>2, <4>4 DEF FillDue, Above
    <3>. QED  BY <1>3, <1>6, <2>6, <3>1, <3>2, <3>3, <3>4, SkySeen
  <2>. QED  BY <2>5, <2>6
<1>7. Inside'
  <2>1. ASSUME NEW k \in Kinds, NEW n \in Cells, NEW d \in Around(n) \cap Cells, ChunkOf(n) = ChunkOf(d)
        PROVE  \/ Exempt(k, d)' \/ Flows(k, n, d)'
               \/ k = "sky" /\ ChunkOf(n) = Chunk /\ FillDue(k, n, d)'
    <3>1. CASE k = "sky" /\ ChunkOf(n) = Chunk  BY <1>6, <2>1, <3>1
    <3>2. CASE ~(k = "sky" /\ ChunkOf(n) = Chunk)
      <4>1. Exempt(k, d) \/ Flows(k, n, d)  BY <1>1, <2>1, NothingDue
      <4>2. light'[k][n] = light[k][n] /\ light'[k][d] = light[k][d]
        BY <1>2, <2>1, <3>2 DEF Kinds
      <4>3. light'[k][d] >= light[k][d]  BY <1>3, <4>2, LightOfACell
      <4>. QED  BY <1>2, <1>3, <4>1, <4>2, <4>3, DoneStays
    <3>. QED  BY <3>1, <3>2
  <2>. QED  BY <1>2, <1>5, <2>1 DEF Inside, Due
<1>. QED  BY <1>1, <1>7 DEF JInv, NoSky, Across, Spreads

LEMMA StepDue == ASSUME JInv, [Next]_vars PROVE JInv'
BY FillLightDue, FillSkyLightDue, FillPropagateDue, FillReturnsDue, SpreadBlockLightDue,
   SpreadSkyLightDue, SpreadPropagateDue, SpreadReturnsDue, StutterDue DEF Next

LEMMA AlwaysDue == Spec => []JInv
<1>1. JInv /\ [Next]_vars => JInv'  BY StepDue
<1>. QED  BY InitDue, <1>1, PTL DEF Spec

\* ChunksFilled: FillLight leaves no cell of a chunk darker than its neighbours in the
\* chunk make it, but for those hidden from the sky, and SpreadLight keeps it so
\* (light.go:77-96, 212-278, 424-506).
THEOREM ChunksFilled == Spec => []Filled
<1>1. JInv => Filled
  <2>. SUFFICES ASSUME JInv PROVE Filled  OBVIOUS
  <2>1. CASE stage = "idle"
    <3>1. Inside /\ queue = <<>>  BY <2>1 DEF JInv, IInv, Stages
    <3>2. \A k \in Kinds, n \in Cells : \A d \in Around(n) \cap Cells :
            ChunkOf(n) = ChunkOf(d) => Exempt(k, d) \/ Flows(k, n, d)
      BY <2>1, <3>1, NothingDue
    <3>. QED  BY <3>2, FilledIs
  <2>2. CASE stage = "over"  BY <2>2 DEF JInv
  <2>3. CASE stage \notin {"idle", "over"}  BY <2>3 DEF Filled
  <2>. QED  BY <2>1, <2>2, <2>3
<1>. QED  BY AlwaysDue, <1>1, PTL

\* CentreCrossed: SpreadLight takes the light of the middle chunk into the layers of the
\* chunks beside it, but not across its +z side (light.go:309-420, 424-462).
THEOREM CentreCrossed == Spec => []Crossed
<1>1. JInv => Crossed  BY DEF JInv, Crossed
<1>. QED  BY AlwaysDue, <1>1, PTL
=============================================================================
