-------------------------- MODULE ChunkStore_proofs --------------------------
(***************************************************************************)
(* Proofs about ChunkStore, for any players, worlds, positions and radii   *)
(* and any number of sessions and chunks.                                  *)
(***************************************************************************)
EXTENDS ChunkStore, SequenceTheorems, TLAPS

Chunks == 1 .. Len(made)

\* What the calls under way are about; only sessions add chunks, and only those
\* the player has had.
CallsFit ==
  \A g \in Goroutines :
    /\ pc[g] \notin {"idle", "use"} => at[g] \in Positions
    /\ pc[g] = "decode" => obj[g] \in Worlds
    /\ pc[g] \in {"install", "set", "read"} => obj[g] \in Chunks /\ made[obj[g]].at = at[g]
    /\ pc[g] = "install" => made[obj[g]].by = Player(g)
    /\ pc[g] \in {"add", "decode", "install"} => g[2] # 0
    /\ pc[g] # "idle" => g[2] <= session[Player(g)]

\* The reader of a session waits until the session is connected.
Waiting ==
  \A g \in Goroutines :
    LET p == Player(g)
    IN  g[2] = session[p] /\ arriving[p] /\ ~leaving[p] => pc[g] = "idle"

\* On its first server a player has one world, and NopSession's runtime ID before
\* its own.
FirstServer ==
  \A p \in Players : session[p] = 1 =>
    /\ ~arriving[p]
    /\ \A o \in Chunks : made[o].by = p =>
         made[o].world = world[p] /\ made[o].viewers \subseteq {rid[p], NopId}

\* A player holds the chunks it has added itself.
HeldOwn ==
  \A p \in Players, q \in Positions : held[p][q] # 0 => made[held[p][q]].by = p

\* On its first server, the chunk that is being added is the last the player has registered
\* at its place.
FirstAdding ==
  \A g \in Goroutines : session[Player(g)] = 1 =>
    /\ pc[g] = "decode" => obj[g] = world[Player(g)]
    /\ pc[g] = "install" =>
         \A w \in Worlds :
           LET o == entry[w][at[g]]
           IN  o # 0 /\ made[o].by = Player(g) => o = obj[g]

\* OwnWorld, from the step that asks for the world on.
WorldAsked ==
  \A g \in Goroutines :
    g[2] = session[Player(g)] /\ ~leaving[Player(g)] /\ pc[g] = "decode" =>
      obj[g] = world[Player(g)]

IInv == /\ TypeOK /\ CallsFit /\ Waiting /\ HeldOwn /\ FirstServer /\ FirstAdding
        /\ WorldAsked /\ LeakOnlyBySession /\ BackendUpdateLands /\ OwnWorld

-----------------------------------------------------------------------------
(* Goroutines, and Init. *)

LEMMA Callers ==
  /\ \A g \in Goroutines : /\ Player(g) \in Players /\ g[2] \in 0 .. MaxSessions
                           /\ g[2] \in Int /\ 0 <= g[2]
  /\ \A g, h \in Goroutines : Player(g) = Player(h) /\ g[2] = h[2] => g = h
  /\ MaxSessions \in Nat /\ 1 <= MaxSessions
  BY StoreAssumption DEF Goroutines, Player

\* Two goroutines that add chunks for a player on its first server are one.
LEMMA OneAdder ==
  ASSUME TypeOK, CallsFit, NEW g \in Goroutines, NEW h \in Goroutines,
         Player(g) = Player(h), session[Player(g)] = 1,
         g[2] # 0, h[2] # 0, pc[g] # "idle", pc[h] # "idle"
  PROVE  g = h
<1>1. g[2] <= 1 /\ h[2] <= 1  BY DEF CallsFit
<1>. QED  BY <1>1, Callers

\* Where chunks are registered there is one.
LEMMA MadeChunks ==
  ASSUME TypeOK
  PROVE  /\ Len(made) \in Nat
         /\ \A o \in Chunks : /\ made[o] \in Chunk /\ o \in Nat /\ o # 0
                              /\ made[o].by \in Players /\ made[o].world \in Worlds
                              /\ made[o].at \in Positions /\ made[o].viewers \subseteq Ids
         /\ \A p \in Players, q \in Positions :
              held[p][q] # 0 => held[p][q] \in Chunks /\ made[held[p][q]].at = q
         /\ \A w \in Worlds, q \in Positions :
              entry[w][q] # 0 => /\ entry[w][q] \in Chunks /\ made[entry[w][q]].by \in Players
                                 /\ made[entry[w][q]].world = w /\ made[entry[w][q]].at = q
<1>1. Len(made) \in Nat /\ \A o \in Chunks : made[o] \in Chunk  BY DEF TypeOK, Chunks
<1>2. \A o \in Chunks : /\ made[o].by \in Players /\ made[o].world \in Worlds
                        /\ made[o].at \in Positions /\ made[o].viewers \subseteq Ids
  BY <1>1 DEF Chunk
<1>3. \A p \in Players, q \in Positions : held[p][q] # 0 => held[p][q] \in Chunks
  BY <1>1 DEF TypeOK, Chunks
<1>4. \A w \in Worlds, q \in Positions : entry[w][q] # 0 => entry[w][q] \in Chunks
  BY <1>1 DEF TypeOK, Chunks
<1>. QED  BY <1>1, <1>2, <1>3, <1>4 DEF TypeOK, Chunks

LEMMA InitIInv == Init => IInv
<1>. SUFFICES ASSUME Init PROVE IInv  OBVIOUS
<1>. USE Callers DEF Init
<1>1. Len(made) = 0 /\ made \in Seq(Chunk) /\ Chunks = {}
  BY EmptySeq DEF Chunks
<1>2. TypeOK
  <2>1. <<0, 0>> \in Int \X Int /\ 0 \in 0 .. Len(made) /\ 1 \in 1 .. MaxSessions /\ 0 \in Nat
    BY <1>1
  <2>2. /\ held \in [Players -> [Positions -> 0 .. Len(made)]]
        /\ entry \in [Worlds -> [Positions -> 0 .. Len(made)]]
        /\ \A p \in Players, q \in Positions : held[p][q] = 0
        /\ \A w \in Worlds, q \in Positions : entry[w][q] = 0
    BY <2>1
  <2>3. /\ pc \in [Goroutines -> Labels] /\ at \in [Goroutines -> Int \X Int]
        /\ obj \in [Goroutines -> Worlds \cup Nat]
    BY <2>1 DEF Labels
  <2>4. /\ session \in [Players -> 1 .. MaxSessions] /\ arriving \in [Players -> BOOLEAN]
        /\ leaving \in [Players -> BOOLEAN] /\ here \in [Players -> Int \X Int]
        /\ closed \in [Players -> BOOLEAN] /\ useChunks \in [Players -> BOOLEAN]
        /\ rid \in [Players -> Ids]
    BY <2>1 DEF Ids
  <2>. QED  BY <1>1, <2>2, <2>3, <2>4 DEF TypeOK
<1>3. CallsFit  BY DEF CallsFit
<1>4. Waiting  BY DEF Waiting
<1>5. FirstServer /\ HeldOwn  BY <1>1 DEF FirstServer, HeldOwn
<1>6. FirstAdding /\ WorldAsked  BY DEF FirstAdding, WorldAsked
<1>7. LeakOnlyBySession  BY DEF LeakOnlyBySession
<1>8. BackendUpdateLands /\ OwnWorld  BY DEF BackendUpdateLands, OwnWorld
<1>. QED  BY <1>2, <1>3, <1>4, <1>5, <1>6, <1>7, <1>8 DEF IInv

-----------------------------------------------------------------------------
(* Steps that change what one goroutine does, and neither the chunks nor     *)
(* where they are held and registered.                                       *)

LEMMA CallKeeps ==
  ASSUME IInv, NEW g \in Goroutines, NEW l \in Labels, NEW q \in Int \X Int, NEW o \in Worlds \cup Nat,
         UNCHANGED <<playerVars, world, radius, held, closed, worldVars>>,
         here' \in [Players -> Int \X Int], useChunks' \in [Players -> BOOLEAN],
         panicked' \in BOOLEAN,
         pc' = [pc EXCEPT ![g] = l], at' = [at EXCEPT ![g] = q], obj' = [obj EXCEPT ![g] = o],
         pc[g] # "install", l # "install",
         l # "idle" => pc[g] # "idle" \/ Awake(g),
         l \notin {"idle", "use"} => q \in Positions,
         l = "decode" => o = world[Player(g)] \/ (pc[g] = "decode" /\ o = obj[g]),
         l \in {"set", "read"} => o = held[Player(g)][q] /\ o # 0,
         l \in {"add", "decode"} => g[2] # 0
  PROVE  IInv'
<1>. USE DEF IInv
<1>. USE Callers
<1>1. /\ UNCHANGED <<session, arriving, leaving, rid, world, radius, held, closed, made, entry>>
      /\ pc'[g] = l /\ at'[g] = q /\ obj'[g] = o
      /\ \A h \in Goroutines : h # g => pc'[h] = pc[h] /\ at'[h] = at[h] /\ obj'[h] = obj[h]
      /\ pc' \in [Goroutines -> Labels] /\ at' \in [Goroutines -> Int \X Int]
      /\ obj' \in [Goroutines -> Worlds \cup Nat]
  BY DEF TypeOK, playerVars, worldVars
<1>2. Player(g) \in Players  OBVIOUS
<1>3. pc'[g] # "idle" => g[2] <= session[Player(g)]
  BY <1>1, <1>2 DEF CallsFit, Awake, TypeOK
<1>4. l \in {"set", "read"} => o \in Chunks /\ made[o].at = q
  <2>. SUFFICES ASSUME l \in {"set", "read"} PROVE o \in Chunks /\ made[o].at = q  OBVIOUS
  <2>1. q \in Positions /\ o = held[Player(g)][q] /\ o # 0  OBVIOUS
  <2>2. o \in 0 .. Len(made) /\ Len(made) \in Nat  BY <1>2, <2>1 DEF TypeOK
  <2>. QED  BY <1>2, <2>1, <2>2 DEF TypeOK, Chunks
<1>5. TypeOK'
  <2>1. /\ made' \in Seq(Chunk)
        /\ held' \in [Players -> [Positions -> 0 .. Len(made')]]
        /\ \A p \in Players, r \in Positions : held'[p][r] # 0 => made'[held'[p][r]].at = r
        /\ entry' \in [Worlds -> [Positions -> 0 .. Len(made')]]
        /\ \A w \in Worlds, r \in Positions : entry'[w][r] # 0 =>
             made'[entry'[w][r]].world = w /\ made'[entry'[w][r]].at = r
    BY <1>1 DEF TypeOK
  <2>2. /\ session' \in [Players -> 1 .. MaxSessions] /\ arriving' \in [Players -> BOOLEAN]
        /\ leaving' \in [Players -> BOOLEAN]
        /\ rid' \in [Players -> Ids] /\ world' \in [Players -> Worlds]
        /\ radius' \in [Players -> Radii] /\ closed' \in [Players -> BOOLEAN]
    BY <1>1 DEF TypeOK
  <2>. QED  BY <1>1, <2>1, <2>2, Zenon DEF TypeOK
<1>6. CallsFit'
  <2>. SUFFICES ASSUME NEW h \in Goroutines
                PROVE  /\ pc'[h] \notin {"idle", "use"} => at'[h] \in Positions
                       /\ pc'[h] = "decode" => obj'[h] \in Worlds
                       /\ pc'[h] \in {"install", "set", "read"} =>
                            obj'[h] \in Chunks /\ made[obj'[h]].at = at'[h]
                       /\ pc'[h] = "install" => made[obj'[h]].by = Player(h)
                       /\ pc'[h] \in {"add", "decode", "install"} => h[2] # 0
                       /\ pc'[h] # "idle" => h[2] <= session[Player(h)]
    BY <1>1 DEF CallsFit, Chunks
  <2>1. CASE h = g
    <3>1. l = "decode" => o \in Worlds
      <4>1. world[Player(g)] \in Worlds  BY <1>2 DEF TypeOK
      <4>2. pc[g] = "decode" => obj[g] \in Worlds  BY DEF CallsFit
      <4>. QED  BY <4>1, <4>2, Zenon
    <3>. QED  BY <1>1, <1>3, <1>4, <2>1, <3>1
  <2>2. CASE h # g  BY <1>1, <2>2 DEF CallsFit
  <2>. QED  BY <2>1, <2>2
<1>7. Waiting'
  <2>. SUFFICES ASSUME NEW h \in Goroutines, h[2] = session[Player(h)], arriving[Player(h)],
                       ~leaving[Player(h)]
                PROVE  pc'[h] = "idle"
    BY <1>1 DEF Waiting
  <2>1. CASE h = g  BY <1>1, <2>1 DEF Waiting, Awake, TypeOK
  <2>2. CASE h # g  BY <1>1, <2>2 DEF Waiting
  <2>. QED  BY <2>1, <2>2
<1>8. FirstServer' /\ HeldOwn'  BY <1>1 DEF FirstServer, HeldOwn, Chunks
<1>9. FirstAdding'
  <2>. SUFFICES ASSUME NEW h \in Goroutines, session[Player(h)] = 1
                PROVE  /\ pc'[h] = "decode" => obj'[h] = world[Player(h)]
                       /\ pc'[h] = "install" =>
                            \A w \in Worlds :
                              LET c == entry[w][at'[h]]
                              IN  c # 0 /\ made[c].by = Player(h) => c = obj'[h]
    BY <1>1 DEF FirstAdding
  <2>1. CASE h = g  BY <1>1, <2>1 DEF FirstAdding
  <2>2. CASE h # g  BY <1>1, <2>2 DEF FirstAdding
  <2>. QED  BY <2>1, <2>2
<1>10. WorldAsked' /\ OwnWorld'
  <2>. SUFFICES ASSUME NEW h \in Goroutines, h[2] = session[Player(h)], ~leaving[Player(h)]
                PROVE  /\ pc'[h] = "decode" => obj'[h] = world[Player(h)]
                       /\ pc'[h] = "install" => made[obj'[h]].world = world[Player(h)]
    BY <1>1 DEF WorldAsked, OwnWorld
  <2>1. CASE h = g  BY <1>1, <2>1 DEF WorldAsked
  <2>2. CASE h # g  BY <1>1, <2>2 DEF WorldAsked, OwnWorld
  <2>. QED  BY <2>1, <2>2
<1>11. LeakOnlyBySession'
  <2>1. \A c : Installing(c) => Installing(c)'
    <3>. SUFFICES ASSUME NEW c, NEW h \in Goroutines, pc[h] = "install", obj[h] = c
                  PROVE  pc'[h] = "install" /\ obj'[h] = c
      BY DEF Installing
    <3>. QED  BY <1>1
  <2>. QED  BY <1>1, <2>1 DEF LeakOnlyBySession, Renamed
<1>12. BackendUpdateLands'
  <2>. SUFFICES ASSUME NEW h \in Goroutines, h[2] # 0, pc'[h] = "set", session[Player(h)] = 1
                PROVE  held[Player(h)][at'[h]] \in {0, obj'[h]}
    BY <1>1 DEF BackendUpdateLands
  <2>1. CASE h = g  BY <1>1, <2>1
  <2>2. CASE h # g  BY <1>1, <2>2 DEF BackendUpdateLands
  <2>. QED  BY <2>1, <2>2
<1>. QED  BY <1>5, <1>6, <1>7, <1>8, <1>9, <1>10, <1>11, <1>12

LEMMA CallsKeep ==
  ASSUME IInv, NEW g \in Goroutines, Enter(g) \/ Use(g) \/ Find(g) \/ Touched(g) \/ AddWorld(g)
  PROVE  IInv'
<1>. USE Callers DEF IInv
<1>1. /\ UNCHANGED <<playerVars, world, here, radius, held, closed, worldVars, useChunks>>
      /\ here \in [Players -> Int \X Int] /\ useChunks \in [Players -> BOOLEAN]
      /\ panicked \in BOOLEAN
  BY DEF Enter, Use, Find, Touched, AddWorld, managerVars, TypeOK
<1>2. /\ pc[g] \in Labels /\ at[g] \in Int \X Int /\ obj[g] \in Worlds \cup Nat
      /\ at = [at EXCEPT ![g] = at[g]] /\ obj = [obj EXCEPT ![g] = obj[g]]
      /\ pc = [pc EXCEPT ![g] = pc[g]] /\ Player(g) \in Players
      /\ <<0, 0>> \in Int \X Int /\ 0 \in Worlds \cup Nat
      /\ world[Player(g)] \in Worlds \cup Nat
      /\ \A q \in Positions : q \in Int \X Int
  BY StoreAssumption DEF TypeOK
<1>3. CASE Enter(g)
  <2>1. /\ pc[g] = "idle" /\ Awake(g) /\ pc' = [pc EXCEPT ![g] = "use"]
        /\ UNCHANGED <<at, obj, panicked>>
    BY <1>3 DEF Enter, Goto, callVars
  <2>. QED  BY <1>1, <1>2, <2>1, CallKeeps DEF Labels
<1>4. CASE Use(g)
  <2>1. pc[g] = "use"  BY <1>4 DEF Use
  <2>2. CASE panicked' = TRUE /\ UNCHANGED <<pc, callVars>>
    BY <1>1, <1>2, <2>1, <2>2, CallKeeps DEF Labels, callVars
  <2>3. CASE \E m \in Calls(g), q \in Positions :
               /\ Goto(g, m) /\ at' = [at EXCEPT ![g] = q] /\ UNCHANGED <<obj, panicked>>
    <3>1. PICK m \in Calls(g), q \in Positions :
            /\ pc' = [pc EXCEPT ![g] = m] /\ at' = [at EXCEPT ![g] = q]
            /\ UNCHANGED <<obj, panicked>>
      BY <2>3 DEF Goto
    <3>2. m \in {"update", "get", "move", "add"} /\ (m = "add" => g[2] # 0)
      BY DEF Calls
    <3>3. m \in Labels /\ m \notin {"idle", "install", "decode", "set", "read"}
      BY <3>2 DEF Labels
    <3>4. q \in Int \X Int /\ q \in Positions /\ obj' = [obj EXCEPT ![g] = obj[g]]
      BY <1>2, <3>1
    <3>. QED  BY <1>1, <1>2, <2>1, <3>1, <3>2, <3>3, <3>4, CallKeeps
  <2>4. CASE Return(g) /\ UNCHANGED panicked
    BY <1>1, <1>2, <2>1, <2>4, CallKeeps DEF Labels, Return, Goto
  <2>. QED  BY <1>4, <2>2, <2>3, <2>4 DEF Use
<1>5. CASE Find(g)
  <2>1. pc[g] \in {"update", "get"} /\ UNCHANGED panicked  BY <1>5 DEF Find
  <2>2. CASE Lookup(g) = 0
    <3>1. Return(g)  BY <1>5, <2>2 DEF Find
    <3>. QED  BY <1>1, <1>2, <2>1, <3>1, CallKeeps DEF Labels, Return, Goto
  <2>3. CASE Lookup(g) # 0
    <3>1. PICK l \in {"set", "read"} :
            /\ pc' = [pc EXCEPT ![g] = l] /\ obj' = [obj EXCEPT ![g] = Lookup(g)]
            /\ UNCHANGED at
      BY <1>5, <2>3 DEF Find, Goto
    <3>2. at[g] \in Positions  BY <2>1 DEF CallsFit
    <3>3. Lookup(g) \in Worlds \cup Nat  BY <1>2, <3>2 DEF Lookup, TypeOK
    <3>4. l \in Labels /\ l \notin {"idle", "install", "decode", "add"}  BY DEF Labels
    <3>5. at' = [at EXCEPT ![g] = at[g]]  BY <1>2, <3>1
    <3>6. Lookup(g) = held[Player(g)][at[g]]  BY DEF Lookup
    <3>. QED  BY <1>1, <1>2, <2>1, <2>3, <3>1, <3>2, <3>3, <3>4, <3>5, <3>6, CallKeeps
  <2>. QED  BY <2>2, <2>3
<1>6. CASE Touched(g)
  <2>1. pc[g] \in {"set", "read"} /\ Return(g) /\ UNCHANGED panicked  BY <1>6 DEF Touched
  <2>. QED  BY <1>1, <1>2, <2>1, CallKeeps DEF Labels, Return, Goto
<1>7. CASE AddWorld(g)
  <2>1. /\ pc[g] = "add" /\ pc' = [pc EXCEPT ![g] = "decode"]
        /\ obj' = [obj EXCEPT ![g] = world[Player(g)]] /\ UNCHANGED <<at, panicked>>
    BY <1>7 DEF AddWorld, Goto
  <2>2. at[g] \in Positions /\ g[2] # 0  BY <2>1 DEF CallsFit
  <2>. QED  BY <1>1, <1>2, <2>1, <2>2, CallKeeps DEF Labels
<1>. QED  BY <1>3, <1>4, <1>5, <1>6, <1>7

LEMMA AddFailsKeeps ==
  ASSUME IInv, NEW g \in Goroutines, AddFails(g)
  PROVE  IInv'
<1>. USE Callers DEF IInv
<1>1. /\ pc[g] = "decode"
      /\ UNCHANGED <<playerVars, world, here, radius, held, closed, worldVars>>
      /\ here \in [Players -> Int \X Int] /\ useChunks' \in [Players -> BOOLEAN]
      /\ panicked' \in BOOLEAN
  BY DEF AddFails, TypeOK
<1>2. CASE Return(g)
  <2>1. <<0, 0>> \in Int \X Int /\ 0 \in Worlds \cup Nat  OBVIOUS
  <2>. QED  BY <1>1, <1>2, <2>1, CallKeeps DEF Labels, Return, Goto
<1>3. CASE UNCHANGED <<pc, callVars>>
  <2>1. /\ pc[g] \in Labels /\ at[g] \in Int \X Int /\ obj[g] \in Worlds \cup Nat
        /\ at = [at EXCEPT ![g] = at[g]] /\ obj = [obj EXCEPT ![g] = obj[g]]
        /\ pc = [pc EXCEPT ![g] = pc[g]] /\ Player(g) \in Players
    BY DEF TypeOK
  <2>2. at[g] \in Positions /\ g[2] # 0  BY <1>1 DEF CallsFit
  <2>. QED  BY <1>1, <1>3, <2>1, <2>2, CallKeeps DEF callVars
<1>. QED  BY <1>2, <1>3 DEF AddFails

-----------------------------------------------------------------------------
(* Steps of the player. *)

LEMMA OutsideKeeps ==
  ASSUME IInv, \/ \E p \in Players : UpdateRadius(p) \/ Leave(p)
               \/ panicked' = TRUE
                    /\ UNCHANGED <<playerVars, managerVars, worldVars, pc, callVars>>
               \/ UNCHANGED vars
  PROVE  IInv'
<1>. USE DEF IInv
<1>1. /\ UNCHANGED <<session, arriving, rid, world, here, held, closed, useChunks, made, entry,
                     pc, at, obj>>
      /\ panicked' \in BOOLEAN
      /\ radius' \in [Players -> Radii] /\ leaving' \in [Players -> BOOLEAN]
      /\ \A p \in Players : leaving[p] => leaving'[p]
  <2>1. CASE \E p \in Players : UpdateRadius(p)
    BY <2>1 DEF UpdateRadius, TypeOK, playerVars, worldVars, callVars
  <2>2. CASE \E p \in Players : Leave(p)
    BY <2>2 DEF Leave, TypeOK, managerVars, worldVars, callVars
  <2>3. CASE UNCHANGED vars
    BY <2>3 DEF vars, TypeOK, playerVars, managerVars, worldVars, callVars
  <2>4. CASE panicked' = TRUE /\ UNCHANGED <<playerVars, managerVars, worldVars, pc, callVars>>
    BY <2>4 DEF TypeOK, playerVars, managerVars, worldVars, callVars
  <2>. QED  BY <2>1, <2>2, <2>3, <2>4
<1>2. \A g \in Goroutines : leaving[Player(g)] => leaving'[Player(g)]  BY <1>1, Callers
<1>3. TypeOK'  BY <1>1 DEF TypeOK
<1>4. CallsFit'  BY <1>1 DEF CallsFit, Chunks
<1>5. Waiting'  BY <1>1, <1>2 DEF Waiting
<1>6. FirstServer' /\ FirstAdding' /\ HeldOwn'
  BY <1>1 DEF FirstServer, FirstAdding, HeldOwn, Chunks
<1>7. WorldAsked' /\ OwnWorld'  BY <1>1, <1>2 DEF WorldAsked, OwnWorld
<1>8. LeakOnlyBySession' /\ BackendUpdateLands'
  BY <1>1 DEF LeakOnlyBySession, Renamed, Installing, BackendUpdateLands
<1>. QED  BY <1>3, <1>4, <1>5, <1>6, <1>7, <1>8

\* The chunks added before SetSession are then renamed.
LEMMA SetSessionKeeps == ASSUME IInv, NEW p \in Players, SetSession(p) PROVE IInv'
<1>. USE Callers DEF IInv
<1>1. /\ rid[p] = NopId
      /\ UNCHANGED <<session, arriving, leaving, world, here, radius, held, closed, useChunks,
                     made, entry, pc, at, obj, panicked>>
  BY DEF SetSession, managerVars, worldVars, callVars
<1>2. PICK id \in RuntimeIds : rid' = [rid EXCEPT ![p] = id]  BY DEF SetSession
<1>3. /\ rid' \in [Players -> Ids]
      /\ \A r \in Players : r # p => rid'[r] = rid[r]
  BY <1>2 DEF TypeOK, Ids
<1>4. TypeOK'  BY <1>1, <1>3 DEF TypeOK
<1>5. CallsFit' /\ Waiting' /\ HeldOwn'  BY <1>1 DEF CallsFit, Waiting, HeldOwn, Chunks
<1>6. FirstServer'
  <2>. SUFFICES ASSUME NEW r \in Players, session[r] = 1
                PROVE  /\ ~arriving[r]
                       /\ \A o \in Chunks : made[o].by = r =>
                            made[o].world = world[r] /\ made[o].viewers \subseteq {rid'[r], NopId}
    BY <1>1 DEF FirstServer, Chunks
  <2>1. rid[r] = NopId \/ rid'[r] = rid[r]  BY <1>1, <1>3
  <2>. QED  BY <2>1 DEF FirstServer
<1>7. FirstAdding' /\ WorldAsked' /\ OwnWorld' /\ BackendUpdateLands'
  BY <1>1 DEF FirstAdding, WorldAsked, OwnWorld, BackendUpdateLands
<1>8. LeakOnlyBySession'
  <2>. SUFFICES ASSUME NEW w \in Worlds, NEW q \in Positions, NEW o, o = entry[w][q], o # 0
                PROVE  \/ held[made[o].by][q] = o \/ Installing(o)' \/ Renamed(o)'
                       \/ session[made[o].by] > 1
    BY <1>1 DEF LeakOnlyBySession
  <2>1. o \in Chunks /\ made[o].by \in Players  BY MadeChunks
  <2>2. Installing(o) => Installing(o)'  BY <1>1 DEF Installing
  <2>3. CASE Renamed(o) /\ ~(session[made[o].by] > 1)
    <3>1. session[made[o].by] = 1  BY <2>1, <2>3 DEF TypeOK
    <3>2. made[o].viewers \subseteq {rid[made[o].by], NopId}  BY <2>1, <3>1 DEF FirstServer
    <3>3. made[o].by # p  BY <1>1, <2>3, <3>2 DEF Renamed
    <3>. QED  BY <1>1, <1>3, <2>1, <2>3, <3>3 DEF Renamed
  <2>. QED  BY <2>2, <2>3 DEF LeakOnlyBySession
<1>. QED  BY <1>4, <1>5, <1>6, <1>7, <1>8

LEMMA TransferKeeps == ASSUME IInv, NEW p \in Players, Transfer(p) PROVE IInv'
<1>. USE Callers DEF IInv
<1>1. /\ session[p] < MaxSessions
      /\ session' = [session EXCEPT ![p] = @ + 1] /\ arriving' = [arriving EXCEPT ![p] = TRUE]
      /\ UNCHANGED <<leaving, world, here, radius, held, closed, useChunks, made, entry,
                     pc, at, obj, panicked>>
  BY DEF Transfer, managerVars, worldVars, callVars
<1>2. PICK id \in RuntimeIds : rid' = [rid EXCEPT ![p] = id]
  BY DEF Transfer
<1>3. /\ session[p] \in 1 .. MaxSessions /\ session'[p] = session[p] + 1
      /\ \A r \in Players : r # p =>
           session'[r] = session[r] /\ arriving'[r] = arriving[r] /\ rid'[r] = rid[r]
      /\ session' \in [Players -> 1 .. MaxSessions] /\ arriving' \in [Players -> BOOLEAN]
      /\ rid' \in [Players -> Ids]
  BY <1>1, <1>2 DEF TypeOK, Ids
<1>4. \A g \in Goroutines : Player(g) = p /\ pc[g] # "idle" => g[2] < session'[p]
  BY <1>3 DEF CallsFit
<1>5. session'[p] # 1  BY <1>3
<1>6. TypeOK'  BY <1>1, <1>3 DEF TypeOK
<1>7. CallsFit'
  <2>1. \A g \in Goroutines : pc[g] # "idle" => g[2] <= session'[Player(g)]
    BY <1>3, <1>4 DEF CallsFit
  <2>. QED  BY <1>1, <2>1 DEF CallsFit, Chunks
<1>8. Waiting'
  <2>. SUFFICES ASSUME NEW g \in Goroutines, g[2] = session'[Player(g)], arriving'[Player(g)],
                       ~leaving[Player(g)]
                PROVE  pc[g] = "idle"
    BY <1>1 DEF Waiting
  <2>1. CASE Player(g) = p  BY <1>3, <1>4, <2>1
  <2>2. CASE Player(g) # p  BY <1>3, <2>2 DEF Waiting
  <2>. QED  BY <2>1, <2>2
<1>9. FirstServer' /\ HeldOwn'  BY <1>1, <1>3, <1>5 DEF FirstServer, HeldOwn, Chunks
<1>10. FirstAdding'  BY <1>1, <1>3, <1>5 DEF FirstAdding
<1>11. WorldAsked' /\ OwnWorld'
  <2>. SUFFICES ASSUME NEW g \in Goroutines, g[2] = session'[Player(g)], ~leaving[Player(g)]
                PROVE  /\ pc[g] = "decode" => obj[g] = world[Player(g)]
                       /\ pc[g] = "install" => made[obj[g]].world = world[Player(g)]
    BY <1>1 DEF WorldAsked, OwnWorld
  <2>1. CASE Player(g) = p  BY <1>3, <1>4, <2>1
  <2>2. CASE Player(g) # p  BY <1>3, <2>2 DEF WorldAsked, OwnWorld
  <2>. QED  BY <2>1, <2>2
<1>12. LeakOnlyBySession'
  <2>. SUFFICES ASSUME NEW w \in Worlds, NEW q \in Positions, entry[w][q] # 0
                PROVE  LET o == entry[w][q]
                       IN  \/ held[made[o].by][q] = o \/ Installing(o)' \/ Renamed(o)'
                           \/ session'[made[o].by] > 1
    BY <1>1 DEF LeakOnlyBySession
  <2>. DEFINE o == entry[w][q]
  <2>1. made[o].by \in Players  BY MadeChunks
  <2>2. \/ session'[made[o].by] > 1
        \/ session'[made[o].by] = session[made[o].by] /\ rid'[made[o].by] = rid[made[o].by]
    BY <1>3, <2>1
  <2>3. Installing(o)' <=> Installing(o)  BY <1>1 DEF Installing
  <2>. QED  BY <1>1, <2>2, <2>3 DEF LeakOnlyBySession, Renamed
<1>13. BackendUpdateLands'
  BY <1>1, <1>3, <1>5 DEF BackendUpdateLands
<1>. QED  BY <1>6, <1>7, <1>8, <1>9, <1>10, <1>11, <1>12, <1>13

LEMMA ArriveKeeps == ASSUME IInv, NEW p \in Players, Arrive(p) PROVE IInv'
<1>. USE Callers DEF IInv
<1>1. /\ arriving[p]
      /\ arriving' = [arriving EXCEPT ![p] = FALSE] /\ useChunks' = [useChunks EXCEPT ![p] = TRUE]
      /\ UNCHANGED <<session, leaving, rid, here, radius, held, closed, made, entry,
                     pc, at, obj, panicked>>
  BY DEF Arrive, worldVars, callVars
<1>2. PICK v \in Worlds : world' = [world EXCEPT ![p] = v]  BY DEF Arrive
<1>3. /\ \A r \in Players : r # p => world'[r] = world[r] /\ arriving'[r] = arriving[r]
      /\ arriving' \in [Players -> BOOLEAN] /\ world' \in [Players -> Worlds]
      /\ useChunks' \in [Players -> BOOLEAN] /\ ~arriving'[p]
  BY <1>1, <1>2 DEF TypeOK
<1>4. session[p] # 1  BY <1>1 DEF FirstServer
<1>5. \A g \in Goroutines : Player(g) = p /\ g[2] = session[p] /\ ~leaving[p] => pc[g] = "idle"
  BY <1>1 DEF Waiting
<1>6. TypeOK'  BY <1>1, <1>3 DEF TypeOK
<1>7. CallsFit'  BY <1>1 DEF CallsFit, Chunks
<1>8. Waiting'  BY <1>1, <1>3 DEF Waiting
<1>9. FirstServer' /\ HeldOwn'  BY <1>1, <1>3, <1>4 DEF FirstServer, HeldOwn, Chunks
<1>10. FirstAdding'  BY <1>1, <1>3, <1>4 DEF FirstAdding
<1>11. WorldAsked' /\ OwnWorld'
  <2>. SUFFICES ASSUME NEW g \in Goroutines, g[2] = session[Player(g)], ~leaving[Player(g)]
                PROVE  /\ pc[g] = "decode" => obj[g] = world'[Player(g)]
                       /\ pc[g] = "install" => made[obj[g]].world = world'[Player(g)]
    BY <1>1 DEF WorldAsked, OwnWorld
  <2>1. CASE Player(g) = p  BY <1>5, <2>1
  <2>2. CASE Player(g) # p  BY <1>3, <2>2 DEF WorldAsked, OwnWorld
  <2>. QED  BY <2>1, <2>2
<1>12. LeakOnlyBySession' /\ BackendUpdateLands'
  BY <1>1 DEF LeakOnlyBySession, Renamed, Installing, BackendUpdateLands
<1>. QED  BY <1>6, <1>7, <1>8, <1>9, <1>10, <1>11, <1>12

-----------------------------------------------------------------------------
(* Chunks leave the map of a player: Move and Close. *)

\* What RemoveViewer leaves of the chunks and of the worlds.
Leaves(S, id) ==
  /\ Len(made') = Len(made) /\ made' \in Seq(Chunk)
  /\ \A o \in Chunks : /\ made'[o].by = made[o].by /\ made'[o].world = made[o].world
                       /\ made'[o].at = made[o].at
                       /\ made'[o].viewers \subseteq made[o].viewers
                       /\ made[o].viewers \ {id} \subseteq made'[o].viewers
                       /\ o \notin S => made'[o].viewers = made[o].viewers
  /\ entry' \in [Worlds -> [Positions -> 0 .. Len(made)]]
  /\ \A w \in Worlds, q \in Positions :
       /\ entry'[w][q] # 0 => entry'[w][q] = entry[w][q]
       /\ \A o \in S \cap Chunks :
            made[o].world = w /\ made[o].at = q /\ made[o].viewers \subseteq {id} =>
              entry'[w][q] = 0

LEMMA RemoveViewerLeaves ==
  ASSUME TypeOK, NEW S, NEW id, RemoveViewer(S, id)
  PROVE  Leaves(S, id)
<1>. DEFINE left(o) == IF o \in S THEN [made[o] EXCEPT !.viewers = made[o].viewers \ {id}] ELSE made[o]
<1>1. made' = [o \in Chunks |-> left(o)]  BY DEF RemoveViewer, Viewers, Chunks
<1>2. \A o \in Chunks : /\ left(o) \in Chunk
                        /\ left(o).by = made[o].by /\ left(o).world = made[o].world
                        /\ left(o).at = made[o].at /\ left(o).viewers \subseteq made[o].viewers
                        /\ made[o].viewers \ {id} \subseteq left(o).viewers
                        /\ o \notin S => left(o).viewers = made[o].viewers
  <2>. SUFFICES ASSUME NEW o \in Chunks
                PROVE  /\ left(o) \in Chunk
                       /\ left(o).by = made[o].by /\ left(o).world = made[o].world
                       /\ left(o).at = made[o].at /\ left(o).viewers \subseteq made[o].viewers
                       /\ made[o].viewers \ {id} \subseteq left(o).viewers
                       /\ o \notin S => left(o).viewers = made[o].viewers
    OBVIOUS
  <2>1. made[o] \in Chunk  BY MadeChunks
  <2>. QED  BY <2>1 DEF Chunk
<1>. HIDE DEF left
<1>3. Len(made') = Len(made) /\ made' \in Seq(Chunk)
  BY <1>1, <1>2, MadeChunks DEF Chunks
<1>4. entry' = [w \in Worlds |-> [q \in Positions |->
                  IF \E o \in S : made[o].world = w /\ made[o].at = q /\ made[o].viewers \ {id} = {}
                  THEN 0 ELSE entry[w][q]]]
  BY DEF RemoveViewer, Viewers
<1>5. entry' \in [Worlds -> [Positions -> 0 .. Len(made)]]
  <2>1. 0 \in 0 .. Len(made) /\ \A w \in Worlds, q \in Positions : entry[w][q] \in 0 .. Len(made)
    BY MadeChunks DEF TypeOK
  <2>. QED  BY <1>4, <2>1
<1>6. ASSUME NEW w \in Worlds, NEW q \in Positions
      PROVE  /\ entry'[w][q] # 0 => entry'[w][q] = entry[w][q]
             /\ \A o \in S \cap Chunks :
                  made[o].world = w /\ made[o].at = q /\ made[o].viewers \subseteq {id} =>
                    entry'[w][q] = 0
  BY <1>4
<1>. QED  BY <1>1, <1>2, <1>3, <1>5, <1>6 DEF Leaves

\* In a player's map the positions of far become empty, and RemoveViewer is called on
\* what was there.
Emptied(p, far) ==
  /\ held' = [held EXCEPT ![p] = [q \in Positions |-> IF q \in far THEN 0 ELSE @[q]]]
  /\ RemoveViewer(HeldBy(p, far), rid[p])

\* At most one goroutine returns, from a Move.
Returned == UNCHANGED <<pc, at, obj>> \/ \E g \in Goroutines : pc[g] = "move" /\ Return(g)

LEMMA EmptiedMap ==
  ASSUME TypeOK, NEW p \in Players, NEW far \in SUBSET Positions, Emptied(p, far)
  PROVE  /\ held' \in [Players -> [Positions -> 0 .. Len(made)]]
         /\ \A r \in Players, q \in Positions :
              /\ held'[r][q] = held[r][q] \/ held'[r][q] = 0
              /\ r # p \/ q \notin far => held'[r][q] = held[r][q]
<1>1. Len(made) \in Nat /\ held[p] \in [Positions -> 0 .. Len(made)]  BY MadeChunks DEF TypeOK
<1>2. held'[p] = [q \in Positions |-> IF q \in far THEN 0 ELSE held[p][q]]
  BY DEF TypeOK, Emptied
<1>3. held'[p] \in [Positions -> 0 .. Len(made)]  BY <1>1, <1>2
<1>4. \A r \in Players : r # p => held'[r] = held[r]  BY DEF TypeOK, Emptied
<1>. QED  BY <1>2, <1>3, <1>4 DEF TypeOK, Emptied

LEMMA ReturnedCalls ==
  ASSUME TypeOK, Returned
  PROVE  /\ pc' \in [Goroutines -> Labels] /\ at' \in [Goroutines -> Int \X Int]
         /\ obj' \in [Goroutines -> Worlds \cup Nat]
         /\ \A g \in Goroutines :
              \/ pc'[g] = "idle" /\ pc[g] = "move"
              \/ pc'[g] = pc[g] /\ at'[g] = at[g] /\ obj'[g] = obj[g]
<1>1. CASE UNCHANGED <<pc, at, obj>>  BY <1>1 DEF TypeOK
<1>2. CASE \E g \in Goroutines : pc[g] = "move" /\ Return(g)
  <2>1. <<0, 0>> \in Int \X Int /\ 0 \in Worlds \cup Nat  OBVIOUS
  <2>. QED  BY <1>2, <2>1 DEF TypeOK, Return, Goto, Labels
<1>. QED  BY <1>1, <1>2 DEF Returned

LEMMA RemovalKeeps ==
  ASSUME IInv, NEW p \in Players, NEW far \in SUBSET Positions,
         Emptied(p, far), Returned,
         UNCHANGED <<session, arriving, leaving, rid, world, radius, useChunks, panicked>>,
         here' \in [Players -> Int \X Int], closed' \in [Players -> BOOLEAN]
  PROVE  IInv'
<1>. USE DEF IInv
<1>0. \A g \in Goroutines : Player(g) \in Players  BY Callers
<1>1. /\ Len(made') = Len(made) /\ made' \in Seq(Chunk) /\ Chunks' = Chunks
      /\ \A o \in Chunks : /\ made'[o].by = made[o].by /\ made'[o].world = made[o].world
                           /\ made'[o].at = made[o].at
                           /\ made'[o].viewers \subseteq made[o].viewers
                           /\ made[o].viewers \ {rid[p]} \subseteq made'[o].viewers
                           /\ o \notin HeldBy(p, far) => made'[o].viewers = made[o].viewers
      /\ entry' \in [Worlds -> [Positions -> 0 .. Len(made)]]
      /\ \A w \in Worlds, q \in Positions :
           /\ entry'[w][q] # 0 => entry'[w][q] = entry[w][q]
           /\ \A o \in HeldBy(p, far) \cap Chunks :
                made[o].world = w /\ made[o].at = q /\ made[o].viewers \subseteq {rid[p]} =>
                  entry'[w][q] = 0
  <2>1. RemoveViewer(HeldBy(p, far), rid[p])  BY DEF Emptied
  <2>2. Leaves(HeldBy(p, far), rid[p])  BY <2>1, RemoveViewerLeaves
  <2>3. Chunks' = Chunks  BY <2>2 DEF Leaves, Chunks
  <2>. QED  BY <2>2, <2>3 DEF Leaves
<1>2. /\ held' \in [Players -> [Positions -> 0 .. Len(made)]]
      /\ \A r \in Players, q \in Positions :
           /\ held'[r][q] = held[r][q] \/ held'[r][q] = 0
           /\ r # p \/ q \notin far => held'[r][q] = held[r][q]
  BY EmptiedMap
<1>3. /\ pc' \in [Goroutines -> Labels] /\ at' \in [Goroutines -> Int \X Int]
      /\ obj' \in [Goroutines -> Worlds \cup Nat]
      /\ \A g \in Goroutines :
           \/ pc'[g] = "idle" /\ pc[g] = "move"
           \/ pc'[g] = pc[g] /\ at'[g] = at[g] /\ obj'[g] = obj[g]
  BY ReturnedCalls
<1>4. TypeOK'
  <2>1. \A r \in Players, q \in Positions : held'[r][q] # 0 => made'[held'[r][q]].at = q
    <3>. SUFFICES ASSUME NEW r \in Players, NEW q \in Positions, held'[r][q] # 0
                  PROVE  made'[held'[r][q]].at = q
      OBVIOUS
    <3>1. held'[r][q] = held[r][q]  BY <1>2
    <3>2. held[r][q] \in Chunks /\ made[held[r][q]].at = q  BY <3>1, MadeChunks
    <3>. QED  BY <1>1, <3>1, <3>2
  <2>2. \A w \in Worlds, q \in Positions :
          entry'[w][q] # 0 => made'[entry'[w][q]].world = w /\ made'[entry'[w][q]].at = q
    <3>. SUFFICES ASSUME NEW w \in Worlds, NEW q \in Positions, entry'[w][q] # 0
                  PROVE  made'[entry'[w][q]].world = w /\ made'[entry'[w][q]].at = q
      OBVIOUS
    <3>1. entry'[w][q] = entry[w][q]  BY <1>1
    <3>2. entry[w][q] \in Chunks /\ made[entry[w][q]].world = w /\ made[entry[w][q]].at = q
      BY <3>1, MadeChunks
    <3>. QED  BY <1>1, <3>1, <3>2
  <2>3. /\ session' \in [Players -> 1 .. MaxSessions] /\ arriving' \in [Players -> BOOLEAN]
        /\ leaving' \in [Players -> BOOLEAN]
        /\ rid' \in [Players -> Ids] /\ world' \in [Players -> Worlds]
        /\ radius' \in [Players -> Radii] /\ useChunks' \in [Players -> BOOLEAN]
        /\ panicked' \in BOOLEAN
    BY DEF TypeOK
  <2>4. /\ held' \in [Players -> [Positions -> 0 .. Len(made')]]
        /\ entry' \in [Worlds -> [Positions -> 0 .. Len(made')]]
    BY <1>1, <1>2
  <2>. QED  BY <1>1, <1>3, <2>1, <2>2, <2>3, <2>4, Zenon DEF TypeOK
<1>5. CallsFit'
  <2>. SUFFICES ASSUME NEW g \in Goroutines
                PROVE  /\ pc'[g] \notin {"idle", "use"} => at'[g] \in Positions
                       /\ pc'[g] = "decode" => obj'[g] \in Worlds
                       /\ pc'[g] \in {"install", "set", "read"} =>
                            obj'[g] \in Chunks /\ made'[obj'[g]].at = at'[g]
                       /\ pc'[g] = "install" => made'[obj'[g]].by = Player(g)
                       /\ pc'[g] \in {"add", "decode", "install"} => g[2] # 0
                       /\ pc'[g] # "idle" => g[2] <= session[Player(g)]
    BY <1>1 DEF CallsFit
  <2>1. CASE pc'[g] = "idle"  BY <2>1
  <2>2. CASE pc'[g] = pc[g] /\ at'[g] = at[g] /\ obj'[g] = obj[g]
    <3>1. obj[g] \in Chunks =>
            made'[obj[g]].at = made[obj[g]].at /\ made'[obj[g]].by = made[obj[g]].by
      BY <1>1
    <3>. QED  BY <2>2, <3>1 DEF CallsFit
  <2>. QED  BY <1>3, <2>1, <2>2
<1>6. Waiting'  BY <1>3 DEF Waiting
<1>7. FirstServer' /\ HeldOwn'
  <2>1. FirstServer'  BY <1>1 DEF FirstServer
  <2>2. HeldOwn'
    <3>. SUFFICES ASSUME NEW r \in Players, NEW q \in Positions, held'[r][q] # 0
                  PROVE  made'[held'[r][q]].by = r
      BY DEF HeldOwn
    <3>1. held'[r][q] = held[r][q] /\ held[r][q] \in Chunks  BY <1>2, MadeChunks
    <3>. QED  BY <1>1, <3>1 DEF HeldOwn
  <2>. QED  BY <2>1, <2>2
<1>8. FirstAdding'
  <2>. SUFFICES ASSUME NEW g \in Goroutines, session[Player(g)] = 1
                PROVE  /\ pc'[g] = "decode" => obj'[g] = world[Player(g)]
                       /\ pc'[g] = "install" =>
                            \A w \in Worlds :
                              LET o == entry'[w][at'[g]]
                              IN  o # 0 /\ made'[o].by = Player(g) => o = obj'[g]
    BY DEF FirstAdding
  <2>1. ASSUME pc'[g] = "install", NEW w \in Worlds, entry'[w][at'[g]] # 0,
               made'[entry'[w][at'[g]]].by = Player(g)
        PROVE  entry'[w][at'[g]] = obj'[g]
    <3>1. pc[g] = "install" /\ at'[g] = at[g] /\ obj'[g] = obj[g]  BY <1>3, <2>1
    <3>2. at[g] \in Positions  BY <3>1 DEF CallsFit
    <3>3. entry'[w][at[g]] = entry[w][at[g]]  BY <1>1, <2>1, <3>1, <3>2
    <3>4. entry[w][at[g]] \in Chunks  BY <2>1, <3>1, <3>2, <3>3, MadeChunks
    <3>5. made[entry[w][at[g]]].by = Player(g)  BY <1>1, <2>1, <3>1, <3>3, <3>4
    <3>. QED  BY <2>1, <3>1, <3>3, <3>5 DEF FirstAdding
  <2>. QED  BY <1>3, <2>1 DEF FirstAdding
<1>9. WorldAsked' /\ OwnWorld'
  <2>. SUFFICES ASSUME NEW g \in Goroutines, g[2] = session[Player(g)], ~leaving[Player(g)]
                PROVE  /\ pc'[g] = "decode" => obj'[g] = world[Player(g)]
                       /\ pc'[g] = "install" => made'[obj'[g]].world = world[Player(g)]
    BY DEF WorldAsked, OwnWorld
  <2>1. pc[g] = "install" => obj[g] \in Chunks  BY DEF CallsFit
  <2>. QED  BY <1>1, <1>3, <2>1 DEF WorldAsked, OwnWorld
<1>10. LeakOnlyBySession'
  <2>. SUFFICES ASSUME NEW w \in Worlds, NEW q \in Positions, NEW o, o = entry'[w][q], o # 0
                PROVE  \/ held'[made'[o].by][q] = o \/ Installing(o)' \/ Renamed(o)'
                       \/ session'[made'[o].by] > 1
    BY DEF LeakOnlyBySession
  <2>1. o \in Chunks /\ o = entry[w][q]
    <3>1. o = entry[w][q]  BY <1>1
    <3>. QED  BY <3>1, MadeChunks
  <2>2. made'[o].by = made[o].by /\ made[o].by \in Players /\ made[o].at = q /\ made[o].world = w
    BY <1>1, <2>1, MadeChunks
  <2>3. CASE Installing(o)
    <3>1. Installing(o)'  BY <1>3, <2>3 DEF Installing
    <3>. QED  BY <2>1, <3>1
  <2>4. CASE session[made[o].by] > 1  BY <2>1, <2>2, <2>4
  <2>5. CASE held[made[o].by][q] = o
    <3>1. CASE made[o].by # p \/ q \notin far  BY <1>2, <2>1, <2>2, <2>5, <3>1
    <3>2. CASE made[o].by = p /\ q \in far /\ session[p] = 1
      <4>1. o \in HeldBy(p, far)  BY <2>1, <2>5, <3>2 DEF HeldBy
      <4>2. CASE made[o].viewers \subseteq {rid[p]}  BY <1>1, <2>1, <2>2, <4>1, <4>2
      <4>3. CASE ~(made[o].viewers \subseteq {rid[p]})
        <5>1. PICK id \in made[o].viewers : id # rid[p]  BY <4>3
        <5>2. id \in made'[o].viewers  BY <1>1, <2>1, <5>1
        <5>. QED  BY <2>1, <2>2, <3>2, <5>1, <5>2 DEF Renamed
      <4>. QED  BY <4>2, <4>3
    <3>3. session[p] = 1 \/ session[p] > 1  BY DEF TypeOK
    <3>. QED  BY <2>1, <2>2, <3>1, <3>2, <3>3
  <2>6. CASE Renamed(o)
    <3>1. PICK id \in made[o].viewers : id # rid[made[o].by]  BY <2>6 DEF Renamed
    <3>2. CASE o \in HeldBy(p, far)
      <4>1. made[o].by = p  BY <2>1, <3>2 DEF HeldBy, HeldOwn
      <4>2. id \in made'[o].viewers  BY <1>1, <2>1, <3>1, <4>1
      <4>. QED  BY <2>2, <3>1, <4>2 DEF Renamed
    <3>3. CASE o \notin HeldBy(p, far)  BY <1>1, <2>1, <2>2, <3>1, <3>3 DEF Renamed
    <3>. QED  BY <3>2, <3>3
  <2>. QED  BY <2>1, <2>3, <2>4, <2>5, <2>6 DEF LeakOnlyBySession
<1>11. BackendUpdateLands'
  <2>. SUFFICES ASSUME NEW g \in Goroutines, g[2] # 0, pc'[g] = "set", session[Player(g)] = 1
                PROVE  held'[Player(g)][at'[g]] \in {0, obj'[g]}
    BY DEF BackendUpdateLands
  <2>1. pc[g] = "set" /\ at'[g] = at[g] /\ obj'[g] = obj[g] /\ Player(g) \in Players
    BY <1>0, <1>3
  <2>2. at[g] \in Positions  BY <2>1 DEF CallsFit
  <2>3. held[Player(g)][at[g]] \in {0, obj[g]}  BY <2>1 DEF BackendUpdateLands
  <2>. QED  BY <1>2, <2>1, <2>2, <2>3
<1>. QED  BY <1>4, <1>5, <1>6, <1>7, <1>8, <1>9, <1>10, <1>11

LEMMA MoveKeeps == ASSUME IInv, NEW g \in Goroutines, Move(g) PROVE IInv'
<1>. USE DEF IInv
<1>. DEFINE p == Player(g)
            far == {q \in Positions : Far(q, at[g], radius[p])}
<1>1. /\ pc[g] = "move" /\ Return(g) /\ p \in Players
      /\ here' = [here EXCEPT ![p] = at[g]]
      /\ UNCHANGED <<playerVars, world, radius, closed, useChunks, panicked>>
  BY Callers DEF Move
<1>2. here' \in [Players -> Int \X Int] /\ closed \in [Players -> BOOLEAN]
  BY <1>1 DEF TypeOK
<1>3. CASE at[g] = here[p] \/ closed[p]
  <2>1. UNCHANGED <<held, made, entry>>  BY <1>3 DEF Move
  <2>2. <<0, 0>> \in Int \X Int /\ 0 \in Worlds \cup Nat  OBVIOUS
  <2>3. useChunks' \in [Players -> BOOLEAN] /\ panicked' \in BOOLEAN  BY <1>1 DEF TypeOK
  <2>. QED
    BY <1>1, <1>2, <2>1, <2>2, <2>3, CallKeeps DEF Return, Goto, Labels, worldVars
<1>4. CASE ~(at[g] = here[p] \/ closed[p])
  <2>1. Emptied(p, far)  BY <1>4 DEF Move, Emptied
  <2>2. far \in SUBSET Positions /\ Returned  BY <1>1 DEF Returned
  <2>. HIDE DEF far, p
  <2>. QED  BY <1>1, <1>2, <2>1, <2>2, RemovalKeeps DEF playerVars
<1>. QED  BY <1>3, <1>4

LEMMA CloseKeeps == ASSUME IInv, NEW p \in Players, Close(p) PROVE IInv'
<1>. USE DEF IInv
<1>1. /\ closed' = [closed EXCEPT ![p] = TRUE] /\ RemoveViewer(HeldBy(p, Positions), rid[p])
      /\ held' = [held EXCEPT ![p] = [q \in Positions |-> 0]]
      /\ UNCHANGED <<playerVars, world, here, radius, useChunks, pc, callVars, panicked>>
  BY DEF Close
<1>2. Emptied(p, Positions)  BY <1>1 DEF Emptied
<1>3. Returned /\ Positions \in SUBSET Positions  BY <1>1 DEF Returned, callVars
<1>4. here' \in [Players -> Int \X Int] /\ closed' \in [Players -> BOOLEAN]  BY <1>1 DEF TypeOK
<1>. QED  BY <1>1, <1>2, <1>3, <1>4, RemovalKeeps DEF playerVars

-----------------------------------------------------------------------------
(* A chunk is decoded and registered, and then installed. *)

LEMMA AddDecodedKeeps == ASSUME IInv, NEW g \in Goroutines, AddDecoded(g) PROVE IInv'
<1>. USE DEF IInv
<1>. DEFINE n == Len(made) + 1
            p == Player(g)
<1>1. /\ pc[g] = "decode" /\ pc' = [pc EXCEPT ![g] = "install"] /\ obj' = [obj EXCEPT ![g] = n]
      /\ made' = Append(made, [by |-> p, world |-> obj[g], at |-> at[g], viewers |-> {}])
      /\ entry' = [entry EXCEPT ![obj[g]][at[g]] = n]
      /\ UNCHANGED <<session, arriving, leaving, rid, world, here, radius, held, closed, useChunks,
                     at, panicked>>
  BY DEF AddDecoded, Goto, ChunkPos, playerVars, managerVars
<1>2. /\ p \in Players /\ obj[g] \in Worlds /\ at[g] \in Positions /\ g[2] # 0
      /\ n \in Nat /\ n \notin Chunks
      /\ [by |-> p, world |-> obj[g], at |-> at[g], viewers |-> {}] \in Chunk
      /\ \A h \in Goroutines : Player(h) \in Players
  BY <1>1, Callers, MadeChunks DEF CallsFit, Chunks, Chunk
<1>3. /\ made' \in Seq(Chunk) /\ Len(made') = n /\ Chunks' = Chunks \cup {n}
      /\ \A o \in Chunks : made'[o] = made[o]
      /\ made'[n].by = p /\ made'[n].world = obj[g] /\ made'[n].at = at[g] /\ made'[n].viewers = {}
  <2>1. made \in Seq(Chunk)  BY DEF TypeOK
  <2>2. /\ made' \in Seq(Chunk) /\ Len(made') = n
        /\ \A o \in Chunks : made'[o] = made[o]
        /\ made'[n] = [by |-> p, world |-> obj[g], at |-> at[g], viewers |-> {}]
    BY <1>1, <1>2, <2>1, AppendProperties DEF Chunks
  <2>3. Chunks' = Chunks \cup {n}  BY <2>2, MadeChunks DEF Chunks
  <2>. QED  BY <2>2, <2>3
<1>4. /\ entry' \in [Worlds -> [Positions -> 0 .. n]]
      /\ \A w \in Worlds, q \in Positions :
           IF w = obj[g] /\ q = at[g] THEN entry'[w][q] = n ELSE entry'[w][q] = entry[w][q]
  <2>1. /\ n \in 0 .. n
        /\ \A w \in Worlds, q \in Positions : entry[w][q] \in 0 .. n
    BY MadeChunks DEF TypeOK
  <2>. HIDE DEF n
  <2>. QED  BY <1>1, <1>2, <2>1 DEF TypeOK
<1>5. /\ pc'[g] = "install" /\ obj'[g] = n
      /\ \A h \in Goroutines : h # g => pc'[h] = pc[h] /\ obj'[h] = obj[h]
      /\ pc' \in [Goroutines -> Labels] /\ obj' \in [Goroutines -> Worlds \cup Nat]
  BY <1>1, <1>2 DEF TypeOK, Labels
<1>. HIDE DEF n
<1>6. TypeOK'
  <2>1. held \in [Players -> [Positions -> 0 .. n]]
    <3>1. 0 .. Len(made) \subseteq 0 .. n  BY MadeChunks DEF n
    <3>. QED  BY <3>1 DEF TypeOK
  <2>2. \A r \in Players, q \in Positions : held[r][q] # 0 => made'[held[r][q]].at = q
    BY <1>3, MadeChunks
  <2>3. ASSUME NEW w \in Worlds, NEW q \in Positions, entry'[w][q] # 0
        PROVE  made'[entry'[w][q]].world = w /\ made'[entry'[w][q]].at = q
    <3>1. CASE w = obj[g] /\ q = at[g]  BY <1>3, <1>4, <3>1
    <3>2. CASE ~(w = obj[g] /\ q = at[g])
      <4>1. entry'[w][q] = entry[w][q]  BY <1>4, <3>2
      <4>. QED  BY <1>3, <2>3, <4>1, MadeChunks
    <3>. QED  BY <3>1, <3>2
  <2>4. /\ session' \in [Players -> 1 .. MaxSessions] /\ arriving' \in [Players -> BOOLEAN]
        /\ leaving' \in [Players -> BOOLEAN]
        /\ rid' \in [Players -> Ids] /\ world' \in [Players -> Worlds]
        /\ here' \in [Players -> Int \X Int] /\ radius' \in [Players -> Radii]
        /\ closed' \in [Players -> BOOLEAN] /\ useChunks' \in [Players -> BOOLEAN]
        /\ at' \in [Goroutines -> Int \X Int] /\ panicked' \in BOOLEAN
    BY <1>1 DEF TypeOK
  <2>5. /\ held' \in [Players -> [Positions -> 0 .. Len(made')]]
        /\ \A r \in Players, q \in Positions : held'[r][q] # 0 => made'[held'[r][q]].at = q
        /\ entry' \in [Worlds -> [Positions -> 0 .. Len(made')]]
    BY <1>1, <1>3, <1>4, <2>1, <2>2
  <2>6. \A w \in Worlds, q \in Positions :
          entry'[w][q] # 0 => made'[entry'[w][q]].world = w /\ made'[entry'[w][q]].at = q
    BY <2>3
  <2>. QED  BY <1>3, <1>5, <2>4, <2>5, <2>6, Zenon DEF TypeOK
<1>7. CallsFit'
  <2>. SUFFICES ASSUME NEW h \in Goroutines
                PROVE  /\ pc'[h] \notin {"idle", "use"} => at[h] \in Positions
                       /\ pc'[h] = "decode" => obj'[h] \in Worlds
                       /\ pc'[h] \in {"install", "set", "read"} =>
                            obj'[h] \in Chunks' /\ made'[obj'[h]].at = at[h]
                       /\ pc'[h] = "install" => made'[obj'[h]].by = Player(h)
                       /\ pc'[h] \in {"add", "decode", "install"} => h[2] # 0
                       /\ pc'[h] # "idle" => h[2] <= session[Player(h)]
    BY <1>1 DEF CallsFit
  <2>1. CASE h = g
    <3>1. g[2] <= session[p]  BY <1>1 DEF CallsFit
    <3>. QED  BY <1>2, <1>3, <1>5, <2>1, <3>1
  <2>2. CASE h # g  BY <1>3, <1>5, <2>2 DEF CallsFit
  <2>. QED  BY <2>1, <2>2
<1>8. Waiting'
  <2>. SUFFICES ASSUME NEW h \in Goroutines, h[2] = session[Player(h)], arriving[Player(h)],
                       ~leaving[Player(h)]
                PROVE  pc'[h] = "idle"
    BY <1>1 DEF Waiting
  <2>. QED  BY <1>1, <1>5 DEF Waiting
<1>9. FirstServer'
  <2>. SUFFICES ASSUME NEW r \in Players, session[r] = 1
                PROVE  /\ ~arriving[r]
                       /\ \A o \in Chunks' : made'[o].by = r =>
                            made'[o].world = world[r] /\ made'[o].viewers \subseteq {rid[r], NopId}
    BY <1>1 DEF FirstServer
  <2>1. session[p] = 1 => obj[g] = world[p]  BY <1>1 DEF FirstAdding
  <2>. QED  BY <1>3, <2>1 DEF FirstServer
<1>14. HeldOwn'
  <2>. SUFFICES ASSUME NEW r \in Players, NEW q \in Positions, held[r][q] # 0
                PROVE  made'[held[r][q]].by = r
    BY <1>1 DEF HeldOwn
  <2>1. held[r][q] \in Chunks  BY MadeChunks
  <2>. QED  BY <1>3, <2>1 DEF HeldOwn
<1>10. FirstAdding'
  <2>. SUFFICES ASSUME NEW h \in Goroutines, session[Player(h)] = 1
                PROVE  /\ pc'[h] = "decode" => obj'[h] = world[Player(h)]
                       /\ pc'[h] = "install" =>
                            \A w \in Worlds :
                              LET o == entry'[w][at'[h]]
                              IN  o # 0 /\ made'[o].by = Player(h) => o = obj'[h]
    BY <1>1 DEF FirstAdding
  <2>1. pc'[h] = "decode" => obj'[h] = world[Player(h)]  BY <1>5 DEF FirstAdding
  <2>2. ASSUME pc'[h] = "install", NEW w \in Worlds, entry'[w][at[h]] # 0,
               made'[entry'[w][at[h]]].by = Player(h)
        PROVE  entry'[w][at[h]] = obj'[h]
    <3>1. at[h] \in Positions  BY <1>2, <1>5, <2>2 DEF CallsFit
    <3>2. CASE h = g
      <4>1. CASE w = obj[g]  BY <1>4, <1>5, <3>1, <3>2, <4>1
      <4>2. CASE w # obj[g]
        <5>1. entry'[w][at[h]] = entry[w][at[h]]  BY <1>4, <3>1, <4>2
        <5>2. entry[w][at[h]] \in Chunks /\ made[entry[w][at[h]]].world = w
          BY <2>2, <3>1, <5>1, MadeChunks
        <5>3. made[entry[w][at[h]]].by = p  BY <1>3, <2>2, <3>2, <5>1, <5>2
        <5>4. w = world[p]  BY <1>2, <3>2, <5>2, <5>3 DEF FirstServer
        <5>5. obj[g] = world[p]  BY <1>1, <3>2 DEF FirstAdding
        <5>. QED  BY <4>2, <5>4, <5>5
      <4>. QED  BY <4>1, <4>2
    <3>3. CASE h # g
      <4>1. pc[h] = "install" /\ obj'[h] = obj[h]  BY <1>5, <2>2, <3>3
      <4>2. Player(h) # p
        <5>1. h[2] # 0  BY <4>1 DEF CallsFit
        <5>. QED  BY <1>1, <1>2, <3>3, <4>1, <5>1, OneAdder
      <4>3. entry'[w][at[h]] = entry[w][at[h]]  BY <1>3, <1>4, <2>2, <3>1, <4>2
      <4>4. entry[w][at[h]] \in Chunks  BY <2>2, <3>1, <4>3, MadeChunks
      <4>5. made[entry[w][at[h]]].by = Player(h)  BY <1>3, <2>2, <4>3, <4>4
      <4>. QED  BY <2>2, <4>1, <4>3, <4>5 DEF FirstAdding
    <3>. QED  BY <3>2, <3>3
  <2>. QED  BY <1>1, <2>1, <2>2
<1>11. WorldAsked' /\ OwnWorld'
  <2>. SUFFICES ASSUME NEW h \in Goroutines, h[2] = session[Player(h)], ~leaving[Player(h)]
                PROVE  /\ pc'[h] = "decode" => obj'[h] = world[Player(h)]
                       /\ pc'[h] = "install" => made'[obj'[h]].world = world[Player(h)]
    BY <1>1 DEF WorldAsked, OwnWorld
  <2>1. CASE h = g  BY <1>1, <1>3, <1>5, <2>1 DEF WorldAsked
  <2>2. CASE h # g
    <3>1. pc[h] = "install" => obj[h] \in Chunks  BY DEF CallsFit
    <3>. QED  BY <1>3, <1>5, <2>2, <3>1 DEF WorldAsked, OwnWorld
  <2>. QED  BY <2>1, <2>2
<1>12. LeakOnlyBySession'
  <2>. SUFFICES ASSUME NEW w \in Worlds, NEW q \in Positions, NEW o, o = entry'[w][q], o # 0
                PROVE  \/ held'[made'[o].by][q] = o \/ Installing(o)' \/ Renamed(o)'
                       \/ session'[made'[o].by] > 1
    BY DEF LeakOnlyBySession
  <2>1. CASE o = n  BY <1>5, <2>1 DEF Installing
  <2>2. CASE o # n
    <3>1. o = entry[w][q]  BY <1>4, <2>2
    <3>2. made'[o] = made[o]  BY <1>3, <3>1, MadeChunks
    <3>3. Installing(o) => Installing(o)'
      <4>. SUFFICES ASSUME NEW h \in Goroutines, pc[h] = "install", obj[h] = o
                    PROVE  pc'[h] = "install" /\ obj'[h] = o
        BY DEF Installing
      <4>. QED  BY <1>1, <1>5
    <3>. QED  BY <1>1, <3>1, <3>2, <3>3 DEF LeakOnlyBySession, Renamed
  <2>. QED  BY <2>1, <2>2
<1>13. BackendUpdateLands'
  <2>. SUFFICES ASSUME NEW h \in Goroutines, h[2] # 0, pc'[h] = "set", session[Player(h)] = 1
                PROVE  held[Player(h)][at[h]] \in {0, obj'[h]}
    BY <1>1 DEF BackendUpdateLands
  <2>. QED  BY <1>5 DEF BackendUpdateLands
<1>. QED  BY <1>6, <1>7, <1>8, <1>9, <1>10, <1>11, <1>12, <1>13, <1>14

LEMMA AddInstallKeeps == ASSUME IInv, NEW g \in Goroutines, AddInstall(g) PROVE IInv'
<1>. USE DEF IInv
<1>. DEFINE p == Player(g)
            c == obj[g]
<1>1. CASE closed[p]
  <2>1. panicked' = TRUE /\ UNCHANGED <<playerVars, managerVars, worldVars, pc, callVars>>
    BY <1>1 DEF AddInstall, managerVars, worldVars
  <2>. QED  BY <2>1, OutsideKeeps
<1>2. CASE ~closed[p]
  <2>1. /\ pc[g] = "install" /\ Return(g)
        /\ held' = [held EXCEPT ![p][at[g]] = c]
        /\ made' = [made EXCEPT ![c].viewers = @ \cup {rid[p]}]
        /\ UNCHANGED <<session, arriving, leaving, rid, world, here, radius, closed, useChunks,
                       entry, panicked>>
    BY <1>2 DEF AddInstall, ChunkPos, playerVars
  <2>2. /\ p \in Players /\ c \in Chunks /\ made[c].at = at[g] /\ made[c].by = p
        /\ at[g] \in Positions /\ g[2] # 0 /\ rid[p] \in Ids
        /\ \A h \in Goroutines : Player(h) \in Players
    BY <2>1, Callers DEF CallsFit, TypeOK
  <2>. HIDE DEF c, p
  <2>3. /\ made' \in Seq(Chunk) /\ Len(made') = Len(made) /\ Chunks' = Chunks
        /\ \A o \in Chunks : /\ made'[o].by = made[o].by /\ made'[o].world = made[o].world
                             /\ made'[o].at = made[o].at
                             /\ o # c => made'[o].viewers = made[o].viewers
        /\ made'[c].viewers = made[c].viewers \cup {rid[p]}
    <3>. DEFINE m == [made[c] EXCEPT !.viewers = @ \cup {rid[p]}]
    <3>1. made \in Seq(Chunk) /\ made[c] \in Chunk  BY <2>2, MadeChunks DEF TypeOK
    <3>2. /\ m.by = made[c].by /\ m.world = made[c].world /\ m.at = made[c].at
          /\ m.viewers = made[c].viewers \cup {rid[p]}
      BY <3>1 DEF Chunk
    <3>3. m \in Chunk
      <4>1. made[c].viewers \cup {rid[p]} \in SUBSET Ids  BY <2>2, <3>1 DEF Chunk
      <4>. QED  BY <3>1, <4>1 DEF Chunk
    <3>4. made' = [made EXCEPT ![c] = m]  BY <2>1
    <3>. HIDE DEF m
    <3>5. /\ made' \in Seq(Chunk) /\ Len(made') = Len(made)
          /\ \A o \in Chunks : o # c => made'[o] = made[o]
          /\ made'[c] = m
      BY <2>2, <3>1, <3>3, <3>4, ExceptSeq DEF Chunks
    <3>6. Chunks' = Chunks  BY <3>5 DEF Chunks
    <3>. QED  BY <2>2, <3>2, <3>5, <3>6
  <2>4. /\ held' \in [Players -> [Positions -> 0 .. Len(made)]]
        /\ \A r \in Players, q \in Positions :
             IF r = p /\ q = at[g] THEN held'[r][q] = c ELSE held'[r][q] = held[r][q]
    <3>1. c \in 0 .. Len(made)  BY <2>2, MadeChunks DEF Chunks
    <3>. QED  BY <2>1, <2>2, <3>1 DEF TypeOK
  <2>5. /\ pc' \in [Goroutines -> Labels] /\ at' \in [Goroutines -> Int \X Int]
        /\ obj' \in [Goroutines -> Worlds \cup Nat] /\ pc'[g] = "idle"
        /\ \A h \in Goroutines : h # g => pc'[h] = pc[h] /\ at'[h] = at[h] /\ obj'[h] = obj[h]
    <3>1. <<0, 0>> \in Int \X Int /\ 0 \in Worlds \cup Nat  OBVIOUS
    <3>. QED  BY <2>1, <3>1 DEF TypeOK, Return, Goto, Labels
  <2>6. TypeOK'
    <3>1. ASSUME NEW r \in Players, NEW q \in Positions, held'[r][q] # 0
          PROVE  made'[held'[r][q]].at = q
      <4>1. CASE r = p /\ q = at[g]  BY <2>2, <2>3, <2>4, <4>1
      <4>2. CASE ~(r = p /\ q = at[g])
        <5>1. held'[r][q] = held[r][q]  BY <2>4, <4>2
        <5>. QED  BY <2>3, <3>1, <5>1, MadeChunks
      <4>. QED  BY <4>1, <4>2
    <3>2. ASSUME NEW w \in Worlds, NEW q \in Positions, entry[w][q] # 0
          PROVE  made'[entry[w][q]].world = w /\ made'[entry[w][q]].at = q
      BY <2>3, <3>2, MadeChunks
    <3>3. /\ session' \in [Players -> 1 .. MaxSessions] /\ arriving' \in [Players -> BOOLEAN]
          /\ leaving' \in [Players -> BOOLEAN]
          /\ rid' \in [Players -> Ids] /\ world' \in [Players -> Worlds]
          /\ here' \in [Players -> Int \X Int] /\ radius' \in [Players -> Radii]
          /\ closed' \in [Players -> BOOLEAN] /\ useChunks' \in [Players -> BOOLEAN]
          /\ entry' \in [Worlds -> [Positions -> 0 .. Len(made)]] /\ panicked' \in BOOLEAN
      BY <2>1 DEF TypeOK
    <3>4. /\ held' \in [Players -> [Positions -> 0 .. Len(made')]]
          /\ \A r \in Players, q \in Positions : held'[r][q] # 0 => made'[held'[r][q]].at = q
          /\ entry' \in [Worlds -> [Positions -> 0 .. Len(made')]]
          /\ \A w \in Worlds, q \in Positions :
               entry'[w][q] # 0 => made'[entry'[w][q]].world = w /\ made'[entry'[w][q]].at = q
      BY <2>1, <2>3, <2>4, <3>1, <3>2, <3>3
    <3>. QED  BY <2>3, <2>5, <3>3, <3>4, Zenon DEF TypeOK
  <2>7. CallsFit'
    <3>. SUFFICES ASSUME NEW h \in Goroutines
                  PROVE  /\ pc'[h] \notin {"idle", "use"} => at'[h] \in Positions
                         /\ pc'[h] = "decode" => obj'[h] \in Worlds
                         /\ pc'[h] \in {"install", "set", "read"} =>
                              obj'[h] \in Chunks /\ made'[obj'[h]].at = at'[h]
                         /\ pc'[h] = "install" => made'[obj'[h]].by = Player(h)
                         /\ pc'[h] \in {"add", "decode", "install"} => h[2] # 0
                         /\ pc'[h] # "idle" => h[2] <= session[Player(h)]
      BY <2>1, <2>3 DEF CallsFit
    <3>1. CASE h = g  BY <2>5, <3>1
    <3>2. CASE h # g
      <4>1. obj[h] \in Chunks =>
              made'[obj[h]].at = made[obj[h]].at /\ made'[obj[h]].by = made[obj[h]].by
        BY <2>3
      <4>. QED  BY <2>5, <3>2, <4>1 DEF CallsFit
    <3>. QED  BY <3>1, <3>2
  <2>8. Waiting'
    <3>. SUFFICES ASSUME NEW h \in Goroutines, h[2] = session[Player(h)], arriving[Player(h)],
                         ~leaving[Player(h)]
                  PROVE  pc'[h] = "idle"
      BY <2>1 DEF Waiting
    <3>. QED  BY <2>5 DEF Waiting
  <2>9. FirstServer'
    <3>. SUFFICES ASSUME NEW r \in Players, session[r] = 1
                  PROVE  /\ ~arriving[r]
                         /\ \A o \in Chunks : made'[o].by = r =>
                              made'[o].world = world[r] /\ made'[o].viewers \subseteq {rid[r], NopId}
      BY <2>1, <2>3 DEF FirstServer
    <3>. QED  BY <2>2, <2>3 DEF FirstServer
  <2>14. HeldOwn'
    <3>. SUFFICES ASSUME NEW r \in Players, NEW q \in Positions, held'[r][q] # 0
                  PROVE  made'[held'[r][q]].by = r
      BY DEF HeldOwn
    <3>1. CASE r = p /\ q = at[g]  BY <2>2, <2>3, <2>4, <3>1
    <3>2. CASE ~(r = p /\ q = at[g])
      <4>1. held'[r][q] = held[r][q] /\ held[r][q] \in Chunks  BY <2>4, <3>2, MadeChunks
      <4>. QED  BY <2>3, <4>1 DEF HeldOwn
    <3>. QED  BY <3>1, <3>2
  <2>10. FirstAdding'
    <3>. SUFFICES ASSUME NEW h \in Goroutines, session[Player(h)] = 1
                  PROVE  /\ pc'[h] = "decode" => obj'[h] = world[Player(h)]
                         /\ pc'[h] = "install" =>
                              \A w \in Worlds :
                                entry[w][at'[h]] # 0 /\ made'[entry[w][at'[h]]].by = Player(h) =>
                                  entry[w][at'[h]] = obj'[h]
      BY <2>1 DEF FirstAdding
    <3>1. CASE h = g  BY <2>5, <3>1
    <3>2. CASE h # g
      <4>1. \A w \in Worlds : pc[h] = "install" /\ entry[w][at[h]] # 0 =>
              made'[entry[w][at[h]]].by = made[entry[w][at[h]]].by
        BY <2>3, MadeChunks DEF CallsFit
      <4>. QED  BY <2>5, <3>2, <4>1 DEF FirstAdding
    <3>. QED  BY <3>1, <3>2
  <2>11. WorldAsked' /\ OwnWorld'
    <3>. SUFFICES ASSUME NEW h \in Goroutines, h[2] = session[Player(h)], ~leaving[Player(h)]
                  PROVE  /\ pc'[h] = "decode" => obj'[h] = world[Player(h)]
                         /\ pc'[h] = "install" => made'[obj'[h]].world = world[Player(h)]
      BY <2>1 DEF WorldAsked, OwnWorld
    <3>1. CASE h = g  BY <2>5, <3>1
    <3>2. CASE h # g
      <4>1. pc[h] = "install" => obj[h] \in Chunks  BY DEF CallsFit
      <4>. QED  BY <2>3, <2>5, <3>2, <4>1 DEF WorldAsked, OwnWorld
    <3>. QED  BY <3>1, <3>2
  <2>12. LeakOnlyBySession'
    <3>. SUFFICES ASSUME NEW w \in Worlds, NEW q \in Positions, NEW o, o = entry'[w][q], o # 0
                  PROVE  \/ held'[made'[o].by][q] = o \/ Installing(o)' \/ Renamed(o)'
                         \/ session'[made'[o].by] > 1
      BY DEF LeakOnlyBySession
    <3>1. /\ o = entry[w][q] /\ o \in Chunks /\ made[o].at = q /\ made[o].by \in Players
          /\ made'[o].by = made[o].by
      BY <2>1, <2>3, MadeChunks
    <3>2. CASE o = c  BY <2>2, <2>4, <3>1, <3>2
    <3>3. CASE o # c /\ Installing(o)
      <4>1. PICK h \in Goroutines : pc[h] = "install" /\ obj[h] = o  BY <3>3 DEF Installing
      <4>2. h # g  BY <3>3, <4>1 DEF c
      <4>. QED  BY <2>5, <4>1, <4>2 DEF Installing
    <3>4. CASE session[made[o].by] > 1  BY <2>1, <3>1, <3>4
    <3>5. CASE o # c /\ held[made[o].by][q] = o
      <4>1. CASE made[o].by = p /\ q = at[g]
        <5>1. session[p] # 1  BY <2>1, <3>1, <3>5, <4>1 DEF FirstAdding, c, p
        <5>2. session[p] > 1  BY <2>2, <5>1 DEF TypeOK
        <5>. QED  BY <2>1, <3>1, <4>1, <5>2
      <4>2. CASE ~(made[o].by = p /\ q = at[g])  BY <2>4, <3>1, <3>5, <4>2
      <4>. QED  BY <4>1, <4>2
    <3>6. CASE Renamed(o)
      <4>1. made[o].viewers \subseteq made'[o].viewers  BY <2>3, <3>1
      <4>. QED  BY <2>1, <3>1, <3>6, <4>1 DEF Renamed
    <3>. QED  BY <3>1, <3>2, <3>3, <3>4, <3>5, <3>6 DEF LeakOnlyBySession
  <2>13. BackendUpdateLands'
    <3>. SUFFICES ASSUME NEW h \in Goroutines, h[2] # 0, pc'[h] = "set", session[Player(h)] = 1
                  PROVE  held'[Player(h)][at'[h]] \in {0, obj'[h]}
      BY <2>1 DEF BackendUpdateLands
    <3>1. h # g /\ pc[h] = "set" /\ at'[h] = at[h] /\ obj'[h] = obj[h]  BY <2>5
    <3>2. Player(h) # p  BY <2>1, <2>2, <3>1, OneAdder DEF p
    <3>3. at[h] \in Positions  BY <3>1 DEF CallsFit
    <3>4. held[Player(h)][at[h]] \in {0, obj[h]}  BY <3>1 DEF BackendUpdateLands
    <3>. QED  BY <2>2, <2>4, <3>1, <3>2, <3>3, <3>4
  <2>. QED  BY <2>6, <2>7, <2>8, <2>9, <2>10, <2>11, <2>12, <2>13, <2>14
<1>. QED  BY <1>1, <1>2

-----------------------------------------------------------------------------
LEMMA StepKeepsIInv == IInv /\ [Next]_vars => IInv'
<1>. SUFFICES ASSUME IInv, [Next]_vars PROVE IInv'  OBVIOUS
<1>1. ASSUME NEW g \in Goroutines, Step(g)  PROVE IInv'
  BY <1>1, CallsKeep, AddFailsKeeps, MoveKeeps, AddDecodedKeeps, AddInstallKeeps DEF Step
<1>2. ASSUME NEW p \in Players,
             \/ UpdateRadius(p) \/ Leave(p) \/ Close(p)
             \/ SetSession(p) \/ Transfer(p) \/ Arrive(p)
      PROVE  IInv'
  BY <1>2, OutsideKeeps, CloseKeeps, SetSessionKeeps, TransferKeeps, ArriveKeeps
<1>. QED  BY <1>1, <1>2, OutsideKeeps DEF Next

LEMMA Invariance == Spec => []IInv
<1>. QED  BY InitIInv, StepKeepsIInv, PTL DEF Spec

\* StoreTyped: the maps of managers and worlds hold chunks made for their place
\* (chunks.go:146-165, world.go:47-69).
THEOREM StoreTyped == Spec => []TypeOK
<1>1. IInv => TypeOK  BY DEF IInv
<1>. QED  BY <1>1, Invariance, PTL

\* LeaksNamed: what a player no longer holds, its world no longer has, except for
\* the chunks its first server sent before the player had its session, which stay
\* under NopSession's ID, and for a player that has been transferred
\* (chunks.go:112-131, 146-206, world/chunk.go:34-47, remoteserver.go:103-104).
THEOREM LeaksNamed == Spec => []LeakOnlyBySession
<1>1. IInv => LeakOnlyBySession  BY DEF IInv
<1>. QED  BY <1>1, Invariance, PTL

\* UpdateLands: a block update of the first server reaches the chunk the player holds,
\* or one just evicted (chunks.go:72-89).
THEOREM UpdateLands == Spec => []BackendUpdateLands
<1>1. IInv => BackendUpdateLands  BY DEF IInv
<1>. QED  BY <1>1, Invariance, PTL

\* WorldOfServer: the chunks of the server a player is connected to are made in that
\* server's world (chunks.go:66-70, 146-165, remoteserver.go:130-164).
THEOREM WorldOfServer == Spec => []OwnWorld
<1>1. IInv => OwnWorld  BY DEF IInv
<1>. QED  BY <1>1, Invariance, PTL
=============================================================================
