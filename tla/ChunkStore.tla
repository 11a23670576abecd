----------------------------- MODULE ChunkStore -----------------------------
(***************************************************************************)
(* The chunks a player is near (chunks.go) and the worlds that register    *)
(* them (world/world.go, world/chunk.go), used by the goroutine that reads *)
(* the client and by those that read the player's sessions, while the      *)
(* player is transferred and closed.                                       *)
(*                                                                         *)
(* Goroutine <<p, 0>> reads the client of p, <<p, k>> its k-th session.    *)
(* What a mutex protects is one step.  The tests at the head of every      *)
(* method are not protected, and take two: closed, then player.Anticheat() *)
(* with the player that Close sets to nil.  The behaviours start when the  *)
(* player's first session has just been connected: its goroutine reads      *)
(* already, and the player gets it with SetSession (remoteserver.go:103-104) *)
(***************************************************************************)
EXTENDS Integers, Sequences

CONSTANTS
  Players,      \* chunkManagers, one per player
  Worlds,       \* worlds of the servers' stores
  Positions,    \* chunk positions <<x, z>>
  Radii,        \* chunk radii
  RuntimeIds,   \* runtime IDs the backends give to the players
  NopId,        \* the one of NopSession, which the player has until then
  MaxSessions,  \* bound: sessions of a player
  MaxChunks     \* bound: chunks decoded

ASSUME StoreAssumption ==
  /\ Positions \subseteq Int \X Int
  /\ Radii \subseteq Nat
  /\ MaxSessions \in Nat \ {0}
  /\ NopId \notin RuntimeIds

Ids == RuntimeIds \cup {NopId}

Goroutines == Players \X (0 .. MaxSessions)

VARIABLES
  session,   \* how many sessions the player has had: the last one is current
  arriving,  \* the current session is not connected yet
  leaving,   \* the player is closing: its session is closed
  rid,       \* the player's NewRuntimeId(): its session's
  world,     \* chunkManager.world
  here,      \* chunkManager.pos
  radius,    \* chunkManager.radius
  held,      \* chunkManager.chunks: the index of a chunk in made, 0 if absent
  closed,    \* chunkManager.closed; chunks and player are nil
  useChunks, \* the player's Anticheat().UseChunks()
  made,      \* the world.Chunk objects: where, for whom, and their viewers
  entry,     \* World.chunks
  pc,        \* what the goroutine does next
  at,        \* the position its call is about
  obj,       \* the world or the chunk it has got hold of
  panicked   \* a goroutine panicked

playerVars == <<session, arriving, leaving, rid>>
managerVars == <<world, here, radius, held, closed, useChunks>>
worldVars == <<made, entry>>
callVars == <<at, obj>>
vars == <<playerVars, managerVars, worldVars, pc, callVars, panicked>>

Player(g) == g[1]

Goto(g, l) == pc' = [pc EXCEPT ![g] = l]

\* The method returns; its variables are gone.
Return(g) ==
  /\ Goto(g, "idle")
  /\ at' = [at EXCEPT ![g] = <<0, 0>>]
  /\ obj' = [obj EXCEPT ![g] = 0]

-----------------------------------------------------------------------------
(* Chunks and their viewers. *)

\* Leaving the viewer behind (slip).
ViewersLeft(o, id) == made[o].viewers

Viewers(o, id) == made[o].viewers \ {id}

\* RemoveViewer(id) on every chunk of S: one without viewers is removed from its
\* world, by position, whichever chunk is registered there.
RemoveViewer(S, id) ==
  /\ made' = [o \in 1 .. Len(made) |->
                IF o \in S THEN [made[o] EXCEPT !.viewers = Viewers(o, id)] ELSE made[o]]
  /\ entry' = [w \in Worlds |-> [q \in Positions |->
                IF \E o \in S : /\ made[o].world = w /\ made[o].at = q
                                /\ Viewers(o, id) = {}
                THEN 0 ELSE entry[w][q]]]

\* int(dist) > radius, without the square root.
Far(q, r, n) ==
  LET x == q[1] - r[1]  z == q[2] - r[2] IN x * x + z * z >= (n + 1) * (n + 1)

HeldBy(p, Q) == {held[p][q] : q \in Q} \ {0}

-----------------------------------------------------------------------------
(* The head of UpdateBlock, GetBlock, Move and AddChunk. *)

\* Not waiting for SetConnected (slip).
AwakeAtOnce(g) == g[2] <= session[Player(g)]

\* The client's goroutine always reads, but brings its packets to a server only
\* when the player has a session; that of a session reads once SetConnected or
\* Close has closed the channel.  The goroutine of a closed session ends when its
\* connection returns an error; until then it may read what that has buffered.
Awake(g) ==
  \/ g[2] < session[Player(g)] /\ rid[Player(g)] # NopId
  \/ g[2] = session[Player(g)] /\ (~arriving[Player(g)] \/ leaving[Player(g)])

\* if chunks.closed { return }
Enter(g) ==
  /\ pc[g] = "idle" /\ Awake(g)
  /\ ~closed[Player(g)]
  /\ Goto(g, "use")
  /\ UNCHANGED <<playerVars, managerVars, worldVars, callVars, panicked>>

\* Which goroutine calls what: the client's packets update and move, and its
\* anticheat looks at blocks; the packets of a session update and add.
Calls(g) == IF g[2] = 0 THEN {"update", "get", "move"} ELSE {"update", "add"}

\* if !chunks.player.Anticheat().UseChunks() { return }.  The method and its position
\* are chosen here, where they begin to matter.
Use(g) ==
  /\ pc[g] = "use"
  /\ IF closed[Player(g)] THEN panicked' = TRUE /\ UNCHANGED <<pc, callVars>>
     ELSE /\ IF useChunks[Player(g)]
             THEN /\ \E m \in Calls(g), q \in Positions :
                       Goto(g, m) /\ at' = [at EXCEPT ![g] = q]
                  /\ UNCHANGED obj
             ELSE Return(g)
          /\ UNCHANGED panicked
  /\ UNCHANGED <<playerVars, managerVars, worldVars>>

-----------------------------------------------------------------------------
(* The methods. *)

\* Move: chunks out of the radius of the new position leave the map.
Move(g) ==
  LET p == Player(g)
      far == {q \in Positions : Far(q, at[g], radius[p])}
  IN  /\ pc[g] = "move"
      /\ IF at[g] = here[p] \/ closed[p]
         THEN UNCHANGED <<held, made, entry>>
         ELSE /\ held' = [held EXCEPT ![p] =
                            [q \in Positions |-> IF q \in far THEN 0 ELSE @[q]]]
              /\ RemoveViewer(HeldBy(p, far), rid[p])
      /\ here' = [here EXCEPT ![p] = at[g]]
      /\ Return(g)
      /\ UNCHANGED <<playerVars, world, radius, closed, useChunks, panicked>>

\* The chunk where the player is (slip).
LookupHere(g) == held[Player(g)][here[Player(g)]]

Lookup(g) == held[Player(g)][at[g]]

\* UpdateBlock reads the map without the mutex, GetBlock with it; both then call
\* a method of the chunk without any.
Find(g) ==
  /\ pc[g] \in {"update", "get"}
  /\ IF Lookup(g) = 0
     THEN Return(g)
     ELSE /\ obj' = [obj EXCEPT ![g] = Lookup(g)]
          /\ Goto(g, IF pc[g] = "update" THEN "set" ELSE "read")
          /\ UNCHANGED at
  /\ UNCHANGED <<playerVars, managerVars, worldVars, panicked>>

\* c.SetRuntimeID or c.RuntimeID returns.
Touched(g) ==
  /\ pc[g] \in {"set", "read"}
  /\ Return(g)
  /\ UNCHANGED <<playerVars, managerVars, worldVars, panicked>>

\* Filing the chunk where the player is (slip).
ChunkPosHere(g) == here[Player(g)]

\* chunk.Pos{pk.ChunkX, pk.ChunkZ}.
ChunkPos(g) == at[g]

\* AddChunk: chunks.World() ...
AddWorld(g) ==
  /\ pc[g] = "add"
  /\ obj' = [obj EXCEPT ![g] = world[Player(g)]]
  /\ Goto(g, "decode")
  /\ UNCHANGED <<playerVars, managerVars, worldVars, at, panicked>>

\* ... its AddChunk decodes and registers the chunk ...
AddDecoded(g) ==
  /\ pc[g] = "decode"
  /\ Len(made) < MaxChunks
  /\ made' = Append(made, [by |-> Player(g), world |-> obj[g], at |-> at[g], viewers |-> {}])
  /\ entry' = [entry EXCEPT ![obj[g]][ChunkPos(g)] = Len(made) + 1]
  /\ obj' = [obj EXCEPT ![g] = Len(made) + 1]
  /\ Goto(g, "install")
  /\ UNCHANGED <<playerVars, managerVars, at, panicked>>

\* ... or fails, for good if it is the version of a sub chunk that is unknown.
AddFails(g) ==
  /\ pc[g] = "decode"
  /\ \/ /\ Return(g) /\ UNCHANGED <<useChunks, panicked>>
     \/ /\ ~closed[Player(g)]
        /\ useChunks' = [useChunks EXCEPT ![Player(g)] = FALSE]
        /\ Return(g) /\ UNCHANGED panicked
     \/ /\ closed[Player(g)]
        /\ panicked' = TRUE /\ UNCHANGED <<pc, callVars, useChunks>>
  /\ UNCHANGED <<playerVars, world, here, radius, held, closed, worldVars>>

\* ... and the manager's map gets it, which panics on the nil map of Close.
AddInstall(g) ==
  LET p == Player(g) IN
  /\ pc[g] = "install"
  /\ IF closed[p]
     THEN panicked' = TRUE /\ UNCHANGED <<held, made, pc, callVars>>
     ELSE /\ held' = [held EXCEPT ![p][ChunkPos(g)] = obj[g]]
          /\ made' = [made EXCEPT ![obj[g]].viewers = @ \cup {rid[p]}]
          /\ Return(g)
          /\ UNCHANGED panicked
  /\ UNCHANGED <<playerVars, world, here, radius, closed, useChunks, entry>>

\* ChunkRadiusUpdated: nothing is evicted until the next Move.
UpdateRadius(p) ==
  /\ \E n \in Radii : radius' = [radius EXCEPT ![p] = n]
  /\ UNCHANGED <<playerVars, world, here, held, closed, useChunks, worldVars, pc,
                 callVars, panicked>>

\* Player.Close closes the session ...
Leave(p) ==
  /\ ~leaving[p]
  /\ leaving' = [leaving EXCEPT ![p] = TRUE]
  /\ UNCHANGED <<session, arriving, rid, managerVars, worldVars, pc, callVars, panicked>>

\* ... and, at its end, the chunks.
Close(p) ==
  /\ leaving[p] /\ ~closed[p]
  /\ closed' = [closed EXCEPT ![p] = TRUE]
  /\ RemoveViewer(HeldBy(p, Positions), rid[p])
  /\ held' = [held EXCEPT ![p] = [q \in Positions |-> 0]]
  /\ UNCHANGED <<playerVars, world, here, radius, useChunks, pc, callVars, panicked>>

-----------------------------------------------------------------------------
(* What remoteserver.Connect does: the end of the first connection (line 104) *)
(* and a transfer (lines 131-164).                                            *)

\* player.SetSession(s), when the goroutine of s may have added chunks already.
SetSession(p) ==
  /\ rid[p] = NopId
  /\ \E id \in RuntimeIds : rid' = [rid EXCEPT ![p] = id]
  /\ UNCHANGED <<session, arriving, leaving, managerVars, worldVars, pc, callVars, panicked>>

\* The old session is closed; player.SetSession(NewSession(...)).
Transfer(p) ==
  /\ rid[p] # NopId /\ ~arriving[p] /\ session[p] < MaxSessions
  /\ session' = [session EXCEPT ![p] = @ + 1]
  /\ arriving' = [arriving EXCEPT ![p] = TRUE]
  /\ \E id \in RuntimeIds : rid' = [rid EXCEPT ![p] = id]
  /\ UNCHANGED <<leaving, managerVars, worldVars, pc, callVars, panicked>>

\* Anticheat().Reset, Chunks().SetWorld, SetConnected: the map is kept.
Arrive(p) ==
  /\ arriving[p]
  /\ arriving' = [arriving EXCEPT ![p] = FALSE]
  /\ useChunks' = [useChunks EXCEPT ![p] = TRUE]
  /\ \E w \in Worlds : world' = [world EXCEPT ![p] = w]
  /\ UNCHANGED <<session, leaving, rid, here, radius, held, closed, worldVars, pc, callVars,
                 panicked>>

Init ==
  /\ session = [p \in Players |-> 1]
  /\ arriving = [p \in Players |-> FALSE]
  /\ leaving = [p \in Players |-> FALSE]
  /\ rid = [p \in Players |-> NopId]
  /\ world \in [Players -> Worlds]
  /\ here = [p \in Players |-> <<0, 0>>]
  /\ radius \in [Players -> Radii]
  /\ held = [p \in Players |-> [q \in Positions |-> 0]]
  /\ closed = [p \in Players |-> FALSE]
  /\ useChunks = [p \in Players |-> TRUE]
  /\ made = <<>>
  /\ entry = [w \in Worlds |-> [q \in Positions |-> 0]]
  /\ pc = [g \in Goroutines |-> "idle"]
  /\ at = [g \in Goroutines |-> <<0, 0>>]
  /\ obj = [g \in Goroutines |-> 0]
  /\ panicked = FALSE

Step(g) ==
  \/ Enter(g) \/ Use(g) \/ Move(g) \/ Find(g) \/ Touched(g)
  \/ AddWorld(g) \/ AddDecoded(g) \/ AddFails(g) \/ AddInstall(g)

Next ==
  /\ ~panicked
  /\ \/ \E g \in Goroutines : Step(g)
     \/ \E p \in Players : \/ UpdateRadius(p) \/ Leave(p) \/ Close(p)
                          \/ SetSession(p) \/ Transfer(p) \/ Arrive(p)

Spec == Init /\ [][Next]_vars

-----------------------------------------------------------------------------
(* Properties. *)

Labels == {"idle", "use", "update", "get", "move", "set", "read", "add", "decode", "install"}

Chunk == [by : Players, world : Worlds, at : Positions, viewers : SUBSET Ids]

\* TypeOK: the maps hold chunks that were made for their place.
TypeOK ==
  /\ session \in [Players -> 1 .. MaxSessions] /\ arriving \in [Players -> BOOLEAN]
  /\ leaving \in [Players -> BOOLEAN]
  /\ rid \in [Players -> Ids] /\ world \in [Players -> Worlds]
  /\ here \in [Players -> Int \X Int] /\ radius \in [Players -> Radii]
  /\ closed \in [Players -> BOOLEAN] /\ useChunks \in [Players -> BOOLEAN]
  /\ made \in Seq(Chunk)
  /\ held \in [Players -> [Positions -> 0 .. Len(made)]]
  /\ \A p \in Players, q \in Positions : held[p][q] # 0 => made[held[p][q]].at = q
  /\ entry \in [Worlds -> [Positions -> 0 .. Len(made)]]
  /\ \A w \in Worlds, q \in Positions :
       entry[w][q] # 0 => made[entry[w][q]].world = w /\ made[entry[w][q]].at = q
  /\ pc \in [Goroutines -> Labels] /\ at \in [Goroutines -> Int \X Int]
  /\ obj \in [Goroutines -> Worlds \cup Nat]
  /\ panicked \in BOOLEAN

Installing(o) == \E g \in Goroutines : pc[g] = "install" /\ obj[g] = o

\* A chunk is viewed under an ID that its player no longer has: SetSession came
\* after it was added.
Renamed(o) == \E id \in made[o].viewers : id # rid[made[o].by]

\* LeakOnlyBySession: a world forgets a chunk when its viewer does, by moving
\* away, by closing, or by getting the chunk anew.  The exceptions are what
\* SetSession does to the viewer's ID: on the first server, the chunks that came
\* before the player had the session stay under NopSession's ID, and the player
\* asks for the removal of its own; a transferred player asks for the removal of
\* the ID it has on its new server, in whose world its chunks no longer are.
LeakOnlyBySession ==
  \A w \in Worlds, q \in Positions :
    LET o == entry[w][q]
    IN  o # 0 => \/ held[made[o].by][q] = o
                 \/ Installing(o)
                 \/ Renamed(o)
                 \/ session[made[o].by] > 1

\* BackendUpdateLands: the UpdateBlock of the player's only server changes the
\* chunk the player holds at that place, or one it has just evicted, though the
\* chunk is looked up without the mutex and changed later.
BackendUpdateLands ==
  \A g \in Goroutines :
    g[2] # 0 /\ pc[g] = "set" /\ session[Player(g)] = 1 =>
      held[Player(g)][at[g]] \in {0, obj[g]}

\* OwnWorld: the chunk of the server a player is connected to enters the map as a
\* chunk of that server's world, however SetWorld falls between the steps of
\* AddChunk; only a session that is over, or of a player who leaves, still brings
\* one of another world.
OwnWorld ==
  \A g \in Goroutines :
    g[2] = session[Player(g)] /\ ~leaving[Player(g)] /\ pc[g] = "install" =>
      made[obj[g]].world = world[Player(g)]

\* NotSimultaneous: "It is not safe to call methods on Chunk simultaneously from
\* multiple goroutines" (chunk/chunk.go:12).
NotSimultaneous ==
  \A g, h \in Goroutines :
    pc[g] \in {"set", "read"} /\ pc[h] \in {"set", "read"} /\ obj[g] = obj[h] => g = h
=============================================================================
