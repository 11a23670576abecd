# ProxyEye: a verification project

ProxyEye (Go) is a proxy between Minecraft clients and servers. A client stays
connected to the proxy while it is moved from one backend to another; the proxy
forwards packets both ways, renames entity IDs on the way, keeps a view of the
blocks around every player, and watches the player's movements and attacks.

This directory holds TLA+ modules translated from the code, TLC runs that check
them on small instances, and theorems about every state machine proved with TLAPS
for all values of its constants. `PROJECT.json` is the index: which lines every
definition stands for, what each run checks, a mutant for every property (a
plausible bug that TLC must find), the hazards, findings and theorems.

## 1. Inventory

| Component | State | Operations | Talks to |
|---|---|---|---|
| `eyeProxy` (eye.go) | `players`, `playersXuid` under `playerMutex`; `events`, a `sync.Map` of slices | `Run` (accept loop), `HandleEvent`, `ExecuteEvent`, `GetPlayer`, `EachPlayer` | creates players; runs handlers in the caller's goroutine |
| `eyePlayer` (player.go) | `online`, `transferring`, `session` (atomic), `close` (once), connection, chunks, anticheat | reader goroutine, `Close`, `Kick`, `SetSession`, `TranslateEid` | its session and that session's server |
| `eyeSession` (session.go) | `connected` (channel), `close` (once), `entities`, `scoreboards`, `playerList`, the two IDs, backend connection | reader goroutine, `Packet`, `WritePacket`, `SetConnected`, `Close` | server `Leave`, the player |
| `remoteserver`, `internalServer` | `count`, `players` by runtime ID under `mutex`, worlds | `Connect`, `Packet`, `Leave`, `PlayerByRuntimeId` | sessions, players, chunks, anticheat |
| `chunkManager` (chunks.go), `World`, world `Chunk` | chunks held by a player, position, radius, world; chunks of a world and their viewers | `AddChunk`, `UpdateBlock`, `GetBlock`, `Floor`, `Move`, `UpdateRadius`, `SetWorld`, `Close` | called by both readers and by transfers |
| chunk package | sub chunks, layers, palettes with a cache, packed words, light | `RuntimeID`, `SetRuntimeID`, `Compact`, encoders and decoders, `FillLight`, `SpreadLight` | chunk manager; the light functions wait for a program that uses the package |
| block states (blocks.go) | the table of states and the map from their hashes to runtime IDs | `RegisterBlockState`, both lookups | the disk codec |
| `anticheatProfile` (anticheat.go) | position, points of five kinds, counters per second, flags, cooldowns | `Move`, `Attack`, `UpdateFlags`, `Teleport`, `Reset`, the ticker, `detected` | client reader, backend readers, transfers, event handlers |
| config, console, version, interfaces | | | not modelled, see section 7 |

What is hard here is concurrency. A player has at least three goroutines (reader
of the client, reader of the backend, ticker), a transfer is a fourth, and one
`EventConnect` handler each may call `Connect` again. State is shared through
atomics, two mutexes that do not cover each other's data, `sync.Once` bodies
that call each other, and maps that are read without their mutex. There is no
persistence and no retry: crash recovery plays no part. Connections break at any
time, and packets that a closed connection has buffered may still be read.

For each component, what makes it correct:

- lifecycle: one live session per player; no session outlives the player; the
  count of a server accounts for its sessions; a `Leave` disconnects a player only
  for its current session; a player who leaves gives back every place it holds, and
  transfers end;
- registry: registered handlers stay; online players are found, others are not;
- forwarding: what the client shows of a session is what the session remembers, and a
  closed session leaves nothing behind; IDs are translated for the backend they are sent to;
- chunks: a world forgets a chunk with its viewer; an update lands in the chunk
  the player has; chunks are filed in the world of their server;
- storages: a write changes one cell, compaction none, whatever the palette does;
- codec: what is encoded and decoded reads as before, holes included;
- light: every lit cell has its light from somewhere, and no cell is darker than its
  neighbours make it, whatever order the queue is worked off in;
- anticheat: a report rests on what the player did since the last `Reset`, but for what
  was under way then and the rate of moves `Reset` keeps (section 5); the client cannot
  give itself rights.

The full list of hazards, with lines, is in `PROJECT.json`.

## 2. Modules

| Module | Models | Actions and the code |
|---|---|---|
| `SessionLifecycle` | join, `Connect`, transfer, closes of sessions and players, both readers' control | one action per access to shared state; `connect[s]` is the program counter of a `Connect`, `sclose[s]` and `pclose[p]` of the two once bodies |
| `Registry` | `Run`, `HandleEvent`, join and leave events | Load and Store of `HandleEvent` are two actions; a joining connection and its leaving are two goroutines |
| `Forwarding` | `eyeSession.Packet`, `Close`, translation | reading, translating and writing a packet are separate actions; the two `Range`s of `Close` visit and delete one key at a time |
| `ChunkStore` | chunk manager and worlds | what holds `chunks.mutex` is one action; tests of `closed` and `UseChunks`, lookups without the mutex and the decoding in `AddChunk` are their own |
| `ChunkColumn` | `chunk.Chunk`, `SubChunk`, the codec of a column | pure operators, and a state machine that applies them; `SendTo` with both codecs is `NetworkReload`, `DiskEncode` with `DiskDecode` is `DiskReload` |
| `BlockStorage` | `BlockStorage`, `Palette`, the codec of a storage | same; plus the layout of the words |
| `BlockStates` | the table of block states | constants and operators: hash, registration, the two lookups |
| `ChunkLight` | `light.go`, `heightmap.go` | one action for each start of a loop over the queue and one for each of its nodes; `stage` is the loop that runs |
| `ServerPlaces` | what a server promises of the places on it | abstract: a visit asks, is refused or plays, departs, is listed and struck off |
| `BlockMap` | what a storage promises whoever reads and writes blocks | abstract: a map, and the one ID it may be wrong about |
| `AntiCheat` | `anticheatProfile` | a `Move` is five steps under the movement's mutex, which `Reset` does not take |

`SessionLifecycle` names the k-th `Connect` of a player and the session it creates
by `<<p, k>>`. A `sync.Once` body is one program counter per object: callers wait
for it, whoever runs it, and a body that waits for itself waits for ever. The two
panics (the nil `to` of the client's reader, a second close of `connected`) end
the behaviour, as they end the process. Runtime IDs of sessions are distinct per
backend session (an assumption on backends). The handler of `main.go` is the only caller of `Connect` after the
first; it is modelled with any server as its choice.

Two modules implement an abstract one. `SessionLifecycle` maps the program counters
of a `Connect` and of its session's close to where a visit stands (`PlaceOf`) and
has `count` and `roster` in common with `ServerPlaces`; `PlacesKept` is the
specification of that module. A visit's place is taken by `Ask`, and every step
that changes a count is one that changes the place of one visit. `BlockStorage`
maps its palette and offsets to the blocks that are read, and the honesty of its
cache to `stale`, the ID it is wrong about; `ActsAsMap` is the specification of
`BlockMap`. A write of that ID may misplace its block and no other; resizes,
compactions and trips through the codec change no block.

`ChunkStore` and `Forwarding` take from the lifecycle what they need, a transfer
in the order close, install, `SetWorld`, as actions of their own, and `ChunkStore` also
the `SetSession` of a first session, which its reader may precede (`NopId` is the runtime ID
of `NopSession`, which the player has until then): the composed
state space would be out of reach, and the order is what `SessionLifecycle`
establishes (`OneLiveSession`). `ChunkColumn` uses IDs and layers where
`BlockStorage` has palettes: a layer is what `BlockMap` promises, blocks and the IDs in
doubt. `Compact` leaves every ID in doubt and `NetworkDecode` 0, as `compact` and the zero
`Palette` do, and a write of an ID in doubt may leave any block, or none, in its place.

The codec of `data.go` is modelled by what goes through it. A storage keeps its words;
over the network its palette goes as IDs and comes back with the cache of a zero
`Palette`, to disk it goes as block states and comes back through the hash table
of `BlockStates`. A column keeps its layers and loses its light; its holes go over
the network as sub chunks without layers. Storages and columns that come from
elsewhere are initial states: `BlockStorage` starts from a fresh layer, from a network-decoded palette (whose cache claims
that runtime ID 0 is at index 0) or a disk-decoded one (whose cache is empty). They are
well formed, with offsets within the palette; data.go:270-316 does not check that.

`ChunkLight` numbers cells across the nine chunks, so that a node that leaves one chunk
is in the next; the width and height of a chunk and the highest level of light are
constants. Light of block and sky is one function of the kind. The tables
`LightBlocks` and `FilteringBlocks` are constants: nothing in the repository fills
them, a program that uses the package does. A chunk is filled once,
in the order that `Order` gives, and the middle one spread once.

## 3. Runs

All invariants are checked in every reachable state of the instance. Deadlock
checking is off where goroutines end, or hang as the code does, at the bounds.

| Run | Instance | Shows |
|---|---|---|
| `lifecycle` | 1 player, 2 remote servers at one address and an internal one, 2 connects, `FairSpec` | the safety properties of section 4 and the refinement of `ServerPlaces`; a player's Close ends only in a transfer; a broken session leaves, an offline player leaves every server, a transfer ends or meets the once cycle |
| `storage` | 2 cells, 5 IDs and their states; palettes that grow from 1 to 2 to 3 bits | writes, compaction, the refinement of `BlockMap` |
| `storage_index` | same | finding: `Index` of a decoded palette |
| `chunk` | 2 sub chunks of 2 blocks, 2 layers, 3 IDs | reads after writes, light, `Compact`, trips through the codec |
| `chunk_set` | same | finding: one write changes a whole layer |
| `store` | 1 player transferred once, 2 worlds, 2 positions, 2 chunks | viewers, lost updates, worlds |
| `store_simultaneous` | same | finding: unsynchronized calls on a chunk |
| `forwarding` | 1 player, 2 sessions, 2 IDs, 1 objective | tracking and translation |
| `registry` | 3 connections of 2 identities, main.go's handlers, Run's and two more | handlers and registration |
| `anticheat` | limits of two observations, 3 packets, 2 calls, 2 ticks | reports, rights, geometry |
| `anticheat_reset` | same, 2 packets | finding: `Reset` keeps `speedPerSecond` |
| `light` | 9 chunks of 3 by 4 by 3 blocks in 2 sub chunks, light up to 3, some 30 scenes of lamps, leaves and stone | where light comes from, that none is missing, borders, the end of both calls |

Why the bounds are enough. The interesting cases of the lifecycle need a transfer:
two connects have an old and a new session, with their two closes, against the
player's close, and each may be on either remote server or on the internal one; the safety
properties are proved for every number of players,
servers and connects. A palette meets a resize at 2 and at 4 entries, which the
storage run passes; the theorems cover all sizes. Two sessions, two positions, or
two connections of an identity are what a race in the other modules is about. In
`anticheat` the limits are lowered so that two observations pass them and three
packets leave room for a `Reset` between. Light of level 3 in chunks 3 wide can cross a
neighbour and no more, as 15 can in chunks 16 wide; the scenes have light that is
worked off from its darker side first, roofs and ledges with air below, empty sub
chunks above and below others, and one, two and three layers. The code's limits of
the anticheat (20, 8, 24, 10, 12) are named at the constants.

Every bound is a constant with its name: `MaxConnects`, `MaxDecoded`, `MaxPalette`,
`MaxLayers`, `MaxChunks`, `MaxSessions`, `MaxPackets`, `MaxCalls`, `MaxTicks`; and a closed
connection of `Forwarding` has at most one packet buffered. Three runs have a state
constraint, `MCBound`, beside them. `chunk`: the upper sub chunk has one layer at most, of
one block everywhere, and at most one block of the chunk is out of range; the lower sub
chunk is free, and what a step into a state outside does is checked. `forwarding`: a packet of the
client that is under way when the player goes offline is followed no further.
`anticheat`: packets, calls and ticks together are at most five. The proofs know none of
these bounds.

### Fairness

`ChunkLight` has weak fairness of its next step: one goroutine runs the calls, and
each loop goes on while the queue has nodes.

`FairSpec` gives weak fairness to the steps of a `Connect`, of a session's close and of
a player's close, each per object: these are straight-line goroutines, and the Go
scheduler runs every runnable one. Dialling is bounded by RakNet's timeout. The
environment (clients, backends, packets) gets none. `StartGame` and
`DoSpawn` that fail hang, as their errors go to an unbuffered channel; fairness
does not help there. A panic and such a hang are the named
exceptions of the liveness properties, and for `TransferResolves` the cycle of the two
once bodies (`OnceCycle`).

That cycle is no rare meeting. Any `Close` of a player on a remote server with no
transfer under way goes player.go:78, session.go:324, remoteserver.go:237 and back to
player.go:78, inside its own `sync.Once`: `eyePlayer.Close` returns only when `Leave`
finds a transfer under way. So no property here says that it ends.
`CloseEndsInTransferOnly` says that it does not, and `OfflineLeavesServers` what must hold
nevertheless: the server gets its place back. No line of the repository claims that
`Close` returns, so that this is no finding with a run of its own.

## 4. Properties

Lifecycle: `OneLiveSession`, `NoOrphan`, `PanicOnlyInTransfer`, `CountAccounts`,
`RosterComplete`, `KickOnlyCurrent`, and the refinement `PlacesKept`; liveness `DownedSessionLeaves`,
`OfflineLeavesServers`, `TransferResolves`; and `CloseEndsInTransferOnly`. Registry: `HandlersKept`,
`FoundWhileOnline`, `GoneAfterLeave`. Forwarding: `Mirrored`, `RightEntity`. Chunks:
`LeakOnlyBySession`, `BackendUpdateLands`, `OwnWorld`; `SetReads`, `ReloadReads`,
`CompactKeepsBlocks`; `SetWrites`, `CompactKeeps` and the
refinement `ActsAsMap`. Light: `Explained`, `Filled`, `Crossed`, `Ends`. Anticheat:
`EarnedReports`, `FlightGranted`, `AimJudged`. Each is stated in words above its
definition. Where the code has a race that breaks the plain property, the
property names the exact exception (an overlapping `HandleEvent`, a packet or tick under
way at a `Reset`, the things of a packet that a reader carries across a close, a client
packet without a case in `Session.Packet`), so that it still
says that there is no other.

## 5. Findings

Four runs end in a violation of what the repository says of itself:

1. `storage_index`: a network-decoded palette answers `Index(0) = 0` without
   having 0 (palette.go:43, data.go:315).
2. `chunk_set`: setting one block of a missing layer turns the others from air into
   runtime ID 0 (chunk.go:82, sub_chunk.go:17).
3. `store_simultaneous`: methods of one chunk are called by two goroutines at
   once, against chunk.go:12.
4. `anticheat_reset`: `Reset` "resets all values" (session/anticheat.go:49) but not
   `speedPerSecond`; `clear` stores `speedPerSecondPoints` three times.

Other defects that the models describe and the properties have to except: the
count leaks when `DoSpawn` of a transfer fails (remoteserver.go:126; stated in
`CountAccounts`), an internal server may keep the session of a player who left
(`NoOrphan`); `Close` of a player on a remote server waits for itself
(`CloseEndsInTransferOnly`), so that the connection, the anticheat profile and the chunks of
most players are never closed; a chunk that arrives before `SetSession` is kept under
viewer 0, the ID of `NopSession` (nop.go:45), and stays in its world
(`LeakOnlyBySession`); an `InventoryTransaction` reaches the backend untranslated
(session.go:88-236), so that an attack on the entities with the ID 1 and the player's own
ID hits another (`RightEntity`); a write after `Compact` or `NetworkDecode` may put
another block where the cache of `Index` is stale (`SetReads`); and a timer report may rest
on the rate of the old server (`EarnedReports`).

Defects of the light functions, all of them exceptions of `Filled` and `Crossed` or
visible in the definitions:

- the `break` on z (light.go:320, 377) leaves the row at its first inner cell, so that
  light does not cross the +z border but at the corners (`Visited`);
- a translucent block in the topmost layer of a chunk gets no sky light, as the loop
  starts above it (light.go:249), and the lowest cell of a column without blocks
  stays dark beside columns of height 1 (light.go:264), against the comment that light
  cannot spread below that anyway (`Hidden`);
- `removeEmptySubChunks` removes sub chunks "from the top", but goes on past one that
  has one layer of blocks: an empty sub chunk below a roof becomes nil and is then
  read as fully lit (light.go:98, 107; `EmptySubs`);
- `FillLight` makes, above the top, sub chunks that are lit in part; only
  `SpreadLight` removes them;
- a sub chunk of a neighbour that was nil when `SpreadLight` made its nodes
  (light.go:329), and that propagation has made since, lacks the light that no node
  brought across the border; if a layer of two above keeps it from being removed, it
  stays so.

The light functions and `HighestBlock` take runtime ID 0 for air, where the rest of
the package reads `AirRuntimeId`, 134.

## 6. Proofs

Every invariant and every action property that a passing run checks is a theorem, for all
constants that satisfy the named assumptions: 40 theorems in eight modules, one beside
each state machine. What holds on the small instance of the run holds for any number of
players, servers, connections, handlers, chunks, layers, blocks and packets. The
specifications keep their bounds (`MaxConnects`, `MaxPackets` and so on) as constants of
any value.

The inductive invariant of a module is `IInv`, a conjunction of named parts (in
`ChunkLight_proofs` also `JInv`, which adds to it; in `ChunkColumn_proofs` and
`BlockStorage_proofs` `TypeOK` is inductive and suffices). One lemma per action, or group
of actions, shows that the step keeps it, and the theorems follow from it. TLC finds each
of these invariants to hold in all states of the instance of its run. Why the properties
alone are not inductive:

`SessionLifecycle_proofs` proves the seven invariants of the run `lifecycle` and
`CloseEndsInTransferOnly`. That a
player has one live session depends on connects following each other
(`InOrder`), on when a connect has made its session (`Made`), and on which session is
installed (`Settled`, `OthersClosed`); the panics depend on the first session
being connected before anyone reaches it (`FirstIsConnected`) and on what the
reader holds (`ReaderHolds`). `CountAccounts` is proved from lemmas
on how the cardinality of the set of holders changes when a session is added,
removed or left alone. `ServersKeepPromise` is the refinement: Init maps to Init, and
each action to the step of one visit (`PlaceGoes`), a listing or striking off, or a
stutter; the invariant supplies what the abstract guards ask, above all that a player
plays in one visit at a time.

`Registry_proofs`: a handler may be lost by what another call of `HandleEvent` has loaded
and not stored yet. The invariant follows the loaded slices: they are of the right event
(`LoadedFits`), two calls under way know of each other (`BothOverlap`), and what was
stored without an overlap is in every slice loaded later (`LoadedKept`). That a player is
forgotten depends on Run's own handler being in the slice a leaving has loaded
(`SnapshotHasRun`).

`Forwarding_proofs`: between the writes of entity packets and the two `Range`s of a
`Close`, what is remembered and what is shown differ by the packet that is translated
and not written (`Pending`) and by the key just visited (`sweeping`); `Matches` and
`Sweeps` say so, for every session and not only the current one. `RightEntity` needs
that sessions follow each other (`OneAfterAnother`) and that the destination a reader
holds is never later than the session that translates for it (`InOrder`).

`ChunkStore_proofs`: what the calls under way have read stays true until they use it
(`CallsFit`, `WorldAsked`), since the reader of a new session does nothing before
`SetWorld` (`Waiting`); and on the first server there is one world and, from
`SetSession` on, one runtime ID (`FirstServer`), with at most the chunk that is being added registered and not held
(`FirstAdding`).

`AntiCheat_proofs`: points of a kind are at most what was added since the last report, as long as
none of it is about the time before the last `Reset` (`Earned`; `old` and `lent` say what is), which is carried through `detected` (`EarnedCalls`), since a `Reset` may come
in between; `AttacksJudged` is arithmetic, quarter by quarter of the circle.

`ChunkColumn_proofs` proves what `SetRuntimeID`, both codecs and `Compact` do to a column.
For `Compact` the loop over the layers, a recursive function, is taken by induction: the
library's induction theorems cannot be used (they take an operator), so `Induction` is
proved from the least-number principle of `WellFoundedInduction`.

`ChunkLight_proofs` is the largest. `LightHasOrigin` holds in any order of the queue, as a
node begins at its cell or names the level a brighter neighbour gives it (`FillNode`,
`SpreadNode`); that a node stays in the nine chunks follows from the level it has lost on
the way out (`Out(x) + level <= MaxLight + 1`), for which `MaxLight` must be at most
`Width`. `ChunksFilled` and `CentreCrossed` are about light that is missing, and need the
converse: wherever light could flow and has not, a node in the queue will bring it (`Due`
in `Inside` and `Across`). The nodes of a chunk are made by loops over all its cells
(`LayersCover`, `ColumnsCover`), the column that `FillSkyLight` fills without a node lies
beside no deeper one (`SkySeen`), and a cell once hidden from the sky stays so while sub
chunks are made and removed (`HiddenStays`, `TopsSink`, `HeightKept`).

`BlockStorage_proofs` proves type correctness, `SetWrites`, `CompactKeeps`,
the refinement `ActsAsMap` and `OnlyCompactSpoils` (which steps make an honest cache
dishonest) for every set of cells, all IDs and
palettes of any length up to 65536, from lemmas on the numbering that
`compact` gives; that a runtime ID comes back from the state it is saved as
(`IdsComeBack`), from the assumption that no two registered states have the same
hash, which `RegisterBlockState` enforces; and `LayoutFits`, that in all eight sizes the
4096 cells lie disjoint in the words allocated and their bit offsets within a `uint16`.

What the proofs found about the models. `Crossed` was false as first stated: propagation
may make the nil sub chunk of a neighbour below a roof of two layers, and no node is made
for light into it; the run now has such a scene (`Hollow`) and the property its exception.
Some facts the models took for granted became assumptions, each of which the code
meets: the main program registers a handler (`RegistryAssumption`), the limits of the
anticheat are above 0, a column may have two layers, a nil sub chunk is no list of layers,
and each of the nine chunks is filled once.

Only model-checked: the liveness properties `DownedSessionLeaves`, `OfflineLeavesServers`,
`TransferResolves` and `Ends`, which TLAPS does not prove; the violations of section 5
are counterexamples and need no proof.

## 7. Not modelled

- The byte formats of `data.go`, the errors of truncated data, biomes and block
  entities; `HighestBlock` and `HighestLightBlocker`, which nothing calls.
- The contents of the block table, configuration, console and version: constants,
  input and output.
- `session/*`: interfaces; their comments are the source of properties.
- `SetListener` and the callbacks of listeners; `EachPlayer`; packet, connect and
  detection handlers beyond the point where they are called.
- `nop.go`: methods that do nothing; its session is session 0 of `SessionLifecycle`.
- The player list of a session; pitch.

## 8. Plan

Done: `SessionLifecycle` with `ServerPlaces`, `BlockStorage` with `BlockMap` and
`BlockStates`, `ChunkColumn`, `ChunkLight`, `ChunkStore`, `Forwarding`,
`Registry`, `AntiCheat`; all their invariants and action properties are proved.

Next, in this order:

1. A variant of the loops of `ChunkLight`, a quantity that each node lowers, as the part of
   `Ends` that needs no fairness to state.
2. That a layer of `ChunkColumn` may be a `BlockMap`, so that the theorems of
   the column follow from those of the storage alone.
3. Concurrent `Connect` calls of an embedding program, and `EachPlayer` with a
   callback that closes players.
