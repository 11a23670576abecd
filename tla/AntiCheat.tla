------------------------------ MODULE AntiCheat ------------------------------
(***************************************************************************)
(* The anticheat profile of one player (anticheat.go).  The goroutine that *)
(* reads the client calls Move, Attack and UpdateFlags; the ticker         *)
(* goroutine counts per second; the readers of the backends and the        *)
(* embedding program call Teleport, SetFlags, SetGamemode, SetUseChunks; a *)
(* transfer calls Reset and the end of the player Close.  Move holds       *)
(* movement.mutex, Attack and Reset hold mutex, so that Reset interleaves  *)
(* with Move and with the ticker.                                          *)
(*                                                                         *)
(* Lengths are tenths of a block, points are twentieths, angles degrees.   *)
(* Pitch is stored like yaw and read by nothing; it is left out.           *)
(***************************************************************************)
EXTENDS Integers, FiniteSets

CONSTANTS
  Places,      \* positions [x, y, z] a packet or a server may name
  Yaws,        \* and yaws
  Sent,        \* sets of flags an AdventureSettings packet may carry
  Limit,       \* points at which a kind of detection is reported (20, 8, 24, 10, 12)
  MoveRate,    \* moves in a second, above which they count (40)
  AttackRate,  \* attacks in a second, from which on they count (20)
  MaxPackets,  \* bound: packets of the client
  MaxCalls,    \* bound: calls of the servers and the program
  MaxTicks     \* bound: ticks of the ticker

Kinds == {"fly", "speed", "timer", "killaura", "autoclicker"}

ASSUME AntiCheatAssumption ==
  /\ Places \subseteq [x : Int, y : Int, z : Int] /\ Yaws \subseteq Int
  /\ Limit \in [Kinds -> Nat \ {0}] /\ MoveRate \in Nat /\ AttackRate \in Nat \ {0}
  /\ MaxPackets \in Nat /\ MaxCalls \in Nat /\ MaxTicks \in Nat

\* Points that a suspicious observation adds and an unsuspicious one takes away, in
\* twentieths; a fall takes less than standing on the ground.
Gain == [fly |-> 20, speed |-> 40, timer |-> 40, killaura |-> 40, autoclicker |-> 80]
Decay == [fly |-> 10, speed |-> 10, timer |-> 40, killaura |-> 10, autoclicker |-> 2]
FallDecay == 5

VARIABLES
  at,           \* movement.pos and movement.yaw
  points,       \* flyPoints, speedPoints, speedPerSecondPoints, attackPoints,
                \* attackPerSecondPoints, by the kind they lead to
  requests,     \* movement.speedRequests
  perSecond,    \* movement.speedPerSecond
  attacks,      \* combat.attackCount
  flags,        \* the AdventureSettings flags
  creative,     \* gamemode is GameTypeCreative
  useChunks,    \* useChunks
  cooling,      \* kinds whose cooldown has not passed
  pc,           \* where the client's goroutine and the ticker are
  kind, after,  \*   the kind they detect, and where they go on after it
  to,           \*   where Move moves
  look,         \*   the yaw Attack has read
  sent,         \*   the flags UpdateFlags has verified
  aps,          \*   the attacks the ticker has taken
  placing,      \* a Reset under way has still to store the position
  target,       \*   it was called with
  ticker,       \* the time.Ticker: running, stopped with a tick buffered, or stopped
  packets, calls, ticks,
  fresh,        \* history: suspicious observations of a kind since its points were 0,
                \* on what the player has done since the last Reset
  old,          \* history: kinds with such observations on what was done before it
  lent,         \* history: which of requests and perSecond has moves from before it
  amid,         \* history: goroutines in the middle of a packet or tick at a Reset or Close
  mayFly,       \* history: flight allowed by the server since its last word on it
  overtaken     \* history: that word came amid an UpdateFlags

control == <<pc, kind, after>>
local == <<to, look, sent, aps>>
own == <<control, local>>
bounds == <<packets, calls, ticks>>
counts == <<requests, perSecond, lent, attacks>>
meters == <<points, fresh, old>>
rights == <<flags, creative, useChunks, mayFly, overtaken>>
resetting == <<placing, target>>
still == <<rights, cooling, resetting, ticker>>
vars == <<at, meters, counts, own, bounds, still, amid>>

Coords == {"x", "y", "z", "yaw"}

Position == [x |-> at.x, y |-> at.y, z |-> at.z]

\* A position and a yaw together.
Turned(p, y) == [x |-> p.x, y |-> p.y, z |-> p.z, yaw |-> y]

Zero == [c \in Coords |-> 0]

\* movement.mutex is held by Move alone for longer than a step, and mutex by
\* Attack and Reset; the client's goroutine does one thing at a time.
Moving == pc["client"] \in {"fly", "speed", "check", "timer", "end"}
            \/ (pc["client"] \in {"detect", "event"} /\ after["client"] # "read")
Attacking == pc["client"] = "judge"
               \/ (pc["client"] \in {"detect", "event"} /\ kind["client"] = "killaura")

-----------------------------------------------------------------------------
(* Where the player looks, and where another player is. *)

\* Yaw 0 looks south; the turn is forgotten (slip).
NoTurn == 0

QuarterTurn == 90

\* Facing: nothing is said of the angles in between, and the zero Direction is north.
Facing(yaw) ==
  LET y == (yaw - QuarterTurn) % 360
  IN CASE y \in 1 .. 44 \/ y \in 316 .. 359 -> "west"
       [] y \in 136 .. 224 -> "east"
       [] y \in 226 .. 314 -> "south"
       [] OTHER -> "north"

\* playerDirection: the quarter of the other player, {} (the zero Direction is
\* no quarter) on the axes.
Quarter(me, other) ==
  IF me.x = other.x \/ me.z = other.z THEN {}
  ELSE {IF me.z > other.z THEN "north" ELSE "south",
        IF me.x < other.x THEN "east" ELSE "west"}

ValidAttackDirection(yaw, me, other) == Facing(yaw) \in Quarter(me, other)

\* distance > .8
Far(p, q) == (q.x - p.x) * (q.x - p.x) + (q.z - p.z) * (q.z - p.z) > 64

-----------------------------------------------------------------------------
(* Points and detections. *)

\* Whether v points are reported: i > 20, i > 24, but >= 8, >= 10, >= 12.
Over(k, v) == IF k \in {"fly", "timer"} THEN v > Limit[k] ELSE v >= Limit[k]

\* What g observes of kind k is not of the time since the last Reset alone: it is about
\* a packet or tick that was under way then, or about a rate with older moves.
Stale(g, k) == g \in amid \/ (k = "timer" /\ "perSecond" \in lent)

\* History of a suspicious observation.
Noted(g, k) ==
  /\ fresh' = IF Stale(g, k) THEN fresh ELSE [fresh EXCEPT ![k] = @ + 1]
  /\ old' = IF Stale(g, k) THEN old \cup {k} ELSE old

\* A suspicious observation.
Suspect(g, k) ==
  /\ points' = [points EXCEPT ![k] = @ + Gain[k]]
  /\ Noted(g, k)

\* An unsuspicious one: Sub, and Store(0) below 0.
Trust(k, decay) ==
  /\ points' = [points EXCEPT ![k] = IF @ < decay THEN 0 ELSE @ - decay]
  /\ fresh' = [fresh EXCEPT ![k] = IF points[k] <= decay THEN 0 ELSE @]
  /\ old' = IF points[k] <= decay THEN old \ {k} ELSE old

Forget(k) ==
  /\ points' = [points EXCEPT ![k] = 0]
  /\ fresh' = [fresh EXCEPT ![k] = 0]
  /\ old' = old \ {k}

\* The call comes from UpdateFlags, which is about no points.
FromFlags(g) == kind[g] = "fly" /\ after[g] = "read"

\* Going on without the points set to 0 (slip).
Unforgotten(g) == UNCHANGED meters

\* What follows the call is Store(0), which Attack has done before.
Forgotten(g) == IF FromFlags(g) THEN UNCHANGED meters ELSE Forget(kind[g])

\* Goroutine g goes on at l; there its packet or tick is over, or not.
GoOn(g, l) ==
  /\ pc' = [pc EXCEPT ![g] = l]
  /\ amid' = IF l \in {"read", "wait"} THEN amid \ {g} ELSE amid

Goto(g, l) == GoOn(g, l) /\ UNCHANGED <<kind, after>>

\* Goroutine g calls detected, and goes on at l.
Detect(g, k, l) ==
  /\ GoOn(g, "detect")
  /\ kind' = [kind EXCEPT ![g] = k] /\ after' = [after EXCEPT ![g] = l]

Resume(g) ==
  /\ GoOn(g, after[g])
  /\ kind' = [kind EXCEPT ![g] = "fly"] /\ after' = [after EXCEPT ![g] = "read"]
  /\ Forgotten(g)

\* The cooldown is asked and started in a step: a kind is detected by one
\* goroutine only.
DetectAsk(g) ==
  /\ pc[g] = "detect"
  /\ IF kind[g] \in cooling
     THEN Resume(g) /\ UNCHANGED cooling
     ELSE /\ Goto(g, "event")
          /\ cooling' = cooling \cup {kind[g]}
          /\ UNCHANGED meters
  /\ UNCHANGED <<at, counts, local, bounds, rights, resetting, ticker>>

\* Eye.ExecuteEvent returns.
DetectEvent(g) ==
  /\ pc[g] = "event"
  /\ Resume(g)
  /\ UNCHANGED <<at, counts, local, bounds, rights, cooling, resetting, ticker>>

\* 30 seconds pass.
CoolDown ==
  /\ \E k \in cooling : cooling' = cooling \ {k}
  /\ UNCHANGED <<at, meters, counts, own, bounds, rights, resetting, ticker, amid>>

-----------------------------------------------------------------------------
(* Move. *)

CanFly == "allowFlight" \in flags \/ creative

\* The client's goroutine reads its next packet.
Packet == pc["client"] = "read" /\ packets < MaxPackets /\ packets' = packets + 1

MoveBegin ==
  /\ Packet
  /\ \E p \in Places, y \in Yaws :
       \/ p = Position /\ UNCHANGED <<at, to, control, amid>>
       \/ p # Position /\ CanFly /\ at' = Turned(p, y) /\ UNCHANGED <<to, control, amid>>
       \/ /\ p # Position /\ ~CanFly
          /\ to' = Turned(p, y)
          /\ Goto("client", IF useChunks THEN "fly" ELSE "speed")
          /\ UNCHANGED at
  /\ UNCHANGED <<meters, counts, look, sent, aps, calls, ticks, still>>

\* onGround asks the chunks, unless they are no longer used.
OnGround == IF useChunks THEN BOOLEAN ELSE {TRUE}

MoveFly ==
  /\ pc["client"] = "fly"
  /\ \E ground \in OnGround :
       IF ~ground /\ at.y < to.y
       THEN /\ Suspect("client", "fly")
            /\ IF Over("fly", points["fly"] + Gain["fly"])
               THEN Detect("client", "fly", "speed") ELSE Goto("client", "speed")
       ELSE /\ Trust("fly", IF ground THEN Decay["fly"] ELSE FallDecay)
            /\ Goto("client", "speed")
  /\ UNCHANGED <<at, counts, local, bounds, still>>

MoveSpeed ==
  /\ pc["client"] = "speed"
  /\ requests' = requests + 1
  /\ lent' = IF "client" \in amid THEN lent \cup {"requests"} ELSE lent
  /\ IF Far(at, to) THEN Suspect("client", "speed") ELSE Trust("speed", Decay["speed"])
  /\ Goto("client", "check")
  /\ UNCHANGED <<at, perSecond, attacks, local, bounds, still>>

MoveCheck ==
  /\ pc["client"] = "check"
  /\ IF Over("speed", points["speed"])
     THEN Detect("client", "speed", "timer") ELSE Goto("client", "timer")
  /\ UNCHANGED <<at, meters, counts, local, bounds, still>>

MoveTimer ==
  /\ pc["client"] = "timer"
  /\ IF perSecond > MoveRate
     THEN /\ Suspect("client", "timer")
          /\ IF Over("timer", points["timer"] + Gain["timer"])
             THEN Detect("client", "timer", "end") ELSE Goto("client", "end")
     ELSE Trust("timer", Decay["timer"]) /\ Goto("client", "end")
  /\ UNCHANGED <<at, counts, local, bounds, still>>

\* What two unsynchronized stores of a position leave: words of both.
Mixes(p, q) == {[c \in Coords |-> IF c \in S THEN p[c] ELSE q[c]] : S \in SUBSET Coords}

\* The deferred stores, which may meet those of a Reset.
MoveEnd ==
  /\ pc["client"] = "end"
  /\ \/ at' = to /\ UNCHANGED resetting
     \/ placing /\ at' \in Mixes(to, target) /\ placing' = FALSE /\ target' = Zero
  /\ to' = Zero
  /\ Goto("client", "read")
  /\ UNCHANGED <<meters, counts, look, sent, aps, bounds, rights, cooling, ticker>>

-----------------------------------------------------------------------------
(* Attack. *)

\* Attack counts, and reads the yaw ...
AttackBegin ==
  /\ Packet /\ ~placing
  /\ attacks' = attacks + 1
  /\ look' = at.yaw
  /\ Goto("client", "judge")
  /\ UNCHANGED <<at, meters, requests, perSecond, lent, to, sent, aps, calls, ticks, still>>

\* ... and then the position of the other player and its own.
AttackJudge ==
  /\ pc["client"] = "judge"
  /\ look' = 0
  /\ \E other \in Places :
       IF ValidAttackDirection(look, at, other)
       THEN Trust("killaura", Decay["killaura"]) /\ Goto("client", "read")
       ELSE IF Over("killaura", points["killaura"] + Gain["killaura"])
       THEN /\ points' = [points EXCEPT !["killaura"] = 0]
            /\ Noted("client", "killaura")
            /\ Detect("client", "killaura", "read")
       ELSE Suspect("client", "killaura") /\ Goto("client", "read")
  /\ UNCHANGED <<at, counts, to, sent, aps, bounds, still>>

-----------------------------------------------------------------------------
(* UpdateFlags. *)

\* The flags the switch looks for after Flying, in its order.
Guarded == <<"allowFlight", "noClip", "worldBuilder", "noPVP", "worldImmutable">>

\* The packet is believed without a look at the old flags (slip).
VerifiedUnasked(f) == "flying" \in f => CanFly

\* Only the first case that matches is asked.
Verified(f) ==
  IF "flying" \in f THEN CanFly
  ELSE \A i \in DOMAIN Guarded :
         Guarded[i] \in f /\ (\A j \in 1 .. i - 1 : Guarded[j] \notin f) =>
           Guarded[i] \in flags

FlagsBegin ==
  /\ Packet
  /\ \E f \in Sent :
       \/ Verified(f) /\ sent' = f /\ Goto("client", "flags")
       \/ /\ ~Verified(f) /\ UNCHANGED sent
          /\ IF "flying" \in f THEN Detect("client", "fly", "read")
             ELSE UNCHANGED <<control, amid>>
  /\ UNCHANGED <<at, meters, counts, to, look, aps, calls, ticks, still>>

FlagsStore ==
  /\ pc["client"] = "flags"
  /\ flags' = sent /\ sent' = {}
  /\ Goto("client", "read")
  /\ UNCHANGED <<at, meters, counts, to, look, aps, bounds, creative, useChunks, mayFly,
                 overtaken, cooling, resetting, ticker>>

-----------------------------------------------------------------------------
(* The ticker. *)

TickMoves ==
  /\ pc["ticker"] = "wait" /\ ticker # "stopped" /\ ticks < MaxTicks /\ ~Moving
  /\ ticks' = ticks + 1
  /\ ticker' = IF ticker = "running" THEN ticker ELSE "stopped"
  /\ perSecond' = requests /\ requests' = 0
  /\ lent' = IF "requests" \in lent THEN {"perSecond"} ELSE {}
  /\ Goto("ticker", "swap")
  /\ UNCHANGED <<at, meters, attacks, local, packets, calls, rights, cooling, resetting>>

TickSwap ==
  /\ pc["ticker"] = "swap"
  /\ aps' = attacks /\ attacks' = 0
  /\ Goto("ticker", "judge")
  /\ UNCHANGED <<at, meters, requests, perSecond, lent, to, look, sent, bounds, still>>

TickJudge ==
  /\ pc["ticker"] = "judge"
  /\ aps' = 0
  /\ \/ /\ aps >= AttackRate
        /\ Suspect("ticker", "autoclicker")
        /\ IF Over("autoclicker", points["autoclicker"] + Gain["autoclicker"])
           THEN Detect("ticker", "autoclicker", "wait") ELSE Goto("ticker", "wait")
     \/ /\ aps < AttackRate /\ Goto("ticker", "wait")
        /\ IF aps = 0 THEN UNCHANGED meters ELSE Trust("autoclicker", Decay["autoclicker"])
  /\ UNCHANGED <<at, counts, to, look, sent, bounds, still>>

-----------------------------------------------------------------------------
(* Calls of the servers and of the embedding program. *)

Call == calls < MaxCalls /\ calls' = calls + 1

Teleport ==
  /\ Call /\ ~Moving
  /\ \E p \in Places, y \in Yaws : at' = Turned(p, y)
  /\ UNCHANGED <<meters, counts, own, packets, ticks, still, amid>>

\* A word of the server about flight.
Word(may) == mayFly' = may /\ overtaken' = (pc["client"] = "flags")

SetFlags ==
  /\ Call
  /\ \E f \in Sent : flags' = f /\ Word(creative \/ "allowFlight" \in f)
  /\ UNCHANGED <<at, meters, counts, own, packets, ticks, creative, useChunks, cooling,
                 resetting, ticker, amid>>

SetGamemode ==
  /\ Call
  /\ creative' \in BOOLEAN /\ mayFly' = (mayFly \/ creative')
  /\ UNCHANGED <<at, meters, counts, own, packets, ticks, flags, useChunks, overtaken, cooling,
                 resetting, ticker, amid>>

SetUseChunks ==
  /\ Call /\ ~placing /\ ~Attacking
  /\ useChunks' \in BOOLEAN
  /\ UNCHANGED <<at, meters, counts, own, packets, ticks, flags, creative, mayFly, overtaken,
                 cooling, resetting, ticker, amid>>

\* One of the meters is forgotten (slip).
ClearedButSpeed == [k \in Kinds |-> IF k = "speed" THEN points[k] ELSE 0]

Cleared == [k \in Kinds |-> 0]

\* clear: everything but speedPerSecond.
Clear ==
  /\ useChunks' = TRUE /\ creative' = FALSE /\ flags' = {} /\ Word(FALSE)
  /\ at' = Zero
  /\ points' = Cleared /\ fresh' = [k \in Kinds |-> 0] /\ old' = {}
  /\ requests' = 0 /\ attacks' = 0
  /\ lent' = IF perSecond = 0 THEN {} ELSE {"perSecond"}
  /\ amid' = {g \in {"client", "ticker"} : pc[g] \notin {"read", "wait"}}
  /\ UNCHANGED perSecond

\* Reset waits for Attack, not for Move: clear ...
ResetClear ==
  /\ Call /\ ~placing /\ ~Attacking
  /\ Clear
  /\ \E p \in Places, y \in Yaws : target' = Turned(p, y)
  /\ placing' = TRUE
  /\ UNCHANGED <<own, packets, ticks, cooling, ticker>>

\* ... and then the position.
ResetPlace ==
  /\ placing /\ at' = target
  /\ placing' = FALSE /\ target' = Zero
  /\ UNCHANGED <<meters, counts, own, bounds, rights, cooling, ticker, amid>>

\* Close takes no mutex; a tick the stopped ticker has sent is still received.
CloseProfile ==
  /\ ticker = "running" /\ ticker' \in {"buffered", "stopped"}
  /\ Clear
  /\ UNCHANGED <<own, bounds, cooling, resetting>>

-----------------------------------------------------------------------------
Init ==
  /\ at = Zero /\ points = [k \in Kinds |-> 0] /\ requests = 0 /\ perSecond = 0 /\ attacks = 0
  /\ flags = {} /\ creative = FALSE /\ useChunks = TRUE /\ cooling = {}
  /\ pc = [client |-> "read", ticker |-> "wait"]
  /\ kind = [g \in {"client", "ticker"} |-> "fly"]
  /\ after = [g \in {"client", "ticker"} |-> "read"]
  /\ to = Zero /\ look = 0 /\ sent = {} /\ aps = 0
  /\ placing = FALSE /\ target = Zero /\ ticker = "running"
  /\ packets = 0 /\ calls = 0 /\ ticks = 0
  /\ fresh = [k \in Kinds |-> 0] /\ old = {} /\ lent = {} /\ amid = {}
  /\ mayFly = FALSE /\ overtaken = FALSE

Client ==
  \/ MoveBegin \/ MoveFly \/ MoveSpeed \/ MoveCheck \/ MoveTimer \/ MoveEnd
  \/ AttackBegin \/ AttackJudge \/ FlagsBegin \/ FlagsStore

Ticker == TickMoves \/ TickSwap \/ TickJudge

Next ==
  \/ Client \/ Ticker
  \/ \E g \in {"client", "ticker"} : DetectAsk(g) \/ DetectEvent(g)
  \/ CoolDown
  \/ Teleport \/ SetFlags \/ SetGamemode \/ SetUseChunks
  \/ ResetClear \/ ResetPlace \/ CloseProfile

Spec == Init /\ [][Next]_vars

-----------------------------------------------------------------------------
(* Properties. *)

Labels == {"read", "fly", "speed", "check", "timer", "end", "judge", "flags", "detect", "event"}

Typed ==
  /\ at \in [Coords -> Int] /\ points \in [Kinds -> Nat] /\ fresh \in [Kinds -> Nat]
  /\ old \subseteq Kinds /\ lent \subseteq {"requests", "perSecond"}
  /\ amid \subseteq {"client", "ticker"}
  /\ requests \in Nat /\ perSecond \in Nat /\ attacks \in Nat /\ aps \in Nat
  /\ flags \subseteq UNION Sent /\ sent \subseteq UNION Sent
  /\ creative \in BOOLEAN /\ useChunks \in BOOLEAN /\ cooling \subseteq Kinds
  /\ pc \in [client : Labels, ticker : {"wait", "swap", "judge", "detect", "event"}]
  /\ kind \in [{"client", "ticker"} -> Kinds]
  /\ after \in [{"client", "ticker"} -> Labels \cup {"wait"}]
  /\ to \in [Coords -> Int] /\ target \in [Coords -> Int] /\ placing \in BOOLEAN
  /\ look \in Int /\ ticker \in {"running", "buffered", "stopped"}
  /\ mayFly \in BOOLEAN /\ overtaken \in BOOLEAN

\* When nothing is being counted, no points stand over their limit: whatever passes a
\* limit is reported, or not as its kind is cooling, and forgotten.
Settled == pc["client"] = "read" /\ pc["ticker"] = "wait" => \A k \in Kinds : ~Over(k, points[k])

\* TypeOK: the variables have their types, and points are settled between packets and
\* ticks.
TypeOK == Typed /\ Settled

\* EarnedReports: a report of detected rests on as many suspicious observations
\* as its limit asks for, all made since the last report of its kind, and about what
\* the player has done since the last Reset.  Excepted are the report of UpdateFlags,
\* one of a packet or tick that was under way when Reset came, and one with an
\* observation about such a packet or tick, or, of the timer, about a rate of moves
\* that Reset keeps or that such a packet has gone into.
EarnedReports ==
  \A g \in {"client", "ticker"} :
    pc[g] = "event" /\ g \notin amid /\ ~FromFlags(g) =>
      kind[g] \in old \/ Over(kind[g], fresh[kind[g]] * Gain[kind[g]])

\* FlightGranted: a client comes to AllowFlight by the last word of the server
\* about it, or a game mode, and by no sequence of its own packets; but for an
\* UpdateFlags that has verified the flags before that word and stores them after it.
FlightGranted == ~overtaken => ("allowFlight" \in flags => mayFly)

Looks == [south |-> 0, west |-> 90, north |-> 180, east |-> 270]
Ways == [south |-> <<0, 1>>, west |-> <<-1, 0>>, north |-> <<0, -1>>, east |-> <<1, 0>>]

\* The direction of yaw, if it is none of the angles Facing says nothing of.
Nearest(yaw) == {c \in DOMAIN Looks : (yaw - Looks[c] + 44) % 360 <= 88 /\ yaw % 360 # 90}

\* AimJudged: of an attack on somebody who is not exactly north, south, east or
\* west, Attack takes for valid just those on the half of the plane the player
\* looks at: the turned angles of Facing and the quarters of playerDirection
\* agree with the axes of the world.
AimJudged ==
  pc["client"] = "judge" =>
    \A other \in Places, c \in Nearest(look) :
      LET dx == other.x - at.x
          dz == other.z - at.z
      IN dx # 0 /\ dz # 0 =>
           (ValidAttackDirection(look, at, other) <=> dx * Ways[c][1] + dz * Ways[c][2] > 0)

\* ResetResetsAll: when a Reset begins its clear, all values a player is measured
\* by are reset, as AntiCheatProfile says of Reset.
ResetResetsAll ==
  [][~placing /\ placing' =>
       /\ \A k \in Kinds : points'[k] = 0
       /\ requests' = 0 /\ perSecond' = 0 /\ attacks' = 0]_vars
=============================================================================
