--------------------------- MODULE AntiCheat_proofs ---------------------------
(***************************************************************************)
(* Proofs about AntiCheat, for any positions, yaws, flags, limits and      *)
(* rates, and any number of packets, calls and ticks.                      *)
(***************************************************************************)
EXTENDS AntiCheat, TLAPS

Threads == {"client", "ticker"}

\* Goroutine g is in the middle of detected.
Detecting(g) == pc[g] \in {"detect", "event"}

\* Who detects what, and where it goes on.
DetectsOwn ==
  /\ Detecting("client") =>
       <<kind["client"], after["client"]>> \in
         {<<"fly", "speed">>, <<"speed", "timer">>, <<"timer", "end">>, <<"killaura", "read">>,
          <<"fly", "read">>}
  /\ Detecting("ticker") => kind["ticker"] = "autoclicker" /\ after["ticker"] = "wait"

\* Points are what suspicious observations have added, at most, if all of those are
\* of the time since the last Reset.
Earned == \A k \in Kinds : k \notin old => points[k] <= fresh[k] * Gain[k]

\* EarnedReports, from the call of detected on.
EarnedCalls ==
  \A g \in Threads :
    Detecting(g) /\ g \notin amid /\ ~FromFlags(g) =>
      kind[g] \in old \/ Over(kind[g], fresh[kind[g]] * Gain[kind[g]])

\* Points stand over their limit only on the way to detected and back.
OverOnTheWay ==
  \A k \in Kinds : Over(k, points[k]) =>
    \/ \E g \in Threads : Detecting(g) /\ kind[g] = k /\ ~FromFlags(g)
    \/ k = "speed" /\ pc["client"] = "check"

\* FlightGranted, with what grants it and what is on its way.
Granted ==
  /\ creative => mayFly
  /\ pc["client"] = "flags" /\ ~overtaken /\ "allowFlight" \in sent => mayFly

IInv == /\ Typed /\ DetectsOwn /\ Earned /\ EarnedCalls /\ OverOnTheWay /\ Granted
        /\ FlightGranted

-----------------------------------------------------------------------------
(* Points. *)

\* The types of what is counted of suspicious observations.
Measured == points \in [Kinds -> Nat] /\ fresh \in [Kinds -> Nat] /\ old \subseteq Kinds

\* Nothing is counted of kind k.
Kept(k) == points'[k] = points[k] /\ fresh'[k] = fresh[k] /\ (k \in old' <=> k \in old)

LEMMA Amounts ==
  /\ \A k \in Kinds : /\ Gain[k] \in Nat /\ Decay[k] \in Nat
                      /\ Limit[k] \in Nat /\ Limit[k] # 0
                      /\ \A n \in Nat : n * Gain[k] \in Nat /\ (n + 1) * Gain[k] = n * Gain[k] + Gain[k]
  /\ FallDecay \in Nat
<1>1. \A k \in Kinds : Limit[k] \in Nat /\ Limit[k] # 0  BY AntiCheatAssumption
<1>2. ASSUME NEW k \in Kinds, NEW n \in Nat
      PROVE  /\ Gain[k] \in Nat /\ Decay[k] \in Nat
             /\ n * Gain[k] \in Nat /\ (n + 1) * Gain[k] = n * Gain[k] + Gain[k]
  BY DEF Kinds, Gain, Decay
<1>. QED  BY <1>1, <1>2 DEF FallDecay

LEMMA OverMore ==
  ASSUME NEW k \in Kinds, NEW v \in Nat, NEW w \in Nat, v <= w, Over(k, v)
  PROVE  Over(k, w)
BY Amounts DEF Over

LEMMA NothingOver == ASSUME NEW k \in Kinds PROVE ~Over(k, 0)
BY Amounts DEF Over

LEMMA NotedMeters ==
  ASSUME Typed, NEW g, NEW k \in Kinds, Noted(g, k)
  PROVE  /\ fresh' \in [Kinds -> Nat] /\ old' \subseteq Kinds
         /\ k \notin old' => k \notin old /\ fresh'[k] = fresh[k] + 1
         /\ \A j \in Kinds : j # k => fresh'[j] = fresh[j] /\ (j \in old' <=> j \in old)
<1>1. fresh \in [Kinds -> Nat] /\ old \subseteq Kinds  BY DEF Typed
<1>2. CASE Stale(g, k)  BY <1>1, <1>2 DEF Noted
<1>3. CASE ~Stale(g, k)  BY <1>1, <1>3 DEF Noted
<1>. QED  BY <1>2, <1>3

LEMMA SuspectMeters ==
  ASSUME Typed, Earned, NEW g, NEW k \in Kinds, Suspect(g, k)
  PROVE  /\ Measured' /\ Earned'
         /\ points'[k] = points[k] + Gain[k]
         /\ \A j \in Kinds : j # k => Kept(j)
<1>1. points \in [Kinds -> Nat] /\ fresh \in [Kinds -> Nat]  BY DEF Typed
<1>2. Gain[k] \in Nat  BY Amounts
<1>3. /\ points' \in [Kinds -> Nat] /\ points'[k] = points[k] + Gain[k]
      /\ \A j \in Kinds : j # k => points'[j] = points[j]
  BY <1>1, <1>2 DEF Suspect
<1>4. /\ fresh' \in [Kinds -> Nat] /\ old' \subseteq Kinds
      /\ k \notin old' => k \notin old /\ fresh'[k] = fresh[k] + 1
      /\ \A j \in Kinds : j # k => fresh'[j] = fresh[j] /\ (j \in old' <=> j \in old)
  BY NotedMeters DEF Suspect
<1>5. k \notin old' => points'[k] <= fresh'[k] * Gain[k]
  BY <1>1, <1>3, <1>4, Amounts DEF Earned
<1>6. Earned'  BY <1>3, <1>4, <1>5 DEF Earned
<1>. QED  BY <1>3, <1>4, <1>6 DEF Measured, Kept

LEMMA TrustMeters ==
  ASSUME Typed, Earned, NEW k \in Kinds, NEW decay \in Nat, Trust(k, decay)
  PROVE  /\ Measured' /\ Earned'
         /\ points'[k] <= points[k]
         /\ \A j \in Kinds : j # k => Kept(j)
<1>1. points \in [Kinds -> Nat] /\ fresh \in [Kinds -> Nat] /\ old \subseteq Kinds  BY DEF Typed
<1>2. /\ points' \in [Kinds -> Nat] /\ fresh' \in [Kinds -> Nat] /\ old' \subseteq Kinds
      /\ points'[k] = IF points[k] < decay THEN 0 ELSE points[k] - decay
      /\ fresh'[k] = IF points[k] <= decay THEN 0 ELSE fresh[k]
      /\ k \notin old' => k \notin old \/ points[k] <= decay
      /\ \A j \in Kinds : j # k =>
           points'[j] = points[j] /\ fresh'[j] = fresh[j] /\ (j \in old' <=> j \in old)
  BY <1>1 DEF Trust
<1>3. points'[k] <= points[k]  BY <1>1, <1>2
<1>4. k \notin old' => points'[k] <= fresh'[k] * Gain[k]
  <2>1. 0 * Gain[k] = 0  BY Amounts
  <2>2. /\ k \notin old => points[k] <= fresh[k] * Gain[k]
        /\ fresh[k] * Gain[k] \in Nat
    BY <1>1, Amounts DEF Earned
  <2>. QED  BY <1>1, <1>2, <2>1, <2>2
<1>5. Earned'  BY <1>2, <1>4 DEF Earned
<1>. QED  BY <1>2, <1>3, <1>5 DEF Measured, Kept

LEMMA ForgetMeters ==
  ASSUME Typed, Earned, NEW k \in Kinds, Forget(k)
  PROVE  /\ Measured' /\ Earned'
         /\ points'[k] = 0
         /\ \A j \in Kinds : j # k => Kept(j)
<1>1. points \in [Kinds -> Nat] /\ fresh \in [Kinds -> Nat] /\ old \subseteq Kinds  BY DEF Typed
<1>2. /\ points' \in [Kinds -> Nat] /\ fresh' \in [Kinds -> Nat] /\ old' \subseteq Kinds
      /\ points'[k] = 0 /\ fresh'[k] = 0
      /\ \A j \in Kinds : j # k =>
           points'[j] = points[j] /\ fresh'[j] = fresh[j] /\ (j \in old' <=> j \in old)
  BY <1>1 DEF Forget
<1>3. points'[k] <= fresh'[k] * Gain[k]  BY <1>2, Amounts
<1>4. Earned'  BY <1>2, <1>3 DEF Earned
<1>. QED  BY <1>2, <1>4 DEF Measured, Kept

\* Gain and Decay of a kind, by name.
LEMMA Kinded ==
  /\ {"fly", "speed", "timer", "killaura", "autoclicker"} = Kinds
  /\ \A k \in Kinds : Decay[k] \in Nat
BY Amounts DEF Kinds

-----------------------------------------------------------------------------
(* Types. *)

LEMMA TurnedTyped ==
  /\ \A p \in Places, y \in Yaws : Turned(p, y) \in [Coords -> Int]
  /\ Zero \in [Coords -> Int]
  /\ \A p, q \in [Coords -> Int] : \A m \in Mixes(p, q) : m \in [Coords -> Int]
<1>1. ASSUME NEW p \in Places, NEW y \in Yaws  PROVE Turned(p, y) \in [Coords -> Int]
  BY AntiCheatAssumption DEF Turned, Coords
<1>2. Zero \in [Coords -> Int]  BY DEF Zero
<1>3. ASSUME NEW p \in [Coords -> Int], NEW q \in [Coords -> Int], NEW m \in Mixes(p, q)
      PROVE  m \in [Coords -> Int]
  BY DEF Mixes
<1>. QED  BY <1>1, <1>2, <1>3

\* Where the goroutines are.
Placed ==
  /\ pc \in [client : Labels, ticker : {"wait", "swap", "judge", "detect", "event"}]
  /\ kind \in [Threads -> Kinds] /\ after \in [Threads -> Labels \cup {"wait"}]
  /\ amid \subseteq Threads

LEMMA GoTyped ==
  ASSUME Typed
  PROVE  /\ \A l \in Labels : Goto("client", l) => Placed'
         /\ \A l \in {"wait", "swap", "judge"} : Goto("ticker", l) => Placed'
         /\ \A k \in Kinds, l \in Labels : Detect("client", k, l) => Placed'
         /\ Detect("ticker", "autoclicker", "wait") => Placed'
         /\ UNCHANGED <<control, amid>> => Placed'
<1>. USE DEF Typed, Placed, Threads, Labels
<1>1. ASSUME NEW l \in Labels, Goto("client", l)  PROVE Placed'  BY <1>1 DEF Goto, GoOn
<1>2. ASSUME NEW l \in {"wait", "swap", "judge"}, Goto("ticker", l)  PROVE Placed'
  BY <1>2 DEF Goto, GoOn
<1>3. ASSUME NEW k \in Kinds, NEW l \in Labels, Detect("client", k, l)  PROVE Placed'
  BY <1>3 DEF Detect, GoOn
<1>4. Detect("ticker", "autoclicker", "wait") => Placed'  BY Kinded DEF Detect, GoOn
<1>5. UNCHANGED <<control, amid>> => Placed'  BY DEF control
<1>. QED  BY <1>1, <1>2, <1>3, <1>4, <1>5

LEMMA ClientTyped == ASSUME Typed, Earned, Client PROVE Typed'
<1>. USE DEF Typed, still, rights, resetting, local, bounds, counts, meters, Measured
<1>0. /\ {"read", "fly", "speed", "check", "timer", "end", "judge", "flags"} \subseteq Labels
      /\ {"fly", "speed", "timer", "killaura"} \subseteq Kinds
      /\ Decay["fly"] \in Nat /\ Decay["speed"] \in Nat /\ Decay["timer"] \in Nat
      /\ Decay["killaura"] \in Nat /\ FallDecay \in Nat
  BY Kinded, Amounts DEF Labels
<1>1. CASE MoveBegin
  <2>1. Placed'  BY <1>0, <1>1, GoTyped DEF MoveBegin
  <2>2. at' \in [Coords -> Int] /\ to' \in [Coords -> Int]  BY <1>1, TurnedTyped DEF MoveBegin
  <2>. QED  BY <1>1, <2>1, <2>2 DEF MoveBegin, Placed, Threads
<1>2. CASE MoveFly
  <2>1. Placed'  BY <1>0, <1>2, GoTyped DEF MoveFly
  <2>2. Measured'
    BY <1>0, <1>2, SuspectMeters, TrustMeters DEF MoveFly
  <2>. QED  BY <1>2, <2>1, <2>2 DEF MoveFly, Placed, Threads
<1>3. CASE MoveSpeed
  <2>1. Placed'  BY <1>0, <1>3, GoTyped DEF MoveSpeed
  <2>2. Measured'
    BY <1>0, <1>3, SuspectMeters, TrustMeters DEF MoveSpeed
  <2>. QED  BY <1>3, <2>1, <2>2 DEF MoveSpeed, Placed, Threads
<1>4. CASE MoveCheck
  <2>1. Placed'  BY <1>0, <1>4, GoTyped DEF MoveCheck
  <2>. QED  BY <1>4, <2>1 DEF MoveCheck, Placed, Threads
<1>5. CASE MoveTimer
  <2>1. Placed'  BY <1>0, <1>5, GoTyped DEF MoveTimer
  <2>2. Measured'
    BY <1>0, <1>5, SuspectMeters, TrustMeters DEF MoveTimer
  <2>. QED  BY <1>5, <2>1, <2>2 DEF MoveTimer, Placed, Threads
<1>6. CASE MoveEnd
  <2>1. Placed'  BY <1>0, <1>6, GoTyped DEF MoveEnd
  <2>2. at' \in [Coords -> Int] /\ to' \in [Coords -> Int] /\ target' \in [Coords -> Int]
    BY <1>6, TurnedTyped DEF MoveEnd
  <2>. QED  BY <1>6, <2>1, <2>2 DEF MoveEnd, Placed, Threads
<1>7. CASE AttackBegin
  <2>1. Placed'  BY <1>0, <1>7, GoTyped DEF AttackBegin
  <2>2. look' \in Int  BY <1>7 DEF AttackBegin, Coords
  <2>. QED  BY <1>7, <2>1, <2>2 DEF AttackBegin, Placed, Threads
<1>8. CASE AttackJudge
  <2>1. Placed'  BY <1>0, <1>8, GoTyped DEF AttackJudge
  <2>2. Measured'
    <3>1. /\ [points EXCEPT !["killaura"] = 0] \in [Kinds -> Nat]
          /\ Noted("client", "killaura") => fresh' \in [Kinds -> Nat] /\ old' \subseteq Kinds
      BY <1>0, NotedMeters
    <3>2. Trust("killaura", Decay["killaura"]) \/ Suspect("client", "killaura") => Measured'
      BY <1>0, SuspectMeters, TrustMeters
    <3>. QED  BY <1>8, <3>1, <3>2, Zenon DEF AttackJudge
  <2>3. look' \in Int  BY <1>8 DEF AttackJudge
  <2>4. UNCHANGED <<at, counts, to, sent, aps, still>>  BY <1>8 DEF AttackJudge
  <2>. QED  BY <2>1, <2>2, <2>3, <2>4 DEF Placed, Threads
<1>9. CASE FlagsBegin
  <2>1. Placed'  BY <1>0, <1>9, GoTyped DEF FlagsBegin
  <2>2. sent' \subseteq UNION Sent  BY <1>9 DEF FlagsBegin
  <2>. QED  BY <1>9, <2>1, <2>2 DEF FlagsBegin, Placed, Threads
<1>10. CASE FlagsStore
  <2>1. Placed'  BY <1>0, <1>10, GoTyped DEF FlagsStore
  <2>. QED  BY <1>10, <2>1 DEF FlagsStore, Placed, Threads
<1>. QED  BY <1>1, <1>2, <1>3, <1>4, <1>5, <1>6, <1>7, <1>8, <1>9, <1>10 DEF Client

LEMMA TickerTyped == ASSUME Typed, Earned, Ticker PROVE Typed'
<1>. USE DEF Typed, still, rights, resetting, local, bounds, counts, meters, Measured
<1>0. "autoclicker" \in Kinds /\ Decay["autoclicker"] \in Nat  BY Kinded
<1>1. CASE TickMoves
  <2>1. Placed'  BY <1>1, GoTyped DEF TickMoves
  <2>. QED  BY <1>1, <2>1 DEF TickMoves, Placed, Threads
<1>2. CASE TickSwap
  <2>1. Placed'  BY <1>2, GoTyped DEF TickSwap
  <2>. QED  BY <1>2, <2>1 DEF TickSwap, Placed, Threads
<1>3. CASE TickJudge
  <2>1. Placed'  BY <1>3, GoTyped DEF TickJudge
  <2>2. Measured'
    BY <1>0, <1>3, SuspectMeters, TrustMeters DEF TickJudge
  <2>. QED  BY <1>3, <2>1, <2>2 DEF TickJudge, Placed, Threads
<1>. QED  BY <1>1, <1>2, <1>3 DEF Ticker

LEMMA DetectTyped ==
  ASSUME Typed, Earned, DetectsOwn, NEW g \in Threads, DetectAsk(g) \/ DetectEvent(g)
  PROVE  Typed'
<1>. USE Kinded DEF Typed, still, rights, resetting, local, bounds, counts, meters, Measured,
         Goto, GoOn, Labels, Threads
<1>1. ASSUME Resume(g), Detecting(g)
      PROVE  /\ Measured' /\ amid' \subseteq Threads
             /\ pc' \in [client : Labels, ticker : {"wait", "swap", "judge", "detect", "event"}]
             /\ kind' \in [Threads -> Kinds] /\ after' \in [Threads -> Labels \cup {"wait"}]
  <2>1. Measured'
    BY <1>1, ForgetMeters DEF Resume, Forgotten
  <2>2. g = "client" => after[g] \in Labels
    BY <1>1 DEF DetectsOwn
  <2>3. g = "ticker" => after[g] = "wait"
    BY <1>1 DEF DetectsOwn
  <2>. QED  BY <1>1, <2>1, <2>2, <2>3 DEF Resume
<1>2. CASE DetectAsk(g)
  <2>1. CASE Resume(g)  BY <1>1, <1>2, <2>1 DEF DetectAsk, Detecting, Resume
  <2>2. CASE ~Resume(g)  BY <1>2, <2>2 DEF DetectAsk
  <2>. QED  BY <2>1, <2>2
<1>3. CASE DetectEvent(g)  BY <1>1, <1>3 DEF DetectEvent, Detecting, Resume
<1>. QED  BY <1>2, <1>3

LEMMA CallsTyped ==
  ASSUME Typed,
         \/ CoolDown \/ Teleport \/ SetFlags \/ SetGamemode \/ SetUseChunks
         \/ ResetClear \/ ResetPlace \/ CloseProfile
  PROVE  Typed'
<1>. USE DEF Typed, still, rights, resetting, own, control, local, bounds, counts, meters,
         Measured, Call, Word
<1>1. CASE CoolDown  BY <1>1 DEF CoolDown
<1>2. CASE Teleport  BY <1>2, TurnedTyped DEF Teleport
<1>3. CASE SetFlags  BY <1>3 DEF SetFlags
<1>4. CASE SetGamemode  BY <1>4 DEF SetGamemode
<1>5. CASE SetUseChunks  BY <1>5 DEF SetUseChunks
<1>6. ASSUME Clear
      PROVE  /\ at' \in [Coords -> Int] /\ Measured'
             /\ lent' \subseteq {"requests", "perSecond"} /\ amid' \subseteq {"client", "ticker"}
             /\ requests' \in Nat /\ attacks' \in Nat /\ perSecond' \in Nat
             /\ flags' \subseteq UNION Sent /\ creative' \in BOOLEAN /\ useChunks' \in BOOLEAN
             /\ mayFly' \in BOOLEAN /\ overtaken' \in BOOLEAN
  BY <1>6, TurnedTyped DEF Clear, Cleared, Measured
<1>7. CASE ResetClear  BY <1>6, <1>7, TurnedTyped DEF ResetClear
<1>8. CASE ResetPlace  BY <1>8, TurnedTyped DEF ResetPlace
<1>9. CASE CloseProfile  BY <1>6, <1>9 DEF CloseProfile
<1>. QED  BY <1>1, <1>2, <1>3, <1>4, <1>5, <1>7, <1>8, <1>9

-----------------------------------------------------------------------------
(* Reports. *)

\* What is proved of the reports.
Reports == DetectsOwn /\ Earned /\ EarnedCalls /\ OverOnTheWay

\* Who counts the points of kind k.
Counter(k) == IF k = "autoclicker" THEN "ticker" ELSE "client"

LEMMA Owners ==
  ASSUME Typed, DetectsOwn
  PROVE  /\ \A k \in Kinds : Counter(k) \in Threads
         /\ \A g \in Threads : Detecting(g) => Counter(kind[g]) = g /\ kind[g] \in Kinds
<1>1. Detecting("client") => Counter(kind["client"]) = "client"  BY DEF DetectsOwn, Counter
<1>2. Detecting("ticker") => Counter(kind["ticker"]) = "ticker"  BY DEF DetectsOwn, Counter
<1>. QED  BY <1>1, <1>2 DEF Counter, Threads, Typed

\* Before its counter counts, a kind is under its limit.
LEMMA UnderBefore ==
  ASSUME Typed, Reports, NEW k \in Kinds, ~Detecting(Counter(k)),
         ~(k = "speed" /\ pc["client"] = "check")
  PROVE  ~Over(k, points[k])
BY Owners DEF Reports, OverOnTheWay

\* Goroutine g counts points of kind k, and goes on or calls detected.
LEMMA CountKeeps ==
  ASSUME Typed, Reports, Typed', Earned', NEW k \in Kinds, NEW g \in Threads,
         g = Counter(k), ~Detecting(g), pc["client"] = "check" /\ g = "client" => k = "speed",
         \A j \in Kinds : j # k => Kept(j),
         \A h \in Threads : h # g => pc'[h] = pc[h] /\ kind'[h] = kind[h] /\ after'[h] = after[h],
         amid \ {g} \subseteq amid',
         \/ /\ ~Detecting(g)'
            /\ Over(k, points'[k]) => k = "speed" /\ pc'["client"] = "check"
         \/ /\ pc'[g] = "detect" /\ kind'[g] = k
            /\ g = "client" => <<k, after'[g]>> \in
                 {<<"fly", "speed">>, <<"speed", "timer">>, <<"timer", "end">>,
                  <<"killaura", "read">>, <<"fly", "read">>}
            /\ g = "ticker" => after'[g] = "wait"
            /\ IF k = "fly" /\ after'[g] = "read" THEN ~Over(k, points'[k])
               ELSE k \in old' \/ Over(k, fresh'[k] * Gain[k])
  PROVE  Reports'
<1>. USE DEF Reports
<1>1. \A h \in Threads : h # g => (Detecting(h)' <=> Detecting(h)) /\ (FromFlags(h)' <=> FromFlags(h))
  BY DEF Detecting, FromFlags
<1>2. \A h \in Threads : h # g /\ Detecting(h) => kind[h] \in Kinds /\ kind[h] # k
  BY Owners
<1>3. DetectsOwn'  BY <1>1 DEF DetectsOwn, Detecting, Threads, Counter
<1>4. EarnedCalls'
  <2>. SUFFICES ASSUME NEW h \in Threads, Detecting(h)', h \notin amid', ~FromFlags(h)'
                PROVE  kind'[h] \in old' \/ Over(kind'[h], fresh'[kind'[h]] * Gain[kind'[h]])
    BY DEF EarnedCalls
  <2>1. CASE h = g  BY <2>1 DEF FromFlags, Detecting
  <2>2. CASE h # g  BY <1>1, <1>2, <2>2 DEF EarnedCalls, Kept
  <2>. QED  BY <2>1, <2>2
<1>5. OverOnTheWay'
  <2>. SUFFICES ASSUME NEW j \in Kinds, Over(j, points'[j]), ~(j = "speed" /\ pc'["client"] = "check")
                PROVE  \E h \in Threads : Detecting(h)' /\ kind'[h] = j /\ ~FromFlags(h)'
    BY DEF OverOnTheWay, Over
  <2>1. CASE j = k  BY <2>1 DEF Detecting, FromFlags
  <2>2. CASE j # k
    <3>1. Over(j, points[j])  BY <2>2 DEF Kept
    <3>2. ~(j = "speed" /\ pc["client"] = "check")  BY <2>2 DEF Threads, Counter
    <3>3. PICK h \in Threads : Detecting(h) /\ kind[h] = j /\ ~FromFlags(h)
      BY <3>1, <3>2 DEF OverOnTheWay
    <3>4. h # g  BY <3>3
    <3>. QED  BY <1>1, <3>3, <3>4
  <2>. QED  BY <2>1, <2>2
<1>. QED  BY <1>3, <1>4, <1>5

LEMMA ClientReports == ASSUME Typed, Reports, Typed', Client PROVE Reports'
<1>. USE Kinded DEF Reports
<1>0. /\ pc \in [client : Labels, ticker : {"wait", "swap", "judge", "detect", "event"}]
      /\ kind \in [Threads -> Kinds] /\ after \in [Threads -> Labels \cup {"wait"}]
      /\ points \in [Kinds -> Nat] /\ fresh \in [Kinds -> Nat]
  BY DEF Typed, Threads
<1>1. ASSUME NEW k \in Kinds, k # "autoclicker"  PROVE Counter(k) = "client" /\ "client" \in Threads
  BY <1>1 DEF Counter, Threads
\* The client's goroutine goes on at l, or detects k.
<1>2. ASSUME NEW l, Goto("client", l)
      PROVE  /\ pc'["client"] = l
             /\ amid \ {"client"} \subseteq amid'
             /\ \A h \in Threads : h # "client" =>
                  pc'[h] = pc[h] /\ kind'[h] = kind[h] /\ after'[h] = after[h]
  BY <1>0, <1>2 DEF Goto, GoOn, Threads
<1>3. ASSUME NEW k, NEW l, Detect("client", k, l)
      PROVE  /\ pc'["client"] = "detect" /\ kind'["client"] = k /\ after'["client"] = l
             /\ amid \ {"client"} \subseteq amid'
             /\ \A h \in Threads : h # "client" =>
                  pc'[h] = pc[h] /\ kind'[h] = kind[h] /\ after'[h] = after[h]
  BY <1>0, <1>3 DEF Detect, GoOn, Threads
\* A kind counted under its limit is then over it, or reported.
<1>4. ASSUME NEW k \in Kinds, k # "autoclicker", NEW decay \in Nat, Trust(k, decay),
             ~Over(k, points[k])
      PROVE  ~Over(k, points'[k])
  BY <1>0, <1>4, TrustMeters, OverMore DEF Measured
<1>5. ASSUME NEW k \in Kinds, Suspect("client", k), Over(k, points'[k])
      PROVE  k \in old' \/ Over(k, fresh'[k] * Gain[k])
  <2>1. points'[k] \in Nat /\ fresh'[k] \in Nat /\ Earned'
    BY <1>5, SuspectMeters DEF Measured
  <2>. QED  BY <1>5, <2>1, OverMore, Amounts DEF Earned
<1>6. CASE MoveBegin
  <2>1. \/ UNCHANGED <<control, amid>> 
        \/ Goto("client", "fly") \/ Goto("client", "speed")
    BY <1>6 DEF MoveBegin
  <2>2. pc["client"] = "read" /\ UNCHANGED meters
    BY <1>6 DEF MoveBegin, Packet, meters, still
  <2>3. ~Over("fly", points["fly"])  BY <1>1, <2>2, UnderBefore DEF Detecting
  <2>4. Earned'  BY <2>2 DEF Earned, meters
  <2>. QED  BY <1>1, <1>2, <2>1, <2>2, <2>3, <2>4, CountKeeps DEF Detecting, meters, Kept, control
<1>7. CASE MoveFly
  <2>1. pc["client"] = "fly"  BY <1>7 DEF MoveFly, still
  <2>2. ~Over("fly", points["fly"])  BY <1>1, <2>1, UnderBefore DEF Detecting
  <2>3. CASE /\ Suspect("client", "fly")
             /\ IF Over("fly", points["fly"] + Gain["fly"])
                THEN Detect("client", "fly", "speed") ELSE Goto("client", "speed")
    <3>1. /\ Earned' /\ points'["fly"] = points["fly"] + Gain["fly"]
          /\ \A j \in Kinds : j # "fly" => Kept(j)
      BY <2>3, SuspectMeters
    <3>. QED  BY <1>1, <1>2, <1>3, <1>5, <2>1, <2>3, <3>1, CountKeeps DEF Detecting
  <2>4. ASSUME NEW decay \in Nat, Trust("fly", decay), Goto("client", "speed")
        PROVE  Reports'
    <3>1. /\ Earned' /\ ~Over("fly", points'["fly"])
          /\ \A j \in Kinds : j # "fly" => Kept(j)
      BY <1>4, <2>2, <2>4, TrustMeters
    <3>. QED  BY <1>1, <1>2, <2>1, <2>4, <3>1, CountKeeps DEF Detecting
  <2>. QED  BY <1>7, <2>3, <2>4, Amounts DEF MoveFly
<1>8. CASE MoveSpeed
  <2>1. /\ pc["client"] = "speed" /\ Goto("client", "check")
        /\ Suspect("client", "speed") \/ Trust("speed", Decay["speed"])
    BY <1>8 DEF MoveSpeed, still
  <2>2. /\ Earned'
        /\ \A j \in Kinds : j # "speed" => Kept(j)
    BY <2>1, SuspectMeters, TrustMeters
  <2>. QED  BY <1>1, <1>2, <2>1, <2>2, CountKeeps DEF Detecting
<1>9. CASE MoveCheck
  <2>1. /\ pc["client"] = "check" /\ UNCHANGED meters
        /\ IF Over("speed", points["speed"])
           THEN Detect("client", "speed", "timer") ELSE Goto("client", "timer")
    BY <1>9 DEF MoveCheck, meters, still
  <2>2. Over("speed", points["speed"]) =>
          "speed" \in old \/ Over("speed", fresh["speed"] * Gain["speed"])
    BY <1>0, OverMore, Amounts DEF Earned
  <2>3. Earned'  BY <2>1 DEF Earned, meters
  <2>. QED
    BY <1>1, <1>2, <1>3, <2>1, <2>2, <2>3, CountKeeps DEF Detecting, meters, Kept
<1>10. CASE MoveTimer
  <2>1. pc["client"] = "timer"  BY <1>10 DEF MoveTimer, still
  <2>2. ~Over("timer", points["timer"])  BY <1>1, <2>1, UnderBefore DEF Detecting
  <2>3. CASE /\ Suspect("client", "timer")
             /\ IF Over("timer", points["timer"] + Gain["timer"])
                THEN Detect("client", "timer", "end") ELSE Goto("client", "end")
    <3>1. /\ Earned' /\ points'["timer"] = points["timer"] + Gain["timer"]
          /\ \A j \in Kinds : j # "timer" => Kept(j)
      BY <2>3, SuspectMeters
    <3>. QED  BY <1>1, <1>2, <1>3, <1>5, <2>1, <2>3, <3>1, CountKeeps DEF Detecting
  <2>4. CASE Trust("timer", Decay["timer"]) /\ Goto("client", "end")
    <3>1. /\ Earned' /\ ~Over("timer", points'["timer"])
          /\ \A j \in Kinds : j # "timer" => Kept(j)
      BY <1>4, <2>2, <2>4, TrustMeters
    <3>. QED  BY <1>1, <1>2, <2>1, <2>4, <3>1, CountKeeps DEF Detecting
  <2>. QED  BY <1>10, <2>3, <2>4 DEF MoveTimer
\* Steps that count nothing.
<1>11. ASSUME UNCHANGED meters, pc["client"] \in {"read", "end", "flags"},
              NEW l, Goto("client", l), l \in {"read", "judge", "flags"}
       PROVE  Reports'
  <2>1. ~Over("fly", points["fly"])  BY <1>1, <1>11, UnderBefore DEF Detecting
  <2>2. Earned'  BY <1>11 DEF Earned, meters
  <2>. QED  BY <1>1, <1>2, <1>11, <2>1, <2>2, CountKeeps DEF Detecting, meters, Kept
<1>12. CASE MoveEnd  BY <1>11, <1>12 DEF MoveEnd, meters
<1>13. CASE AttackBegin  BY <1>11, <1>13 DEF AttackBegin, Packet, meters, still
<1>14. CASE FlagsStore  BY <1>11, <1>14 DEF FlagsStore, meters
<1>15. CASE AttackJudge
  <2>1. pc["client"] = "judge"  BY <1>15 DEF AttackJudge, still
  <2>2. ~Over("killaura", points["killaura"])  BY <1>1, <2>1, UnderBefore DEF Detecting
  <2>3. CASE Trust("killaura", Decay["killaura"]) /\ Goto("client", "read")
    <3>1. /\ Earned' /\ ~Over("killaura", points'["killaura"])
          /\ \A j \in Kinds : j # "killaura" => Kept(j)
      BY <1>4, <2>2, <2>3, TrustMeters
    <3>. QED  BY <1>1, <1>2, <2>1, <2>3, <3>1, CountKeeps DEF Detecting
  <2>4. CASE /\ ~Over("killaura", points["killaura"] + Gain["killaura"])
             /\ Suspect("client", "killaura") /\ Goto("client", "read")
    <3>1. /\ Earned' /\ ~Over("killaura", points'["killaura"])
          /\ \A j \in Kinds : j # "killaura" => Kept(j)
      BY <2>4, SuspectMeters
    <3>. QED  BY <1>1, <1>2, <2>1, <2>4, <3>1, CountKeeps DEF Detecting
  <2>5. CASE /\ Over("killaura", points["killaura"] + Gain["killaura"])
             /\ points' = [points EXCEPT !["killaura"] = 0]
             /\ Noted("client", "killaura")
             /\ Detect("client", "killaura", "read")
    <3>1. /\ points'["killaura"] = 0 /\ fresh' \in [Kinds -> Nat]
          /\ "killaura" \notin old' =>
               "killaura" \notin old /\ fresh'["killaura"] = fresh["killaura"] + 1
          /\ \A j \in Kinds : j # "killaura" => Kept(j)
      <4>1. /\ points'["killaura"] = 0
            /\ \A j \in Kinds : j # "killaura" => points'[j] = points[j]
        BY <1>0, <2>5
      <4>. QED  BY <2>5, <4>1, NotedMeters DEF Kept
    <3>2. "killaura" \notin old' =>
            /\ points["killaura"] + Gain["killaura"] <= fresh'["killaura"] * Gain["killaura"]
            /\ points["killaura"] + Gain["killaura"] \in Nat
            /\ fresh'["killaura"] * Gain["killaura"] \in Nat
      <4>. SUFFICES ASSUME "killaura" \notin old'
                    PROVE  /\ points["killaura"] + Gain["killaura"]
                                <= fresh'["killaura"] * Gain["killaura"]
                           /\ points["killaura"] + Gain["killaura"] \in Nat
                           /\ fresh'["killaura"] * Gain["killaura"] \in Nat
        OBVIOUS
      <4>1. /\ points["killaura"] \in Nat /\ fresh["killaura"] \in Nat /\ "killaura" \in Kinds
            /\ points["killaura"] <= fresh["killaura"] * Gain["killaura"]
        BY <1>0, <3>1 DEF Earned
      <4>2. /\ Gain["killaura"] \in Nat /\ fresh["killaura"] * Gain["killaura"] \in Nat
            /\ (fresh["killaura"] + 1) * Gain["killaura"]
                 = fresh["killaura"] * Gain["killaura"] + Gain["killaura"]
        BY <4>1, Amounts
      <4>. HIDE <1>0
      <4>. QED  BY <3>1, <4>1, <4>2
    <3>3. Earned'
      <4>1. fresh'["killaura"] * Gain["killaura"] \in Nat  BY <3>1, Amounts
      <4>. QED  BY <1>0, <3>1, <4>1 DEF Earned, Kept
    <3>4. "killaura" \in old' \/ Over("killaura", fresh'["killaura"] * Gain["killaura"])
      BY <2>5, <3>2, OverMore
    <3>. QED  BY <1>1, <1>3, <2>1, <2>5, <3>1, <3>3, <3>4, CountKeeps DEF Detecting
  <2>. QED  BY <1>15, <2>3, <2>4, <2>5, Zenon DEF AttackJudge
<1>16. CASE FlagsBegin
  <2>1. /\ pc["client"] = "read" /\ UNCHANGED meters
        /\ \/ Goto("client", "flags") \/ Detect("client", "fly", "read")
           \/ UNCHANGED <<control, amid>>
    BY <1>16 DEF FlagsBegin, Packet, meters, still
  <2>2. ~Over("fly", points["fly"])  BY <1>1, <2>1, UnderBefore DEF Detecting
  <2>3. Earned'  BY <2>1 DEF Earned, meters
  <2>. QED
    BY <1>1, <1>2, <1>3, <2>1, <2>2, <2>3, CountKeeps DEF Detecting, meters, Kept, control
<1>. QED  BY <1>6, <1>7, <1>8, <1>9, <1>10, <1>12, <1>13, <1>14, <1>15, <1>16 DEF Client

LEMMA TickerReports == ASSUME Typed, Reports, Typed', Ticker PROVE Reports'
<1>. USE Kinded DEF Reports
<1>0. /\ pc \in [client : Labels, ticker : {"wait", "swap", "judge", "detect", "event"}]
      /\ kind \in [Threads -> Kinds] /\ after \in [Threads -> Labels \cup {"wait"}]
      /\ points \in [Kinds -> Nat] /\ fresh \in [Kinds -> Nat]
      /\ Counter("autoclicker") = "ticker" /\ "ticker" \in Threads
  BY DEF Typed, Threads, Counter
<1>1. ASSUME NEW l, Goto("ticker", l)
      PROVE  /\ pc'["ticker"] = l
             /\ amid \ {"ticker"} \subseteq amid'
             /\ \A h \in Threads : h # "ticker" =>
                  pc'[h] = pc[h] /\ kind'[h] = kind[h] /\ after'[h] = after[h]
  BY <1>0, <1>1 DEF Goto, GoOn, Threads
<1>2. ASSUME Detect("ticker", "autoclicker", "wait")
      PROVE  /\ pc'["ticker"] = "detect" /\ kind'["ticker"] = "autoclicker"
             /\ after'["ticker"] = "wait"
             /\ amid \ {"ticker"} \subseteq amid'
             /\ \A h \in Threads : h # "ticker" =>
                  pc'[h] = pc[h] /\ kind'[h] = kind[h] /\ after'[h] = after[h]
  BY <1>0, <1>2 DEF Detect, GoOn, Threads
<1>3. pc["ticker"] \in {"wait", "swap", "judge"} => ~Over("autoclicker", points["autoclicker"])
  BY <1>0, UnderBefore DEF Detecting
<1>4. ASSUME UNCHANGED meters, pc["ticker"] \in {"wait", "swap", "judge"},
             NEW l \in {"wait", "swap", "judge"}, Goto("ticker", l)
      PROVE  Reports'
  <2>1. Earned'  BY <1>4 DEF Earned, meters
  <2>. QED  BY <1>0, <1>1, <1>3, <1>4, <2>1, CountKeeps DEF Detecting, meters, Kept
<1>5. CASE TickMoves  BY <1>4, <1>5 DEF TickMoves, meters
<1>6. CASE TickSwap  BY <1>4, <1>6 DEF TickSwap, meters, still
<1>7. CASE TickJudge
  <2>1. pc["ticker"] = "judge"  BY <1>7 DEF TickJudge, still
  <2>2. CASE /\ Suspect("ticker", "autoclicker")
             /\ IF Over("autoclicker", points["autoclicker"] + Gain["autoclicker"])
                THEN Detect("ticker", "autoclicker", "wait") ELSE Goto("ticker", "wait")
    <3>1. /\ Earned' /\ points'["autoclicker"] = points["autoclicker"] + Gain["autoclicker"]
          /\ points'["autoclicker"] \in Nat /\ fresh'["autoclicker"] \in Nat
          /\ \A j \in Kinds : j # "autoclicker" => Kept(j)
      BY <2>2, SuspectMeters DEF Measured
    <3>2. Over("autoclicker", points'["autoclicker"]) =>
            \/ "autoclicker" \in old'
            \/ Over("autoclicker", fresh'["autoclicker"] * Gain["autoclicker"])
      BY <3>1, OverMore, Amounts DEF Earned
    <3>. QED  BY <1>0, <1>1, <1>2, <2>1, <2>2, <3>1, <3>2, CountKeeps DEF Detecting
  <2>3. CASE Trust("autoclicker", Decay["autoclicker"]) /\ Goto("ticker", "wait")
    <3>1. /\ Earned' /\ points'["autoclicker"] <= points["autoclicker"]
          /\ points'["autoclicker"] \in Nat
          /\ \A j \in Kinds : j # "autoclicker" => Kept(j)
      BY <2>3, TrustMeters DEF Measured
    <3>2. ~Over("autoclicker", points'["autoclicker"])  BY <1>0, <1>3, <2>1, <3>1, OverMore
    <3>. QED  BY <1>0, <1>1, <2>1, <2>3, <3>1, <3>2, CountKeeps DEF Detecting
  <2>4. CASE UNCHANGED meters /\ Goto("ticker", "wait")  BY <1>4, <2>1, <2>4 DEF meters
  <2>. QED  BY <1>7, <2>2, <2>3, <2>4, Zenon DEF TickJudge
<1>. QED  BY <1>5, <1>6, <1>7 DEF Ticker

LEMMA DetectReports ==
  ASSUME Typed, Reports, Typed', NEW g \in Threads, DetectAsk(g) \/ DetectEvent(g)
  PROVE  Reports'
<1>. USE DEF Reports
<1>0. /\ pc \in [client : Labels, ticker : {"wait", "swap", "judge", "detect", "event"}]
      /\ kind \in [Threads -> Kinds] /\ after \in [Threads -> Labels \cup {"wait"}]
      /\ Detecting(g) /\ kind[g] \in Kinds
  BY DEF Typed, Threads, DetectAsk, DetectEvent, Detecting
<1>1. CASE Goto(g, "event") /\ UNCHANGED meters
  <2>1. /\ UNCHANGED <<kind, after>>
        /\ \A h \in Threads : (Detecting(h)' <=> Detecting(h)) /\ (FromFlags(h)' <=> FromFlags(h))
        /\ pc'["client"] = "check" => pc["client"] = "check"
        /\ pc["client"] = "check" => pc'["client"] = "check"
        /\ amid' = amid
    BY <1>0, <1>1 DEF Goto, GoOn, Threads, Detecting, FromFlags
  <2>2. DetectsOwn' /\ Earned'  BY <1>1, <2>1 DEF DetectsOwn, Earned, Threads, meters
  <2>3. EarnedCalls'  BY <1>1, <2>1 DEF EarnedCalls, Over, meters
  <2>4. OverOnTheWay'  BY <1>1, <2>1 DEF OverOnTheWay, Over, meters
  <2>. QED  BY <2>2, <2>3, <2>4
<1>2. CASE Resume(g)
  <2>1. after[g] \notin {"detect", "event", "check"}  BY <1>0 DEF DetectsOwn, Threads
  <2>2. /\ ~Detecting(g)' /\ amid \ {g} \subseteq amid' /\ pc'[g] # "check"
        /\ \A h \in Threads : h # g => pc'[h] = pc[h] /\ kind'[h] = kind[h] /\ after'[h] = after[h]
    BY <1>0, <1>2, <2>1 DEF Resume, GoOn, Detecting, Threads
  <2>3. \A h \in Threads : h # g => /\ Detecting(h)' <=> Detecting(h)
                                    /\ FromFlags(h)' <=> FromFlags(h)
    BY <2>2 DEF Detecting, FromFlags
  <2>4. /\ Earned'
        /\ \A j \in Kinds : FromFlags(g) \/ j # kind[g] => Kept(j)
        /\ ~FromFlags(g) => points'[kind[g]] = 0
    BY <1>0, <1>2, ForgetMeters DEF Resume, Forgotten, meters, Earned, Kept
  <2>5. \A h \in Threads : h # g /\ Detecting(h) => kind[h] \in Kinds /\ kind[h] # kind[g]
    BY <1>0, Owners
  <2>6. DetectsOwn'  BY <2>2, <2>3 DEF DetectsOwn, Threads
  <2>7. EarnedCalls'
    <3>. SUFFICES ASSUME NEW h \in Threads, Detecting(h)', h \notin amid', ~FromFlags(h)'
                  PROVE  kind'[h] \in old' \/ Over(kind'[h], fresh'[kind'[h]] * Gain[kind'[h]])
      BY DEF EarnedCalls
    <3>. QED  BY <2>2, <2>3, <2>4, <2>5 DEF EarnedCalls, Kept
  <2>8. OverOnTheWay'
    <3>. SUFFICES ASSUME NEW j \in Kinds, Over(j, points'[j]), ~(j = "speed" /\ pc'["client"] = "check")
                  PROVE  \E h \in Threads : Detecting(h)' /\ kind'[h] = j /\ ~FromFlags(h)'
      BY DEF OverOnTheWay, Over
    <3>1. (FromFlags(g) \/ j # kind[g]) /\ Over(j, points[j])  BY <2>4, NothingOver DEF Kept
    <3>2. ~(j = "speed" /\ pc["client"] = "check")
      BY <1>0, <2>2 DEF Threads, Detecting
    <3>3. PICK h \in Threads : Detecting(h) /\ kind[h] = j /\ ~FromFlags(h)
      BY <3>1, <3>2 DEF OverOnTheWay
    <3>. QED  BY <2>2, <2>3, <3>1, <3>3
  <2>. QED  BY <2>4, <2>6, <2>7, <2>8
<1>3. DetectAsk(g) => Resume(g) \/ (Goto(g, "event") /\ UNCHANGED meters)
  BY DEF DetectAsk, meters
<1>. QED  BY <1>1, <1>2, <1>3 DEF DetectEvent

LEMMA CallsReports ==
  ASSUME Typed, Reports,
         \/ CoolDown \/ Teleport \/ SetFlags \/ SetGamemode \/ SetUseChunks
         \/ ResetClear \/ ResetPlace \/ CloseProfile \/ UNCHANGED vars
  PROVE  Reports'
<1>. USE DEF Reports
<1>1. CASE UNCHANGED <<meters, control, amid>>
  BY <1>1 DEF DetectsOwn, Earned, EarnedCalls, OverOnTheWay, Detecting, FromFlags, Over, meters,
              control
<1>2. CASE Clear /\ UNCHANGED control
  <2>1. /\ \A k \in Kinds : points'[k] = 0 /\ fresh'[k] = 0
        /\ \A g \in Threads : Detecting(g) => g \in amid'
    BY <1>2 DEF Clear, Cleared, Threads, Detecting
  <2>2. DetectsOwn'  BY <1>2 DEF DetectsOwn, Detecting, control
  <2>3. Earned'
    <3>1. \A k \in Kinds : 0 * Gain[k] \in Nat  BY Amounts
    <3>. QED  BY <2>1, <3>1 DEF Earned
  <2>4. EarnedCalls'  BY <1>2, <2>1 DEF EarnedCalls, Detecting, control
  <2>5. OverOnTheWay'  BY <2>1, NothingOver DEF OverOnTheWay, Over
  <2>. QED  BY <2>2, <2>3, <2>4, <2>5
<1>3. \/ UNCHANGED <<meters, control, amid>>
      \/ Clear /\ UNCHANGED control
  BY DEF CoolDown, Teleport, SetFlags, SetGamemode, SetUseChunks, ResetClear, ResetPlace,
         CloseProfile, still, own, vars
<1>. QED  BY <1>1, <1>2, <1>3

-----------------------------------------------------------------------------
(* Flight. *)

LEMMA FlightKeeps ==
  ASSUME Typed, DetectsOwn, Granted, FlightGranted, [Next]_vars
  PROVE  Granted' /\ FlightGranted'
<1>. USE DEF Granted, FlightGranted
<1>0. pc \in [client : Labels, ticker : {"wait", "swap", "judge", "detect", "event"}]  BY DEF Typed
<1>1. CASE /\ UNCHANGED <<rights, sent>>
           /\ pc'["client"] = "flags" => pc["client"] = "flags"
  BY <1>1 DEF rights
<1>2. /\ \A l : Goto("client", l) /\ l # "flags" => pc'["client"] # "flags"
      /\ \A k, l : Detect("client", k, l) => pc'["client"] # "flags"
  BY <1>0 DEF Goto, Detect, GoOn
<1>3. CASE FlagsBegin
  <2>1. UNCHANGED rights  BY <1>3 DEF FlagsBegin, still
  <2>2. PICK f \in Sent : \/ Verified(f) /\ sent' = f
                          \/ sent' = sent /\ pc'["client"] # "flags"
    <3>1. pc["client"] = "read"  BY <1>3 DEF FlagsBegin, Packet
    <3>. QED  BY <1>0, <1>3, <3>1 DEF FlagsBegin, Detect, GoOn, control
  <2>3. Verified(f) /\ "allowFlight" \in f => CanFly
    <3>1. 1 \in DOMAIN Guarded /\ Guarded[1] = "allowFlight" /\ 1 .. 1 - 1 = {}  BY DEF Guarded
    <3>. QED  BY <3>1 DEF Verified, CanFly
  <2>. QED  BY <2>1, <2>2, <2>3 DEF CanFly, rights
<1>4. CASE FlagsStore
  <2>1. /\ pc["client"] = "flags" /\ pc'["client"] = "read" /\ flags' = sent
        /\ UNCHANGED <<creative, mayFly, overtaken>>
    BY <1>0, <1>4 DEF FlagsStore, Goto, GoOn
  <2>. QED  BY <2>1
<1>5. CASE SetFlags
  BY <1>5 DEF SetFlags, Word, own, control, local
<1>6. CASE SetGamemode
  BY <1>6 DEF SetGamemode, own, control, local
<1>7. CASE Clear /\ UNCHANGED own
  BY <1>7 DEF Clear, Word, own, control, local
<1>8. CASE SetUseChunks
  BY <1>8 DEF SetUseChunks, own, control, local
<1>9. CASE MoveBegin \/ MoveFly \/ MoveSpeed \/ MoveCheck \/ MoveTimer \/ MoveEnd \/ AttackBegin
             \/ AttackJudge
  <2>1. MoveBegin => UNCHANGED pc \/ Goto("client", "fly") \/ Goto("client", "speed")
    BY DEF MoveBegin, control
  <2>2. MoveFly => Goto("client", "speed") \/ Detect("client", "fly", "speed")  BY DEF MoveFly
  <2>3. /\ MoveSpeed => Goto("client", "check")
        /\ MoveCheck => Goto("client", "timer") \/ Detect("client", "speed", "timer")
        /\ MoveEnd => Goto("client", "read")
        /\ AttackBegin => Goto("client", "judge")
    BY DEF MoveSpeed, MoveCheck, MoveEnd, AttackBegin
  <2>4. MoveTimer => Goto("client", "end") \/ Detect("client", "timer", "end")  BY DEF MoveTimer
  <2>5. AttackJudge => Goto("client", "read") \/ Detect("client", "killaura", "read")
    BY DEF AttackJudge
  <2>6. pc'["client"] = "flags" => pc["client"] = "flags"
    BY <1>2, <1>9, <2>1, <2>2, <2>3, <2>4, <2>5
  <2>7. UNCHANGED <<rights, sent>>
    BY <1>9 DEF MoveBegin, MoveFly, MoveSpeed, MoveCheck, MoveTimer, MoveEnd, AttackBegin,
                AttackJudge, local, still
  <2>. QED  BY <1>1, <2>6, <2>7
<1>10. CASE Ticker
  <2>1. pc'["client"] = pc["client"]
    BY <1>0, <1>10 DEF Ticker, TickMoves, TickSwap, TickJudge, Goto, Detect, GoOn
  <2>2. UNCHANGED <<rights, sent>>
    BY <1>10 DEF Ticker, TickMoves, TickSwap, TickJudge, local, still
  <2>. QED  BY <1>1, <2>1, <2>2
<1>11. ASSUME NEW g \in Threads, DetectAsk(g) \/ DetectEvent(g)
       PROVE  Granted' /\ FlightGranted'
  <2>1. Detecting(g) /\ UNCHANGED <<rights, sent>>
    BY <1>11 DEF DetectAsk, DetectEvent, Detecting, local
  <2>2. g = "client" => after[g] # "flags"  BY <2>1 DEF DetectsOwn
  <2>3. Goto(g, "event") \/ Resume(g)  BY <1>11 DEF DetectAsk, DetectEvent
  <2>4. pc'["client"] = "flags" => pc["client"] = "flags"
    BY <1>0, <2>2, <2>3 DEF Goto, Resume, GoOn, Threads
  <2>. QED  BY <1>1, <2>1, <2>4
<1>12. CASE CoolDown \/ Teleport \/ ResetPlace \/ UNCHANGED vars
  <2>1. UNCHANGED <<rights, sent, pc>>
    BY <1>12 DEF CoolDown, Teleport, ResetPlace, vars, own, control, local, still
  <2>. QED  BY <1>1, <2>1
<1>13. ResetClear \/ CloseProfile => Clear /\ UNCHANGED own  BY DEF ResetClear, CloseProfile
<1>. QED
  BY <1>3, <1>4, <1>5, <1>6, <1>7, <1>8, <1>9, <1>10, <1>11, <1>12, <1>13
  DEF Next, Client, Threads

-----------------------------------------------------------------------------
LEMMA InitIInv == Init => IInv
<1>. SUFFICES ASSUME Init PROVE IInv  OBVIOUS
<1>. USE DEF Init
<1>1. Typed
  <2>1. /\ pc \in [client : Labels, ticker : {"wait", "swap", "judge", "detect", "event"}]
        /\ kind \in [{"client", "ticker"} -> Kinds]
        /\ after \in [{"client", "ticker"} -> Labels \cup {"wait"}]
    BY Kinded DEF Labels
  <2>2. /\ at \in [Coords -> Int] /\ to \in [Coords -> Int] /\ target \in [Coords -> Int]
        /\ points \in [Kinds -> Nat] /\ fresh \in [Kinds -> Nat]
        /\ old \subseteq Kinds /\ lent \subseteq {"requests", "perSecond"}
        /\ amid \subseteq {"client", "ticker"}
    BY TurnedTyped
  <2>3. /\ requests \in Nat /\ perSecond \in Nat /\ attacks \in Nat /\ aps \in Nat
        /\ look \in Int /\ ticker \in {"running", "buffered", "stopped"}
    OBVIOUS
  <2>4. /\ flags \subseteq UNION Sent /\ sent \subseteq UNION Sent /\ cooling \subseteq Kinds
    OBVIOUS
  <2>5. /\ creative \in BOOLEAN /\ useChunks \in BOOLEAN /\ placing \in BOOLEAN
        /\ mayFly \in BOOLEAN /\ overtaken \in BOOLEAN
    OBVIOUS
  <2>. HIDE DEF Init
  <2>. QED  BY <2>1, <2>2, <2>3, <2>4, <2>5, Zenon DEF Typed
<1>2. DetectsOwn  BY DEF DetectsOwn, Detecting
<1>3. Earned
  <2>1. \A k \in Kinds : 0 * Gain[k] \in Nat  BY Amounts
  <2>. QED  BY <2>1 DEF Earned
<1>4. EarnedCalls  BY DEF EarnedCalls, Detecting, Threads
<1>5. OverOnTheWay  BY NothingOver DEF OverOnTheWay
<1>6. Granted /\ FlightGranted  BY DEF Granted, FlightGranted
<1>. QED  BY <1>1, <1>2, <1>3, <1>4, <1>5, <1>6 DEF IInv

LEMMA StepKeepsIInv == IInv /\ [Next]_vars => IInv'
<1>. SUFFICES ASSUME IInv, [Next]_vars PROVE IInv'  OBVIOUS
<1>. USE DEF IInv
<1>1. Granted' /\ FlightGranted'  BY FlightKeeps
<1>2. Reports /\ (Reports' => DetectsOwn' /\ Earned' /\ EarnedCalls' /\ OverOnTheWay')
  BY DEF Reports
<1>3. CASE Client  BY <1>1, <1>2, <1>3, ClientTyped, ClientReports
<1>4. CASE Ticker  BY <1>1, <1>2, <1>4, TickerTyped, TickerReports
<1>5. ASSUME NEW g \in Threads, DetectAsk(g) \/ DetectEvent(g)  PROVE IInv'
  BY <1>1, <1>2, <1>5, DetectTyped, DetectReports
<1>6. CASE \/ CoolDown \/ Teleport \/ SetFlags \/ SetGamemode \/ SetUseChunks
           \/ ResetClear \/ ResetPlace \/ CloseProfile
  BY <1>1, <1>2, <1>6, CallsTyped, CallsReports
<1>7. CASE UNCHANGED vars
  <2>1. Typed'
    BY <1>7 DEF Typed, vars, meters, counts, own, control, local, bounds, still, rights, resetting
  <2>. QED  BY <1>1, <1>2, <1>7, <2>1, CallsReports
<1>. QED  BY <1>3, <1>4, <1>5, <1>6, <1>7 DEF Next, Threads

LEMMA Invariance == Spec => []IInv
<1>. QED  BY InitIInv, StepKeepsIInv, PTL DEF Spec

\* ProfileTyped: and between packets and ticks no points stand over their limit
\* (anticheat.go:93-173, 195-242).
THEOREM ProfileTyped == Spec => []TypeOK
<1>1. IInv => TypeOK
  <2>. SUFFICES ASSUME IInv PROVE Typed /\ Settled  BY DEF TypeOK
  <2>1. Settled  BY DEF IInv, OverOnTheWay, Detecting, Threads, Settled
  <2>. QED  BY <2>1 DEF IInv
<1>. QED  BY <1>1, Invariance, PTL

\* ReportsEarned: a report rests on suspicious observations enough, made since the last
\* report of its kind and about what the player did after the last Reset, but for what
\* was under way at that Reset and the rate of moves it keeps (anticheat.go:93-173,
\* 195-242, 322-331, 447-455).
THEOREM ReportsEarned == Spec => []EarnedReports
<1>1. IInv => EarnedReports  BY DEF IInv, EarnedCalls, EarnedReports, Detecting, Threads
<1>. QED  BY <1>1, Invariance, PTL

\* FlightByServer: no sequence of packets gives a client the AllowFlight flag
\* (anticheat.go:355-401).
THEOREM FlightByServer == Spec => []FlightGranted
<1>1. IInv => FlightGranted  BY DEF IInv
<1>. QED  BY <1>1, Invariance, PTL

-----------------------------------------------------------------------------
(* Directions. *)

\* The quarters of Facing are those around the axes of the world.
LEMMA FacingNearest ==
  ASSUME NEW yaw \in Int, NEW c \in Nearest(yaw)
  PROVE  Facing(yaw) = c
<1>. DEFINE y == (yaw - 90) % 360
            west == y \in 1 .. 44 \/ y \in 316 .. 359
            east == y \in 136 .. 224
            south == y \in 226 .. 314
<1>1. (west => ~east /\ ~south) /\ (east => ~west /\ ~south) /\ (south => ~west /\ ~east)
  <2>1. y \in 0 .. 359  OBVIOUS
  <2>. HIDE DEF y
  <2>. QED  BY <2>1
<1>2. /\ west => Facing(yaw) = "west"
      /\ east => Facing(yaw) = "east"
      /\ south => Facing(yaw) = "south"
      /\ ~west /\ ~east /\ ~south => Facing(yaw) = "north"
  <2>1. Facing(yaw) = CASE west -> "west" [] east -> "east" [] south -> "south" [] OTHER -> "north"
    BY Zenon DEF Facing, QuarterTurn
  <2>. HIDE DEF west, east, south
  <2>. QED  BY <1>1, <2>1, Zenon
<1>3. CASE c = "south"
  <2>1. south  BY <1>3 DEF Nearest, Looks
  <2>. QED  BY <1>2, <1>3, <2>1
<1>4. CASE c = "west"
  <2>1. west  BY <1>4 DEF Nearest, Looks
  <2>. QED  BY <1>2, <1>4, <2>1
<1>5. CASE c = "east"
  <2>1. east  BY <1>5 DEF Nearest, Looks
  <2>. QED  BY <1>2, <1>5, <2>1
<1>6. CASE c = "north"
  <2>1. ~west /\ ~east /\ ~south  BY <1>6 DEF Nearest, Looks
  <2>. QED  BY <1>2, <1>6, <2>1
<1>7. c \in {"south", "west", "north", "east"}  BY DEF Nearest, Looks
<1>. QED  BY <1>3, <1>4, <1>5, <1>6, <1>7

\* A player off the axes is in the quarters of the two axes it is ahead on.
LEMMA QuarterAhead ==
  ASSUME NEW me \in [Coords -> Int], NEW other \in [x : Int, y : Int, z : Int],
         other.x # me.x, other.z # me.z, NEW c \in {"south", "west", "north", "east"}
  PROVE  c \in Quarter(me, other) <=>
           (other.x - me.x) * Ways[c][1] + (other.z - me.z) * Ways[c][2] > 0
<1>1. me.x \in Int /\ me.z \in Int /\ other.x \in Int /\ other.z \in Int  BY DEF Coords
<1>. QED  BY <1>1 DEF Quarter, Ways

\* AttacksJudged: whatever the yaw and the positions are, an attack is valid if its
\* target is on the half of the plane the player looks at (anticheat.go:224-320).
THEOREM AttacksJudged == Spec => []AimJudged
<1>1. IInv => AimJudged
  <2>. SUFFICES ASSUME IInv, NEW other \in Places, NEW c \in Nearest(look),
                       other.x - at.x # 0, other.z - at.z # 0
                PROVE  ValidAttackDirection(look, at, other) <=>
                         (other.x - at.x) * Ways[c][1] + (other.z - at.z) * Ways[c][2] > 0
    BY DEF AimJudged
  <2>1. look \in Int /\ at \in [Coords -> Int]  BY DEF IInv, Typed
  <2>2. other \in [x : Int, y : Int, z : Int]  BY AntiCheatAssumption
  <2>3. c \in {"south", "west", "north", "east"}  BY DEF Nearest, Looks
  <2>4. other.x # at.x /\ other.z # at.z  BY <2>1, <2>2 DEF Coords
  <2>5. Facing(look) = c  BY <2>1, FacingNearest
  <2>6. c \in Quarter(at, other) <=>
          (other.x - at.x) * Ways[c][1] + (other.z - at.z) * Ways[c][2] > 0
    BY <2>1, <2>2, <2>3, <2>4, QuarterAhead
  <2>. QED  BY <2>5, <2>6 DEF ValidAttackDirection
<1>. QED  BY <1>1, Invariance, PTL
=============================================================================
