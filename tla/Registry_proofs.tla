--------------------------- MODULE Registry_proofs ---------------------------
(***************************************************************************)
(* Proofs about Registry, for any calls of HandleEvent in any goroutines   *)
(* and any connections and identities.                                     *)
(***************************************************************************)
EXTENDS Registry, SequenceTheorems, TLAPS

\* g stands in q, at one place only.
Once(q, g) == \E k \in 1 .. Len(q) : q[k] = g /\ \A j \in 1 .. Len(q) : q[j] = g => j = k

Rivals(g, h) == g # h /\ Event[g] = Event[h]

\* What a call has loaded is handlers of its event.
LoadedFits == \A g \in Registrars : \A h \in Elements(loaded[g]) : Event[h] = Event[g]

\* A handler is nowhere before its call has stored it.
NotBeforeStore ==
  \A g \in Registrars : handling[g] # "done" =>
    /\ \A e \in {"join", "leave"} : g \notin Elements(events[e])
    /\ \A h \in Registrars : g \notin Elements(loaded[h])

\* Calls for the same event that are under way have overlapped.
BothOverlap ==
  \A g, h \in Registrars :
    Rivals(g, h) /\ handling[g] = "store" /\ handling[h] = "store" => h \in overlaps[g]

\* What has been stored without an overlap was there for whoever loaded later.
LoadedKept ==
  \A g, h \in Registrars :
    Rivals(g, h) /\ handling[g] = "done" /\ overlaps[g] = {} /\ handling[h] = "store" =>
      Once(loaded[h], g)

\* Run accepts connections when it has added its handler, and only the player
\* of an accepted connection can leave.
RunFirst ==
  \A c \in Conns :
    /\ join[c] # "none" => handling[Run] = "done"
    /\ leave[c] # "online" => join[c] # "none"

\* Run's handler is among those a leaving executes, if no call overlapped with Run's.
SnapshotHasRun ==
  \A c \in Conns :
    leave[c] # "online" /\ overlaps[Run] = {} => Run \in Elements(snapshot[c])

BusInv == LoadedFits /\ NotBeforeStore /\ BothOverlap /\ LoadedKept /\ HandlersKept
PlayerInv == RunFirst /\ SnapshotHasRun /\ FoundWhileOnline /\ GoneAfterLeave
IInv == TypeOK /\ BusInv /\ PlayerInv

-----------------------------------------------------------------------------
(* Sequences of handlers, and the constants. *)

LEMMA RunIsLast ==
  /\ Run \in Registrars /\ Event[Run] = "leave"
  /\ \A g \in Registrars : Event[g] \in {"join", "leave"}
  /\ \A c \in Conns : Identity[c] \in Identities /\ c # NoConn
<1>1. Len(Main) \in 1 .. Len(Main)  BY RegistryAssumption, EmptySeq, LenProperties
<1>. QED  BY <1>1, RegistryAssumption DEF Run, Registrars

\* One handler more, at the end.
LEMMA AppendedHandler ==
  ASSUME NEW q \in Seq(Registrars), NEW h \in Registrars
  PROVE  /\ Append(q, h) \in Seq(Registrars)
         /\ Elements(Append(q, h)) = Elements(q) \cup {h}
         /\ Elements(q) \subseteq Registrars
         /\ h \notin Elements(q) => Once(Append(q, h), h)
         /\ \A g : g # h /\ Once(q, g) => Once(Append(q, h), g)
<1>. DEFINE r == Append(q, h)  n == Len(q)
<1>1. /\ r \in Seq(Registrars) /\ Len(r) = n + 1 /\ n \in Nat
      /\ \A k \in 1 .. n : r[k] = q[k] /\ q[k] \in Registrars
      /\ r[n + 1] = h
  BY AppendProperties
<1>. HIDE DEF r, n
<1>2. 1 .. Len(r) = (1 .. n) \cup {n + 1} /\ n + 1 \notin 1 .. n  BY <1>1
<1>3. Elements(r) = {q[k] : k \in 1 .. n} \cup {h}  BY <1>1, <1>2 DEF Elements
<1>4. (\A k \in 1 .. n : q[k] # h) => Once(r, h)  BY <1>1, <1>2 DEF Once
<1>5. ASSUME NEW g, g # h, Once(q, g)  PROVE Once(r, g)
  BY <1>1, <1>2, <1>5 DEF Once, n
<1>. QED  BY <1>1, <1>3, <1>4, <1>5 DEF Elements, r, n

LEMMA OnceIsElement == \A q, g : Once(q, g) => g \in Elements(q)
  BY DEF Once, Elements

LEMMA KeptIsOnce ==
  HandlersKept <=> \A g \in Registrars :
    handling[g] = "done" /\ overlaps[g] = {} => Once(events[Event[g]], g)
  BY DEF HandlersKept, Once

-----------------------------------------------------------------------------
(* Init, and what leaves the handlers or the players alone. *)

LEMMA InitIInv == Init => IInv
<1>. SUFFICES ASSUME Init PROVE IInv  OBVIOUS
<1>. USE RunIsLast DEF Init
<1>1. Len(<<>>) = 0 /\ <<>> \in Seq(Registrars) /\ Elements(<<>>) = {}
  BY EmptySeq DEF Elements
<1>2. TypeOK  BY <1>1 DEF TypeOK
<1>3. BusInv
  BY <1>1 DEF BusInv, LoadedFits, NotBeforeStore, BothOverlap, LoadedKept, HandlersKept
<1>4. PlayerInv
  BY DEF PlayerInv, RunFirst, SnapshotHasRun, FoundWhileOnline, GoneAfterLeave
<1>. QED  BY <1>2, <1>3, <1>4 DEF IInv

LEMMA BusStays == BusInv /\ UNCHANGED busVars => BusInv'
  BY DEF BusInv, LoadedFits, NotBeforeStore, BothOverlap, LoadedKept, HandlersKept, busVars

LEMMA PlayersStay ==
  ASSUME PlayerInv, UNCHANGED playerVars,
         \A c \in Conns : join[c] # "none" => /\ handling'[Run] = "done"
                                              /\ overlaps'[Run] = overlaps[Run]
  PROVE  PlayerInv'
<1>. USE DEF PlayerInv, playerVars
<1>1. RunFirst' /\ SnapshotHasRun'  BY DEF RunFirst, SnapshotHasRun
<1>2. FoundWhileOnline'  BY DEF FoundWhileOnline, Same
<1>3. GoneAfterLeave'  BY DEF GoneAfterLeave, RunFirst
<1>. QED  BY <1>1, <1>2, <1>3

-----------------------------------------------------------------------------
(* HandleEvent. *)

LEMMA LoadKeeps ==
  ASSUME IInv, NEW g \in Registrars, HandleLoad(g)
  PROVE  IInv'
<1>. USE DEF IInv, BusInv
<1>. USE RunIsLast
<1>. DEFINE overlapped == {h \in Registrars : handling[h] = "store" /\ Event[h] = Event[g]}
<1>1. /\ handling[g] = "call" /\ handling' = [handling EXCEPT ![g] = "store"]
      /\ loaded' = [loaded EXCEPT ![g] = events[Event[g]]]
      /\ UNCHANGED <<events, playerVars>>
      /\ overlaps' \in [Registrars -> SUBSET Registrars]
      /\ overlaps'[g] = overlapped
      /\ \A h \in overlapped : overlaps'[h] = overlaps[h] \cup {g}
      /\ \A h \in Registrars : h # g /\ h \notin overlapped => overlaps'[h] = overlaps[h]
  BY DEF HandleLoad, TypeOK
<1>2. TypeOK'  BY <1>1 DEF TypeOK, playerVars
<1>3. LoadedFits'  BY <1>1 DEF TypeOK, LoadedFits
<1>4. NotBeforeStore'  BY <1>1 DEF TypeOK, NotBeforeStore
<1>5. BothOverlap'
  <2>. SUFFICES ASSUME NEW a \in Registrars, NEW b \in Registrars, Rivals(a, b),
                       handling'[a] = "store", handling'[b] = "store"
                PROVE  b \in overlaps'[a]
    BY DEF BothOverlap, Rivals
  <2>1. CASE a = g  BY <1>1, <2>1 DEF TypeOK, Rivals
  <2>2. CASE b = g
    <3>1. a \in overlapped  BY <1>1, <2>2 DEF TypeOK, Rivals
    <3>. QED  BY <1>1, <2>2, <3>1
  <2>3. CASE a # g /\ b # g
    <3>1. b \in overlaps[a]  BY <1>1, <2>3 DEF TypeOK, BothOverlap
    <3>. QED  BY <1>1, <2>3, <3>1
  <2>. QED  BY <2>1, <2>2, <2>3
<1>6. LoadedKept'
  <2>. SUFFICES ASSUME NEW a \in Registrars, NEW b \in Registrars, Rivals(a, b),
                       handling'[a] = "done", overlaps'[a] = {}, handling'[b] = "store"
                PROVE  Once(loaded'[b], a)
    BY DEF LoadedKept, Rivals
  <2>1. handling[a] = "done" /\ overlaps[a] = {}  BY <1>1 DEF TypeOK
  <2>2. CASE b = g
    <3>1. Once(events[Event[a]], a)  BY <2>1, KeptIsOnce
    <3>. QED  BY <1>1, <2>2, <3>1 DEF TypeOK, Rivals
  <2>3. CASE b # g  BY <1>1, <2>1, <2>3 DEF TypeOK, LoadedKept, Rivals
  <2>. QED  BY <2>2, <2>3
<1>7. HandlersKept'
  <2>. SUFFICES ASSUME NEW a \in Registrars, handling'[a] = "done", overlaps'[a] = {}
                PROVE  Once(events[Event[a]], a)
    BY <1>1 DEF HandlersKept, Once
  <2>1. handling[a] = "done" /\ overlaps[a] = {}  BY <1>1 DEF TypeOK
  <2>. QED  BY <2>1, KeptIsOnce
<1>8. PlayerInv'
  BY <1>1, PlayersStay DEF PlayerInv, RunFirst, TypeOK
<1>. QED  BY <1>2, <1>3, <1>4, <1>5, <1>6, <1>7, <1>8

LEMMA StoreKeeps ==
  ASSUME IInv, NEW g \in Registrars, HandleStore(g)
  PROVE  IInv'
<1>. USE DEF IInv, BusInv
<1>. USE RunIsLast
<1>. DEFINE q == Append(loaded[g], g)
<1>1. /\ handling[g] = "store" /\ handling' = [handling EXCEPT ![g] = "done"]
      /\ events' = [events EXCEPT ![Event[g]] = q]
      /\ UNCHANGED <<loaded, overlaps, playerVars>>
  BY DEF HandleStore, Appended
<1>2. /\ q \in Seq(Registrars) /\ Elements(q) = Elements(loaded[g]) \cup {g}
      /\ Once(q, g)
      /\ \A h : h # g /\ Once(loaded[g], h) => Once(q, h)
  BY <1>1, AppendedHandler DEF NotBeforeStore, TypeOK
<1>. HIDE DEF q
<1>3. TypeOK'
  <2>1. \A e \in {"join", "leave"} : \A h \in Elements(events'[e]) : Event[h] = e
    BY <1>1, <1>2 DEF TypeOK, LoadedFits
  <2>. QED  BY <1>1, <1>2, <2>1 DEF TypeOK, playerVars
<1>4. LoadedFits'  BY <1>1 DEF LoadedFits
<1>5. NotBeforeStore'  BY <1>1, <1>2 DEF TypeOK, NotBeforeStore
<1>6. BothOverlap'  BY <1>1 DEF TypeOK, BothOverlap
<1>7. LoadedKept'
  <2>. SUFFICES ASSUME NEW a \in Registrars, NEW b \in Registrars, Rivals(a, b),
                       handling'[a] = "done", overlaps[a] = {}, handling'[b] = "store"
                PROVE  Once(loaded[b], a)
    BY <1>1 DEF LoadedKept, Rivals
  <2>1. handling[b] = "store"  BY <1>1 DEF TypeOK
  <2>2. a # g  BY <1>1, <2>1 DEF BothOverlap
  <2>. QED  BY <1>1, <2>1, <2>2 DEF LoadedKept, TypeOK
<1>8. HandlersKept'
  <2>. SUFFICES ASSUME NEW h \in Registrars, handling'[h] = "done", overlaps[h] = {}
                PROVE  Once(events'[Event[h]], h)
    BY <1>1 DEF HandlersKept, Once
  <2>1. CASE h = g  BY <1>1, <1>2, <2>1 DEF TypeOK
  <2>2. CASE h # g /\ Event[h] = Event[g]
    BY <1>1, <1>2, <2>2 DEF TypeOK, LoadedKept, Rivals
  <2>3. CASE h # g /\ Event[h] # Event[g]
    <3>1. handling[h] = "done" /\ events'[Event[h]] = events[Event[h]]
      BY <1>1, <2>3 DEF TypeOK
    <3>. QED  BY <3>1, KeptIsOnce
  <2>. QED  BY <2>1, <2>2, <2>3
<1>9. PlayerInv'
  BY <1>1, PlayersStay DEF PlayerInv, RunFirst, TypeOK
<1>. QED  BY <1>3, <1>4, <1>5, <1>6, <1>7, <1>8, <1>9

-----------------------------------------------------------------------------
(* Joining and leaving. *)

LEMMA ConnectionKeeps ==
  ASSUME IInv, NEW c \in Conns, Connection(c)
  PROVE  IInv'
<1>. USE DEF IInv, PlayerInv
<1>. USE RunIsLast
<1>1. CASE Accept(c)
  <2>. USE <1>1 DEF Accept
  <2>1. TypeOK'  BY DEF TypeOK, busVars
  <2>2. RunFirst'  BY DEF TypeOK, RunFirst, busVars
  <2>3. SnapshotHasRun'  BY DEF SnapshotHasRun, busVars
  <2>4. FoundWhileOnline'  BY DEF TypeOK, FoundWhileOnline, Same
  <2>5. GoneAfterLeave'  BY DEF GoneAfterLeave, busVars
  <2>. QED  BY BusStays, <2>1, <2>2, <2>3, <2>4, <2>5
<1>2. CASE Register(c)
  <2>. USE <1>2 DEF Register, KeyOf
  <2>1. TypeOK'  BY DEF TypeOK, busVars
  <2>2. RunFirst'  BY DEF TypeOK, RunFirst, busVars
  <2>3. SnapshotHasRun'  BY DEF SnapshotHasRun, busVars
  <2>4. FoundWhileOnline'  BY DEF TypeOK, FoundWhileOnline, Same
  <2>5. GoneAfterLeave'  BY DEF TypeOK, GoneAfterLeave, busVars
  <2>. QED  BY BusStays, <2>1, <2>2, <2>3, <2>4, <2>5
<1>3. CASE Joined(c)
  <2>. USE <1>3 DEF Joined
  <2>1. TypeOK'  BY DEF TypeOK, busVars
  <2>2. RunFirst'  BY DEF TypeOK, RunFirst, busVars
  <2>3. SnapshotHasRun'  BY DEF SnapshotHasRun, busVars
  <2>4. FoundWhileOnline'
    <3>1. \A d \in Conns : join'[d] \in {"none", "new"} <=> join[d] \in {"none", "new"}
      BY DEF TypeOK
    <3>2. \A d \in Conns : join'[d] = "none" <=> join[d] = "none"
      BY DEF TypeOK
    <3>. QED  BY <3>1, <3>2 DEF FoundWhileOnline, Same
  <2>5. GoneAfterLeave'  BY DEF GoneAfterLeave, busVars
  <2>. QED  BY BusStays, <2>1, <2>2, <2>3, <2>4, <2>5
<1>4. CASE LeaveStart(c)
  <2>. USE <1>4 DEF LeaveStart
  <2>1. TypeOK'  BY DEF TypeOK, busVars
  <2>2. RunFirst'  BY DEF TypeOK, RunFirst, busVars
  <2>3. SnapshotHasRun'
    <3>1. overlaps[Run] = {} => Run \in Elements(events["leave"])
      BY OnceIsElement DEF RunFirst, BusInv, HandlersKept, Once
    <3>. QED  BY <3>1 DEF TypeOK, SnapshotHasRun, busVars
  <2>4. FoundWhileOnline'  BY DEF TypeOK, FoundWhileOnline, Same
  <2>5. GoneAfterLeave'  BY DEF TypeOK, GoneAfterLeave, busVars
  <2>. QED  BY BusStays, <2>1, <2>2, <2>3, <2>4, <2>5
<1>5. CASE LeaveHandled(c)
  <2>. USE <1>5 DEF LeaveHandled, Removed, KeyOf
  <2>1. TypeOK'  BY DEF TypeOK, busVars
  <2>2. RunFirst'  BY DEF TypeOK, RunFirst, busVars
  <2>3. SnapshotHasRun'  BY DEF TypeOK, SnapshotHasRun, busVars
  <2>4. FoundWhileOnline'  BY DEF TypeOK, FoundWhileOnline, RunFirst, Same
  <2>5. GoneAfterLeave'  BY DEF TypeOK, GoneAfterLeave, SnapshotHasRun, busVars
  <2>. QED  BY BusStays, <2>1, <2>2, <2>3, <2>4, <2>5
<1>. QED  BY <1>1, <1>2, <1>3, <1>4, <1>5 DEF Connection

-----------------------------------------------------------------------------
LEMMA StepKeepsIInv == IInv /\ [Next]_vars => IInv'
<1>. SUFFICES ASSUME IInv, [Next]_vars PROVE IInv'  OBVIOUS
<1>1. CASE UNCHANGED vars
  BY <1>1, BusStays, PlayersStay
  DEF IInv, TypeOK, PlayerInv, RunFirst, vars, busVars, playerVars
<1>2. ASSUME NEW g \in Registrars, Handle(g)  PROVE IInv'
  BY <1>2, LoadKeeps, StoreKeeps DEF Handle
<1>. QED  BY <1>1, <1>2, ConnectionKeeps DEF Next

LEMMA Invariance == Spec => []IInv
<1>. QED  BY InitIInv, StepKeepsIInv, PTL DEF Spec

\* RegistryTyped: handlers are kept with their event, players by their identity
\* (eye.go:68-87, 130-183).
THEOREM RegistryTyped == Spec => []TypeOK
<1>1. IInv => TypeOK  BY DEF IInv
<1>. QED  BY <1>1, Invariance, PTL

\* HandlersStay: only a HandleEvent for the same event that overlaps with it makes
\* a handler be lost, or be there twice (eye.go:130-183).
THEOREM HandlersStay == Spec => []HandlersKept
<1>1. IInv => HandlersKept  BY DEF IInv, BusInv
<1>. QED  BY <1>1, Invariance, PTL

\* PlayersFound: only a connection with its identity takes the entry of a
\* registered player from it before it leaves (eye.go:68-87).
THEOREM PlayersFound == Spec => []FoundWhileOnline
<1>1. IInv => FoundWhileOnline  BY DEF IInv, PlayerInv
<1>. QED  BY <1>1, Invariance, PTL

\* PlayersForgotten: only a leaving that comes before the registration, or the loss
\* of Run's handler, leaves the entry of a player behind (eye.go:68-95, 130-183).
THEOREM PlayersForgotten == Spec => []GoneAfterLeave
<1>1. IInv => GoneAfterLeave  BY DEF IInv, PlayerInv
<1>. QED  BY <1>1, Invariance, PTL
=============================================================================
