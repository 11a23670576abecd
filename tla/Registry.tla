------------------------------ MODULE Registry ------------------------------
(***************************************************************************)
(* The proxy object (eye.go): the handlers of its events, and the players  *)
(* it has registered by their identity.  Goroutines of the embedding       *)
(* program add handlers; the main goroutine does so and then, in Run, adds *)
(* the handler that forgets the players who leave, and accepts connections.*)
(*                                                                         *)
(* Events are independent of each other: those of joining and leaving are  *)
(* modelled, with handlers that do nothing to this state but Run's own.    *)
(* playersXuid changes with players, under the same mutex.                 *)
(***************************************************************************)
EXTENDS Integers, Sequences

CONSTANTS
  Conns,       \* connections the listener accepts, a player object each
  Identities,  \* identities of players
  Identity,    \* the identity a connection logs in with
  Main,        \* the HandleEvent calls of the main goroutine, in order; Run's last
  Others,      \* HandleEvent calls of other goroutines
  Event,       \* the event each of these calls is about
  NoConn       \* no player

Run == Main[Len(Main)]
Registrars == {Main[k] : k \in 1 .. Len(Main)} \cup Others

ASSUME RegistryAssumption ==
  /\ Main \in Seq(Registrars) /\ Main # <<>>
  /\ \A j, k \in 1 .. Len(Main) : Main[j] = Main[k] => j = k
  /\ Identity \in [Conns -> Identities] /\ NoConn \notin Conns
  /\ Event \in [Registrars -> {"join", "leave"}] /\ Event[Run] = "leave"

VARIABLES
  events,    \* eyeProxy.events: the handlers, named by the call that adds them
  handling,  \* pc of a HandleEvent call
  loaded,    \* what it has loaded
  overlaps,  \* the calls for the same event that ran at the same time
  players,   \* eyeProxy.players
  join,      \* pc of the goroutine that Run starts for a connection
  leave,     \* pc of the player's Close
  snapshot,  \* the handlers its EventLeave executes
  early      \* the player left before it was registered

busVars == <<events, handling, loaded, overlaps>>
playerVars == <<players, join, leave, snapshot, early>>
vars == <<busVars, playerVars>>

Elements(q) == {q[k] : k \in 1 .. Len(q)}

-----------------------------------------------------------------------------
(* HandleEvent. *)

\* The main goroutine makes its calls one after the other.
MainReached(g) ==
  \A k \in 2 .. Len(Main) : Main[k] = g => handling[Main[k - 1]] = "done"

\* events.Load ...
HandleLoad(g) ==
  LET overlapped == {h \in Registrars : handling[h] = "store" /\ Event[h] = Event[g]}
  IN  /\ handling[g] = "call" /\ MainReached(g)
      /\ handling' = [handling EXCEPT ![g] = "store"]
      /\ loaded' = [loaded EXCEPT ![g] = events[Event[g]]]
      /\ overlaps' = [h \in Registrars |->
           IF h = g THEN overlapped
           ELSE IF h \in overlapped THEN overlaps[h] \cup {g} ELSE overlaps[h]]
      /\ UNCHANGED <<events, playerVars>>

\* Forgetting to append (slip).
Stored(g) == <<g>>

\* append(evtHandlers, handler)
Appended(g) == Append(loaded[g], g)

\* ... append and events.Store.  Where calls that overlap append to the spare place
\* of one array, the last append wins instead of the last Store: one of the
\* handlers is lost all the same.
HandleStore(g) ==
  /\ handling[g] = "store"
  /\ events' = [events EXCEPT ![Event[g]] = Appended(g)]
  /\ handling' = [handling EXCEPT ![g] = "done"]
  /\ UNCHANGED <<loaded, overlaps, playerVars>>

-----------------------------------------------------------------------------
(* Joining: the goroutine that Run starts for an accepted connection. *)

\* newPlayer, whose reader may close the player from now on.
Accept(c) ==
  /\ join[c] = "none" /\ handling[Run] = "done"
  /\ join' = [join EXCEPT ![c] = "new"]
  /\ UNCHANGED <<busVars, players, leave, snapshot, early>>

\* The XUID, which is empty for everyone without authentication (slip).
KeyXuid(c) == CHOOSE i \in Identities : TRUE

KeyOf(c) == Identity[c]

\* eye.players[...] = p
Register(c) ==
  /\ join[c] = "new"
  /\ players' = [players EXCEPT ![KeyOf(c)] = c]
  /\ join' = [join EXCEPT ![c] = "registered"]
  /\ early' = [early EXCEPT ![c] = leave[c] = "left"]
  /\ UNCHANGED <<busVars, leave, snapshot>>

\* ExecuteEvent(EventJoin), which a handler may cancel, and lobby.Connect otherwise.
Joined(c) ==
  /\ join[c] = "registered"
  /\ \/ join' = [join EXCEPT ![c] = "connecting"]
     \/ events["join"] # <<>> /\ join' = [join EXCEPT ![c] = "cancelled"]
  /\ UNCHANGED <<busVars, players, leave, snapshot, early>>

-----------------------------------------------------------------------------
(* Leaving: the player's Close, at any time, executes EventLeave. *)

LeaveStart(c) ==
  /\ join[c] # "none" /\ leave[c] = "online"
  /\ leave' = [leave EXCEPT ![c] = "leaving"]
  /\ snapshot' = [snapshot EXCEPT ![c] = events["leave"]]
  /\ UNCHANGED <<busVars, players, join, early>>

\* delete(Eye.playersXuid, ...) alone (slip).
RemovedNot(c) == players

\* A registry made anew (slip).
RemovedAll(c) == [i \in Identities |-> NoConn]

\* delete(Eye.players, ...): whoever is registered with that identity.
Removed(c) == [players EXCEPT ![KeyOf(c)] = NoConn]

\* Run's handler runs, if it is among those that were loaded.
LeaveHandled(c) ==
  /\ leave[c] = "leaving"
  /\ players' = IF Run \in Elements(snapshot[c]) THEN Removed(c) ELSE players
  /\ leave' = [leave EXCEPT ![c] = "left"]
  /\ UNCHANGED <<busVars, join, snapshot, early>>

-----------------------------------------------------------------------------
Init ==
  /\ events = [e \in {"join", "leave"} |-> <<>>]
  /\ handling = [g \in Registrars |-> "call"]
  /\ loaded = [g \in Registrars |-> <<>>]
  /\ overlaps = [g \in Registrars |-> {}]
  /\ players = [i \in Identities |-> NoConn]
  /\ join = [c \in Conns |-> "none"]
  /\ leave = [c \in Conns |-> "online"]
  /\ snapshot = [c \in Conns |-> <<>>]
  /\ early = [c \in Conns |-> FALSE]

Handle(g) == HandleLoad(g) \/ HandleStore(g)

Connection(c) ==
  Accept(c) \/ Register(c) \/ Joined(c) \/ LeaveStart(c) \/ LeaveHandled(c)

Next == (\E g \in Registrars : Handle(g)) \/ (\E c \in Conns : Connection(c))

Spec == Init /\ [][Next]_vars

-----------------------------------------------------------------------------
(* Properties. *)

\* TypeOK: handlers are kept with their event, players by their identity.
TypeOK ==
  /\ events \in [{"join", "leave"} -> Seq(Registrars)]
  /\ \A e \in {"join", "leave"} : \A g \in Elements(events[e]) : Event[g] = e
  /\ handling \in [Registrars -> {"call", "store", "done"}]
  /\ loaded \in [Registrars -> Seq(Registrars)]
  /\ overlaps \in [Registrars -> SUBSET Registrars]
  /\ players \in [Identities -> Conns \cup {NoConn}]
  /\ \A i \in Identities : players[i] # NoConn => Identity[players[i]] = i
  /\ join \in [Conns -> {"none", "new", "registered", "connecting", "cancelled"}]
  /\ leave \in [Conns -> {"online", "leaving", "left"}]
  /\ snapshot \in [Conns -> Seq(Registrars)] /\ early \in [Conns -> BOOLEAN]

\* HandlersKept: a handler stays where it was put, and is executed once for each
\* event, unless another HandleEvent for its event overlapped with its own: Load
\* and Store are two steps (eye.go:133-140), and either handler may be lost.
HandlersKept ==
  \A g \in Registrars :
    handling[g] = "done" /\ overlaps[g] = {} =>
      LET q == events[Event[g]]
      IN  \E k \in 1 .. Len(q) : q[k] = g /\ \A j \in 1 .. Len(q) : q[j] = g => j = k

\* Same: some other connection has logged in with the identity of c.
Same(c, d) == d # c /\ Identity[d] = Identity[c]

\* FoundWhileOnline: GetPlayer finds a registered player until it leaves, unless
\* another connection with its identity was accepted: that one takes its place,
\* or its leaving removes the entry of the first (eye.go:70, 85).
FoundWhileOnline ==
  \A c \in Conns :
    join[c] \notin {"none", "new"} /\ leave[c] = "online" =>
      players[Identity[c]] = c \/ \E d \in Conns : Same(c, d) /\ join[d] # "none"

\* GoneAfterLeave: a player that has left is found no more, unless it was registered
\* only after it left, or Run's handler was lost to a HandleEvent that overlapped.
GoneAfterLeave ==
  \A c \in Conns :
    leave[c] = "left" /\ players[Identity[c]] = c => early[c] \/ overlaps[Run] # {}
=============================================================================
