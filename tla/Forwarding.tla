----------------------------- MODULE Forwarding -----------------------------
(***************************************************************************)
(* What passes through the sessions of a player (session.go, player.go):   *)
(* packets of a backend are translated, remembered and written to the      *)
(* client; packets of the client are translated and written to the backend;*)
(* Close takes back from the client what the session has shown it, while   *)
(* all of them are under way and another session may follow.               *)
(*                                                                         *)
(* One player, and sessions on remote servers: sessions of different       *)
(* players share nothing here, and an internal server forwards nothing.    *)
(* runtimeId and uniqueId are translated alike and are one ID.             *)
(***************************************************************************)
EXTENDS Integers

CONSTANTS
  Ids,          \* entity IDs; 1 is the client's own
  Objectives,   \* names of scoreboard objectives
  MaxSessions   \* bound: sessions of the player

ASSUME ForwardingAssumption == Ids \subseteq Nat /\ 1 \in Ids /\ MaxSessions \in Nat \ {0}

Sessions == 1 .. MaxSessions

\* What a session remembers having shown: eyeSession.entities and scoreboards.
Things == ({"actor"} \X Ids) \cup ({"objective"} \X Objectives)

VARIABLES
  online,     \* eyePlayer.online
  current,    \* eyePlayer.session
  own,        \* eyeSession.runtimeId, .uniqueId: the player's ID on the backend
  connected,  \* eyeSession.connected is closed
  open,       \* the backend connection is open
  close,      \* "absent", then progress of the body of eyeSession.Close
  tracked,    \* entities and scoreboards of the session
  due,        \* of these, what the two Ranges of Close must still visit
  seen,       \*   what they have visited
  sweeping,   \*   and what they have told the client to remove, but not deleted
  carried,    \* of these, what its reader read or wrote when its Close had begun
  reader,     \* pc of the session's reader goroutine
  op,         \* its packet: "add" or "remove"
  thing,      \*   of what, by the backend's ID
  shown,      \* what the client shows: the session that last added it, or 0
  client,     \* pc of the goroutine that reads the client
  dest,       \* its p.Session(), the destination of the packet
  via         \* the session whose IDs the packet has been translated to, or 0

closeVars == <<tracked, due, seen, sweeping>>
readerVars == <<reader, op, thing>>
clientVars == <<client, dest, via>>
vars == <<online, current, own, connected, open, close, closeVars, carried,
          readerVars, shown, clientVars>>

\* Whoever calls eyeSession.Close first starts its body, which begins by closing
\* the connection.
CloseBegun(s) == [close EXCEPT ![s] = IF @ = "open" THEN "online" ELSE @]

-----------------------------------------------------------------------------
(* Translation. *)

Swap(a, b, id) == CASE id = a -> b [] id = b -> a [] OTHER -> id

\* eyeSession.TranslateEid: from the backend to the client.
TranslateSession(s, id) == Swap(own[s], 1, id)

\* eyePlayer.TranslateEid: from the client to the backend, when s is current.
TranslatePlayer(s, id) == Swap(1, own[s], id)

\* A thing of the backend as the client knows it: objectives have names, not IDs.
Translated(s, t) == IF t[1] = "actor" THEN <<t[1], TranslateSession(s, t[2])>> ELSE t

\* What is remembered of a packet is read from it after its translation.
Key(s, t) == Translated(s, t)

-----------------------------------------------------------------------------
(* The goroutine that reads the backend of session s. *)

\* History: the reader of s does something about t, which the client knows so.
Carries(s, t) ==
  carried' = [carried EXCEPT ![s] = IF close[s] = "open" THEN @ ELSE @ \cup {Translated(s, t)}]

\* Bound: what a closed connection has buffered for ReadPacket is at most one packet.
Buffered(s) == carried[s] = {}

\* <-s.connected, which Close closes too.  The server lets the packet pass, and
\* Packet translates it and calls Store or Delete ...
ReadBackend(s) ==
  /\ reader[s] = "read" /\ connected[s] /\ (open[s] \/ Buffered(s))
  /\ reader' = [reader EXCEPT ![s] = "write"]
  /\ \E o \in {"add", "remove"}, t \in Things :
       /\ op' = [op EXCEPT ![s] = o] /\ thing' = [thing EXCEPT ![s] = t]
       /\ tracked' = [tracked EXCEPT ![s] =
                        IF o = "add" THEN @ \cup {Key(s, t)} ELSE @ \ {Key(s, t)}]
       /\ Carries(s, t)
  /\ UNCHANGED <<online, current, own, connected, open, close, due, seen, sweeping, shown,
                 clientVars>>

\* ... and then destination.WritePacket.
WriteClient(s) ==
  /\ reader[s] = "write"
  /\ shown' = [shown EXCEPT ![Translated(s, thing[s])] = IF op[s] = "add" THEN s ELSE 0]
  /\ reader' = [reader EXCEPT ![s] = "read"]
  /\ op' = [op EXCEPT ![s] = "add"] /\ thing' = [thing EXCEPT ![s] = <<"actor", 1>>]
  /\ Carries(s, thing[s])
  /\ UNCHANGED <<online, current, own, connected, open, close, closeVars, clientVars>>

\* ReadPacket returns an error: s.Close(), return.
ReaderEnds(s) ==
  /\ reader[s] = "read" /\ connected[s] /\ ~open[s]
  /\ reader' = [reader EXCEPT ![s] = "end"]
  /\ close' = CloseBegun(s)
  /\ UNCHANGED <<online, current, own, connected, open, closeVars, carried, op, thing, shown,
                 clientVars>>

-----------------------------------------------------------------------------
(* The body of eyeSession.Close. *)

\* A transfer, or the player's Close, calls Close.
CloseConn(s) ==
  /\ close[s] = "open"
  /\ close' = CloseBegun(s)
  /\ open' = [open EXCEPT ![s] = FALSE]
  /\ UNCHANGED <<online, current, own, connected, closeVars, carried, readerVars, shown,
                 clientVars>>

\* close(s.connected), and Leave.
Closed(s) ==
  /\ close' = [close EXCEPT ![s] = "closed"]
  /\ connected' = [connected EXCEPT ![s] = TRUE]

\* Taking nothing back (slip).
CloseUnswept(s) ==
  /\ close[s] = "online"
  /\ Closed(s)
  /\ UNCHANGED <<online, current, own, open, closeVars, carried, readerVars, shown, clientVars>>

\* if s.player.Online(): the Ranges start.
CloseOnline(s) ==
  /\ close[s] = "online"
  /\ IF online
     THEN /\ due' = [due EXCEPT ![s] = tracked[s]]
          /\ close' = [close EXCEPT ![s] = "sweep"]
          /\ UNCHANGED connected
     ELSE Closed(s) /\ UNCHANGED due
  /\ UNCHANGED <<online, current, own, open, tracked, seen, sweeping, carried, readerVars,
                 shown, clientVars>>

\* Each Range visits the keys one after the other, and may visit those stored
\* meanwhile: WritePacket(RemoveActor or RemoveObjective) ...
SweepWrite(s) ==
  /\ close[s] = "sweep"
  /\ \E t \in tracked[s] \ seen[s] :
       /\ \A u \in sweeping[s] : u[1] # t[1]
       /\ shown' = [shown EXCEPT ![t] = 0]
       /\ seen' = [seen EXCEPT ![s] = @ \cup {t}]
       /\ sweeping' = [sweeping EXCEPT ![s] = @ \cup {t}]
  /\ UNCHANGED <<online, current, own, connected, open, close, tracked, due, carried,
                 readerVars, clientVars>>

\* ... and Delete.
SweepDelete(s) ==
  /\ close[s] = "sweep"
  /\ \E t \in sweeping[s] :
       /\ tracked' = [tracked EXCEPT ![s] = @ \ {t}]
       /\ sweeping' = [sweeping EXCEPT ![s] = @ \ {t}]
  /\ UNCHANGED <<online, current, own, connected, open, close, due, seen, carried, readerVars,
                 shown, clientVars>>

\* wg.Wait(): what was there from the start, and still is, has been visited.
Swept(s) ==
  /\ close[s] = "sweep"
  /\ sweeping[s] = {} /\ due[s] \cap tracked[s] \subseteq seen[s]
  /\ Closed(s)
  /\ due' = [due EXCEPT ![s] = {}] /\ seen' = [seen EXCEPT ![s] = {}]
  /\ UNCHANGED <<online, current, own, open, tracked, sweeping, carried, readerVars, shown,
                 clientVars>>

-----------------------------------------------------------------------------
(* The sessions of the player follow each other. *)

\* The backend goes away.
BackendLost(s) ==
  /\ open[s]
  /\ open' = [open EXCEPT ![s] = FALSE]
  /\ UNCHANGED <<online, current, own, connected, close, closeVars, carried, readerVars, shown,
                 clientVars>>

\* Close left to run on its own (slip).
EvictedUnawaited == TRUE

\* player.Session().Close() has returned.
Evicted == close[current] = "closed"

\* A session that is not there (slip).
InstalledNot(s) == close

Installed(s) == [close EXCEPT ![s] = "open"]

\* player.SetSession(NewSession(r, player, conn))
Install ==
  /\ current < MaxSessions /\ Evicted
  /\ current' = current + 1
  /\ close' = Installed(current + 1)
  /\ open' = [open EXCEPT ![current + 1] = TRUE]
  /\ \E id \in Ids : own' = [own EXCEPT ![current + 1] = id]
  /\ UNCHANGED <<online, connected, closeVars, carried, readerVars, shown, clientVars>>

SetConnected ==
  /\ ~connected[current]
  /\ connected' = [connected EXCEPT ![current] = TRUE]
  /\ UNCHANGED <<online, current, own, open, close, closeVars, carried, readerVars, shown,
                 clientVars>>

\* online.Store(false) of eyePlayer.Close.
Offline ==
  /\ online /\ online' = FALSE
  /\ UNCHANGED <<current, own, connected, open, close, closeVars, carried, readerVars, shown,
                 clientVars>>

-----------------------------------------------------------------------------
(* The goroutine that reads the client. *)

\* The server lets the packet pass; p.Session() becomes the destination of
\* to.Packet(p, p.Session(), pk) ...
ReadClient ==
  /\ client = "read"
  /\ client' = "translate" /\ dest' = current
  /\ UNCHANGED <<online, current, own, connected, open, close, closeVars, carried, readerVars,
                 shown, via>>

\* ... whose source.TranslateEid asks the player again, for the packets that Packet has
\* a case for ...
TranslateClient ==
  /\ client = "translate"
  /\ via' = current
  /\ client' = "write"
  /\ UNCHANGED <<online, current, own, connected, open, close, closeVars, carried, readerVars,
                 shown, dest>>

\* ... while others that name entities, as InventoryTransaction does, pass as they
\* are ...
PassClient ==
  /\ client = "translate"
  /\ client' = "write"
  /\ UNCHANGED <<online, current, own, connected, open, close, closeVars, carried, readerVars,
                 shown, dest, via>>

\* ... and the packet is written, or fails, which makes the session close.
WriteBackend ==
  /\ client = "write"
  /\ client' = "read" /\ dest' = 0 /\ via' = 0
  /\ close' = IF open[dest] THEN close ELSE CloseBegun(dest)
  /\ UNCHANGED <<online, current, own, connected, open, closeVars, carried, readerVars, shown>>

-----------------------------------------------------------------------------
\* The first session is installed and connected.
Init ==
  /\ online = TRUE /\ current = 1
  /\ own \in [Sessions -> Ids] /\ \A s \in Sessions \ {1} : own[s] = 1
  /\ connected = [s \in Sessions |-> s = 1]
  /\ open = [s \in Sessions |-> s = 1]
  /\ close = [s \in Sessions |-> IF s = 1 THEN "open" ELSE "absent"]
  /\ tracked = [s \in Sessions |-> {}] /\ due = [s \in Sessions |-> {}]
  /\ seen = [s \in Sessions |-> {}] /\ sweeping = [s \in Sessions |-> {}]
  /\ carried = [s \in Sessions |-> {}]
  /\ reader = [s \in Sessions |-> "read"]
  /\ op = [s \in Sessions |-> "add"]
  /\ thing = [s \in Sessions |-> <<"actor", 1>>]
  /\ shown = [t \in Things |-> 0]
  /\ client = "read" /\ dest = 0 /\ via = 0

Reader(s) == ReadBackend(s) \/ WriteClient(s) \/ ReaderEnds(s)

Close(s) ==
  \/ CloseConn(s) \/ CloseOnline(s) \/ SweepWrite(s) \/ SweepDelete(s)
  \/ Swept(s)

Next ==
  \/ \E s \in Sessions : Reader(s) \/ Close(s) \/ BackendLost(s)
  \/ Install \/ SetConnected \/ Offline
  \/ ReadClient \/ TranslateClient \/ PassClient \/ WriteBackend

Spec == Init /\ [][Next]_vars

-----------------------------------------------------------------------------
(* Properties. *)

\* TypeOK: the sessions up to the current one exist, with things of the client.
TypeOK ==
  /\ online \in BOOLEAN /\ current \in Sessions
  /\ own \in [Sessions -> Ids] /\ connected \in [Sessions -> BOOLEAN]
  /\ open \in [Sessions -> BOOLEAN] /\ carried \in [Sessions -> SUBSET Things]
  /\ close \in [Sessions -> {"absent", "open", "online", "sweep", "closed"}]
  /\ tracked \in [Sessions -> SUBSET Things] /\ due \in [Sessions -> SUBSET Things]
  /\ seen \in [Sessions -> SUBSET Things] /\ sweeping \in [Sessions -> SUBSET Things]
  /\ \A s \in Sessions :
       (close[s] = "absent" <=> s > current) /\ sweeping[s] \subseteq seen[s]
  /\ reader \in [Sessions -> {"read", "write", "end"}]
  /\ op \in [Sessions -> {"add", "remove"}] /\ thing \in [Sessions -> Things]
  /\ shown \in [Things -> 0 .. MaxSessions]
  /\ client \in {"read", "translate", "write"} /\ dest \in 0 .. MaxSessions
  /\ via \in 0 .. MaxSessions

\* What the reader of s is about to write to the client.
Pending(s) == IF reader[s] = "write" THEN {Translated(s, thing[s])} ELSE {}

\* Mirrored: a session remembers exactly what the client shows of it, and once Close
\* has returned it has left nothing with a client who is still there, nor taken
\* away what the next session shows.  Excepted are, one by one, the things of a packet
\* that is just being written, those Close is just removing, and those whose
\* packet a reader carried across the Close of its session.
Mirrored ==
  online =>
    \A s \in Sessions, t \in Things :
      \/ t \in Pending(s) \cup sweeping[s] \cup UNION {carried[r] : r \in Sessions}
      \/ /\ shown[t] = s <=> t \in tracked[s]
         /\ close[s] = "closed" => shown[t] # s

\* How a backend gets the ID the client has used.
Sent(id) == IF via = 0 THEN id ELSE TranslatePlayer(via, id)

\* RightEntity: the entity a client names reaches a backend by the backend's ID
\* for it, although destination and translation ask for the session separately:
\* a session that is replaced in between has lost its connection.  Only in a
\* packet that is not translated do the player and the entity that has the
\* client's ID on the backend arrive in each other's place.
RightEntity ==
  client = "write" /\ open[dest] =>
    \A id \in Ids :
      TranslateSession(dest, Sent(id)) = id \/ (via = 0 /\ id \in {1, own[dest]})
=============================================================================
