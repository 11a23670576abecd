-------------------------- MODULE SessionLifecycle --------------------------
(***************************************************************************)
(* The life of a proxied player: the join goroutine (eye.go), the connect  *)
(* of a player to a server (remoteserver.go, internalserver.go), the close *)
(* of a session (session.go) and of a player (player.go), and the reader   *)
(* goroutines of both connections, interleaved at the granularity of their *)
(* accesses to shared state.                                               *)
(*                                                                         *)
(* Attempt k of player p, <<p, k>>, is the k-th call of Server.Connect for *)
(* p.  It also names the session that call creates: NewSession is called   *)
(* at most once in a Connect.  Attempt 1 is made by the join goroutine,    *)
(* attempt k+1 by the goroutine in which attempt k fires EventConnect.     *)
(*                                                                         *)
(* A sync.Once body is one program counter per object: whoever calls Close *)
(* starts the body or finds it started, and waits for its end.  Which      *)
(* caller runs the body makes no difference, since all of them wait for it;*)
(* a body that (through other calls) waits for itself waits for ever.      *)
(***************************************************************************)
EXTENDS Integers, FiniteSets

CONSTANTS
  Players,      \* connections accepted by the listener, one object each
  Remotes,      \* remoteserver objects
  Internals,    \* internalServer objects
  Lobby,        \* the remote server eye.go connects a player to first
  NoServer,     \* the server of an attempt that has not started
  Address,      \* a server's Address(); two remotes may share one
  MaxConnects   \* bound: Connect calls per player

Servers == Remotes \cup Internals
Attempts == 1 .. MaxConnects
Sessions == Players \X Attempts

ASSUME LifecycleAssumption ==
  /\ IsFiniteSet(Players)
  /\ Remotes \cap Internals = {}
  /\ Lobby \in Remotes
  /\ NoServer \notin Servers
  /\ MaxConnects \in Nat \ {0}

VARIABLES
  online,        \* eyePlayer.online
  transferring,  \* eyePlayer.transferring
  session,       \* eyePlayer.session: 0 (NopSession) or the index of an attempt
  client,        \* eyePlayer.conn: "open", "lost" by the client, or "closed"
  pclose,        \* eyePlayer.close: progress of the body of Close
  pvict,         \* the session that body closes (local s of Close)
  reader,        \* pc of the goroutine started by newPlayer
  to,            \* its captured variable to: 0 (nil) or the index of a session
  connect,       \* pc of the attempt's Connect
  server,        \* its receiver: the server connected to
  conn,          \* the backend connection of the attempt
  connected,     \* eyeSession.connected is closed
  sclose,        \* eyeSession.close: "absent" before NewSession, then progress of Close
  sreader,       \* whether the goroutine started by NewSession runs
  count,         \* remoteserver.count
  roster,        \* remoteserver.players, as the set of sessions registered
  panicked       \* a goroutine panicked, which ends the process

playerVars == <<online, transferring, session>>
pcloseVars == <<client, pclose, pvict>>
readerVars == <<reader, to>>
sessionVars == <<server, conn, connected, sclose, sreader>>
serverVars == <<count, roster>>
vars == <<playerVars, pcloseVars, readerVars, connect, sessionVars,
          serverVars, panicked>>

Cur(p) == <<p, session[p]>>     \* p.Session(); not in Sessions for NopSession

-----------------------------------------------------------------------------
(* Steps that several goroutines share. *)

\* A call of Close that is forgotten (a slip the properties must notice).
NotClosed(x) == sclose

\* eyeSession.Close called by anyone: the first caller starts the body.
CloseBegun(v) ==
  IF v \in Sessions /\ sclose[v] = "open"
  THEN [sclose EXCEPT ![v] = "conn"]
  ELSE sclose

\* eyePlayer.Close called by anyone: online.Store(false), then close.Do.
BeginPlayerClose(p) ==
  /\ online' = [online EXCEPT ![p] = FALSE]
  /\ pclose' = [pclose EXCEPT ![p] = IF @ = "open" THEN "read" ELSE @]

\* The call of Close on v returns: the body has ended (a no-op on NopSession).
CloseReturns(v) == v \in Sessions => sclose[v] = "closed"

-----------------------------------------------------------------------------
(* Server.Connect, one attempt s = <<p, k>>. *)

\* The attempt starts: count.Inc() on a remote server; an internal one keeps no count.
ConnectStart(s) ==
  /\ connect[s] = "pending"
  /\ \E r \in Servers :
       /\ s[2] = 1 => r = Lobby
       /\ server' = [server EXCEPT ![s] = r]
       /\ IF r \in Remotes
          THEN /\ count' = [count EXCEPT ![r] = @ + 1]
               /\ connect' = [connect EXCEPT ![s] = "online"]
          ELSE /\ connect' = [connect EXCEPT ![s] = "branch"]
               /\ UNCHANGED count
  /\ UNCHANGED <<playerVars, pcloseVars, readerVars, conn, connected, sclose,
                 sreader, roster, panicked>>

\* A join handler cancelled EventJoin: the goroutine returns without connecting.
JoinCancelled(s) ==
  /\ connect[s] = "pending" /\ s[2] = 1
  /\ connect' = [connect EXCEPT ![s] = "returned"]
  /\ UNCHANGED <<playerVars, pcloseVars, readerVars, sessionVars, serverVars,
                 panicked>>

\* return err without count.Dec() (slip).
ConnectGivesUpSilently(s) ==
  /\ connect' = [connect EXCEPT ![s] = "returned"]
  /\ UNCHANGED count

ConnectGivesUp(s) ==
  /\ count' = [count EXCEPT ![server[s]] = @ - 1]
  /\ connect' = [connect EXCEPT ![s] = "returned"]

\* if !player.Online() { count.Dec(); return }
ConnectOnline(s) ==
  /\ connect[s] = "online"
  /\ IF online[s[1]]
     THEN /\ connect' = [connect EXCEPT ![s] = "dial"]
          /\ UNCHANGED count
     ELSE ConnectGivesUp(s)
  /\ UNCHANGED <<playerVars, pcloseVars, readerVars, sessionVars, roster,
                 panicked>>

\* The dial fails: count.Dec(); return err.
ConnectDialFails(s) ==
  /\ connect[s] = "dial"
  /\ ConnectGivesUp(s)
  /\ UNCHANGED <<playerVars, pcloseVars, readerVars, sessionVars, roster,
                 panicked>>

ConnectDialled(s) ==
  /\ connect[s] = "dial"
  /\ connect' = [connect EXCEPT ![s] = "branch"]
  /\ conn' = [conn EXCEPT ![s] = "open"]
  /\ UNCHANGED <<playerVars, pcloseVars, readerVars, server, connected, sclose,
                 sreader, serverVars, panicked>>

\* NewSession: a session on a remote server starts its reader goroutine.
NewSession(s) ==
  /\ sclose' = [sclose EXCEPT ![s] = "open"]
  /\ sreader' = [sreader EXCEPT ![s] = server[s] \in Remotes]

\* SetConnected forgotten, or called after SetSession (slip).
FirstUnconnected(s) == connected

FirstConnected(s) == [connected EXCEPT ![s] = TRUE]

\* First session of the player: NewSession, SetWorld, SetConnected on an object
\* only the (still waiting) reader goroutine shares.
ConnectFirst(s) ==
  /\ connect[s] = "branch" /\ session[s[1]] = 0
  /\ NewSession(s)
  /\ connected' = FirstConnected(s)
  /\ connect' = [connect EXCEPT ![s] = "install"]
  /\ UNCHANGED <<playerVars, pcloseVars, readerVars, server, conn, serverVars,
                 panicked>>

\* player.SetSession(s)
ConnectInstall(s) ==
  /\ connect[s] = "install"
  /\ session' = [session EXCEPT ![s[1]] = s[2]]
  /\ connect' = [connect EXCEPT ![s] = "spawn"]
  /\ UNCHANGED <<online, transferring, pcloseVars, readerVars, sessionVars,
                 serverVars, panicked>>

\* StartGame and DoSpawn both succeed, which needs both ends of the proxy.
ConnectSpawned(s) ==
  /\ connect[s] = "spawn"
  /\ client[s[1]] = "open" /\ conn[s] = "open"
  /\ connect' = [connect EXCEPT ![s] = "roster"]
  /\ UNCHANGED <<playerVars, pcloseVars, readerVars, sessionVars, serverVars,
                 panicked>>

\* One of them fails: errs <- err blocks, since errs is unbuffered and its only
\* receiver comes after g.Wait(), which waits for the blocked goroutine.
ConnectHangs(s) ==
  /\ connect[s] = "spawn"
  /\ connect' = [connect EXCEPT ![s] = "hung"]
  /\ UNCHANGED <<playerVars, pcloseVars, readerVars, sessionVars, serverVars,
                 panicked>>

\* Transfer: DoSpawn on the new connection, while the old session still runs.
ConnectDoSpawn(s) ==
  /\ connect[s] = "branch" /\ session[s[1]] # 0 /\ server[s] \in Remotes
  /\ conn[s] = "open"
  /\ connect' = [connect EXCEPT ![s] = "begin"]
  /\ UNCHANGED <<playerVars, pcloseVars, readerVars, sessionVars, serverVars,
                 panicked>>

\* DoSpawn fails: conn.Close(); return err, and count keeps the attempt.
ConnectDoSpawnFails(s) ==
  /\ connect[s] = "branch" /\ session[s[1]] # 0 /\ server[s] \in Remotes
  /\ conn' = [conn EXCEPT ![s] = "closed"]
  /\ connect' = [connect EXCEPT ![s] = "spawnfailed"]
  /\ UNCHANGED <<playerVars, pcloseVars, readerVars, server, connected, sclose,
                 sreader, serverVars, panicked>>

\* player.SetTransferring(true); an internal server gets here without a dial.
ConnectBegin(s) ==
  /\ \/ connect[s] = "begin"
     \/ connect[s] = "branch" /\ session[s[1]] # 0 /\ server[s] \in Internals
  /\ transferring' = [transferring EXCEPT ![s[1]] = TRUE]
  /\ connect' = [connect EXCEPT ![s] = "evict"]
  /\ UNCHANGED <<online, session, pcloseVars, readerVars, sessionVars,
                 serverVars, panicked>>

EvictClose(p) == CloseBegun(Cur(p))

\* player.Session().Close() is called ...
ConnectEvict(s) ==
  /\ connect[s] = "evict"
  /\ sclose' = EvictClose(s[1])
  /\ connect' = [connect EXCEPT ![s] = "evicting"]
  /\ UNCHANGED <<playerVars, pcloseVars, readerVars, server, conn, connected,
                 sreader, serverVars, panicked>>

\* Close left to run on its own (slip).
EvictedUnawaited(p) == TRUE

Evicted(p) == CloseReturns(Cur(p))

\* ... and returns; then player.SetSession(NewSession(...)), not yet connected.
ConnectReplace(s) ==
  /\ connect[s] = "evicting"
  /\ Evicted(s[1])
  /\ NewSession(s)
  /\ session' = [session EXCEPT ![s[1]] = s[2]]
  /\ connect' = [connect EXCEPT ![s] = "end"]
  /\ UNCHANGED <<online, transferring, pcloseVars, readerVars, server, conn,
                 connected, serverVars, panicked>>

\* player.SetTransferring(false); the packets written next are not modelled.
ConnectEnd(s) ==
  /\ connect[s] = "end"
  /\ transferring' = [transferring EXCEPT ![s[1]] = FALSE]
  /\ connect' = [connect EXCEPT ![s] = "check"]
  /\ UNCHANGED <<online, session, pcloseVars, readerVars, sessionVars,
                 serverVars, panicked>>

\* internalServer.Connect ends here; remoteserver.Connect goes on to its tail.
AfterConnected(s) == IF server[s] \in Internals THEN "returned" ELSE "roster"

\* player.Session().SetConnected(): the select ...
ConnectCheck(s) ==
  /\ connect[s] = "check"
  /\ connect' = [connect EXCEPT ![s] =
                   IF connected[Cur(s[1])] THEN AfterConnected(s) ELSE "mark"]
  /\ UNCHANGED <<playerVars, pcloseVars, readerVars, sessionVars, serverVars,
                 panicked>>

\* ... and close(s.connected), which panics on a closed channel.
ConnectMark(s) ==
  /\ connect[s] = "mark"
  /\ IF connected[Cur(s[1])]
     THEN panicked' = TRUE /\ UNCHANGED <<connected, connect>>
     ELSE /\ connected' = [connected EXCEPT ![Cur(s[1])] = TRUE]
          /\ connect' = [connect EXCEPT ![s] = AfterConnected(s)]
          /\ UNCHANGED panicked
  /\ UNCHANGED <<playerVars, pcloseVars, readerVars, server, conn, sclose,
                 sreader, serverVars>>

\* The id of the session the player came with (slip).
RosterEntryOfPrevious(s) == <<s[1], s[2] - 1>>

\* r.players[player.Session().OldRuntimeId()] = player
RosterEntry(s) == Cur(s[1])

ConnectRoster(s) ==
  /\ connect[s] = "roster"
  /\ roster' = [roster EXCEPT ![server[s]] = @ \cup {RosterEntry(s)}]
  /\ connect' = [connect EXCEPT ![s] = "event"]
  /\ UNCHANGED <<playerVars, pcloseVars, readerVars, sessionVars, count,
                 panicked>>

Following(s) == <<s[1], s[2] + 1>>

\* go ExecuteEvent(EventConnect): its handlers make the player's next attempt.
ConnectEvent(s) ==
  /\ connect[s] = "event"
  /\ connect' = [connect EXCEPT ![s] = "tail", ![Following(s)] = "pending"]
  /\ UNCHANGED <<playerVars, pcloseVars, readerVars, sessionVars, serverVars,
                 panicked>>

\* What the tail does when the player is gone: player.Session().Close().
TailClose(p) == CloseBegun(Cur(p))

\* if !player.Online() { player.Session().Close() }, then return.
ConnectTail(s) ==
  /\ connect[s] = "tail"
  /\ sclose' = IF online[s[1]] THEN sclose ELSE TailClose(s[1])
  /\ connect' = [connect EXCEPT ![s] = "returned"]
  /\ UNCHANGED <<playerVars, pcloseVars, readerVars, server, conn, connected,
                 sreader, serverVars, panicked>>

Connect(s) ==
  \/ ConnectStart(s) \/ JoinCancelled(s)
  \/ ConnectOnline(s) \/ ConnectDialFails(s) \/ ConnectDialled(s)
  \/ ConnectFirst(s) \/ ConnectInstall(s) \/ ConnectSpawned(s) \/ ConnectHangs(s)
  \/ ConnectDoSpawn(s) \/ ConnectDoSpawnFails(s)
  \/ ConnectBegin(s) \/ ConnectEvict(s) \/ ConnectReplace(s) \/ ConnectEnd(s)
  \/ ConnectCheck(s) \/ ConnectMark(s)
  \/ ConnectRoster(s) \/ ConnectEvent(s) \/ ConnectTail(s)

-----------------------------------------------------------------------------
(* The body of eyeSession.Close. *)

\* s.conn.Close() on a remote server; the packets that clear the client's view
\* of the old server are not modelled here.
CloseConn(s) ==
  /\ sclose[s] = "conn"
  /\ conn' = [conn EXCEPT ![s] = IF server[s] \in Remotes THEN "closed" ELSE @]
  /\ sclose' = [sclose EXCEPT ![s] = "check"]
  /\ UNCHANGED <<playerVars, pcloseVars, readerVars, connect, server, connected,
                 sreader, serverVars, panicked>>

\* The select on s.connected ...
CloseCheck(s) ==
  /\ sclose[s] = "check"
  /\ sclose' = [sclose EXCEPT ![s] = IF connected[s] THEN "leave" ELSE "mark"]
  /\ UNCHANGED <<playerVars, pcloseVars, readerVars, connect, server, conn,
                 connected, sreader, serverVars, panicked>>

\* ... and close(s.connected), which panics on a closed channel.
CloseMark(s) ==
  /\ sclose[s] = "mark"
  /\ IF connected[s]
     THEN panicked' = TRUE /\ UNCHANGED <<connected, sclose>>
     ELSE /\ connected' = [connected EXCEPT ![s] = TRUE]
          /\ sclose' = [sclose EXCEPT ![s] = "leave"]
          /\ UNCHANGED panicked
  /\ UNCHANGED <<playerVars, pcloseVars, readerVars, connect, server, conn,
                 sreader, serverVars>>

\* s.server.Leave: a no-op on an internal server, count.Dec() on a remote one.
CloseLeave(s) ==
  /\ sclose[s] = "leave"
  /\ IF server[s] \in Remotes
     THEN /\ count' = [count EXCEPT ![server[s]] = @ - 1]
          /\ sclose' = [sclose EXCEPT ![s] = "delete"]
     ELSE /\ sclose' = [sclose EXCEPT ![s] = "closed"]
          /\ UNCHANGED count
  /\ UNCHANGED <<playerVars, pcloseVars, readerVars, connect, server, conn,
                 connected, sreader, roster, panicked>>

\* delete(r.players, session.OldRuntimeId())
LeaveDelete(s) ==
  /\ sclose[s] = "delete"
  /\ roster' = [roster EXCEPT ![server[s]] = @ \ {s}]
  /\ sclose' = [sclose EXCEPT ![s] = "moving"]
  /\ UNCHANGED <<playerVars, pcloseVars, readerVars, connect, server, conn,
                 connected, sreader, count, panicked>>

\* !player.IsTransferring() && ...
LeaveMoving(s) ==
  /\ sclose[s] = "moving"
  /\ sclose' = [sclose EXCEPT ![s] =
                  IF transferring[s[1]] THEN "closed" ELSE "address"]
  /\ UNCHANGED <<playerVars, pcloseVars, readerVars, connect, server, conn,
                 connected, sreader, serverVars, panicked>>

\* The player is closed whatever its session (slip).
AlwaysLosesServer(s) == TRUE

\* The addresses are compared the wrong way round (slip).
LosesOtherServer(s) ==
  /\ session[s[1]] # 0
  /\ Address[server[Cur(s[1])]] # Address[server[s]]

\* ... player.Session().Server().Address() == r.Address(); NopServer's is "".
LosesServer(s) ==
  /\ session[s[1]] # 0
  /\ Address[server[Cur(s[1])]] = Address[server[s]]

\* The player is told that its server went down, and closed.  A session being
\* closed stays the current one, so the test and the call make one step.
LeaveAddress(s) ==
  /\ sclose[s] = "address"
  /\ IF LosesServer(s)
     THEN /\ BeginPlayerClose(s[1])
          /\ sclose' = [sclose EXCEPT ![s] = "kicking"]
     ELSE /\ sclose' = [sclose EXCEPT ![s] = "closed"]
          /\ UNCHANGED <<online, pclose>>
  /\ UNCHANGED <<transferring, session, client, pvict, readerVars, connect,
                 server, conn, connected, sreader, serverVars, panicked>>

\* player.Close() returns; listener.Leave ends the body.
LeaveKicked(s) ==
  /\ sclose[s] = "kicking" /\ pclose[s[1]] = "closed"
  /\ sclose' = [sclose EXCEPT ![s] = "closed"]
  /\ UNCHANGED <<playerVars, pcloseVars, readerVars, connect, server, conn,
                 connected, sreader, serverVars, panicked>>

SessionClose(s) ==
  \/ CloseConn(s) \/ CloseCheck(s) \/ CloseMark(s) \/ CloseLeave(s)
  \/ LeaveDelete(s) \/ LeaveMoving(s) \/ LeaveAddress(s) \/ LeaveKicked(s)

-----------------------------------------------------------------------------
(* The body of eyePlayer.Close. *)

\* EventLeave; s := p.Session(); s.Close() is called ...
PlayerCloseRead(p) ==
  /\ pclose[p] = "read"
  /\ pvict' = [pvict EXCEPT ![p] = session[p]]
  /\ sclose' = CloseBegun(Cur(p))
  /\ pclose' = [pclose EXCEPT ![p] = "closing"]
  /\ UNCHANGED <<playerVars, client, readerVars, connect, server, conn,
                 connected, sreader, serverVars, panicked>>

\* ... and returns; the anticheat, the connection and the chunks are closed.
PlayerCloseEnd(p) ==
  /\ pclose[p] = "closing" /\ CloseReturns(<<p, pvict[p]>>)
  /\ client' = [client EXCEPT ![p] = "closed"]
  /\ pclose' = [pclose EXCEPT ![p] = "closed"]
  /\ UNCHANGED <<playerVars, pvict, readerVars, connect, sessionVars,
                 serverVars, panicked>>

PlayerClose(p) == PlayerCloseRead(p) \/ PlayerCloseEnd(p)

-----------------------------------------------------------------------------
(* The reader goroutines. *)

\* ReadPacket fails: p.Close(), return.
ReaderFails(p) ==
  /\ reader[p] = "read" /\ client[p] # "open"
  /\ BeginPlayerClose(p)
  /\ reader' = [reader EXCEPT ![p] = "end"]
  /\ UNCHANGED <<transferring, session, client, pvict, to, connect, sessionVars,
                 serverVars, panicked>>

\* A packet of the client arrives, and the server the player is on accepts it.
ReaderRoute(p) ==
  /\ reader[p] = "read" /\ client[p] = "open" /\ session[p] # 0
  /\ reader' = [reader EXCEPT ![p] = "check"]
  /\ UNCHANGED <<playerVars, pcloseVars, to, connect, sessionVars, serverVars,
                 panicked>>

\* if p.Session().IsConnected()
ReaderCheck(p) ==
  /\ reader[p] = "check"
  /\ reader' = [reader EXCEPT ![p] = IF connected[Cur(p)] THEN "bind" ELSE "send"]
  /\ UNCHANGED <<playerVars, pcloseVars, to, connect, sessionVars, serverVars,
                 panicked>>

\* to = p.Session()
ReaderBind(p) ==
  /\ reader[p] = "bind"
  /\ to' = [to EXCEPT ![p] = session[p]]
  /\ reader' = [reader EXCEPT ![p] = "send"]
  /\ UNCHANGED <<playerVars, pcloseVars, connect, sessionVars, serverVars,
                 panicked>>

\* to.Packet(p, p.Session(), pk), which panics on a nil to; the error is that of
\* writing to the connection of the current session, and makes it close to.
ReaderSend(p) ==
  /\ reader[p] = "send"
  /\ IF to[p] = 0
     THEN panicked' = TRUE /\ UNCHANGED <<reader, sclose>>
     ELSE /\ IF server[Cur(p)] \in Remotes /\ conn[Cur(p)] # "open"
             THEN /\ sclose' = CloseBegun(<<p, to[p]>>)
                  /\ reader' = [reader EXCEPT ![p] = "closing"]
             ELSE /\ reader' = [reader EXCEPT ![p] = "read"]
                  /\ UNCHANGED sclose
          /\ UNCHANGED panicked
  /\ UNCHANGED <<playerVars, pcloseVars, to, connect, server, conn, connected,
                 sreader, serverVars>>

\* to.Close() returns.
ReaderClosed(p) ==
  /\ reader[p] = "closing" /\ CloseReturns(<<p, to[p]>>)
  /\ reader' = [reader EXCEPT ![p] = "read"]
  /\ UNCHANGED <<playerVars, pcloseVars, to, connect, sessionVars, serverVars,
                 panicked>>

ReaderProceeds(p) ==
  \/ ReaderFails(p) \/ ReaderCheck(p) \/ ReaderBind(p) \/ ReaderSend(p)
  \/ ReaderClosed(p)

ReaderClose(s) == CloseBegun(s)

\* The reader of a session, past <-s.connected: ReadPacket fails, s.Close().
SessionReaderFails(s) ==
  /\ sreader[s] /\ connected[s] /\ conn[s] # "open"
  /\ sclose' = ReaderClose(s)
  /\ sreader' = [sreader EXCEPT ![s] = FALSE]
  /\ UNCHANGED <<playerVars, pcloseVars, readerVars, connect, server, conn,
                 connected, serverVars, panicked>>

-----------------------------------------------------------------------------
(* The network and the embedding program. *)

\* The client goes away.
ClientLost(p) ==
  /\ client[p] = "open"
  /\ client' = [client EXCEPT ![p] = "lost"]
  /\ UNCHANGED <<playerVars, pclose, pvict, readerVars, connect, sessionVars,
                 serverVars, panicked>>

\* The backend goes away.
BackendLost(s) ==
  /\ conn[s] = "open"
  /\ conn' = [conn EXCEPT ![s] = "lost"]
  /\ UNCHANGED <<playerVars, pcloseVars, readerVars, connect, server, connected,
                 sclose, sreader, serverVars, panicked>>

\* Any goroutine calls Kick (or Close) on a player.
Kick(p) ==
  /\ online[p]
  /\ BeginPlayerClose(p)
  /\ UNCHANGED <<transferring, session, client, pvict, readerVars, connect,
                 sessionVars, serverVars, panicked>>

-----------------------------------------------------------------------------
Init ==
  /\ online = [p \in Players |-> TRUE]
  /\ transferring = [p \in Players |-> FALSE]
  /\ session = [p \in Players |-> 0]
  /\ client = [p \in Players |-> "open"]
  /\ pclose = [p \in Players |-> "open"]
  /\ pvict = [p \in Players |-> 0]
  /\ reader = [p \in Players |-> "read"]
  /\ to = [p \in Players |-> 0]
  /\ connect = [s \in Sessions |-> IF s[2] = 1 THEN "pending" ELSE "none"]
  /\ server = [s \in Sessions |-> NoServer]
  /\ conn = [s \in Sessions |-> "none"]
  /\ connected = [s \in Sessions |-> FALSE]
  /\ sclose = [s \in Sessions |-> "absent"]
  /\ sreader = [s \in Sessions |-> FALSE]
  /\ count = [r \in Remotes |-> 0]
  /\ roster = [r \in Remotes |-> {}]
  /\ panicked = FALSE

\* What brings a session to its end, once its connection is gone.
SessionEnd(s) == SessionReaderFails(s) \/ SessionClose(s)

SessionNext(s) ==
  Connect(s) \/ SessionEnd(s) \/ BackendLost(s)

PlayerNext(p) ==
  PlayerClose(p) \/ ReaderProceeds(p) \/ ReaderRoute(p) \/ ClientLost(p) \/ Kick(p)

Next ==
  /\ ~panicked
  /\ (\E s \in Sessions : SessionNext(s)) \/ (\E p \in Players : PlayerNext(p))

Spec == Init /\ [][Next]_vars

\* Goroutines are scheduled and calls into the network return, with a result or
\* an error.  Clients, backends and the embedding program owe nothing, and
\* nothing below needs the client's reader either.  The subscripts are the state of
\* the goroutine's call: each of its steps changes it or panics.
Fairness ==
  /\ \A s \in Sessions : /\ WF_<<connect[s], panicked>>(~panicked /\ Connect(s))
                         /\ WF_<<sclose[s], sreader[s], panicked>>(~panicked /\ SessionEnd(s))
  /\ \A p \in Players : WF_<<pclose[p]>>(~panicked /\ PlayerClose(p))

FairSpec == Spec /\ Fairness

-----------------------------------------------------------------------------
(* Properties. *)

\* A Connect that waits on a new connection holds its place in the count.
Dialling == {"online", "dial", "branch", "begin", "evict", "evicting",
             "spawnfailed"}

\* A session whose Leave has not yet decremented the count.
Staying == {"open", "conn", "check", "mark", "leave"}

\* Session s exists and its Close has not returned.
Live(s) == sclose[s] \notin {"absent", "closed"}

\* The states of a Connect, and of the body of a session's Close.
ConnectStates ==
  {"none", "pending", "online", "dial", "branch", "install", "spawn", "hung",
   "begin", "evict", "evicting", "end", "check", "mark", "roster", "event",
   "tail", "returned", "spawnfailed"}

CloseStates ==
  {"absent", "open", "conn", "check", "mark", "leave", "delete", "moving",
   "address", "kicking", "closed"}

\* TypeOK: every variable has the shape of the Go field it stands for; the
\* roster registers sessions that exist, never NopSession.
TypeOK ==
  /\ online \in [Players -> BOOLEAN]
  /\ transferring \in [Players -> BOOLEAN]
  /\ session \in [Players -> 0 .. MaxConnects]
  /\ client \in [Players -> {"open", "lost", "closed"}]
  /\ pclose \in [Players -> {"open", "read", "closing", "closed"}]
  /\ pvict \in [Players -> 0 .. MaxConnects]
  /\ reader \in [Players -> {"read", "check", "bind", "send", "closing", "end"}]
  /\ to \in [Players -> 0 .. MaxConnects]
  /\ connect \in [Sessions -> ConnectStates]
  /\ server \in [Sessions -> Servers \cup {NoServer}]
  /\ conn \in [Sessions -> {"none", "open", "lost", "closed"}]
  /\ connected \in [Sessions -> BOOLEAN]
  /\ sclose \in [Sessions -> CloseStates]
  /\ sreader \in [Sessions -> BOOLEAN]
  /\ count \in [Remotes -> Int]
  /\ roster \in [Remotes -> SUBSET Sessions]
  /\ panicked \in BOOLEAN

\* CountAccounts: Count() of a remote server is the number of connects under way
\* to it and of sessions that have not left it, plus the transfers to it whose
\* DoSpawn failed: those return without count.Dec() (remoteserver.go:126-129)
\* and occupy a place for ever.
Holds(s, r) ==
  /\ server[s] = r
  /\ IF sclose[s] = "absent" THEN connect[s] \in Dialling ELSE sclose[s] \in Staying

CountAccounts ==
  \A r \in Remotes : count[r] = Cardinality({s \in Sessions : Holds(s, r)})

\* OneLiveSession: a player has at most one session that is not fully closed:
\* the session of a transfer is created after the Close of the old one returned.
OneLiveSession ==
  \A s, t \in Sessions : s[1] = t[1] /\ Live(s) /\ Live(t) => s = t

\* NoOrphan: when a player's Close has picked the session to close, a session
\* installed behind its back is closed by the Connect that installed it
\* (remoteserver.go:170-172).  Three cases escape in the code: the Connect has
\* not reached its last test yet, it hangs in StartGame or DoSpawn, or the server is
\* internal, whose Connect has no such test.
Arriving == {"spawn", "hung", "end", "check", "mark", "roster", "event", "tail"}

NoOrphan ==
  \A p \in Players :
    /\ pclose[p] \in {"closing", "closed"}
    /\ session[p] # 0
    /\ sclose[Cur(p)] = "open"
    => connect[Cur(p)] \in Arriving \/ server[Cur(p)] \in Internals

\* RosterComplete: once Connect has registered the player, PlayerByRuntimeId
\* finds it until its session's Leave deletes it.
RosterComplete ==
  \A s \in Sessions :
    /\ server[s] \in Remotes
    /\ connect[s] \in {"event", "tail", "returned"}
    /\ sclose[s] \in Staying \cup {"delete"}
    => s \in roster[server[s]]

\* KickOnlyCurrent: Leave compares addresses, not sessions, and still never
\* disconnects a player for a session other than its current one.
KickOnlyCurrent ==
  \A s \in Sessions : sclose[s] = "kicking" => Cur(s[1]) = s

\* PanicOnlyInTransfer: the two panics of the goroutines (nil to in the reader,
\* second close of connected) need a player past its first session.
PanicOnlyInTransfer == panicked => \E p \in Players : session[p] > 1

\* The session that p's Close closes, and waits for.
Victim(p) == <<p, pvict[p]>>

\* Player p waits in its Close for a session whose Leave waits for that Close:
\* Leave called player.Close (remoteserver.go:237) inside the body of the session's
\* Close, and player.Close calls s.Close (player.go:82) inside its own.
OnceCycle(p) ==
  pclose[p] = "closing" /\ pvict[p] # 0 /\ sclose[Victim(p)] = "kicking"

\* The Close of the remote session that p's Close waits for returns in this step.
VictimCloses(p) ==
  /\ pclose[p] = "closing" /\ pvict[p] # 0 /\ server[Victim(p)] \in Remotes
  /\ sclose[Victim(p)] # "closed" /\ sclose'[Victim(p)] = "closed"

\* CloseEndsInTransferOnly: the cycle is no rare meeting of two closes.  Whatever
\* closes a player on a remote server -- its client leaving, a kick, the backend
\* breaking -- the Close it waits for returns only when Leave finds a transfer
\* under way (remoteserver.go:233); otherwise the player's connection, anticheat
\* and chunks are never closed.
CloseEndsInTransferOnly ==
  [][\A p \in Players : VictimCloses(p) => transferring[p]]_vars

-----------------------------------------------------------------------------
(* The inductive invariant behind the safety properties. *)

\* Connects of a player follow each other: a later one has started only when the
\* earlier one has created its session and reached its tail.
InOrder ==
  \A s, t \in Sessions :
    s[1] = t[1] /\ s[2] < t[2] /\ connect[t] # "none" =>
      connect[s] \in {"tail", "returned"} /\ sclose[s] # "absent"

Unmade == {"none", "pending", "online", "dial", "branch", "begin", "evict",
           "evicting", "spawnfailed"}

\* Whether an attempt's session exists, by its Connect.
Made ==
  \A s \in Sessions :
    /\ connect[s] \in Unmade => sclose[s] = "absent"
    /\ connect[s] \in Arriving \cup {"install"} => sclose[s] # "absent"

\* Where the player's current session stands.
Settled ==
  /\ \A p \in Players : session[p] # 0 => sclose[Cur(p)] # "absent"
  /\ \A s \in Sessions :
       /\ connect[s] \in Arriving \ {"tail"} => session[s[1]] = s[2]
       /\ connect[s] = "install" => session[s[1]] = 0
       /\ connect[s] \in {"begin", "evict", "evicting"} => session[s[1]] # 0
       /\ sclose[s] # "absent" /\ connect[s] # "install" => session[s[1]] # 0
       /\ sclose[s] = "kicking" => session[s[1]] # 0

\* A session that is not the current one is closed, or about to be installed.
OthersClosed ==
  \A s \in Sessions :
    Live(s) => session[s[1]] = s[2] \/ connect[s] = "install"

\* A player whose Close has started is offline.
ClosingOffline == \A p \in Players : pclose[p] # "open" => ~online[p]

\* The first session is connected before anyone else can reach it, and only a
\* later one goes through SetConnected after it was installed.
FirstIsConnected ==
  \A s \in Sessions :
    /\ s[2] = 1 /\ sclose[s] # "absent" => connected[s]
    /\ connect[s] \in {"begin", "evict", "evicting", "end", "check", "mark"} => s[2] > 1
    /\ sclose[s] = "mark" => s[2] > 1
    /\ connect[s] = "install" => s[2] = 1

\* The reader holds a packet only for a player with a session, and sends it with
\* a nil to only if that session was not connected.
ReaderHolds ==
  \A p \in Players :
    /\ reader[p] \in {"check", "bind", "send"} => session[p] # 0
    /\ reader[p] = "send" /\ to[p] = 0 => session[p] > 1

IInv ==
  /\ TypeOK /\ InOrder /\ Made /\ Settled /\ OthersClosed /\ ClosingOffline
  /\ FirstIsConnected /\ ReaderHolds

-----------------------------------------------------------------------------
(* What the servers promise, and where a session stands for them. *)

PlaceOf(cn, sc) ==
  CASE sc \in Staying -> "playing"
    [] sc \notin Staying \cup {"absent"} -> "over"
    [] sc = "absent" /\ cn \in {"none", "pending"} -> "none"
    [] sc = "absent" /\ cn = "spawnfailed" -> "lost"
    [] sc = "absent" /\ cn \in Dialling \ {"spawnfailed"} -> "asked"
    [] OTHER -> "over"

Place == [s \in Sessions |-> PlaceOf(connect[s], sclose[s])]

Promise == INSTANCE ServerPlaces WITH
  Visits <- Sessions, Counting <- Remotes, Elsewhere <- Internals,
  Nowhere <- NoServer,
  place <- Place, host <- server, taken <- count, listed <- roster

\* PlacesKept: whatever the interleaving of connects, transfers and closes, every
\* place taken on a server is given back exactly once or lost by a DoSpawn that
\* failed (remoteserver.go:126), and a player plays on one server at a time.
PlacesKept == Promise!Spec

-----------------------------------------------------------------------------
(* Liveness. *)

\* DownedSessionLeaves: a session whose backend connection breaks gives its
\* place on the server back.
DownedSessionLeaves ==
  \A s \in Sessions :
    (Live(s) /\ conn[s] = "lost") ~> (sclose[s] \notin Staying \/ panicked)

\* OfflineLeavesServers: once a player is offline, every remote server it is on
\* gets its place back, although its Close may never return.  Only a Connect that
\* hangs in StartGame or DoSpawn (remoteserver.go:111-127) keeps its session there.
OfflineLeavesServers ==
  \A p \in Players :
    ~online[p] ~>
      \/ \A s \in Sessions :
            s[1] = p /\ server[s] \in Remotes => sclose[s] \notin Staying
      \/ \E s \in Sessions : s[1] = p /\ connect[s] = "hung"
      \/ panicked

\* Attempt 1 finds no session to evict (remoteserver.go:99).
Transfers == {s \in Sessions : s[2] > 1}

\* TransferResolves: a transfer that evicts a session installs the new one,
\* unless the eviction met that cycle.
TransferResolves ==
  \A s \in Transfers :
    connect[s] = "evict" ~> (Live(s) \/ OnceCycle(s[1]) \/ panicked)
=============================================================================
