----------------------- MODULE SessionLifecycle_proofs -----------------------
(***************************************************************************)
(* Proofs about SessionLifecycle, for any players, servers and bound on    *)
(* connects.  The inductive invariant IInv is proved in two parts: the     *)
(* types, and Key, which ties a player's connects, its current session and *)
(* the state of all its sessions together.  Most steps touch connect,      *)
(* session and sclose in one of three ways, each a lemma: not at all       *)
(* (QuietKeeps), by moving the Close of one live session (CloseKeeps), by  *)
(* moving one Connect (MoveKeeps).                                         *)
(***************************************************************************)
EXTENDS SessionLifecycle, FiniteSetTheorems, TLAPS

LEMMA SessionPairs ==
  /\ \A s \in Sessions : s[1] \in Players /\ s[2] \in Attempts /\ s = <<s[1], s[2]>>
  /\ \A p \in Players, k \in Attempts : <<p, k>> \in Sessions
  /\ \A p \in Players, k \in 0 .. MaxConnects : k # 0 => <<p, k>> \in Sessions
  /\ \A p \in Players : <<p, 0>> \notin Sessions
  BY LifecycleAssumption DEF Sessions, Attempts

Key == InOrder /\ Made /\ Settled /\ OthersClosed

Mid == Arriving \ {"tail"}

-----------------------------------------------------------------------------
(* Key is kept by every step. *)

LEMMA QuietKeeps == ASSUME Key, UNCHANGED <<connect, session, sclose>> PROVE Key'
  BY DEF Key, InOrder, Made, Settled, OthersClosed, Live, Cur

LEMMA CloseKeeps ==
  ASSUME TypeOK, Key, UNCHANGED <<connect, session>>, NEW v \in Sessions, Live(v),
         NEW x \in CloseStates, x # "absent", x = "kicking" => session[v[1]] # 0,
         sclose' = [sclose EXCEPT ![v] = x]
  PROVE Key'
  <1> USE SessionPairs DEF Key
  <1>0. sclose \in [Sessions -> CloseStates] /\ session \in [Players -> 0 .. MaxConnects] BY DEF TypeOK
  <1>1. InOrder' BY <1>0 DEF InOrder, Live, Attempts
  <1>2. Made'  BY <1>0 DEF Made, Live
  <1>3. Settled'  BY <1>0 DEF Settled, Live, Cur
  <1>4. OthersClosed'  BY <1>0 DEF OthersClosed, Live
  <1> QED BY <1>1, <1>2, <1>3, <1>4

LEMMA BegunKeeps ==
  ASSUME TypeOK, Key, UNCHANGED <<connect, session>>, NEW v, sclose' = CloseBegun(v)
  PROVE Key'
  <1>1. CASE v \in Sessions /\ sclose[v] = "open"
    BY <1>1, CloseKeeps DEF CloseBegun, Live, CloseStates
  <1>2. CASE ~(v \in Sessions /\ sclose[v] = "open")
    BY <1>2, QuietKeeps DEF CloseBegun
  <1> QED BY <1>1, <1>2

LEMMA MoveKeeps ==
  ASSUME TypeOK, Key, UNCHANGED <<session, sclose>>, NEW s \in Sessions,
         NEW x \in ConnectStates, connect' = [connect EXCEPT ![s] = x],
         connect[s] \notin {"none", "tail", "returned", "install"},
         x # "install",
         IF connect[s] \in Unmade THEN x \in Unmade \cup {"returned"} ELSE x \notin Unmade,
         x \in Mid => connect[s] \in Mid,
         x \in {"begin", "evict", "evicting"} => session[s[1]] # 0
  PROVE Key'
  <1> USE SessionPairs DEF Key
  <1>0. connect \in [Sessions -> ConnectStates] /\ session \in [Players -> 0 .. MaxConnects]
    BY DEF TypeOK
  <1>1. InOrder'  BY <1>0 DEF InOrder, Attempts, Unmade
  <1>2. Made'  BY <1>0 DEF Made, Arriving, Unmade, Mid, ConnectStates
  <1>3. Settled'
    <2>1. \A p \in Players : session'[p] # 0 => sclose'[Cur(p)'] # "absent"
      BY DEF Settled, Cur
    <2>2. ASSUME NEW t \in Sessions, t # s, connect'[t] = connect[t]
          PROVE  /\ connect'[t] \in Mid => session'[t[1]] = t[2]
                 /\ connect'[t] = "install" => session'[t[1]] = 0
                 /\ connect'[t] \in {"begin", "evict", "evicting"} => session'[t[1]] # 0
                 /\ sclose'[t] # "absent" /\ connect'[t] # "install" => session'[t[1]] # 0
                 /\ sclose'[t] = "kicking" => session'[t[1]] # 0
      BY <2>2 DEF Settled, Mid
    <2>3. /\ x \in Mid => session'[s[1]] = s[2]
          /\ x = "install" => session'[s[1]] = 0
          /\ x \in {"begin", "evict", "evicting"} => session'[s[1]] # 0
          /\ sclose'[s] # "absent" /\ x # "install" => session'[s[1]] # 0
          /\ sclose'[s] = "kicking" => session'[s[1]] # 0
      BY DEF Settled, Mid, Made
    <2> QED BY <1>0, <2>1, <2>2, <2>3 DEF Settled, Mid
  <1>4. OthersClosed'  BY <1>0 DEF OthersClosed, Live
  <1> QED BY <1>1, <1>2, <1>3, <1>4

LEMMA FirstKeeps == ASSUME TypeOK, Key, NEW s \in Sessions, ConnectFirst(s) PROVE Key'
  <1> USE SessionPairs DEF Key, ConnectFirst, NewSession, playerVars
  <1>0. /\ connect \in [Sessions -> ConnectStates]
        /\ session \in [Players -> 0 .. MaxConnects]
        /\ sclose \in [Sessions -> CloseStates]
    BY DEF TypeOK
  <1>1. InOrder'  BY <1>0 DEF InOrder, Attempts
  <1>2. Made'  BY <1>0 DEF Made, Arriving, Unmade
  <1>3. Settled' BY <1>0 DEF Settled, Arriving, Cur, Made, Unmade
  <1>4. OthersClosed'  BY <1>0 DEF OthersClosed, Live
  <1> QED BY <1>1, <1>2, <1>3, <1>4

LEMMA InstallKeeps == ASSUME TypeOK, Key, NEW s \in Sessions, ConnectInstall(s) PROVE Key'
  <1> USE SessionPairs DEF Key, ConnectInstall, sessionVars
  <1>0. /\ connect \in [Sessions -> ConnectStates]
        /\ session \in [Players -> 0 .. MaxConnects]
        /\ sclose \in [Sessions -> CloseStates]
        /\ s[2] \in 0 .. MaxConnects /\ s[2] # 0
    BY DEF TypeOK, Attempts
  <1>1. InOrder'  BY <1>0 DEF InOrder, Attempts
  <1>2. Made'  BY <1>0 DEF Made, Arriving, Unmade
  <1>3. Settled'
    <2>1. ASSUME NEW t \in Sessions, t # s, t[1] = s[1] PROVE connect[t] \notin Mid \cup {"install"}
      <3>1. CASE t[2] < s[2] BY <1>0, <2>1, <3>1 DEF InOrder, Mid, Attempts, Arriving
      <3>2. CASE s[2] < t[2] BY <1>0, <2>1, <3>2 DEF InOrder, Mid, Attempts, Arriving
      <3>3. t[2] # s[2] BY <2>1
      <3>4. t[2] \in Int /\ s[2] \in Int BY DEF Attempts
      <3> QED BY <3>1, <3>2, <3>3, <3>4
    <2>2. sclose[s] # "absent" BY DEF Made
    <2> QED BY <1>0, <2>1, <2>2 DEF Settled, Mid, Cur
  <1>4. OthersClosed'  BY <1>0 DEF OthersClosed, Live, Settled
  <1> QED BY <1>1, <1>2, <1>3, <1>4

LEMMA EvictKeeps ==
  ASSUME TypeOK, Key, NEW s \in Sessions, ConnectEvict(s) \/ ConnectTail(s)
  PROVE Key'
  <1> DEFINE c == Cur(s[1])
             x == IF connect[s] = "evict" THEN "evicting" ELSE "returned"
  <1> USE SessionPairs DEF Key
  <1>0. /\ connect \in [Sessions -> ConnectStates]
        /\ session \in [Players -> 0 .. MaxConnects]
        /\ sclose \in [Sessions -> CloseStates]
    BY DEF TypeOK
  <1>a. /\ connect[s] \in {"evict", "tail"} /\ session' = session
        /\ connect' = [connect EXCEPT ![s] = x]
        /\ sclose' \in {sclose, CloseBegun(c)}
    BY DEF ConnectEvict, EvictClose, ConnectTail, TailClose, playerVars
  <1>b. \A t \in Sessions : sclose'[t] = sclose[t] \/ (sclose[t] = "open" /\ sclose'[t] = "conn")
    BY <1>0, <1>a DEF CloseBegun
  <1> HIDE DEF c, x
  <1>c. x \in {"evicting", "returned"} /\ (x = "evicting" <=> connect[s] = "evict")
    BY <1>a DEF x
  <1>1. InOrder' BY <1>0, <1>a, <1>b, <1>c DEF InOrder, Attempts
  <1>2. Made' BY <1>0, <1>a, <1>b, <1>c DEF Made, Arriving, Unmade
  <1>3. Settled' BY <1>0, <1>a, <1>b, <1>c DEF Settled, Arriving, Cur
  <1>4. OthersClosed' BY <1>0, <1>a, <1>b, <1>c DEF OthersClosed, Live
  <1> QED BY <1>1, <1>2, <1>3, <1>4

LEMMA ReplaceKeeps == ASSUME TypeOK, Key, NEW s \in Sessions, ConnectReplace(s) PROVE Key'
  <1> USE SessionPairs DEF Key, ConnectReplace, NewSession
  <1>0. /\ connect \in [Sessions -> ConnectStates]
        /\ session \in [Players -> 0 .. MaxConnects]
        /\ sclose \in [Sessions -> CloseStates]
        /\ s[2] \in 0 .. MaxConnects /\ s[2] # 0
    BY DEF TypeOK, Attempts
  <1>1. InOrder'  BY <1>0 DEF InOrder, Attempts
  <1>2. Made'  BY <1>0 DEF Made, Arriving, Unmade
  <1>3. Settled' BY <1>0 DEF Settled, Arriving, Cur, Made, Unmade, InOrder, Attempts
  <1>4. OthersClosed'  BY <1>0 DEF OthersClosed, Live, Settled, Evicted, CloseReturns, Cur
  <1> QED BY <1>1, <1>2, <1>3, <1>4

LEMMA EventKeeps == ASSUME TypeOK, Key, NEW s \in Sessions, ConnectEvent(s) PROVE Key'
  <1> DEFINE n == Following(s)
  <1> USE SessionPairs DEF Key
  <1>a. n # s /\ n[1] = s[1] /\ n[2] = s[2] + 1 BY DEF Following, Attempts
  <1>b. connect[s] = "event" /\ sclose[s] # "absent" BY DEF ConnectEvent, Made, Arriving
  <1>c. /\ connect \in [Sessions -> ConnectStates]
        /\ session \in [Players -> 0 .. MaxConnects]
    BY DEF TypeOK
  <1>d. /\ connect' = [connect EXCEPT ![s] = "tail", ![n] = "pending"]
        /\ session' = session /\ sclose' = sclose
    BY DEF ConnectEvent, playerVars, sessionVars
  <1> HIDE DEF n
  <1>e. /\ connect'[s] = "tail" 
        /\ n \in Sessions => connect'[n] = "pending" /\ connect[n] = "none"
        /\ \A t \in Sessions \ {s, n} : connect'[t] = connect[t]
    BY <1>a, <1>b, <1>c, <1>d DEF InOrder, Attempts
  <1>f. n \in Sessions => sclose[n] = "absent"
    BY <1>e DEF Made, Unmade
  <1>1. InOrder'
    <2> SUFFICES ASSUME NEW t \in Sessions, NEW u \in Sessions, t[1] = u[1], t[2] < u[2],
                        connect'[u] # "none"
                 PROVE  connect'[t] \in {"tail", "returned"} /\ sclose[t] # "absent"
      BY <1>d DEF InOrder
    <2>1. CASE u = n BY <2>1, <1>a, <1>b, <1>e DEF InOrder, Attempts
    <2>2. CASE u # n 
      <3>1. connect[u] # "none" BY <2>2, <1>b, <1>e
      <3>2. t # n BY <3>1, <1>a, <1>b DEF InOrder, Attempts
      <3> QED BY <3>1, <3>2, <1>b, <1>e DEF InOrder
    <2> QED BY <2>1, <2>2
  <1>2. Made' BY <1>b, <1>d, <1>e, <1>f DEF Made, Arriving, Unmade
  <1>3. Settled' BY <1>a, <1>b, <1>c, <1>d, <1>e, <1>f DEF Settled, Arriving, Cur, Made
  <1>4. OthersClosed' BY <1>b, <1>d, <1>e, <1>f DEF OthersClosed, Live
  <1> QED BY <1>1, <1>2, <1>3, <1>4

LEMMA KeyStep == ASSUME TypeOK, Key, [Next]_vars PROVE Key'
  <1> USE DEF vars, playerVars, pcloseVars, readerVars, sessionVars, serverVars
  <1>1. ASSUME NEW s \in Sessions, Connect(s) PROVE Key'
    <2> USE MoveKeeps DEF ConnectStates, Unmade, Mid, Arriving
    <2>1. CASE ConnectStart(s) BY <2>1 DEF ConnectStart
    <2>2. CASE JoinCancelled(s) BY <2>2 DEF JoinCancelled
    <2>3. CASE ConnectOnline(s) BY <2>3 DEF ConnectOnline, ConnectGivesUp
    <2>4. CASE ConnectDialFails(s) BY <2>4 DEF ConnectDialFails, ConnectGivesUp
    <2>5. CASE ConnectDialled(s) BY <2>5 DEF ConnectDialled
    <2>6. CASE ConnectFirst(s) BY <2>6, FirstKeeps
    <2>7. CASE ConnectInstall(s) BY <2>7, InstallKeeps
    <2>8. CASE ConnectSpawned(s) BY <2>8 DEF ConnectSpawned
    <2>9. CASE ConnectHangs(s) BY <2>9 DEF ConnectHangs
    <2>10. CASE ConnectDoSpawn(s) BY <2>10 DEF ConnectDoSpawn
    <2>11. CASE ConnectDoSpawnFails(s) BY <2>11 DEF ConnectDoSpawnFails
    <2>12. CASE ConnectBegin(s) BY <2>12 DEF ConnectBegin, Key, Settled
    <2>13. CASE ConnectEvict(s) BY <2>13, EvictKeeps
    <2>14. CASE ConnectReplace(s) BY <2>14, ReplaceKeeps
    <2>15. CASE ConnectEnd(s) BY <2>15 DEF ConnectEnd
    <2>16. CASE ConnectCheck(s) BY <2>16 DEF ConnectCheck, AfterConnected
    <2>17. CASE ConnectMark(s) BY <2>17, QuietKeeps DEF ConnectMark, AfterConnected
    <2>18. CASE ConnectRoster(s) BY <2>18 DEF ConnectRoster
    <2>19. CASE ConnectEvent(s) BY <2>19, EventKeeps
    <2>20. CASE ConnectTail(s) BY <2>20, EvictKeeps
    <2> QED BY <1>1, <2>1, <2>2, <2>3, <2>4, <2>5, <2>6, <2>7, <2>8, <2>9, <2>10,
              <2>11, <2>12, <2>13, <2>14, <2>15, <2>16, <2>17, <2>18, <2>19, <2>20 DEF Connect
  <1>2. ASSUME NEW s \in Sessions, SessionEnd(s) PROVE Key'
    <2> USE CloseKeeps DEF CloseStates, Live
    <2>1. CASE CloseConn(s) BY <2>1 DEF CloseConn
    <2>2. CASE CloseCheck(s) BY <2>2 DEF CloseCheck
    <2>3. CASE CloseMark(s) BY <2>3, QuietKeeps DEF CloseMark
    <2>4. CASE CloseLeave(s) BY <2>4 DEF CloseLeave
    <2>5. CASE LeaveDelete(s) BY <2>5 DEF LeaveDelete
    <2>6. CASE LeaveMoving(s) BY <2>6 DEF LeaveMoving
    <2>7. CASE LeaveAddress(s) BY <2>7 DEF LeaveAddress, LosesServer
    <2>8. CASE LeaveKicked(s) BY <2>8 DEF LeaveKicked
    <2>9. CASE SessionReaderFails(s) BY <2>9, BegunKeeps DEF SessionReaderFails, ReaderClose
    <2> QED BY <1>2, <2>1, <2>2, <2>3, <2>4, <2>5, <2>6, <2>7, <2>8, <2>9
              DEF SessionEnd, SessionClose
  <1>3. ASSUME NEW p \in Players, PlayerNext(p) PROVE Key'
    <2>1. CASE PlayerCloseRead(p) BY <2>1, BegunKeeps DEF PlayerCloseRead
    <2>2. CASE ReaderSend(p) BY <2>2, BegunKeeps, QuietKeeps DEF ReaderSend
    <2>3. CASE \/ PlayerCloseEnd(p) \/ ReaderFails(p) \/ ReaderCheck(p) \/ ReaderBind(p)
               \/ ReaderClosed(p) \/ ReaderRoute(p) \/ ClientLost(p) \/ Kick(p)
      BY <2>3, QuietKeeps DEF PlayerCloseEnd, ReaderFails, ReaderCheck, ReaderBind,
           ReaderClosed, ReaderRoute, ClientLost, Kick
    <2> QED BY <1>3, <2>1, <2>2, <2>3 DEF PlayerNext, PlayerClose, ReaderProceeds
  <1>4. ASSUME NEW s \in Sessions, BackendLost(s) PROVE Key'
    BY <1>4, QuietKeeps DEF BackendLost
  <1>5. CASE UNCHANGED vars
    BY <1>5, QuietKeeps
  <1> QED BY <1>1, <1>2, <1>3, <1>4, <1>5 DEF Next, SessionNext

-----------------------------------------------------------------------------
(* Types. *)

LEMMA GivesUpType ==
  ASSUME NEW s \in Sessions, count \in [Remotes -> Int], ConnectGivesUp(s)
  PROVE  count' \in [Remotes -> Int]
  <1>1. \A r \in Remotes : count[r] - 1 \in Int
    OBVIOUS
  <1>2. QED BY <1>1 DEF ConnectGivesUp

LEMMA TypeStep == ASSUME TypeOK, Settled, [Next]_vars PROVE TypeOK'
  <1> USE SessionPairs DEF playerVars, pcloseVars, readerVars, sessionVars, serverVars,
          ConnectStates, CloseStates
  <1>0. /\ connect \in [Sessions -> ConnectStates] /\ sclose \in [Sessions -> CloseStates]
        /\ session \in [Players -> 0 .. MaxConnects] /\ sreader \in [Sessions -> BOOLEAN]
        /\ online \in [Players -> BOOLEAN] /\ panicked \in BOOLEAN
        /\ pclose \in [Players -> {"open", "read", "closing", "closed"}]
        /\ reader \in [Players -> {"read", "check", "bind", "send", "closing", "end"}]
        /\ count \in [Remotes -> Int] /\ roster \in [Remotes -> SUBSET Sessions]
    BY DEF TypeOK
  <1>1. ASSUME NEW s \in Sessions, ConnectStart(s) PROVE TypeOK'
    <2> PICK r \in Servers :
          /\ server' = [server EXCEPT ![s] = r]
          /\ IF r \in Remotes
             THEN /\ count' = [count EXCEPT ![r] = @ + 1]
                  /\ connect' = [connect EXCEPT ![s] = "online"]
             ELSE /\ connect' = [connect EXCEPT ![s] = "branch"]
                  /\ UNCHANGED count
      BY <1>1 DEF ConnectStart
    <2>1. count' \in [Remotes -> Int] BY <1>0
    <2>2. connect' \in [Sessions -> ConnectStates] BY <1>0
    <2> QED BY <1>1, <2>1, <2>2 DEF TypeOK, ConnectStart
  <1>2. ASSUME NEW s \in Sessions, JoinCancelled(s) PROVE TypeOK'
    BY <1>2 DEF TypeOK, JoinCancelled
  <1>3. ASSUME NEW s \in Sessions, ConnectOnline(s) PROVE TypeOK'
    <2>1. count' \in [Remotes -> Int] BY <1>0, <1>3, GivesUpType DEF ConnectOnline
    <2> QED BY <1>3, <2>1 DEF TypeOK, ConnectOnline, ConnectGivesUp
  <1>4. ASSUME NEW s \in Sessions, ConnectDialFails(s) PROVE TypeOK'
    <2>1. count' \in [Remotes -> Int] BY <1>0, <1>4, GivesUpType DEF ConnectDialFails
    <2> QED BY <1>4, <2>1 DEF TypeOK, ConnectDialFails, ConnectGivesUp
  <1>5. ASSUME NEW s \in Sessions, ConnectDialled(s) PROVE TypeOK'
    BY <1>5 DEF TypeOK, ConnectDialled
  <1>6. ASSUME NEW s \in Sessions, ConnectFirst(s) PROVE TypeOK'
    BY <1>6 DEF TypeOK, ConnectFirst, NewSession, FirstConnected
  <1>7. ASSUME NEW s \in Sessions, ConnectInstall(s) PROVE TypeOK'
    <2>1. s[2] \in 0 .. MaxConnects BY LifecycleAssumption DEF Attempts
    <2>2. session' \in [Players -> 0 .. MaxConnects] BY <1>0, <1>7, <2>1 DEF ConnectInstall
    <2> QED BY <1>7, <2>2 DEF TypeOK, ConnectInstall
  <1>8. ASSUME NEW s \in Sessions, ConnectSpawned(s) PROVE TypeOK'
    BY <1>8 DEF TypeOK, ConnectSpawned
  <1>9. ASSUME NEW s \in Sessions, ConnectHangs(s) PROVE TypeOK'
    BY <1>9 DEF TypeOK, ConnectHangs
  <1>10. ASSUME NEW s \in Sessions, ConnectDoSpawn(s) PROVE TypeOK'
    BY <1>10 DEF TypeOK, ConnectDoSpawn
  <1>11. ASSUME NEW s \in Sessions, ConnectDoSpawnFails(s) PROVE TypeOK'
    BY <1>11 DEF TypeOK, ConnectDoSpawnFails
  <1>12. ASSUME NEW s \in Sessions, ConnectBegin(s) PROVE TypeOK'
    BY <1>12 DEF TypeOK, ConnectBegin
  <1>13. ASSUME NEW s \in Sessions, ConnectEvict(s) PROVE TypeOK'
    BY <1>13 DEF TypeOK, ConnectEvict, EvictClose, CloseBegun, Cur
  <1>14. ASSUME NEW s \in Sessions, ConnectReplace(s) PROVE TypeOK'
    <2>1. s[2] \in 0 .. MaxConnects BY LifecycleAssumption DEF Attempts
    <2>2. session' \in [Players -> 0 .. MaxConnects] BY <1>0, <1>14, <2>1 DEF ConnectReplace
    <2>3. sclose' \in [Sessions -> CloseStates] /\ sreader' \in [Sessions -> BOOLEAN]
      BY <1>0, <1>14 DEF ConnectReplace, NewSession
    <2> QED BY <1>14, <2>2, <2>3 DEF TypeOK, ConnectReplace
  <1>15. ASSUME NEW s \in Sessions, ConnectEnd(s) PROVE TypeOK'
    BY <1>15 DEF TypeOK, ConnectEnd
  <1>16. ASSUME NEW s \in Sessions, ConnectCheck(s) PROVE TypeOK'
    BY <1>16 DEF TypeOK, ConnectCheck, AfterConnected, Cur
  <1>17. ASSUME NEW s \in Sessions, ConnectMark(s) PROVE TypeOK'
    BY <1>17 DEF TypeOK, ConnectMark, AfterConnected, Cur
  <1>18. ASSUME NEW s \in Sessions, ConnectRoster(s) PROVE TypeOK'
    <2>1. RosterEntry(s) = s BY <1>0, <1>18 DEF ConnectRoster, RosterEntry, Cur, Settled, Arriving
    <2>2. roster' = [roster EXCEPT ![server[s]] = @ \cup {s}] BY <1>0, <1>18, <2>1 DEF ConnectRoster
    <2>3. \A r \in Remotes : roster[r] \cup {s} \in SUBSET Sessions BY <1>0
    <2>4. roster' \in [Remotes -> SUBSET Sessions] BY <1>0, <2>2, <2>3
    <2> QED BY <1>18, <2>4 DEF TypeOK, ConnectRoster
  <1>19. ASSUME NEW s \in Sessions, ConnectEvent(s) PROVE TypeOK'
    BY <1>19 DEF TypeOK, ConnectEvent
  <1>20. ASSUME NEW s \in Sessions, ConnectTail(s) PROVE TypeOK'
    BY <1>20 DEF TypeOK, ConnectTail, TailClose, CloseBegun, Cur
  <1>21. ASSUME NEW s \in Sessions, CloseConn(s) PROVE TypeOK'
    BY <1>21 DEF TypeOK, CloseConn
  <1>22. ASSUME NEW s \in Sessions, CloseCheck(s) PROVE TypeOK'
    BY <1>22 DEF TypeOK, CloseCheck
  <1>23. ASSUME NEW s \in Sessions, CloseMark(s) PROVE TypeOK'
    BY <1>23 DEF TypeOK, CloseMark
  <1>24. ASSUME NEW s \in Sessions, CloseLeave(s) PROVE TypeOK'
    BY <1>24 DEF TypeOK, CloseLeave
  <1>25. ASSUME NEW s \in Sessions, LeaveDelete(s) PROVE TypeOK'
    BY <1>25 DEF TypeOK, LeaveDelete
  <1>26. ASSUME NEW s \in Sessions, LeaveMoving(s) PROVE TypeOK'
    BY <1>26 DEF TypeOK, LeaveMoving
  <1>27. ASSUME NEW s \in Sessions, LeaveAddress(s) PROVE TypeOK'
    <2>1. online' \in [Players -> BOOLEAN] BY <1>0, <1>27 DEF LeaveAddress, BeginPlayerClose
    <2>2. pclose' \in [Players -> {"open", "read", "closing", "closed"}]
      <3>1. CASE LosesServer(s)
        <4>1. pclose' = [pclose EXCEPT ![s[1]] =
                           IF pclose[s[1]] = "open" THEN "read" ELSE pclose[s[1]]]
          BY <1>27, <3>1 DEF LeaveAddress, BeginPlayerClose
        <4> QED BY <1>0, <4>1
      <3>2. CASE ~LosesServer(s)
        BY <1>0, <1>27, <3>2 DEF LeaveAddress
      <3> QED BY <3>1, <3>2
    <2>3. sclose' \in [Sessions -> CloseStates] BY <1>0, <1>27 DEF LeaveAddress
    <2> QED BY <1>27, <2>1, <2>2, <2>3 DEF TypeOK, LeaveAddress
  <1>28. ASSUME NEW s \in Sessions, LeaveKicked(s) PROVE TypeOK'
    BY <1>28 DEF TypeOK, LeaveKicked
  <1>29. ASSUME NEW s \in Sessions, SessionReaderFails(s) PROVE TypeOK'
    BY <1>29 DEF TypeOK, SessionReaderFails, ReaderClose, CloseBegun
  <1>30. ASSUME NEW s \in Sessions, BackendLost(s) PROVE TypeOK'
    BY <1>30 DEF TypeOK, BackendLost
  <1>31. ASSUME NEW p \in Players, PlayerCloseRead(p) PROVE TypeOK'
    BY <1>31 DEF TypeOK, PlayerCloseRead, CloseBegun, Cur
  <1>32. ASSUME NEW p \in Players, PlayerCloseEnd(p) PROVE TypeOK'
    BY <1>32 DEF TypeOK, PlayerCloseEnd, CloseReturns
  <1>33. ASSUME NEW p \in Players, ReaderFails(p) PROVE TypeOK'
    BY <1>33 DEF TypeOK, ReaderFails, BeginPlayerClose
  <1>34. ASSUME NEW p \in Players, ReaderCheck(p) PROVE TypeOK'
    BY <1>34 DEF TypeOK, ReaderCheck, Cur
  <1>35. ASSUME NEW p \in Players, ReaderBind(p) PROVE TypeOK'
    BY <1>35 DEF TypeOK, ReaderBind
  <1>36. ASSUME NEW p \in Players, ReaderSend(p) PROVE TypeOK'
    <2>1. sclose' \in [Sessions -> CloseStates] BY <1>0, <1>36 DEF ReaderSend, CloseBegun
    <2>2. reader' \in [Players -> {"read", "check", "bind", "send", "closing", "end"}]
      BY <1>0, <1>36 DEF ReaderSend
    <2>3. panicked' \in BOOLEAN BY <1>0, <1>36 DEF ReaderSend
    <2> QED BY <1>36, <2>1, <2>2, <2>3 DEF TypeOK, ReaderSend
  <1>37. ASSUME NEW p \in Players, ReaderClosed(p) PROVE TypeOK'
    BY <1>37 DEF TypeOK, ReaderClosed, CloseReturns
  <1>38. ASSUME NEW p \in Players, ReaderRoute(p) PROVE TypeOK'
    BY <1>38 DEF TypeOK, ReaderRoute
  <1>39. ASSUME NEW p \in Players, ClientLost(p) PROVE TypeOK'
    BY <1>39 DEF TypeOK, ClientLost
  <1>40. ASSUME NEW p \in Players, Kick(p) PROVE TypeOK'
    BY <1>40 DEF TypeOK, Kick, BeginPlayerClose
  <1>41. CASE UNCHANGED vars BY <1>41 DEF TypeOK, vars
  <1>42. ASSUME NEW s \in Sessions, Connect(s) PROVE TypeOK'
    BY <1>42,
       <1>1, <1>2, <1>3, <1>4, <1>5, <1>6, <1>7, <1>8, <1>9, <1>10, <1>11, <1>12,
       <1>13, <1>14, <1>15, <1>16, <1>17, <1>18, <1>19, <1>20 DEF Connect
  <1>43. ASSUME NEW s \in Sessions, SessionEnd(s) \/ BackendLost(s) PROVE TypeOK'
    BY <1>43,
       <1>21, <1>22, <1>23, <1>24, <1>25, <1>26, <1>27, <1>28, <1>29, <1>30 DEF SessionEnd, SessionClose
  <1>44. ASSUME NEW p \in Players, PlayerNext(p) PROVE TypeOK'
    BY <1>44,
       <1>31, <1>32, <1>33, <1>34, <1>35, <1>36, <1>37, <1>38, <1>39, <1>40
    DEF PlayerNext, PlayerClose, ReaderProceeds
  <1> QED BY <1>41, <1>42, <1>43, <1>44 DEF Next, SessionNext

-----------------------------------------------------------------------------
(* The rest of the inductive invariant. *)

LEMMA OfflineStep == ASSUME TypeOK, ClosingOffline, [Next]_vars PROVE ClosingOffline'
  <1> USE DEF vars, playerVars, pcloseVars
  <1>0. online \in [Players -> BOOLEAN] /\ pclose \in [Players -> {"open", "read", "closing", "closed"}]
    BY DEF TypeOK
  <1>1. ASSUME UNCHANGED <<online, pclose>> PROVE ClosingOffline'
    BY <1>1 DEF ClosingOffline
  <1>2. ASSUME NEW p \in Players, BeginPlayerClose(p) PROVE ClosingOffline'
    BY <1>0, <1>2 DEF ClosingOffline, BeginPlayerClose
  <1>3. ASSUME NEW s \in Sessions, Connect(s) PROVE UNCHANGED <<online, pclose>>
    BY <1>3 DEF Connect,
         ConnectStart, JoinCancelled, ConnectOnline, ConnectDialFails,
         ConnectDialled, ConnectFirst, ConnectInstall, ConnectSpawned,
         ConnectHangs, ConnectDoSpawn, ConnectDoSpawnFails, ConnectBegin,
         ConnectEvict, ConnectReplace, ConnectEnd, ConnectCheck, ConnectMark,
         ConnectRoster, ConnectEvent, ConnectTail, ConnectGivesUp, NewSession,
         AfterConnected
  <1>4. ASSUME NEW s \in Sessions, SessionEnd(s) PROVE ClosingOffline'
    <2>1. CASE LeaveAddress(s) BY <1>1, <1>2, <2>1, SessionPairs DEF LeaveAddress
    <2>2. CASE ~LeaveAddress(s)
      BY <1>1, <1>4, <2>2 DEF SessionEnd, SessionClose, SessionReaderFails,
           CloseConn, CloseCheck, CloseMark, CloseLeave, LeaveDelete, LeaveMoving,
           LeaveKicked
    <2> QED BY <2>1, <2>2
  <1>5. ASSUME NEW p \in Players, PlayerNext(p) PROVE ClosingOffline'
    <2>1. CASE PlayerClose(p)
      BY <1>0, <2>1 DEF PlayerClose, PlayerCloseRead, PlayerCloseEnd, ClosingOffline
    <2>2. CASE ReaderFails(p) \/ Kick(p) BY <1>2, <2>2 DEF ReaderFails, Kick
    <2>3. CASE \/ ReaderCheck(p) \/ ReaderBind(p) \/ ReaderSend(p) \/ ReaderClosed(p)
               \/ ReaderRoute(p) \/ ClientLost(p)
      BY <1>1, <2>3 DEF ReaderCheck, ReaderBind, ReaderSend, ReaderClosed,
           ReaderRoute, ClientLost
    <2> QED BY <1>5, <2>1, <2>2, <2>3 DEF PlayerNext, ReaderProceeds
  <1>6. ASSUME NEW s \in Sessions, BackendLost(s) PROVE UNCHANGED <<online, pclose>>
    BY <1>6 DEF BackendLost
  <1> QED BY <1>1, <1>3, <1>4, <1>5, <1>6 DEF Next, SessionNext

\* A player's current session never gives way to an earlier one.
LEMMA SessionGrows ==
  ASSUME TypeOK, Key, [Next]_vars, NEW q \in Players
  PROVE  session'[q] \in 0 .. MaxConnects /\ session'[q] >= session[q]
  <1> USE SessionPairs DEF vars, playerVars
  <1>0. session \in [Players -> 0 .. MaxConnects] BY DEF TypeOK
  <1>1. CASE session' = session BY <1>0, <1>1, LifecycleAssumption
  <1>2. ASSUME NEW s \in Sessions, ConnectInstall(s)
        PROVE session'[q] \in 0 .. MaxConnects /\ session'[q] >= session[q]
    BY <1>0, <1>2, LifecycleAssumption DEF ConnectInstall, Key, Settled, Attempts
  <1>3. ASSUME NEW s \in Sessions, ConnectReplace(s)
        PROVE session'[q] \in 0 .. MaxConnects /\ session'[q] >= session[q]
    <2>1. session' = [session EXCEPT ![s[1]] = s[2]] /\ connect[s] = "evicting"
      BY <1>3 DEF ConnectReplace
    <2>2. session[s[1]] # 0 /\ sclose[Cur(s[1])] # "absent" BY <2>1 DEF Key, Settled
    <2>3. sclose[s] = "absent" BY <2>1 DEF Key, Made, Unmade
    <2>4. Cur(s[1]) \in Sessions /\ Cur(s[1]) # s BY <1>0, <2>2, <2>3 DEF Cur
    <2>5. ~(s[2] < session[s[1]])
      <3> SUFFICES ASSUME s[2] < session[s[1]] PROVE FALSE OBVIOUS
      <3>1. connect[Cur(s[1])] # "none" BY <2>2, <2>4 DEF Key, Made, Unmade
      <3> QED BY <2>1, <2>4, <3>1 DEF Key, InOrder, Cur
    <2> QED BY <1>0, <2>1, <2>5, LifecycleAssumption DEF Attempts
  <1>4. ASSUME NEW s \in Sessions, SessionNext(s), ~ConnectInstall(s), ~ConnectReplace(s)
        PROVE session' = session
    BY <1>4 DEF SessionNext, SessionEnd, SessionClose, Connect, BackendLost,
         SessionReaderFails,
         ConnectStart, JoinCancelled, ConnectOnline, ConnectDialFails,
         ConnectDialled, ConnectFirst, ConnectSpawned, ConnectHangs,
         ConnectDoSpawn, ConnectDoSpawnFails, ConnectBegin, ConnectEvict,
         ConnectEnd, ConnectCheck, ConnectMark, ConnectRoster, ConnectEvent,
         ConnectTail, CloseConn, CloseCheck, CloseMark, CloseLeave, LeaveDelete,
         LeaveMoving, LeaveAddress, LeaveKicked
  <1>5. ASSUME NEW p \in Players, PlayerNext(p) PROVE session' = session
    BY <1>5 DEF PlayerNext, PlayerClose, ReaderProceeds,
         PlayerCloseRead, PlayerCloseEnd, ReaderFails, ReaderCheck, ReaderBind,
         ReaderSend, ReaderClosed, ReaderRoute, ClientLost, Kick
  <1> QED BY <1>1, <1>2, <1>3, <1>4, <1>5 DEF Next

\* An attempt that finds no session is the player's first one.
LEMMA NoSessionFirst ==
  ASSUME TypeOK, Key, NEW s \in Sessions, connect[s] = "branch", session[s[1]] = 0
  PROVE  s[2] = 1
  <1> USE SessionPairs DEF Key
  <1> SUFFICES ASSUME s[2] # 1 PROVE FALSE OBVIOUS
  <1> DEFINE t == <<s[1], 1>>
  <1>1. t \in Sessions /\ t[1] = s[1] /\ t[2] < s[2] BY LifecycleAssumption DEF Attempts
  <1> HIDE DEF t
  <1>2. connect[t] \in {"tail", "returned"} /\ sclose[t] # "absent"
    BY <1>1 DEF InOrder
  <1> QED BY <1>1, <1>2 DEF Settled

\* An attempt that finds a session is not.
LEMMA SessionNotFirst ==
  ASSUME TypeOK, Key, NEW s \in Sessions, connect[s] = "branch", session[s[1]] # 0
  PROVE  s[2] > 1
  <1> USE SessionPairs DEF Key
  <1> SUFFICES ASSUME s[2] = 1 PROVE FALSE BY DEF Attempts
  <1> DEFINE t == Cur(s[1])
  <1>1. t \in Sessions /\ t[1] = s[1] /\ sclose[t] # "absent"
    BY DEF TypeOK, Cur, Settled
  <1>2. sclose[s] = "absent" BY DEF Made, Unmade
  <1> HIDE DEF t
  <1>3. s[2] < t[2] BY <1>1, <1>2 DEF Attempts
  <1>4. connect[t] # "none" BY <1>1 DEF Made, Unmade
  <1> QED BY <1>1, <1>3, <1>4 DEF InOrder

LEMMA FirstStep ==
  ASSUME TypeOK, Key, FirstIsConnected, [Next]_vars PROVE FirstIsConnected'
  <1> USE SessionPairs DEF vars, playerVars, pcloseVars, readerVars, sessionVars,
          serverVars, FirstIsConnected
  <1>0. /\ connect \in [Sessions -> ConnectStates] /\ sclose \in [Sessions -> CloseStates]
        /\ connected \in [Sessions -> BOOLEAN]
    BY DEF TypeOK
  <1>1. ASSUME UNCHANGED <<connect, connected>>, NEW v, sclose' = CloseBegun(v)
        PROVE FirstIsConnected'
    BY <1>0, <1>1 DEF CloseBegun
  <1>2. ASSUME NEW s \in Sessions, ConnectStart(s) PROVE FirstIsConnected'
    BY <1>0, <1>2 DEF ConnectStart
  <1>3. ASSUME NEW s \in Sessions, JoinCancelled(s) PROVE FirstIsConnected'
    BY <1>0, <1>3 DEF JoinCancelled
  <1>4. ASSUME NEW s \in Sessions, ConnectOnline(s) PROVE FirstIsConnected'
    BY <1>0, <1>4 DEF ConnectOnline, ConnectGivesUp
  <1>5. ASSUME NEW s \in Sessions, ConnectDialFails(s) PROVE FirstIsConnected'
    BY <1>0, <1>5 DEF ConnectDialFails, ConnectGivesUp
  <1>6. ASSUME NEW s \in Sessions, ConnectDialled(s) PROVE FirstIsConnected'
    BY <1>0, <1>6 DEF ConnectDialled
  <1>7. ASSUME NEW s \in Sessions, ConnectFirst(s) PROVE FirstIsConnected'
    BY <1>0, <1>7, NoSessionFirst DEF ConnectFirst, NewSession, FirstConnected
  <1>8. ASSUME NEW s \in Sessions, ConnectInstall(s) PROVE FirstIsConnected'
    BY <1>0, <1>8 DEF ConnectInstall
  <1>9. ASSUME NEW s \in Sessions, ConnectSpawned(s) PROVE FirstIsConnected'
    BY <1>0, <1>9 DEF ConnectSpawned
  <1>10. ASSUME NEW s \in Sessions, ConnectHangs(s) PROVE FirstIsConnected'
    BY <1>0, <1>10 DEF ConnectHangs
  <1>11. ASSUME NEW s \in Sessions, ConnectDoSpawn(s) PROVE FirstIsConnected'
    BY <1>0, <1>11, SessionNotFirst DEF ConnectDoSpawn
  <1>12. ASSUME NEW s \in Sessions, ConnectDoSpawnFails(s) PROVE FirstIsConnected'
    BY <1>0, <1>12 DEF ConnectDoSpawnFails
  <1>13. ASSUME NEW s \in Sessions, ConnectBegin(s) PROVE FirstIsConnected'
    BY <1>0, <1>13, SessionNotFirst DEF ConnectBegin
  <1>14. ASSUME NEW s \in Sessions, ConnectEvict(s) PROVE FirstIsConnected'
    BY <1>0, <1>14 DEF ConnectEvict, EvictClose, CloseBegun, Cur
  <1>15. ASSUME NEW s \in Sessions, ConnectReplace(s) PROVE FirstIsConnected'
    BY <1>0, <1>15 DEF ConnectReplace, NewSession, Evicted, CloseReturns, Cur
  <1>16. ASSUME NEW s \in Sessions, ConnectEnd(s) PROVE FirstIsConnected'
    BY <1>0, <1>16 DEF ConnectEnd
  <1>17. ASSUME NEW s \in Sessions, ConnectCheck(s) PROVE FirstIsConnected'
    BY <1>0, <1>17 DEF ConnectCheck, AfterConnected, Cur
  <1>18. ASSUME NEW s \in Sessions, ConnectMark(s) PROVE FirstIsConnected'
    BY <1>0, <1>18 DEF ConnectMark, AfterConnected, Cur
  <1>19. ASSUME NEW s \in Sessions, ConnectRoster(s) PROVE FirstIsConnected'
    BY <1>0, <1>19 DEF ConnectRoster, RosterEntry, Cur
  <1>20. ASSUME NEW s \in Sessions, ConnectEvent(s) PROVE FirstIsConnected'
    BY <1>0, <1>20 DEF ConnectEvent
  <1>21. ASSUME NEW s \in Sessions, ConnectTail(s) PROVE FirstIsConnected'
    BY <1>0, <1>21 DEF ConnectTail, TailClose, CloseBegun, Cur
  <1>22. ASSUME NEW s \in Sessions, CloseConn(s) PROVE FirstIsConnected'
    BY <1>0, <1>22 DEF CloseConn
  <1>23. ASSUME NEW s \in Sessions, CloseCheck(s) PROVE FirstIsConnected'
    BY <1>0, <1>23 DEF CloseCheck, Attempts
  <1>24. ASSUME NEW s \in Sessions, CloseMark(s) PROVE FirstIsConnected'
    BY <1>0, <1>24 DEF CloseMark
  <1>25. ASSUME NEW s \in Sessions, CloseLeave(s) PROVE FirstIsConnected'
    BY <1>0, <1>25 DEF CloseLeave
  <1>26. ASSUME NEW s \in Sessions, LeaveDelete(s) PROVE FirstIsConnected'
    BY <1>0, <1>26 DEF LeaveDelete
  <1>27. ASSUME NEW s \in Sessions, LeaveMoving(s) PROVE FirstIsConnected'
    BY <1>0, <1>27 DEF LeaveMoving
  <1>28. ASSUME NEW s \in Sessions, LeaveAddress(s) PROVE FirstIsConnected'
    BY <1>0, <1>28 DEF LeaveAddress
  <1>29. ASSUME NEW s \in Sessions, LeaveKicked(s) PROVE FirstIsConnected'
    BY <1>0, <1>29 DEF LeaveKicked
  <1>30. ASSUME NEW s \in Sessions, Connect(s) PROVE FirstIsConnected'
    BY <1>30,
       <1>2, <1>3, <1>4, <1>5, <1>6, <1>7, <1>8, <1>9, <1>10, <1>11, <1>12, <1>13,
       <1>14, <1>15, <1>16, <1>17, <1>18, <1>19, <1>20, <1>21 DEF Connect
  <1>31. ASSUME NEW s \in Sessions, SessionEnd(s) \/ BackendLost(s) PROVE FirstIsConnected'
    BY <1>1, <1>31,
       <1>22, <1>23, <1>24, <1>25, <1>26, <1>27, <1>28, <1>29
    DEF SessionEnd, SessionClose, SessionReaderFails, ReaderClose, BackendLost
  <1>32. ASSUME NEW p \in Players, PlayerNext(p) PROVE FirstIsConnected'
    <2>1. CASE PlayerCloseRead(p) BY <1>1, <2>1 DEF PlayerCloseRead
    <2>2. CASE ReaderSend(p) BY <1>1, <2>2 DEF ReaderSend
    <2>3. CASE \/ PlayerCloseEnd(p) \/ ReaderFails(p) \/ ReaderCheck(p) \/ ReaderBind(p)
               \/ ReaderClosed(p) \/ ReaderRoute(p) \/ ClientLost(p) \/ Kick(p)
      BY <2>3 DEF PlayerCloseEnd, ReaderFails, ReaderCheck, ReaderBind,
           ReaderClosed, ReaderRoute, ClientLost, Kick
    <2> QED BY <1>32, <2>1, <2>2, <2>3 DEF PlayerNext, PlayerClose, ReaderProceeds
  <1> QED BY <1>30, <1>31, <1>32 DEF Next, SessionNext

LEMMA ReaderStep ==
  ASSUME TypeOK, Key, FirstIsConnected, ReaderHolds, [Next]_vars PROVE ReaderHolds'
  <1> USE DEF ReaderHolds, vars, readerVars, pcloseVars
  <1>0. /\ reader \in [Players -> {"read", "check", "bind", "send", "closing", "end"}]
        /\ to \in [Players -> 0 .. MaxConnects] /\ session \in [Players -> 0 .. MaxConnects]
        /\ \A q \in Players : session'[q] \in 0 .. MaxConnects /\ session'[q] >= session[q]
    BY SessionGrows DEF TypeOK
  <1>1. ASSUME UNCHANGED <<reader, to>> PROVE ReaderHolds'
    BY <1>0, <1>1, LifecycleAssumption
  <1>2. ASSUME NEW p \in Players, reader' = [reader EXCEPT ![p] = "read"], UNCHANGED to
        PROVE ReaderHolds'
    BY <1>0, <1>2, LifecycleAssumption
  <1>3. ASSUME NEW s \in Sessions, SessionNext(s) PROVE UNCHANGED <<reader, to>>
    BY <1>3 DEF SessionNext, SessionEnd, SessionClose, Connect, BackendLost,
         SessionReaderFails,
         ConnectStart, JoinCancelled, ConnectOnline, ConnectDialFails,
         ConnectDialled, ConnectFirst, ConnectInstall, ConnectSpawned,
         ConnectHangs, ConnectDoSpawn, ConnectDoSpawnFails, ConnectBegin,
         ConnectEvict, ConnectReplace, ConnectEnd, ConnectCheck, ConnectMark,
         ConnectRoster, ConnectEvent, ConnectTail, CloseConn, CloseCheck,
         CloseMark, CloseLeave, LeaveDelete, LeaveMoving, LeaveAddress, LeaveKicked
  <1>4. ASSUME NEW p \in Players, PlayerNext(p) PROVE ReaderHolds'
    <2>1. CASE ReaderRoute(p) BY <1>0, <2>1, LifecycleAssumption DEF ReaderRoute, playerVars
    <2>2. CASE ReaderCheck(p)
      <3>1. session' = session /\ session[p] # 0 BY <2>2 DEF ReaderCheck, playerVars
      <3>2. connected[Cur(p)] \/ session[p] > 1
        <4>1. Cur(p) \in Sessions /\ sclose[Cur(p)] # "absent"
          BY <1>0, <3>1, SessionPairs DEF Cur, Key, Settled
        <4> QED BY <1>0, <3>1, <4>1, LifecycleAssumption DEF Cur, FirstIsConnected
      <3> QED BY <1>0, <2>2, <3>1, <3>2 DEF ReaderCheck
    <2>3. CASE ReaderBind(p) BY <1>0, <2>3 DEF ReaderBind, playerVars
    <2>4. CASE ReaderSend(p) BY <1>0, <2>4 DEF ReaderSend, playerVars
    <2>5. CASE ReaderFails(p) BY <1>0, <2>5 DEF ReaderFails
    <2>6. CASE ReaderClosed(p) BY <1>2, <2>6 DEF ReaderClosed
    <2>7. CASE PlayerClose(p) \/ ClientLost(p) \/ Kick(p)
      BY <1>1, <2>7 DEF PlayerClose, PlayerCloseRead, PlayerCloseEnd, ClientLost, Kick
    <2> QED BY <1>4, <2>1, <2>2, <2>3, <2>4, <2>5, <2>6, <2>7 DEF PlayerNext, ReaderProceeds
  <1> QED BY <1>1, <1>3, <1>4 DEF Next

-----------------------------------------------------------------------------
(* The theorems. *)

LEMMA InitIInv == Init => IInv
  <1> SUFFICES ASSUME Init PROVE IInv OBVIOUS
  <1>1. TypeOK
    <2> USE DEF Init
    <2>1. 0 \in 0 .. MaxConnects BY LifecycleAssumption
    <2>2. connect \in [Sessions -> {"none", "pending"}] OBVIOUS
    <2>3. roster \in [Remotes -> SUBSET Sessions] OBVIOUS
    <2>4. count \in [Remotes -> Int] OBVIOUS
    <2> QED BY <2>1, <2>2, <2>3, <2>4 DEF TypeOK, Servers, ConnectStates, CloseStates
  <1>2. InOrder BY SessionPairs DEF Init, InOrder, Attempts
  <1>3. Made /\ OthersClosed BY DEF Init, Made, OthersClosed, Live, Arriving
  <1>4. Settled BY DEF Init, Settled, Arriving
  <1>5. ClosingOffline /\ FirstIsConnected /\ ReaderHolds
    BY DEF Init, ClosingOffline, FirstIsConnected, ReaderHolds
  <1> QED BY <1>1, <1>2, <1>3, <1>4, <1>5 DEF IInv

\* IInv is inductive, hence holds in every reachable state.
THEOREM Inductive == Spec => []IInv
  <1>1. IInv /\ [Next]_vars => IInv'
    BY KeyStep, TypeStep, OfflineStep, FirstStep, ReaderStep DEF IInv, Key
  <1> QED BY <1>1, InitIInv, PTL DEF Spec

\* TypeOK: types, for any players, servers and number of connects.
THEOREM TypeCorrect == Spec => []TypeOK
  <1>1. IInv => TypeOK BY DEF IInv
  <1> QED BY <1>1, Inductive, PTL

\* OneLiveSession: a player never has two sessions that are not fully closed.
THEOREM AtMostOneSession == Spec => []OneLiveSession
  <1>1. IInv => OneLiveSession
    <2> SUFFICES ASSUME IInv, NEW s \in Sessions, NEW t \in Sessions, s[1] = t[1],
                        Live(s), Live(t), s[2] < t[2]
                 PROVE  FALSE
      BY SessionPairs DEF OneLiveSession, Attempts
    <2>1. connect[t] # "none" BY DEF IInv, Made, Unmade, Live
    <2>2. connect[s] \in {"tail", "returned"} /\ sclose[s] # "absent" BY <2>1 DEF IInv, InOrder
    <2>3. session[s[1]] = s[2] BY <2>2 DEF IInv, OthersClosed
    <2>4. connect[t] # "install" BY <2>2 DEF IInv, Settled
    <2> QED BY <2>3, <2>4, SessionPairs DEF IInv, OthersClosed, Attempts
  <1> QED BY <1>1, Inductive, PTL

\* KickOnlyCurrent: a server that went down disconnects only players on it.
THEOREM LeaveKicksCurrent == Spec => []KickOnlyCurrent
  <1>1. IInv => KickOnlyCurrent
    BY SessionPairs DEF IInv, KickOnlyCurrent, OthersClosed, Settled, Live, Cur
  <1> QED BY <1>1, Inductive, PTL

\* A player whose Close has picked a session keeps having one.
VictimInstalled == \A p \in Players : pvict[p] # 0 => session[p] # 0

LEMMA VictimStep ==
  ASSUME TypeOK, Key, VictimInstalled, [Next]_vars PROVE VictimInstalled'
  <1>0. /\ session \in [Players -> 0 .. MaxConnects]
        /\ pvict \in [Players -> 0 .. MaxConnects]
    BY DEF TypeOK
  <1>1. ASSUME UNCHANGED pvict PROVE VictimInstalled'
    <2> SUFFICES ASSUME NEW q \in Players, pvict[q] # 0 PROVE session'[q] # 0
      BY <1>1 DEF VictimInstalled
    <2>1. session[q] \in Nat \ {0} BY <1>0 DEF VictimInstalled
    <2>2. session'[q] \in Nat /\ session'[q] >= session[q] BY SessionGrows
    <2> QED BY <2>1, <2>2
  <1>2. ASSUME NEW s \in Sessions, SessionNext(s) PROVE UNCHANGED pvict
    BY <1>2 DEF SessionNext, SessionEnd, SessionClose, Connect, BackendLost,
         pcloseVars, SessionReaderFails,
         ConnectStart, JoinCancelled, ConnectOnline, ConnectDialFails,
         ConnectDialled, ConnectFirst, ConnectInstall, ConnectSpawned,
         ConnectHangs, ConnectDoSpawn, ConnectDoSpawnFails, ConnectBegin,
         ConnectEvict, ConnectReplace, ConnectEnd, ConnectCheck, ConnectMark,
         ConnectRoster, ConnectEvent, ConnectTail, CloseConn, CloseCheck,
         CloseMark, CloseLeave, LeaveDelete, LeaveMoving, LeaveAddress,
         LeaveKicked
  <1>3. ASSUME NEW p \in Players, PlayerCloseRead(p) PROVE VictimInstalled'
    BY <1>0, <1>3 DEF PlayerCloseRead, VictimInstalled, playerVars
  <1>4. ASSUME NEW p \in Players, PlayerNext(p), ~PlayerCloseRead(p)
        PROVE UNCHANGED pvict
    BY <1>4 DEF PlayerNext, PlayerClose, ReaderProceeds, pcloseVars,
         PlayerCloseEnd, ReaderFails, ReaderCheck, ReaderBind, ReaderSend,
         ReaderClosed, ReaderRoute, ClientLost, Kick
  <1>5. CASE UNCHANGED vars BY <1>1, <1>5 DEF vars, pcloseVars
  <1> QED BY <1>1, <1>2, <1>3, <1>4, <1>5 DEF Next

\* A Close that Leave finds outside a transfer, with its session installed, goes
\* on to kick the player, and returns only after the player's Close.
LEMMA VictimStuck ==
  ASSUME IInv, VictimInstalled, Next, NEW p \in Players, VictimCloses(p)
  PROVE  transferring[p]
  <1> USE SessionPairs DEF VictimCloses
  <1> DEFINE v == Victim(p)
  <1>0. /\ v \in Sessions /\ v[1] = p
        /\ sclose \in [Sessions -> CloseStates] /\ server[v] \in Remotes
        /\ sclose[v] # "closed" /\ sclose'[v] = "closed" /\ pclose[p] = "closing"
    BY DEF IInv, TypeOK, Victim
  <1>1. sclose[v] # "absent" => session[p] = v[2]
    <2>1. connect[v] # "install"
      BY <1>0 DEF IInv, Settled, VictimInstalled
    <2> QED BY <1>0, <2>1 DEF IInv, OthersClosed, Live
  <1>2. (Cur(p) = v /\ session[p] # 0) \/ sclose[v] = "absent"
    BY <1>1 DEF Cur, Victim, VictimInstalled
  <1> HIDE DEF v
  <1>3. ASSUME NEW s \in Sessions, SessionClose(s) PROVE transferring[p]
    <2>1. s = v
      BY <1>0, <1>3 DEF SessionClose, CloseConn, CloseCheck, CloseMark, CloseLeave,
           LeaveDelete, LeaveMoving, LeaveAddress, LeaveKicked
    <2>2. ~LeaveKicked(v) BY <1>0 DEF LeaveKicked
    <2>3. ~LeaveAddress(v)
      BY <1>0, <1>2 DEF LeaveAddress, LosesServer
    <2>4. CASE LeaveMoving(v) BY <1>0, <2>4 DEF LeaveMoving
    <2>5. CASE CloseConn(v) \/ CloseCheck(v) \/ CloseMark(v) \/ CloseLeave(v)
               \/ LeaveDelete(v)
      BY <1>0, <2>5 DEF CloseConn, CloseCheck, CloseMark, CloseLeave, LeaveDelete
    <2> QED BY <1>3, <2>1, <2>2, <2>3, <2>4, <2>5 DEF SessionClose
  <1>4. ASSUME NEW s \in Sessions, Connect(s) PROVE sclose'[v] # "closed"
    BY <1>0, <1>4 DEF Connect, EvictClose, TailClose, CloseBegun, NewSession,
         ConnectStart, JoinCancelled, ConnectOnline, ConnectDialFails,
         ConnectDialled, ConnectFirst, ConnectInstall, ConnectSpawned,
         ConnectHangs, ConnectDoSpawn, ConnectDoSpawnFails, ConnectBegin,
         ConnectEvict, ConnectReplace, ConnectEnd, ConnectCheck, ConnectMark,
         ConnectRoster, ConnectEvent, ConnectTail, sessionVars
  <1>5. ASSUME NEW s \in Sessions, SessionReaderFails(s) \/ BackendLost(s)
        PROVE sclose'[v] # "closed"
    BY <1>0, <1>5 DEF SessionReaderFails, BackendLost, ReaderClose, CloseBegun
  <1>6. ASSUME NEW q \in Players, PlayerNext(q) PROVE sclose'[v] # "closed"
    BY <1>0, <1>6 DEF PlayerNext, PlayerClose, ReaderProceeds, CloseBegun,
         PlayerCloseRead, PlayerCloseEnd, ReaderFails, ReaderCheck, ReaderBind,
         ReaderSend, ReaderClosed, ReaderRoute, ClientLost, Kick, sessionVars
  <1> QED BY <1>0, <1>3, <1>4, <1>5, <1>6 DEF Next, SessionNext, SessionEnd

\* CloseEndsInTransferOnly: outside a transfer, the Close of a player that is on a
\* remote server never returns (player.go:78, session.go:324, remoteserver.go:237).
THEOREM ClosesEndInTransfer == Spec => CloseEndsInTransferOnly
  <1>1. Init => VictimInstalled BY DEF Init, VictimInstalled
  <1>2. IInv /\ VictimInstalled /\ [Next]_vars => VictimInstalled'
    BY VictimStep DEF IInv, Key
  <1>3. IInv /\ VictimInstalled /\ [Next]_vars
        => [\A p \in Players : VictimCloses(p) => transferring[p]]_vars
    BY VictimStuck
  <1> QED BY <1>1, <1>2, <1>3, Inductive, PTL DEF Spec, CloseEndsInTransferOnly

\* PanicOnlyInTransfer: the panicking step is the last one; what it needs is in
\* IInv.
THEOREM PanicsInTransfer == Spec => []PanicOnlyInTransfer
  <1>1. Init => PanicOnlyInTransfer BY DEF Init, PanicOnlyInTransfer
  <1>2. IInv /\ PanicOnlyInTransfer /\ [Next]_vars => PanicOnlyInTransfer'
    <2> SUFFICES ASSUME IInv, PanicOnlyInTransfer, [Next]_vars PROVE PanicOnlyInTransfer'
      OBVIOUS
    <2> USE SessionPairs DEF PanicOnlyInTransfer, vars, playerVars
    <2>0. TypeOK /\ Settled /\ OthersClosed /\ FirstIsConnected /\ ReaderHolds BY DEF IInv
    <2>1. ASSUME NEW s \in Sessions, ConnectMark(s) PROVE PanicOnlyInTransfer'
      <3>1. session[s[1]] > 1 /\ session' = session
        BY <2>0, <2>1 DEF ConnectMark, FirstIsConnected, Settled, Arriving
      <3> QED BY <3>1
    <2>2. ASSUME NEW s \in Sessions, CloseMark(s) PROVE PanicOnlyInTransfer'
      <3>1. s[2] > 1 /\ session' = session BY <2>0, <2>2 DEF CloseMark, FirstIsConnected
      <3>2. session[s[1]] = s[2]
        BY <2>0, <2>2, <3>1 DEF CloseMark, OthersClosed, Live, FirstIsConnected
      <3> QED BY <3>1, <3>2
    <2>3. ASSUME NEW p \in Players, ReaderSend(p) PROVE PanicOnlyInTransfer'
      <3>1. session' = session BY <2>3 DEF ReaderSend
      <3>2. panicked' => panicked \/ session[p] > 1
        BY <2>0, <2>3 DEF ReaderSend, ReaderHolds
      <3> QED BY <3>1, <3>2
    <2>4. ASSUME UNCHANGED panicked, ~panicked PROVE PanicOnlyInTransfer'
      BY <2>4
    <2>5. ASSUME NEW s \in Sessions, SessionNext(s), ~ConnectMark(s), ~CloseMark(s)
          PROVE UNCHANGED panicked
      BY <2>5 DEF SessionNext, SessionEnd, SessionClose, Connect, BackendLost,
           SessionReaderFails,
           ConnectStart, JoinCancelled, ConnectOnline, ConnectDialFails,
           ConnectDialled, ConnectFirst, ConnectInstall, ConnectSpawned,
           ConnectHangs, ConnectDoSpawn, ConnectDoSpawnFails, ConnectBegin,
           ConnectEvict, ConnectReplace, ConnectEnd, ConnectCheck, ConnectRoster,
           ConnectEvent, ConnectTail, CloseConn, CloseCheck, CloseLeave,
           LeaveDelete, LeaveMoving, LeaveAddress, LeaveKicked
    <2>6. ASSUME NEW p \in Players, PlayerNext(p), ~ReaderSend(p) PROVE UNCHANGED panicked
      BY <2>6 DEF PlayerNext, PlayerClose, ReaderProceeds,
           PlayerCloseRead, PlayerCloseEnd, ReaderFails, ReaderCheck, ReaderBind,
           ReaderClosed, ReaderRoute, ClientLost, Kick
    <2>7. CASE UNCHANGED vars BY <2>7
    <2> QED BY <2>1, <2>2, <2>3, <2>4, <2>5, <2>6, <2>7 DEF Next
  <1> QED BY <1>1, <1>2, Inductive, PTL DEF Spec

\* NoOrphan: the store of online before the read of session in eyePlayer.Close
\* (player.go:77-80), and the store of session before the read of online in
\* Connect (remoteserver.go:132, 170), never miss each other.
LEMMA NoOrphanStep ==
  ASSUME IInv, NoOrphan, [Next]_vars PROVE NoOrphan'
  <1> USE SessionPairs DEF vars, playerVars, pcloseVars, readerVars, sessionVars,
          serverVars
  <1>0. /\ connect \in [Sessions -> ConnectStates] /\ sclose \in [Sessions -> CloseStates]
        /\ server \in [Sessions -> Servers \cup {NoServer}]
        /\ session \in [Players -> 0 .. MaxConnects]
        /\ pclose \in [Players -> {"open", "read", "closing", "closed"}]
    BY DEF IInv, TypeOK
  <1>1. ASSUME UNCHANGED <<session, connect, server>>,
               \A p \in Players : pclose'[p] \in {"closing", "closed"}
                                    => pclose[p] \in {"closing", "closed"},
               \A s \in Sessions : sclose'[s] = "open" => sclose[s] = "open"
        PROVE  NoOrphan'
    BY <1>0, <1>1 DEF NoOrphan, Cur
  <1>2. ASSUME UNCHANGED <<session, server, pclose, sclose>>, NEW s \in Sessions,
               NEW x, connect' = [connect EXCEPT ![s] = x],
               sclose[s] # "absent" => x \in Arriving \/ server[s] \in Internals
        PROVE  NoOrphan'
    BY <1>0, <1>2 DEF NoOrphan, Cur
  <1>3. ASSUME NEW s \in Sessions, Connect(s) PROVE NoOrphan'
    <2>0. connect[s] \in Unmade => sclose[s] = "absent" BY DEF IInv, Made
    <2> USE DEF Unmade, Arriving
    <2>1. CASE JoinCancelled(s) BY <1>2, <2>0, <2>1 DEF JoinCancelled
    <2>2. CASE ConnectOnline(s) BY <1>2, <2>0, <2>2 DEF ConnectOnline, ConnectGivesUp
    <2>3. CASE ConnectDialFails(s) BY <1>2, <2>0, <2>3 DEF ConnectDialFails, ConnectGivesUp
    <2>4. CASE ConnectDialled(s) BY <1>2, <2>0, <2>4 DEF ConnectDialled
    <2>5. CASE ConnectSpawned(s) BY <1>2, <2>0, <2>5 DEF ConnectSpawned
    <2>6. CASE ConnectHangs(s) BY <1>2, <2>0, <2>6 DEF ConnectHangs
    <2>7. CASE ConnectDoSpawn(s) BY <1>2, <2>0, <2>7 DEF ConnectDoSpawn
    <2>8. CASE ConnectDoSpawnFails(s) BY <1>2, <2>0, <2>8 DEF ConnectDoSpawnFails
    <2>9. CASE ConnectBegin(s) BY <1>2, <2>0, <2>9 DEF ConnectBegin
    <2>10. CASE ConnectEnd(s) BY <1>2, <2>0, <2>10 DEF ConnectEnd
    <2>11. CASE ConnectCheck(s) BY <1>0, <1>2, <2>0, <2>11 DEF ConnectCheck, AfterConnected
    <2>12. CASE ConnectRoster(s) BY <1>2, <2>0, <2>12 DEF ConnectRoster
    <2>13. CASE ConnectMark(s)
      BY <1>1, <1>2, <2>0, <2>13 DEF ConnectMark, AfterConnected
    <2>14. CASE ConnectStart(s)
      <3>1. \A p \in Players : session[p] # 0 => Cur(p) # s
        BY <2>0, <2>14 DEF ConnectStart, IInv, Settled
      <3>2. \A t \in Sessions : t # s => connect'[t] = connect[t] /\ server'[t] = server[t]
        BY <1>0, <2>14 DEF ConnectStart
      <3> QED BY <1>0, <2>14, <3>1, <3>2 DEF ConnectStart, NoOrphan, Cur
    <2>15. CASE ConnectFirst(s)
      <3>1. /\ session' = session /\ server' = server /\ pclose' = pclose
            /\ session[s[1]] = 0
        BY <2>15 DEF ConnectFirst
      <3>2. \A t \in Sessions : t # s => connect'[t] = connect[t] /\ sclose'[t] = sclose[t]
        BY <1>0, <2>15 DEF ConnectFirst, NewSession
      <3> QED BY <1>0, <3>1, <3>2 DEF NoOrphan, Cur
    <2>16. CASE ConnectInstall(s)
      <3>1. Cur(s[1])' = s /\ connect'[s] = "spawn"
        BY <1>0, <2>16 DEF ConnectInstall, Cur
      <3>2. /\ sclose' = sclose /\ server' = server /\ pclose' = pclose
            /\ \A p \in Players : p # s[1] => Cur(p)' = Cur(p) /\ session'[p] = session[p]
            /\ \A t \in Sessions : t # s => connect'[t] = connect[t]
        BY <1>0, <2>16 DEF ConnectInstall, Cur
      <3> QED BY <1>0, <3>1, <3>2 DEF NoOrphan, Cur
    <2>17. CASE ConnectReplace(s)
      <3>1. Cur(s[1])' = s /\ connect'[s] = "end"
        BY <1>0, <2>17 DEF ConnectReplace, Cur
      <3>2. /\ server' = server /\ pclose' = pclose
            /\ \A p \in Players : p # s[1] => Cur(p)' = Cur(p) /\ session'[p] = session[p]
            /\ \A t \in Sessions : t # s => connect'[t] = connect[t] /\ sclose'[t] = sclose[t]
        BY <1>0, <2>17 DEF ConnectReplace, NewSession, Cur
      <3> QED BY <1>0, <3>1, <3>2 DEF NoOrphan, Cur
    <2>18. CASE ConnectEvict(s)
      <3>1. /\ session' = session /\ server' = server /\ pclose' = pclose
            /\ connect' = [connect EXCEPT ![s] = "evicting"]
        BY <2>18 DEF ConnectEvict
      <3>2. \A t \in Sessions : sclose'[t] = "open" => sclose[t] = "open"
        BY <1>0, <2>18 DEF ConnectEvict, EvictClose, CloseBegun
      <3>3. sclose[s] = "absent" BY <2>0, <2>18 DEF ConnectEvict
      <3> QED BY <1>0, <3>1, <3>2, <3>3 DEF NoOrphan, Cur
    <2>19. CASE ConnectEvent(s)
      <3>1. /\ session' = session /\ server' = server /\ pclose' = pclose /\ sclose' = sclose
            /\ connect' = [connect EXCEPT ![s] = "tail", ![Following(s)] = "pending"]
            /\ connect[s] = "event"
        BY <2>19 DEF ConnectEvent
      <3>2. \A p \in Players : session[p] # 0 => Cur(p) # Following(s)
        <4>1. Following(s) \in Sessions => connect[Following(s)] = "none"
          BY <3>1 DEF IInv, InOrder, Following, Attempts
        <4> QED BY <1>0, <4>1 DEF IInv, Made, Settled, Cur
      <3>3. \A t \in Sessions : t \notin {s, Following(s)} => connect'[t] = connect[t]
        BY <1>0, <3>1
      <3>4. connect'[s] = "tail" BY <1>0, <3>1 DEF Following, Attempts
      <3> QED BY <1>0, <3>1, <3>2, <3>3, <3>4 DEF NoOrphan, Cur
    <2>20. CASE ConnectTail(s)
      <3>1. /\ session' = session /\ server' = server /\ pclose' = pclose
            /\ connect' = [connect EXCEPT ![s] = "returned"]
        BY <2>20 DEF ConnectTail
      <3>2. \A t \in Sessions : sclose'[t] = "open" => sclose[t] = "open"
        BY <1>0, <2>20 DEF ConnectTail, TailClose, CloseBegun
      <3>3. CASE online[s[1]]
        BY <1>0, <3>1, <3>2, <3>3 DEF IInv, ClosingOffline, NoOrphan, Cur
      <3>4. CASE ~online[s[1]]
        <4>1. sclose'[Cur(s[1])] # "open" \/ session[s[1]] = 0
          BY <1>0, <2>20, <3>4 DEF ConnectTail, TailClose, CloseBegun, Cur
        <4> QED BY <1>0, <3>1, <3>2, <4>1 DEF NoOrphan, Cur
      <3> QED BY <3>3, <3>4
    <2> QED BY <1>3,
          <2>1, <2>2, <2>3, <2>4, <2>5, <2>6, <2>7, <2>8, <2>9, <2>10, <2>11,
          <2>12, <2>13, <2>14, <2>15, <2>16, <2>17, <2>18, <2>19, <2>20 DEF Connect
  <1>4. ASSUME NEW s \in Sessions, SessionEnd(s) \/ BackendLost(s) PROVE NoOrphan'
    <2>1. session' = session /\ connect' = connect /\ server' = server
      BY <1>4 DEF SessionEnd, SessionClose, BackendLost, SessionReaderFails,
           CloseConn, CloseCheck, CloseMark, CloseLeave, LeaveDelete, LeaveMoving,
           LeaveAddress, LeaveKicked
    <2>2. \A t \in Sessions : sclose'[t] = "open" => sclose[t] = "open"
      BY <1>0, <1>4 DEF SessionEnd, SessionClose, BackendLost, SessionReaderFails,
           ReaderClose, CloseBegun,
           CloseConn, CloseCheck, CloseMark, CloseLeave, LeaveDelete, LeaveMoving,
           LeaveAddress, LeaveKicked
    <2>3. \A p \in Players : pclose'[p] \in {"closing", "closed"}
                               => pclose[p] \in {"closing", "closed"}
      BY <1>0, <1>4 DEF SessionEnd, SessionClose, BackendLost, SessionReaderFails,
           BeginPlayerClose,
           CloseConn, CloseCheck, CloseMark, CloseLeave, LeaveDelete, LeaveMoving,
           LeaveAddress, LeaveKicked
    <2> QED BY <1>1, <2>1, <2>2, <2>3
  <1>5. ASSUME NEW p \in Players, PlayerNext(p) PROVE NoOrphan'
    <2>1. CASE PlayerCloseRead(p)
      <3>1. sclose'[Cur(p)] # "open" \/ session[p] = 0
        BY <1>0, <2>1 DEF PlayerCloseRead, CloseBegun, Cur
      <3>2. \A t \in Sessions : sclose'[t] = "open" => sclose[t] = "open"
        BY <1>0, <2>1 DEF PlayerCloseRead, CloseBegun
      <3> QED BY <1>0, <2>1, <3>1, <3>2 DEF PlayerCloseRead, NoOrphan, Cur
    <2>2. CASE ReaderSend(p)
      <3>1. \A t \in Sessions : sclose'[t] = "open" => sclose[t] = "open"
        BY <1>0, <2>2 DEF ReaderSend, CloseBegun
      <3> QED BY <1>1, <2>2, <3>1 DEF ReaderSend
    <2>3. CASE PlayerCloseEnd(p) BY <1>0, <1>1, <2>3 DEF PlayerCloseEnd
    <2>4. CASE ReaderFails(p) \/ Kick(p)
      BY <1>0, <1>1, <2>4 DEF ReaderFails, Kick, BeginPlayerClose
    <2>5. CASE \/ ReaderCheck(p) \/ ReaderBind(p) \/ ReaderClosed(p) \/ ReaderRoute(p)
               \/ ClientLost(p)
      BY <1>1, <2>5 DEF ReaderCheck, ReaderBind, ReaderClosed, ReaderRoute, ClientLost
    <2> QED BY <1>5, <2>1, <2>2, <2>3, <2>4, <2>5 DEF PlayerNext, PlayerClose, ReaderProceeds
  <1>6. CASE UNCHANGED vars BY <1>1, <1>6
  <1> QED BY <1>3, <1>4, <1>5, <1>6 DEF Next, SessionNext

THEOREM NoOrphans == Spec => []NoOrphan
  <1>1. Init => NoOrphan BY DEF Init, NoOrphan
  <1>2. IInv /\ NoOrphan /\ [Next]_vars => NoOrphan' BY NoOrphanStep
  <1> QED BY <1>1, <1>2, Inductive, PTL DEF Spec

-----------------------------------------------------------------------------
(* The roster and the count of a server. *)

\* A server lists a session from the moment Connect registered it until Leave.
LEMMA RosterStep ==
  ASSUME IInv, RosterComplete, [Next]_vars PROVE RosterComplete'
  <1> USE SessionPairs DEF vars, playerVars, pcloseVars, readerVars, sessionVars,
          serverVars, Staying
  <1>0. /\ connect \in [Sessions -> ConnectStates] /\ sclose \in [Sessions -> CloseStates]
        /\ server \in [Sessions -> Servers \cup {NoServer}]
        /\ roster \in [Remotes -> SUBSET Sessions]
    BY DEF IInv, TypeOK
  <1> DEFINE Registered(s) == connect[s] \in {"event", "tail", "returned"}
             Here(s) == sclose[s] \in Staying \cup {"delete"}
  <1>1. ASSUME \A s \in Sessions : Registered(s)' /\ Here(s)' =>
                                     Registered(s) /\ Here(s) /\ server'[s] = server[s],
               UNCHANGED roster
        PROVE  RosterComplete'
    BY <1>1 DEF RosterComplete
  <1>2. ASSUME NEW s \in Sessions, Connect(s) PROVE RosterComplete'
    <2>0. connect[s] \in Unmade => sclose[s] = "absent" BY DEF IInv, Made
    <2> USE DEF Unmade, Arriving
    <2>1. CASE ConnectRoster(s)
      <3>1. RosterEntry(s) = s BY <2>1 DEF ConnectRoster, RosterEntry, Cur, IInv, Settled
      <3>2. \A r \in Remotes : roster[r] \subseteq roster'[r]
        BY <1>0, <2>1 DEF ConnectRoster
      <3>3. server[s] \in Remotes => s \in roster'[server[s]]
        BY <1>0, <2>1, <3>1 DEF ConnectRoster
      <3>4. /\ server' = server /\ sclose' = sclose
            /\ \A t \in Sessions : t # s => connect'[t] = connect[t]
        BY <1>0, <2>1 DEF ConnectRoster
      <3> QED BY <3>2, <3>3, <3>4 DEF RosterComplete
    <2>2. CASE JoinCancelled(s) \/ ConnectOnline(s) \/ ConnectDialFails(s)
      BY <1>0, <1>1, <2>0, <2>2
         DEF JoinCancelled, ConnectOnline, ConnectDialFails, ConnectGivesUp
    <2>3. CASE \/ ConnectDialled(s) \/ ConnectInstall(s) \/ ConnectSpawned(s)
               \/ ConnectHangs(s) \/ ConnectDoSpawn(s) \/ ConnectDoSpawnFails(s)
               \/ ConnectBegin(s) \/ ConnectEnd(s)
      BY <1>0, <1>1, <2>3
         DEF ConnectDialled, ConnectInstall, ConnectSpawned, ConnectHangs,
             ConnectDoSpawn, ConnectDoSpawnFails, ConnectBegin, ConnectEnd
    <2>4. CASE ConnectStart(s)
      <3>1. /\ connect[s] = "pending" /\ sclose' = sclose /\ roster' = roster
            /\ connect'[s] \in {"online", "branch"}
            /\ \A t \in Sessions : t # s => connect'[t] = connect[t] /\ server'[t] = server[t]
        BY <1>0, <2>4 DEF ConnectStart
      <3> QED BY <1>1, <3>1
    <2>5. CASE ConnectFirst(s) \/ ConnectReplace(s)
      BY <1>0, <1>1, <2>5 DEF ConnectFirst, ConnectReplace, NewSession
    <2>6. CASE ConnectEvict(s)
      BY <1>0, <1>1, <2>6 DEF ConnectEvict, EvictClose, CloseBegun
    <2>7. CASE ConnectCheck(s) \/ ConnectMark(s)
      <3>1. /\ server' = server /\ sclose' = sclose /\ roster' = roster
            /\ \A t \in Sessions : t # s => connect'[t] = connect[t]
            /\ connect'[s] \in {"event", "tail", "returned"} => server[s] \in Internals
        BY <1>0, <2>7 DEF ConnectCheck, ConnectMark, AfterConnected
      <3> QED BY <3>1, LifecycleAssumption DEF RosterComplete
    <2>8. CASE ConnectEvent(s)
      <3>1. /\ connect[s] = "event" /\ server' = server /\ sclose' = sclose /\ roster' = roster
            /\ connect' = [connect EXCEPT ![s] = "tail", ![Following(s)] = "pending"]
        BY <2>8 DEF ConnectEvent
      <3> QED BY <1>0, <1>1, <3>1
    <2>9. CASE ConnectTail(s)
      <3>1. /\ connect[s] = "tail" /\ server' = server /\ roster' = roster
            /\ connect' = [connect EXCEPT ![s] = "returned"]
        BY <2>9 DEF ConnectTail
      <3>2. \A t \in Sessions : Here(t)' => Here(t)
        BY <1>0, <2>9 DEF ConnectTail, TailClose, CloseBegun
      <3> QED BY <1>0, <1>1, <3>1, <3>2
    <2> QED BY <1>2, <2>1, <2>2, <2>3, <2>4, <2>5, <2>6, <2>7, <2>8, <2>9 DEF Connect
  <1>3. ASSUME NEW s \in Sessions, LeaveDelete(s) PROVE RosterComplete'
    <2>1. /\ connect' = connect /\ server' = server
          /\ \A t \in Sessions : t # s => sclose'[t] = sclose[t]
          /\ sclose'[s] = "moving"
      BY <1>0, <1>3 DEF LeaveDelete
    <2>2. \A r \in Remotes, t \in Sessions : t # s /\ t \in roster[r] => t \in roster'[r]
      BY <1>0, <1>3 DEF LeaveDelete
    <2> QED BY <2>1, <2>2 DEF RosterComplete
  <1>4. ASSUME NEW s \in Sessions, SessionEnd(s) \/ BackendLost(s), ~LeaveDelete(s)
        PROVE  RosterComplete'
    <2>1. connect' = connect /\ server' = server /\ roster' = roster
      BY <1>4 DEF SessionEnd, SessionClose, BackendLost, SessionReaderFails,
           CloseConn, CloseCheck, CloseMark, CloseLeave, LeaveMoving,
           LeaveAddress, LeaveKicked
    <2>2. \A t \in Sessions : Here(t)' => Here(t)
      BY <1>0, <1>4 DEF SessionEnd, SessionClose, BackendLost, SessionReaderFails,
           ReaderClose, CloseBegun, CloseConn, CloseCheck, CloseMark, CloseLeave,
           LeaveMoving, LeaveAddress, LeaveKicked
    <2> QED BY <1>1, <2>1, <2>2
  <1>5. ASSUME NEW p \in Players, PlayerNext(p) PROVE RosterComplete'
    <2>1. connect' = connect /\ server' = server /\ roster' = roster
      BY <1>5 DEF PlayerNext, PlayerClose, ReaderProceeds, PlayerCloseRead,
           PlayerCloseEnd, ReaderFails, ReaderCheck, ReaderBind, ReaderSend,
           ReaderClosed, ReaderRoute, ClientLost, Kick
    <2>2. \A t \in Sessions : Here(t)' => Here(t)
      BY <1>0, <1>5 DEF PlayerNext, PlayerClose, ReaderProceeds, PlayerCloseRead,
           PlayerCloseEnd, ReaderFails, ReaderCheck, ReaderBind, ReaderSend,
           ReaderClosed, ReaderRoute, ClientLost, Kick, CloseBegun
    <2> QED BY <1>1, <2>1, <2>2
  <1>6. CASE UNCHANGED vars BY <1>1, <1>6
  <1> QED BY <1>2, <1>3, <1>4, <1>5, <1>6 DEF Next, SessionNext

\* RosterComplete: PlayerByRuntimeId finds a registered player until it leaves.
THEOREM RosterIsComplete == Spec => []RosterComplete
  <1>1. Init => RosterComplete BY DEF Init, RosterComplete, Staying
  <1>2. IInv /\ RosterComplete /\ [Next]_vars => RosterComplete' BY RosterStep
  <1> QED BY <1>1, <1>2, Inductive, PTL DEF Spec

HoldersOf(r) == {s \in Sessions : Holds(s, r)}

LEMMA SessionsFinite == IsFiniteSet(Sessions)
  <1>1. IsFiniteSet(Attempts) BY LifecycleAssumption, FS_Interval DEF Attempts
  <1> QED BY <1>1, LifecycleAssumption, FS_Product DEF Sessions

LEMMA HoldersFinite ==
  ASSUME NEW r \in Remotes PROVE IsFiniteSet(HoldersOf(r))
  BY SessionsFinite, FS_Subset DEF HoldersOf

Counted == \A r \in Remotes : count[r] = Cardinality(HoldersOf(r))

\* Nobody takes or gives back a place.
LEMMA CountKeeps ==
  ASSUME Counted, UNCHANGED count,
         \A s \in Sessions, r \in Remotes : Holds(s, r)' <=> Holds(s, r)
  PROVE  Counted'
  <1>1. ASSUME NEW r \in Remotes PROVE HoldersOf(r)' = HoldersOf(r) BY DEF HoldersOf
  <1> QED BY <1>1 DEF Counted

\* Session s takes a place on its server.
LEMMA CountAdds ==
  ASSUME TypeOK, Counted, NEW s \in Sessions, NEW q \in Remotes,
         count' = [count EXCEPT ![q] = @ + 1],
         ~Holds(s, q), Holds(s, q)',
         \A t \in Sessions, r \in Remotes :
           t # s \/ r # q => (Holds(t, r)' <=> Holds(t, r))
  PROVE  Counted'
  <1>1. ASSUME NEW r \in Remotes, r # q PROVE HoldersOf(r)' = HoldersOf(r)
    BY <1>1 DEF HoldersOf
  <1>2. HoldersOf(q)' = HoldersOf(q) \cup {s} /\ s \notin HoldersOf(q) BY DEF HoldersOf
  <1>3. Cardinality(HoldersOf(q)') = Cardinality(HoldersOf(q)) + 1
    BY <1>2, HoldersFinite, FS_AddElement
  <1>4. count'[q] = count[q] + 1 /\ \A r \in Remotes : r # q => count'[r] = count[r]
    BY DEF TypeOK
  <1> QED BY <1>1, <1>3, <1>4 DEF Counted

\* Session s gives its place back.
LEMMA CountDrops ==
  ASSUME TypeOK, Counted, NEW s \in Sessions, NEW q \in Remotes,
         count' = [count EXCEPT ![q] = @ - 1],
         Holds(s, q), ~Holds(s, q)',
         \A t \in Sessions, r \in Remotes :
           t # s \/ r # q => (Holds(t, r)' <=> Holds(t, r))
  PROVE  Counted'
  <1>1. ASSUME NEW r \in Remotes, r # q PROVE HoldersOf(r)' = HoldersOf(r)
    BY <1>1 DEF HoldersOf
  <1>2. HoldersOf(q)' = HoldersOf(q) \ {s} /\ s \in HoldersOf(q) BY DEF HoldersOf
  <1>3. Cardinality(HoldersOf(q)') = Cardinality(HoldersOf(q)) - 1
    BY <1>2, HoldersFinite, FS_RemoveElement
  <1>4. count'[q] = count[q] - 1 /\ \A r \in Remotes : r # q => count'[r] = count[r]
    BY DEF TypeOK
  <1> QED BY <1>1, <1>3, <1>4 DEF Counted

\* The rest of the steps: one Close moves within Staying, or outside of it.
LEMMA CloseKeepsHolds ==
  ASSUME UNCHANGED <<server, connect>>,
         \A t \in Sessions : sclose'[t] = "absent" <=> sclose[t] = "absent",
         \A t \in Sessions : sclose'[t] \in Staying <=> sclose[t] \in Staying
  PROVE  \A s \in Sessions, r \in Remotes : Holds(s, r)' <=> Holds(s, r)
  BY DEF Holds, Staying

\* A Connect that is not between its count.Inc() and its session moves on.
LEMMA MoveKeepsHolds ==
  ASSUME UNCHANGED server, NEW s \in Sessions,
         \A t \in Sessions : sclose'[t] = "absent" <=> sclose[t] = "absent",
         \A t \in Sessions : sclose'[t] \in Staying <=> sclose[t] \in Staying,
         \A t \in Sessions : t # s => connect'[t] = connect[t],
         sclose[s] # "absent" \/ (connect'[s] \in Dialling <=> connect[s] \in Dialling)
  PROVE  \A t \in Sessions, r \in Remotes : Holds(t, r)' <=> Holds(t, r)
  BY DEF Holds, Staying

LEMMA CountStep == ASSUME IInv, Counted, [Next]_vars PROVE Counted'
  <1> USE SessionPairs DEF vars, playerVars, pcloseVars, readerVars, sessionVars,
          serverVars
  <1>0. /\ connect \in [Sessions -> ConnectStates] /\ sclose \in [Sessions -> CloseStates]
        /\ server \in [Sessions -> Servers \cup {NoServer}]
        /\ count \in [Remotes -> Int]
        /\ TypeOK
    BY DEF IInv, TypeOK
  <1>1. ASSUME NEW s \in Sessions, Connect(s) PROVE Counted'
    <2>0. /\ connect[s] \in Unmade => sclose[s] = "absent"
          /\ connect[s] \in Arriving \cup {"install"} => sclose[s] # "absent"
      BY DEF IInv, Made
    <2> USE DEF Unmade, Arriving, Dialling
    <2>1. CASE ConnectStart(s)
      <3>1. PICK r \in Servers :
              /\ server' = [server EXCEPT ![s] = r]
              /\ IF r \in Remotes
                 THEN /\ count' = [count EXCEPT ![r] = @ + 1]
                      /\ connect' = [connect EXCEPT ![s] = "online"]
                 ELSE /\ connect' = [connect EXCEPT ![s] = "branch"]
                      /\ UNCHANGED count
        BY <2>1 DEF ConnectStart
      <3>2. sclose' = sclose /\ sclose[s] = "absent" /\ connect[s] = "pending"
        BY <2>0, <2>1 DEF ConnectStart
      <3>3. \A t \in Sessions, q \in Remotes : t # s => (Holds(t, q)' <=> Holds(t, q))
        BY <1>0, <3>1, <3>2 DEF Holds
      <3>4. \A q \in Remotes : ~Holds(s, q) BY <3>2 DEF Holds
      <3>5. \A q \in Remotes : Holds(s, q)' <=> q = r BY <1>0, <3>1, <3>2 DEF Holds
      <3>6. CASE r \in Remotes BY <1>0, <3>1, <3>3, <3>4, <3>5, <3>6, CountAdds
      <3>7. CASE r \notin Remotes BY <3>1, <3>3, <3>4, <3>5, <3>7, CountKeeps
      <3> QED BY <3>6, <3>7
    <2>2. ASSUME ConnectGivesUp(s), connect[s] \in {"online", "dial"},
                 UNCHANGED <<server, sclose>>
          PROVE  Counted'
      <3>1. connect' = [connect EXCEPT ![s] = "returned"]
            /\ count' = [count EXCEPT ![server[s]] = @ - 1]
        BY <2>2 DEF ConnectGivesUp
      <3>2. \A t \in Sessions, q \in Remotes :
              t # s \/ q # server[s] => (Holds(t, q)' <=> Holds(t, q))
        BY <1>0, <2>2, <3>1 DEF Holds
      <3>3. \A q \in Remotes : q = server[s] => Holds(s, q) /\ ~Holds(s, q)'
        BY <1>0, <2>0, <2>2, <3>1 DEF Holds
      <3>4. CASE server[s] \in Remotes BY <1>0, <3>1, <3>2, <3>3, <3>4, CountDrops
      <3>5. CASE server[s] \notin Remotes
        <4>1. count' = count BY <1>0, <3>1, <3>5
        <4> QED BY <3>2, <3>5, <4>1, CountKeeps
      <3> QED BY <3>4, <3>5
    <2>3. ASSUME UNCHANGED <<server, count, sclose>>,
                 NEW x, connect' = [connect EXCEPT ![s] = x],
                 sclose[s] # "absent" \/ (x \in Dialling <=> connect[s] \in Dialling)
          PROVE  Counted'
      BY <1>0, <2>3, MoveKeepsHolds, CountKeeps
    <2>4. CASE ConnectOnline(s) BY <2>2, <2>3, <2>4 DEF ConnectOnline
    <2>5. CASE ConnectDialFails(s) BY <2>2, <2>5 DEF ConnectDialFails
    <2>6. CASE JoinCancelled(s) BY <2>3, <2>6 DEF JoinCancelled
    <2>7. CASE ConnectDialled(s) BY <2>3, <2>7 DEF ConnectDialled
    <2>8. CASE ConnectDoSpawn(s) BY <2>3, <2>8 DEF ConnectDoSpawn
    <2>9. CASE ConnectDoSpawnFails(s) BY <2>3, <2>9 DEF ConnectDoSpawnFails
    <2>10. CASE ConnectBegin(s) BY <2>3, <2>10 DEF ConnectBegin
    <2>11. CASE ConnectInstall(s) BY <2>0, <2>3, <2>11 DEF ConnectInstall
    <2>12. CASE ConnectSpawned(s) BY <2>0, <2>3, <2>12 DEF ConnectSpawned
    <2>13. CASE ConnectHangs(s) BY <2>0, <2>3, <2>13 DEF ConnectHangs
    <2>14. CASE ConnectEnd(s) BY <2>0, <2>3, <2>14 DEF ConnectEnd
    <2>15. CASE ConnectCheck(s) BY <2>0, <2>3, <2>15 DEF ConnectCheck
    <2>16. CASE ConnectMark(s)
      BY <2>0, <2>3, <2>16, CloseKeepsHolds, CountKeeps DEF ConnectMark
    <2>17. CASE ConnectRoster(s) BY <2>0, <2>3, <2>17 DEF ConnectRoster
    <2>18. CASE ConnectFirst(s) \/ ConnectReplace(s)
      <3>1. /\ server' = server /\ count' = count /\ connect[s] \in Dialling
            /\ sclose' = [sclose EXCEPT ![s] = "open"] /\ sclose[s] = "absent"
            /\ \A t \in Sessions : t # s => connect'[t] = connect[t]
        BY <1>0, <2>0, <2>18 DEF ConnectFirst, ConnectReplace, NewSession
      <3>2. \A t \in Sessions, r \in Remotes : Holds(t, r)' <=> Holds(t, r)
        BY <1>0, <3>1 DEF Holds, Staying
      <3> QED BY <3>1, <3>2, CountKeeps
    <2>19. CASE ConnectEvict(s)
      <3>1. /\ server' = server /\ count' = count /\ connect[s] = "evict"
            /\ connect' = [connect EXCEPT ![s] = "evicting"]
        BY <2>19 DEF ConnectEvict
      <3>2. \A t \in Sessions : /\ sclose'[t] = "absent" <=> sclose[t] = "absent"
                                /\ sclose'[t] \in Staying <=> sclose[t] \in Staying
        BY <1>0, <2>19 DEF ConnectEvict, EvictClose, CloseBegun, Staying
      <3> QED BY <1>0, <3>1, <3>2, MoveKeepsHolds, CountKeeps
    <2>20. CASE ConnectTail(s)
      <3>1. /\ server' = server /\ count' = count /\ connect[s] = "tail"
            /\ connect' = [connect EXCEPT ![s] = "returned"]
        BY <2>20 DEF ConnectTail
      <3>2. \A t \in Sessions : /\ sclose'[t] = "absent" <=> sclose[t] = "absent"
                                /\ sclose'[t] \in Staying <=> sclose[t] \in Staying
        BY <1>0, <2>20 DEF ConnectTail, TailClose, CloseBegun, Staying
      <3> QED BY <1>0, <2>0, <3>1, <3>2, MoveKeepsHolds, CountKeeps
    <2>21. CASE ConnectEvent(s)
      <3>1. /\ server' = server /\ count' = count /\ sclose' = sclose /\ connect[s] = "event"
            /\ connect' = [connect EXCEPT ![s] = "tail", ![Following(s)] = "pending"]
        BY <2>21 DEF ConnectEvent
      <3>2. Following(s) \in Sessions => connect[Following(s)] = "none"
        BY <3>1 DEF IInv, InOrder, Following, Attempts
      <3>3. \A t \in Sessions : \/ connect'[t] = connect[t]
                                \/ sclose[t] # "absent"
                                \/ connect[t] = "none" /\ connect'[t] = "pending"
        BY <1>0, <2>0, <3>1, <3>2
      <3>4. \A t \in Sessions, r \in Remotes : Holds(t, r)' <=> Holds(t, r)
        BY <3>1, <3>3 DEF Holds
      <3> QED BY <3>1, <3>4, CountKeeps
    <2> QED BY <1>1, <2>1, <2>4, <2>5, <2>6, <2>7, <2>8, <2>9, <2>10, <2>11,
          <2>12, <2>13, <2>14, <2>15, <2>16, <2>17, <2>18, <2>19, <2>20, <2>21 DEF Connect
  <1>2. ASSUME NEW s \in Sessions, CloseLeave(s) PROVE Counted'
    <2>1. /\ connect' = connect /\ server' = server /\ sclose[s] = "leave"
          /\ \A t \in Sessions : t # s => sclose'[t] = sclose[t]
          /\ sclose'[s] \in {"delete", "closed"}
      BY <1>0, <1>2 DEF CloseLeave
    <2>2. \A t \in Sessions, q \in Remotes :
            t # s \/ q # server[s] => (Holds(t, q)' <=> Holds(t, q))
      BY <1>0, <2>1 DEF Holds
    <2>3. \A q \in Remotes : q = server[s] => Holds(s, q) /\ ~Holds(s, q)'
      BY <2>1 DEF Holds, Staying
    <2>4. CASE server[s] \in Remotes
      <3>1. count' = [count EXCEPT ![server[s]] = @ - 1] BY <1>2, <2>4 DEF CloseLeave
      <3> QED BY <1>0, <2>2, <2>3, <2>4, <3>1, CountDrops
    <2>5. CASE server[s] \notin Remotes
      <3>1. count' = count BY <1>2, <2>5 DEF CloseLeave
      <3> QED BY <2>2, <2>5, <3>1, CountKeeps
    <2> QED BY <2>4, <2>5
  <1>3. ASSUME NEW s \in Sessions, SessionEnd(s) \/ BackendLost(s), ~CloseLeave(s)
        PROVE  Counted'
    <2>1. connect' = connect /\ server' = server /\ count' = count
      BY <1>3 DEF SessionEnd, SessionClose, BackendLost, SessionReaderFails,
           CloseConn, CloseCheck, CloseMark, LeaveDelete, LeaveMoving,
           LeaveAddress, LeaveKicked
    <2>2. \A t \in Sessions : /\ sclose'[t] = "absent" <=> sclose[t] = "absent"
                              /\ sclose'[t] \in Staying <=> sclose[t] \in Staying
      BY <1>0, <1>3 DEF SessionEnd, SessionClose, BackendLost, SessionReaderFails,
           ReaderClose, CloseBegun, CloseConn, CloseCheck, CloseMark, LeaveDelete,
           LeaveMoving, LeaveAddress, LeaveKicked, Staying
    <2> QED BY <2>1, <2>2, CloseKeepsHolds, CountKeeps
  <1>4. ASSUME NEW p \in Players, PlayerNext(p) PROVE Counted'
    <2>1. connect' = connect /\ server' = server /\ count' = count
      BY <1>4 DEF PlayerNext, PlayerClose, ReaderProceeds, PlayerCloseRead,
           PlayerCloseEnd, ReaderFails, ReaderCheck, ReaderBind, ReaderSend,
           ReaderClosed, ReaderRoute, ClientLost, Kick
    <2>2. \A t \in Sessions : /\ sclose'[t] = "absent" <=> sclose[t] = "absent"
                              /\ sclose'[t] \in Staying <=> sclose[t] \in Staying
      <3>1. CASE PlayerCloseRead(p)
        BY <1>0, <3>1 DEF PlayerCloseRead, CloseBegun, Staying
      <3>2. CASE ReaderSend(p) BY <1>0, <3>2 DEF ReaderSend, CloseBegun, Staying
      <3>3. ASSUME ~PlayerCloseRead(p), ~ReaderSend(p) PROVE sclose' = sclose
        BY <1>4, <3>3 DEF PlayerNext, PlayerClose, ReaderProceeds, PlayerCloseEnd,
             ReaderFails, ReaderCheck, ReaderBind, ReaderClosed, ReaderRoute,
             ClientLost, Kick
      <3> QED BY <3>1, <3>2, <3>3
    <2> QED BY <2>1, <2>2, CloseKeepsHolds, CountKeeps
  <1>5. CASE UNCHANGED vars BY <1>5, CloseKeepsHolds, CountKeeps
  <1> QED BY <1>1, <1>2, <1>3, <1>4, <1>5 DEF Next, SessionNext

\* CountAccounts: the count of a server is exact but for the places that failed
\* transfers keep.
THEOREM CountIsAccounted == Spec => []CountAccounts
  <1>1. Init => Counted
    <2> SUFFICES ASSUME Init, NEW r \in Remotes PROVE count[r] = Cardinality(HoldersOf(r))
      BY DEF Counted
    <2>1. HoldersOf(r) = {} BY DEF Init, HoldersOf, Holds, Dialling
    <2> QED BY <2>1, FS_EmptySet DEF Init
  <1>2. IInv /\ Counted /\ [Next]_vars => Counted' BY CountStep
  <1>3. Counted => CountAccounts BY DEF Counted, CountAccounts, HoldersOf
  <1> QED BY <1>1, <1>2, <1>3, Inductive, PTL DEF Spec

-----------------------------------------------------------------------------
(* The refinement of ServerPlaces. *)

\* The step is one of the abstract specification, or leaves its variables alone.
Kept == [Promise!Next]_<<Place, server, count, roster>>

\* A visit stands where it stood if its Close stays on one side of Leave and its
\* Connect on one side of the place it has taken.
LEMMA PlaceStays ==
  ASSUME NEW t, sclose'[t] = "absent" <=> sclose[t] = "absent",
         sclose'[t] \in Staying <=> sclose[t] \in Staying,
         connect'[t] = connect[t] \/ sclose[t] # "absent"
  PROVE  PlaceOf(connect[t], sclose[t])' = PlaceOf(connect[t], sclose[t])
  BY DEF PlaceOf, Staying

\* Nothing that a server is asked for changes.
LEMMA PlacesStay ==
  ASSUME UNCHANGED <<server, count, roster>>,
         \A t \in Sessions : PlaceOf(connect[t], sclose[t])' = PlaceOf(connect[t], sclose[t])
  PROVE  Kept
  <1>1. Place' = Place BY DEF Place
  <1> QED BY <1>1 DEF Kept

\* One visit goes from one place to the next.
LEMMA PlaceGoes ==
  ASSUME NEW s \in Sessions,
         \A t \in Sessions : t # s =>
           PlaceOf(connect[t], sclose[t])' = PlaceOf(connect[t], sclose[t])
  PROVE  /\ Place[s] = PlaceOf(connect[s], sclose[s])
         /\ Place' = [Place EXCEPT ![s] = PlaceOf(connect[s], sclose[s])']
  BY DEF Place

LEMMA CountGoes ==
  ASSUME count \in [Remotes -> Int], NEW r,
         NEW n \in {1, -1},
         IF r \in Remotes THEN count' = [count EXCEPT ![r] = @ + n] ELSE UNCHANGED count
  PROVE  count' = [q \in Remotes |-> IF q = r THEN count[q] + n ELSE count[q]]
  BY Zenon

LEMMA OneSessionStep == ASSUME IInv, [Next]_vars PROVE OneLiveSession'
  <1>1. IInv' BY KeyStep, TypeStep, OfflineStep, FirstStep, ReaderStep DEF IInv, Key
  <1> SUFFICES ASSUME NEW s \in Sessions, NEW t \in Sessions, s[1] = t[1],
                      Live(s)', Live(t)', s[2] < t[2]
               PROVE  FALSE
    BY SessionPairs DEF OneLiveSession, Attempts
  <1>2. connect'[t] # "none" BY <1>1 DEF IInv, Made, Unmade, Live
  <1>3. connect'[s] \in {"tail", "returned"} /\ sclose'[s] # "absent"
    BY <1>1, <1>2 DEF IInv, InOrder
  <1>4. session'[s[1]] = s[2] BY <1>1, <1>3 DEF IInv, OthersClosed
  <1>5. connect'[t] # "install" BY <1>1, <1>3 DEF IInv, Settled
  <1> QED BY <1>1, <1>4, <1>5, SessionPairs DEF IInv, OthersClosed, Attempts

LEMMA PlacesStep == ASSUME IInv, [Next]_vars PROVE Kept
  <1> USE SessionPairs DEF vars, playerVars, pcloseVars, readerVars, sessionVars,
          serverVars
  <1>0. /\ connect \in [Sessions -> ConnectStates] /\ sclose \in [Sessions -> CloseStates]
        /\ server \in [Sessions -> Servers \cup {NoServer}]
        /\ count \in [Remotes -> Int] /\ roster \in [Remotes -> SUBSET Sessions]
    BY DEF IInv, TypeOK
  <1>1. ASSUME NEW s \in Sessions, Promise!Visit(s) PROVE Kept
    BY <1>1 DEF Kept, Promise!Next
  <1>2. ASSUME NEW s \in Sessions, Connect(s) PROVE Kept
    <2>0. /\ connect[s] \in Unmade => sclose[s] = "absent"
          /\ connect[s] \in Arriving \cup {"install"} => sclose[s] # "absent"
      BY DEF IInv, Made
    <2>1. CASE ConnectStart(s)
      <3>1. PICK r \in Servers :
              /\ server' = [server EXCEPT ![s] = r]
              /\ IF r \in Remotes
                 THEN /\ count' = [count EXCEPT ![r] = @ + 1]
                      /\ connect' = [connect EXCEPT ![s] = "online"]
                 ELSE /\ connect' = [connect EXCEPT ![s] = "branch"]
                      /\ UNCHANGED count
        BY <2>1 DEF ConnectStart
      <3>2. sclose' = sclose /\ sclose[s] = "absent" /\ connect[s] = "pending" /\ roster' = roster
        BY <2>0, <2>1 DEF ConnectStart, Unmade
      <3>3. Place[s] = "none" /\ Place' = [Place EXCEPT ![s] = "asked"]
        BY <1>0, <3>1, <3>2, PlaceGoes DEF PlaceOf, Staying, Dialling
      <3>4. count' = [q \in Remotes |-> IF q = r THEN count[q] + 1 ELSE count[q]]
        BY <1>0, <3>1, CountGoes
      <3>5. Promise!Ask(s)
        BY <3>1, <3>2, <3>3, <3>4 DEF Promise!Ask, Promise!Goto, Promise!Counted, Servers
      <3> QED BY <1>1, <3>5 DEF Promise!Visit
    <2>2. ASSUME ConnectGivesUp(s), connect[s] \in {"online", "dial"},
                 UNCHANGED <<server, sclose, roster>>
          PROVE  Kept
      <3>1. /\ connect' = [connect EXCEPT ![s] = "returned"]
            /\ count' = [count EXCEPT ![server[s]] = @ - 1]
        BY <2>2 DEF ConnectGivesUp
      <3>2. Place[s] = "asked" /\ Place' = [Place EXCEPT ![s] = "over"]
        BY <1>0, <2>0, <2>2, <3>1, PlaceGoes DEF PlaceOf, Staying, Dialling, Unmade
      <3>3. count' = [q \in Remotes |-> IF q = server[s] THEN count[q] - 1 ELSE count[q]]
        BY <1>0, <3>1
      <3>4. Promise!Refuse(s)
        BY <2>2, <3>2, <3>3 DEF Promise!Refuse, Promise!Goto, Promise!Counted
      <3> QED BY <1>1, <3>4 DEF Promise!Visit
    <2>3. ASSUME UNCHANGED <<server, count, roster, sclose>>,
                 NEW x, connect' = [connect EXCEPT ![s] = x],
                 \/ sclose[s] # "absent"
                 \/ {x, connect[s]} \subseteq Dialling \ {"spawnfailed"}
          PROVE  Kept
      <3>1. PlaceOf(x, sclose[s]) = PlaceOf(connect[s], sclose[s])
        BY <2>3 DEF PlaceOf, Staying, Dialling
      <3>2. \A t \in Sessions : PlaceOf(connect[t], sclose[t])' = PlaceOf(connect[t], sclose[t])
        BY <1>0, <2>3, <3>1
      <3> QED BY <2>3, <3>2, PlacesStay
    <2>4. CASE ConnectOnline(s)
      BY <2>0, <2>2, <2>3, <2>4 DEF ConnectOnline, Dialling, Unmade
    <2>5. CASE ConnectDialFails(s) BY <2>2, <2>5 DEF ConnectDialFails
    <2>6. CASE JoinCancelled(s)
      <3>1. /\ connect' = [connect EXCEPT ![s] = "returned"] /\ connect[s] = "pending"
            /\ UNCHANGED <<server, count, roster, sclose>>
        BY <2>6 DEF JoinCancelled
      <3>2. Place[s] = "none" /\ Place' = [Place EXCEPT ![s] = "over"]
        BY <1>0, <2>0, <3>1, PlaceGoes DEF PlaceOf, Staying, Dialling, Unmade
      <3>3. Promise!Cancel(s) BY <3>1, <3>2 DEF Promise!Cancel, Promise!Goto
      <3> QED BY <1>1, <3>3 DEF Promise!Visit
    <2>7. CASE ConnectDialled(s) BY <2>3, <2>7 DEF ConnectDialled, Dialling
    <2>8. CASE ConnectDoSpawn(s) BY <2>3, <2>8 DEF ConnectDoSpawn, Dialling
    <2>9. CASE ConnectDoSpawnFails(s)
      <3>1. /\ connect' = [connect EXCEPT ![s] = "spawnfailed"] /\ connect[s] = "branch"
            /\ UNCHANGED <<server, count, roster, sclose>>
        BY <2>9 DEF ConnectDoSpawnFails
      <3>2. Place[s] = "asked" /\ Place' = [Place EXCEPT ![s] = "lost"]
        BY <1>0, <2>0, <3>1, PlaceGoes DEF PlaceOf, Staying, Dialling, Unmade
      <3>3. Promise!Lose(s) BY <3>1, <3>2 DEF Promise!Lose, Promise!Goto
      <3> QED BY <1>1, <3>3 DEF Promise!Visit
    <2>10. CASE ConnectBegin(s) BY <2>3, <2>10 DEF ConnectBegin, Dialling
    <2>11. CASE ConnectInstall(s) BY <2>0, <2>3, <2>11 DEF ConnectInstall
    <2> USE DEF Arriving
    <2>12. CASE ConnectSpawned(s) BY <2>0, <2>3, <2>12 DEF ConnectSpawned
    <2>13. CASE ConnectHangs(s) BY <2>0, <2>3, <2>13 DEF ConnectHangs
    <2>14. CASE ConnectEnd(s) BY <2>0, <2>3, <2>14 DEF ConnectEnd
    <2>15. CASE ConnectCheck(s) BY <2>0, <2>3, <2>15 DEF ConnectCheck
    <2>16. CASE ConnectMark(s)
      <3>1. CASE UNCHANGED connect BY <2>16, <3>1, PlacesStay DEF ConnectMark
      <3>2. CASE ~UNCHANGED connect BY <2>0, <2>3, <2>16, <3>2 DEF ConnectMark
      <3> QED BY <3>1, <3>2
    <2>17. CASE ConnectRoster(s)
      <3>1. /\ connect' = [connect EXCEPT ![s] = "event"] /\ connect[s] = "roster"
            /\ UNCHANGED <<server, count, sclose>>
            /\ roster' = [roster EXCEPT ![server[s]] = @ \cup {Cur(s[1])}]
        BY <2>17 DEF ConnectRoster, RosterEntry
      <3>2. Cur(s[1]) = s BY <3>1 DEF IInv, Settled, Cur
      <3>3. Place' = Place /\ Place[s] \in {"playing", "over"}
        BY <1>0, <2>0, <3>1 DEF Place, PlaceOf, Staying
      <3>4. CASE server[s] \in Remotes
        <4>1. Promise!List(s) BY <3>1, <3>2, <3>3, <3>4 DEF Promise!List
        <4> QED BY <1>1, <4>1 DEF Promise!Visit
      <3>5. CASE server[s] \notin Remotes
        <4>1. roster' = roster BY <1>0, <3>1, <3>5
        <4> QED BY <3>1, <3>3, <4>1 DEF Kept
      <3> QED BY <3>4, <3>5
    <2>18. CASE ConnectFirst(s) \/ ConnectReplace(s)
      <3>1. /\ UNCHANGED <<server, count, roster>>
            /\ connect[s] \in Dialling \ {"spawnfailed"}
            /\ sclose' = [sclose EXCEPT ![s] = "open"] /\ sclose[s] = "absent"
            /\ \A t \in Sessions : t # s => connect'[t] = connect[t]
        BY <1>0, <2>0, <2>18 DEF ConnectFirst, ConnectReplace, NewSession, Unmade, Dialling
      <3>2. Place[s] = "asked" /\ Place' = [Place EXCEPT ![s] = "playing"]
        BY <1>0, <3>1, PlaceGoes DEF PlaceOf, Staying, Dialling
      <3>3. \A t \in Sessions : Place[t] = "playing" => t[1] # s[1]
        <4> SUFFICES ASSUME NEW t \in Sessions, Place[t] = "playing", t[1] = s[1] PROVE FALSE
          OBVIOUS
        <4>1. sclose[t] \in Staying /\ t # s BY <3>1, <3>2 DEF Place, PlaceOf
        <4>2. Live(t)' /\ Live(s)' BY <1>0, <3>1, <4>1 DEF Live, Staying
        <4> QED BY <4>1, <4>2, OneSessionStep DEF OneLiveSession
      <3>4. Promise!Play(s) BY <3>1, <3>2, <3>3 DEF Promise!Play, Promise!Goto
      <3> QED BY <1>1, <3>4 DEF Promise!Visit
    <2>19. CASE ConnectEvict(s) \/ ConnectTail(s)
      <3>1. /\ UNCHANGED <<server, count, roster>>
            /\ \/ connect[s] = "evict" /\ connect' = [connect EXCEPT ![s] = "evicting"]
               \/ connect[s] = "tail" /\ connect' = [connect EXCEPT ![s] = "returned"]
        BY <2>19 DEF ConnectEvict, ConnectTail
      <3>2. \A t \in Sessions : /\ sclose'[t] = "absent" <=> sclose[t] = "absent"
                                /\ sclose'[t] \in Staying <=> sclose[t] \in Staying
        BY <1>0, <2>19 DEF ConnectEvict, EvictClose, ConnectTail, TailClose, CloseBegun, Staying
      <3>3. \A t \in Sessions : PlaceOf(connect[t], sclose[t])' = PlaceOf(connect[t], sclose[t])
        BY <1>0, <2>0, <3>1, <3>2 DEF PlaceOf, Staying, Dialling
      <3> QED BY <3>1, <3>3, PlacesStay
    <2>20. CASE ConnectEvent(s)
      <3>1. /\ UNCHANGED <<server, count, roster, sclose>> /\ connect[s] = "event"
            /\ connect' = [connect EXCEPT ![s] = "tail", ![Following(s)] = "pending"]
        BY <2>20 DEF ConnectEvent
      <3>2. Following(s) \in Sessions => connect[Following(s)] = "none"
        BY <3>1 DEF IInv, InOrder, Following, Attempts
      <3>3. \A t \in Sessions : \/ connect'[t] = connect[t]
                                \/ sclose[t] # "absent"
                                \/ connect[t] = "none" /\ connect'[t] = "pending"
        BY <1>0, <2>0, <3>1, <3>2
      <3>4. \A t \in Sessions : PlaceOf(connect[t], sclose[t])' = PlaceOf(connect[t], sclose[t])
        BY <3>1, <3>3 DEF PlaceOf, Staying
      <3> QED BY <3>1, <3>4, PlacesStay
    <2> QED BY <1>2, <2>1, <2>4, <2>5, <2>6, <2>7, <2>8, <2>9, <2>10, <2>11, <2>12,
          <2>13, <2>14, <2>15, <2>16, <2>17, <2>18, <2>19, <2>20 DEF Connect
  <1>3. ASSUME NEW s \in Sessions, CloseLeave(s) PROVE Kept
    <2>1. /\ UNCHANGED <<connect, server, roster>> /\ sclose[s] = "leave"
          /\ \A t \in Sessions : t # s => sclose'[t] = sclose[t]
          /\ sclose'[s] \in {"delete", "closed"}
          /\ IF server[s] \in Remotes
             THEN count' = [count EXCEPT ![server[s]] = @ - 1] ELSE UNCHANGED count
      BY <1>0, <1>3 DEF CloseLeave
    <2>2. Place[s] = "playing" /\ Place' = [Place EXCEPT ![s] = "over"]
      BY <1>0, <2>1, PlaceGoes DEF PlaceOf, Staying
    <2>3. count' = [q \in Remotes |-> IF q = server[s] THEN count[q] - 1 ELSE count[q]]
      BY <1>0, <2>1
    <2>4. Promise!Depart(s)
      BY <2>1, <2>2, <2>3 DEF Promise!Depart, Promise!Goto, Promise!Counted
    <2> QED BY <1>1, <2>4 DEF Promise!Visit
  <1>4. ASSUME NEW s \in Sessions, LeaveDelete(s) PROVE Kept
    <2>1. /\ UNCHANGED <<connect, server, count>> /\ sclose[s] = "delete"
          /\ sclose' = [sclose EXCEPT ![s] = "moving"]
          /\ roster' = [roster EXCEPT ![server[s]] = @ \ {s}]
      BY <1>4 DEF LeaveDelete
    <2>2. Place' = Place /\ Place[s] = "over"
      BY <1>0, <2>1 DEF Place, PlaceOf, Staying
    <2>3. CASE server[s] \in Remotes
      <3>1. Promise!Strike(s) BY <2>1, <2>2, <2>3 DEF Promise!Strike
      <3> QED BY <1>1, <3>1 DEF Promise!Visit
    <2>4. CASE server[s] \notin Remotes
      <3>1. roster' = roster BY <1>0, <2>1, <2>4
      <3> QED BY <2>1, <2>2, <3>1 DEF Kept
    <2> QED BY <2>3, <2>4
  <1>5. ASSUME NEW s \in Sessions, SessionEnd(s) \/ BackendLost(s), ~CloseLeave(s),
               ~LeaveDelete(s)
        PROVE  Kept
    <2>1. UNCHANGED <<connect, server, count, roster>>
      BY <1>5 DEF SessionEnd, SessionClose, BackendLost, SessionReaderFails,
           CloseConn, CloseCheck, CloseMark, LeaveMoving, LeaveAddress, LeaveKicked
    <2>2. \A t \in Sessions : /\ sclose'[t] = "absent" <=> sclose[t] = "absent"
                              /\ sclose'[t] \in Staying <=> sclose[t] \in Staying
      BY <1>0, <1>5 DEF SessionEnd, SessionClose, BackendLost, SessionReaderFails,
           ReaderClose, CloseBegun, CloseConn, CloseCheck, CloseMark,
           LeaveMoving, LeaveAddress, LeaveKicked, Staying
    <2> QED BY <2>1, <2>2, PlaceStays, PlacesStay
  <1>6. ASSUME NEW p \in Players, PlayerNext(p) PROVE Kept
    <2>1. UNCHANGED <<connect, server, count, roster>>
      BY <1>6 DEF PlayerNext, PlayerClose, ReaderProceeds, PlayerCloseRead,
           PlayerCloseEnd, ReaderFails, ReaderCheck, ReaderBind, ReaderSend,
           ReaderClosed, ReaderRoute, ClientLost, Kick
    <2>2. \A t \in Sessions : /\ sclose'[t] = "absent" <=> sclose[t] = "absent"
                              /\ sclose'[t] \in Staying <=> sclose[t] \in Staying
      <3>1. CASE PlayerCloseRead(p)
        BY <1>0, <3>1 DEF PlayerCloseRead, CloseBegun, Staying
      <3>2. CASE ReaderSend(p) BY <1>0, <3>2 DEF ReaderSend, CloseBegun, Staying
      <3>3. ASSUME ~PlayerCloseRead(p), ~ReaderSend(p) PROVE sclose' = sclose
        BY <1>6, <3>3 DEF PlayerNext, PlayerClose, ReaderProceeds, PlayerCloseEnd,
             ReaderFails, ReaderCheck, ReaderBind, ReaderClosed, ReaderRoute,
             ClientLost, Kick
      <3> QED BY <3>1, <3>2, <3>3
    <2> QED BY <2>1, <2>2, PlaceStays, PlacesStay
  <1>7. CASE UNCHANGED vars BY <1>7, PlacesStay
  <1> QED BY <1>2, <1>3, <1>4, <1>5, <1>6, <1>7 DEF Next, SessionNext

\* PlacesKept: connects, transfers and closes, however they interleave, keep what
\* ServerPlaces promises of the places on every server.
THEOREM ServersKeepPromise == Spec => PlacesKept
  <1>1. Init => Promise!Init
    <2> SUFFICES ASSUME Init PROVE Promise!Init OBVIOUS
    <2>1. ASSUME NEW s \in Sessions PROVE PlaceOf(connect[s], sclose[s]) = "none"
      <3>1. connect[s] \in {"none", "pending"} /\ sclose[s] = "absent" BY DEF Init
      <3> QED BY <3>1 DEF PlaceOf, Staying, Dialling
    <2>2. Place = [s \in Sessions |-> "none"] BY <2>1 DEF Place
    <2> QED BY <2>2 DEF Init, Promise!Init
  <1>2. IInv /\ [Next]_vars => [Promise!Next]_(Promise!vars)
    BY PlacesStep DEF Kept, Promise!vars
  <1> QED BY <1>1, <1>2, Inductive, PTL DEF Spec, PlacesKept, Promise!Spec
=============================================================================
