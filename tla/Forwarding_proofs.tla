-------------------------- MODULE Forwarding_proofs --------------------------
(***************************************************************************)
(* Proofs about Forwarding, for any entity IDs, any objectives and any     *)
(* number of sessions.                                                     *)
(***************************************************************************)
EXTENDS Forwarding, TLAPS

\* The sessions before the current one are closed, and only the current one may
\* have a connection.
OneAfterAnother ==
  \A s \in Sessions :
    /\ s < current => close[s] = "closed"
    /\ open[s] => close[s] = "open"
    /\ close[s] = "absent" => ~connected[s] /\ reader[s] = "read"

\* A packet of the client is on its way through sessions that the player has had.
InOrder ==
  /\ client # "read" => 1 <= dest /\ dest <= current
  /\ client = "write" /\ via # 0 => dest <= via /\ via <= current
  /\ client # "write" => via = 0

\* The Ranges of Close are under way, or all is as before and after them.
Ranges == \A s \in Sessions : close[s] # "sweep" => seen[s] = {} /\ sweeping[s] = {}

Shown(s) == {t \in Things : shown[t] = s}

\* The things of packets that a reader carried across the Close of its session.
Carried == UNION {carried[s] : s \in Sessions}

\* The client shows of s what is remembered and not just being taken back.
Matches(s) ==
  /\ (Shown(s) \ Pending(s)) \ Carried = ((tracked[s] \ sweeping[s]) \ Pending(s)) \ Carried
  /\ reader[s] = "write" /\ close[s] = "open" =>
       (op[s] = "add" <=> Key(s, thing[s]) \in tracked[s])

\* What there was from the start is visited, and what is visited is deleted.
Sweeps(s) ==
  /\ close[s] = "sweep" =>
       tracked[s] \subseteq due[s] \cup Carried /\ tracked[s] \cap seen[s] \subseteq sweeping[s] \cup Carried
  /\ close[s] \in {"absent", "closed"} => tracked[s] \subseteq Carried

Mirrors == online => \A s \in Sessions : Matches(s) /\ Sweeps(s)

IInv == TypeOK /\ OneAfterAnother /\ InOrder /\ Ranges /\ Mirrors

-----------------------------------------------------------------------------
(* Constants and translation. *)

LEMMA SessionNumbers ==
  /\ 1 \in Sessions /\ Sessions \subseteq Int /\ 1 \in Ids /\ Ids \subseteq Nat
  /\ \A s \in Sessions : 1 <= s /\ s <= MaxSessions
  /\ <<"actor", 1>> \in Things
  BY ForwardingAssumption DEF Sessions, Things

LEMMA SwapIsIn == ASSUME NEW a \in Ids, NEW b \in Ids, NEW id \in Ids PROVE Swap(a, b, id) \in Ids
  BY DEF Swap

\* Translating forth and back is translating nothing.
LEMMA SwapBack ==
  ASSUME NEW a \in Ids, NEW b \in Ids, NEW id \in Ids
  PROVE  Swap(a, b, Swap(b, a, id)) = id
  BY DEF Swap

LEMMA KeyIsThing ==
  ASSUME TypeOK, NEW s \in Sessions, NEW t \in Things
  PROVE  Key(s, t) \in Things /\ Key(s, t) = Translated(s, t)
<1>1. CASE t[1] = "actor"
  <2>1. Translated(s, t) = <<"actor", Swap(own[s], 1, t[2])>>
    BY <1>1 DEF Translated, TranslateSession
  <2>2. CASE t \in {"actor"} \X Ids
    <3>1. own[s] \in Ids /\ t[2] \in Ids  BY <2>2 DEF TypeOK
    <3>2. Swap(own[s], 1, t[2]) \in Ids  BY <3>1, SwapIsIn, SessionNumbers
    <3>3. <<"actor", Swap(own[s], 1, t[2])>> \in {"actor"} \X Ids  BY <3>2
    <3>. QED  BY <2>1, <3>3, Zenon DEF Things, Key
  <2>3. CASE t \in {"objective"} \X Objectives  BY <1>1, <2>3
  <2>. QED  BY <2>2, <2>3 DEF Things
<1>2. CASE t[1] # "actor"  BY <1>2 DEF Translated, Key
<1>. QED  BY <1>1, <1>2

-----------------------------------------------------------------------------
(* Init, and what the actions have in common. *)

LEMMA InitIInv == Init => IInv
<1>. SUFFICES ASSUME Init PROVE IInv  OBVIOUS
<1>. USE SessionNumbers DEF Init
<1>1. /\ \A s \in Sessions : (open[s] <=> s = 1) /\ (connected[s] <=> s = 1)
      /\ open \in [Sessions -> BOOLEAN] /\ connected \in [Sessions -> BOOLEAN]
      /\ carried \in [Sessions -> SUBSET Things]
  BY Zenon
<1>2. TypeOK
  <2>1. 0 \in 0 .. MaxSessions /\ \A s \in Sessions : s # 1 => s > 1
    BY ForwardingAssumption
  <2>2. \A s \in Sessions : (close[s] = "absent" <=> s > current) /\ sweeping[s] \subseteq seen[s]
    BY <2>1
  <2>3. /\ tracked \in [Sessions -> SUBSET Things] /\ due \in [Sessions -> SUBSET Things]
        /\ seen \in [Sessions -> SUBSET Things] /\ sweeping \in [Sessions -> SUBSET Things]
    OBVIOUS
  <2>4. /\ thing \in [Sessions -> Things] /\ op \in [Sessions -> {"add", "remove"}]
        /\ shown \in [Things -> 0 .. MaxSessions]
    BY <2>1
  <2>. QED  BY <1>1, <2>1, <2>2, <2>3, <2>4 DEF TypeOK
<1>3. OneAfterAnother  BY <1>1 DEF OneAfterAnother
<1>4. InOrder /\ Ranges  BY DEF InOrder, Ranges
<1>5. \A s \in Sessions : Shown(s) = {}  BY DEF Shown
<1>6. Mirrors  BY <1>5 DEF Mirrors, Matches, Sweeps, Pending
<1>. QED  BY <1>2, <1>3, <1>4, <1>6 DEF IInv

\* The session that is closing is the current one.
LEMMA ClosingIsCurrent ==
  ASSUME TypeOK, OneAfterAnother, NEW s \in Sessions, close[s] \notin {"absent", "closed"}
  PROVE  s = current
  BY SessionNumbers DEF TypeOK, OneAfterAnother

LEMMA CarriedStays == UNCHANGED carried => Carried' = Carried
  BY DEF Carried

\* A session stays as it is remembered and shown, if what it is made of stays.
LEMMA SessionStays ==
  ASSUME NEW s \in Sessions, Matches(s), Sweeps(s), Carried \subseteq Carried',
         own'[s] = own[s], reader'[s] = "write" <=> reader[s] = "write",
         op'[s] = op[s], thing'[s] = thing[s], close'[s] = close[s],
         tracked'[s] = tracked[s], due'[s] = due[s], seen'[s] = seen[s],
         sweeping'[s] = sweeping[s], Shown(s)' = Shown(s)
  PROVE  Matches(s)' /\ Sweeps(s)'
<1>1. Key(s, thing[s])' = Key(s, thing[s])
  BY DEF Key, Translated, TranslateSession
<1>2. Pending(s)' = Pending(s)  BY <1>1 DEF Pending, Key
<1>. QED  BY <1>1, <1>2 DEF Matches, Sweeps

\* A session that is over has nothing to lose on the client.
LEMMA OverStays ==
  ASSUME NEW s \in Sessions, Ranges, Matches(s), Sweeps(s), Carried \subseteq Carried', close[s] \in {"absent", "closed"},
         own'[s] = own[s], UNCHANGED <<reader, thing>>, close'[s] = close[s],
         tracked'[s] = tracked[s], sweeping'[s] = sweeping[s], Shown(s)' \subseteq Shown(s)
  PROVE  Matches(s)' /\ Sweeps(s)'
<1>1. Key(s, thing[s])' = Key(s, thing[s])
  BY DEF Key, Translated, TranslateSession
<1>2. Pending(s)' = Pending(s)  BY <1>1 DEF Pending, Key
<1>. QED  BY <1>1, <1>2 DEF Matches, Sweeps, Ranges

\* Steps that neither the sessions' memory nor the client's screen sees.
LEMMA MirrorsStay ==
  ASSUME Mirrors, online' => online, UNCHANGED carried,
         UNCHANGED <<own, close, closeVars, shown, reader, op, thing>>
  PROVE  Mirrors'
<1>. SUFFICES ASSUME online', NEW s \in Sessions PROVE Matches(s)' /\ Sweeps(s)'
  BY DEF Mirrors
<1>1. Shown(s)' = Shown(s)  BY DEF Shown
<1>2. Carried \subseteq Carried'  BY CarriedStays
<1>. QED  BY <1>1, <1>2, SessionStays, Zenon DEF Mirrors, closeVars

\* A Close begins: the connection is gone before it.
LEMMA BegunKeeps ==
  ASSUME TypeOK, Ranges, Mirrors, online' => online, UNCHANGED carried, NEW v \in Sessions, close' = CloseBegun(v),
         UNCHANGED <<own, closeVars, shown, op, thing>>,
         \A s \in Sessions : reader'[s] = "write" <=> reader[s] = "write"
  PROVE  /\ Mirrors' /\ Ranges'
         /\ \A s \in Sessions : close'[s] = close[s] \/ (s = v /\ close[s] = "open" /\ close'[s] = "online")
         /\ close' \in [Sessions -> {"absent", "open", "online", "sweep", "closed"}]
<1>1. /\ \A s \in Sessions : close'[s] = close[s] \/ (s = v /\ close[s] = "open" /\ close'[s] = "online")
      /\ close' \in [Sessions -> {"absent", "open", "online", "sweep", "closed"}]
  BY DEF TypeOK, CloseBegun
<1>2. Ranges'  BY <1>1 DEF Ranges, closeVars
<1>3. ASSUME online', NEW s \in Sessions  PROVE Matches(s)' /\ Sweeps(s)'
  <2>1. Shown(s)' = Shown(s)  BY DEF Shown
  <2>2. Matches(s) /\ Sweeps(s)  BY <1>3 DEF Mirrors
  <2>3. Key(s, thing[s])' = Key(s, thing[s])  BY DEF Key, Translated, TranslateSession
  <2>4. Pending(s)' = Pending(s)  BY <2>3 DEF Pending, Key
  <2>5. Carried' = Carried  BY CarriedStays
  <2>. QED  BY <1>1, <2>1, <2>2, <2>3, <2>4, <2>5 DEF Matches, Sweeps, closeVars
<1>. QED  BY <1>1, <1>2, <1>3 DEF Mirrors

-----------------------------------------------------------------------------
(* The reader of a backend. *)

LEMMA CarriesKeeps ==
  ASSUME TypeOK, NEW s \in Sessions, NEW t \in Things, Carries(s, t)
  PROVE  /\ carried' \in [Sessions -> SUBSET Things]
         /\ Carried \subseteq Carried'
         /\ close[s] # "open" => Translated(s, t) \in Carried'
<1>1. Translated(s, t) \in Things  BY KeyIsThing
<1>2. /\ carried' \in [Sessions -> SUBSET Things]
      /\ \A r \in Sessions : carried[r] \subseteq carried'[r]
      /\ close[s] # "open" => Translated(s, t) \in carried'[s]
  <2>. DEFINE k == Translated(s, t)
  <2>. HIDE DEF k
  <2>. QED  BY <1>1 DEF Carries, TypeOK, k
<1>. QED  BY <1>2 DEF Carried

LEMMA ReadBackendKeeps ==
  ASSUME IInv, NEW s \in Sessions, ReadBackend(s)
  PROVE  IInv'
<1>. USE DEF IInv
<1>1. /\ reader[s] = "read" /\ reader' = [reader EXCEPT ![s] = "write"] /\ connected[s]
      /\ UNCHANGED <<online, current, own, connected, open, close, due, seen, sweeping, shown,
                     clientVars>>
  BY DEF ReadBackend
<1>2. PICK o \in {"add", "remove"}, t \in Things :
        /\ op' = [op EXCEPT ![s] = o] /\ thing' = [thing EXCEPT ![s] = t]
        /\ tracked' = [tracked EXCEPT ![s] =
                         IF o = "add" THEN @ \cup {Key(s, t)} ELSE @ \ {Key(s, t)}]
        /\ Carries(s, t)
  BY DEF ReadBackend
<1>3. /\ carried' \in [Sessions -> SUBSET Things]
      /\ Carried \subseteq Carried'
      /\ close[s] # "open" => Key(s, t) \in Carried'
  BY <1>2, KeyIsThing, CarriesKeeps
<1>4. TypeOK'
  <2>. DEFINE k == Key(s, t)
  <2>1. k \in Things  BY KeyIsThing
  <2>. HIDE DEF k
  <2>. QED  BY <1>1, <1>2, <1>3, <2>1 DEF TypeOK, clientVars, k
<1>5. OneAfterAnother' /\ InOrder' /\ Ranges'
  BY <1>1 DEF TypeOK, OneAfterAnother, InOrder, Ranges, clientVars
<1>6. ASSUME online', NEW r \in Sessions  PROVE Matches(r)' /\ Sweeps(r)'
  <2>1. Shown(r)' = Shown(r)  BY <1>1 DEF Shown
  <2>2. Matches(r) /\ Sweeps(r)  BY <1>1, <1>6 DEF Mirrors
  <2>3. CASE r # s
    <3>1. /\ reader'[r] = reader[r] /\ op'[r] = op[r] /\ thing'[r] = thing[r]
          /\ tracked'[r] = tracked[r]
      BY <1>1, <1>2, <2>3 DEF TypeOK
    <3>. QED  BY <1>1, <1>3, <2>1, <2>2, <3>1, SessionStays
  <2>4. CASE r = s
    <3>1. reader'[s] = "write" /\ op'[s] = o /\ thing'[s] = t  BY <1>1, <1>2 DEF TypeOK
    <3>2. Key(s, thing[s])' = Key(s, t)
      BY <1>1, <3>1 DEF Key, Translated, TranslateSession
    <3>. DEFINE k == Key(s, t)
    <3>3. Pending(s)' = {k} /\ Pending(s) = {}  BY <1>1, <3>1, <3>2 DEF Pending, Key
    <3>4. tracked'[s] = IF o = "add" THEN tracked[s] \cup {k} ELSE tracked[s] \ {k}
      BY <1>2 DEF TypeOK
    <3>5. close[s] # "open" => k \in Carried'  BY <1>3
    <3>. HIDE DEF k
    <3>6. close[s] = "open" => sweeping[s] = {}  BY DEF Ranges
    <3>7. Matches(s)'
      BY <1>1, <1>3, <2>1, <2>2, <2>4, <3>1, <3>2, <3>3, <3>4, <3>5, <3>6 DEF Matches, k
    <3>8. Sweeps(s)'  BY <1>1, <1>3, <2>2, <2>4, <3>4, <3>5 DEF Sweeps
    <3>. QED  BY <2>4, <3>7, <3>8
  <2>. QED  BY <2>3, <2>4
<1>. QED  BY <1>4, <1>5, <1>6 DEF Mirrors

LEMMA WriteClientKeeps ==
  ASSUME IInv, NEW s \in Sessions, WriteClient(s)
  PROVE  IInv'
<1>. USE DEF IInv
<1>. DEFINE k == Key(s, thing[s])
<1>1. /\ reader[s] = "write" /\ reader' = [reader EXCEPT ![s] = "read"]
      /\ shown' = [shown EXCEPT ![k] = IF op[s] = "add" THEN s ELSE 0]
      /\ op' = [op EXCEPT ![s] = "add"] /\ thing' = [thing EXCEPT ![s] = <<"actor", 1>>]
      /\ Carries(s, thing[s]) /\ thing[s] \in Things
      /\ UNCHANGED <<online, current, own, connected, open, close, closeVars, clientVars>>
      /\ k \in Things
  BY KeyIsThing DEF WriteClient, TypeOK
<1>. HIDE DEF k
<1>2. /\ carried' \in [Sessions -> SUBSET Things]
      /\ Carried \subseteq Carried'
      /\ close[s] # "open" => k \in Carried'
  BY <1>1, KeyIsThing, CarriesKeeps DEF k
<1>3. TypeOK'
  <2>1. s \in 0 .. MaxSessions /\ 0 \in 0 .. MaxSessions  BY ForwardingAssumption DEF Sessions
  <2>2. shown' \in [Things -> 0 .. MaxSessions]  BY <1>1, <2>1 DEF TypeOK
  <2>3. thing' \in [Sessions -> Things]  BY <1>1, SessionNumbers DEF TypeOK
  <2>. QED  BY <1>1, <1>2, <2>2, <2>3 DEF TypeOK, closeVars, clientVars
<1>4. OneAfterAnother' /\ InOrder' /\ Ranges'
  BY <1>1 DEF TypeOK, OneAfterAnother, InOrder, Ranges, closeVars, clientVars
<1>5. ASSUME online', NEW r \in Sessions  PROVE Matches(r)' /\ Sweeps(r)'
  <2>1. Matches(r) /\ Sweeps(r)  BY <1>1, <1>5 DEF Mirrors
  <2>2. CASE r # s
    <3>1. Shown(r)' = Shown(r) \ {k}
      BY <1>1, <2>2, SessionNumbers DEF TypeOK, Shown
    <3>2. thing'[r] = thing[r] /\ reader'[r] = reader[r] /\ op'[r] = op[r]
      BY <1>1, <2>2 DEF TypeOK
    <3>3. Key(r, thing[r])' = Key(r, thing[r])
      BY <1>1, <3>2 DEF Key, Translated, TranslateSession
    <3>4. Pending(r)' = Pending(r)  BY <3>2, <3>3 DEF Pending, Key
    <3>5. close[s] = "open" => tracked[r] \subseteq Carried
      BY <2>1, <2>2, ClosingIsCurrent DEF Sweeps
    <3>6. Matches(r)'
      BY <1>1, <1>2, <2>1, <3>1, <3>2, <3>3, <3>4, <3>5 DEF Matches, closeVars
    <3>7. Sweeps(r)'  BY <1>1, <1>2, <2>1 DEF Sweeps, closeVars
    <3>. QED  BY <3>6, <3>7
  <2>3. CASE r = s
    <3>1. Pending(s) = {k} /\ Pending(s)' = {} /\ reader'[s] = "read"
      BY <1>1 DEF Pending, Key, TypeOK, k
    <3>2. Shown(s)' = IF op[s] = "add" THEN Shown(s) \cup {k} ELSE Shown(s) \ {k}
      BY <1>1, SessionNumbers DEF TypeOK, Shown
    <3>3. close[s] = "open" => sweeping[s] = {} /\ (op[s] = "add" <=> k \in tracked[s])
      BY <1>1, <2>1, <2>3 DEF Matches, Ranges, k
    <3>4. Matches(s)'
      BY <1>1, <1>2, <2>1, <2>3, <3>1, <3>2, <3>3 DEF Matches, closeVars
    <3>5. Sweeps(s)'  BY <1>1, <1>2, <2>1, <2>3 DEF Sweeps, closeVars
    <3>. QED  BY <2>3, <3>4, <3>5
  <2>. QED  BY <2>2, <2>3
<1>. QED  BY <1>3, <1>4, <1>5 DEF Mirrors

LEMMA ReaderEndsKeeps ==
  ASSUME IInv, NEW s \in Sessions, ReaderEnds(s)
  PROVE  IInv'
<1>. USE DEF IInv
<1>1. /\ reader[s] = "read" /\ reader' = [reader EXCEPT ![s] = "end"]
      /\ ~open[s] /\ close' = CloseBegun(s)
      /\ UNCHANGED <<online, current, own, connected, open, closeVars, carried, op, thing, shown,
                     clientVars>>
  BY DEF ReaderEnds
<1>2. connected[s]  BY DEF ReaderEnds
<1>3. \A r \in Sessions : reader'[r] = "write" <=> reader[r] = "write"
  BY <1>1 DEF TypeOK
<1>4. /\ Mirrors' /\ Ranges'
      /\ \A r \in Sessions : close'[r] = close[r] \/ (r = s /\ close[r] = "open" /\ close'[r] = "online")
      /\ close' \in [Sessions -> {"absent", "open", "online", "sweep", "closed"}]
  BY <1>1, <1>3, BegunKeeps
<1>5. TypeOK'  BY <1>1, <1>4 DEF TypeOK, closeVars, clientVars
<1>6. OneAfterAnother'
  <2>1. close'[s] # "absent"  BY <1>2, <1>4 DEF OneAfterAnother
  <2>. QED  BY <1>1, <1>4, <2>1 DEF TypeOK, OneAfterAnother
<1>7. InOrder'  BY <1>1 DEF InOrder, clientVars
<1>. QED  BY <1>4, <1>5, <1>6, <1>7

-----------------------------------------------------------------------------
(* Close. *)

LEMMA CloseConnKeeps ==
  ASSUME IInv, NEW s \in Sessions, CloseConn(s)
  PROVE  IInv'
<1>. USE DEF IInv
<1>1. /\ close[s] = "open" /\ close' = CloseBegun(s) /\ open' = [open EXCEPT ![s] = FALSE]
      /\ UNCHANGED <<online, current, own, connected, closeVars, carried, readerVars, shown,
                     clientVars>>
  BY DEF CloseConn
<1>2. /\ Mirrors' /\ Ranges'
      /\ \A r \in Sessions : close'[r] = close[r] \/ (r = s /\ close[r] = "open" /\ close'[r] = "online")
      /\ close' \in [Sessions -> {"absent", "open", "online", "sweep", "closed"}]
  BY <1>1, BegunKeeps DEF readerVars
<1>3. TypeOK'  BY <1>1, <1>2 DEF TypeOK, closeVars, readerVars, clientVars
<1>4. OneAfterAnother'  BY <1>1, <1>2 DEF TypeOK, OneAfterAnother, readerVars
<1>5. InOrder'  BY <1>1 DEF InOrder, clientVars
<1>. QED  BY <1>2, <1>3, <1>4, <1>5

LEMMA CloseOnlineKeeps ==
  ASSUME IInv, NEW s \in Sessions, CloseOnline(s)
  PROVE  IInv'
<1>. USE DEF IInv
<1>1. /\ close[s] = "online"
      /\ close' = [close EXCEPT ![s] = IF online THEN "sweep" ELSE "closed"]
      /\ due' = IF online THEN [due EXCEPT ![s] = tracked[s]] ELSE due
      /\ connected' = IF online THEN connected ELSE [connected EXCEPT ![s] = TRUE]
      /\ UNCHANGED <<online, current, own, open, tracked, seen, sweeping, carried, readerVars,
                     shown, clientVars>>
  BY DEF CloseOnline, Closed
<1>2. TypeOK'  BY <1>1 DEF TypeOK, readerVars, clientVars
<1>3. OneAfterAnother'  BY <1>1 DEF TypeOK, OneAfterAnother, readerVars
<1>4. InOrder' /\ Ranges'  BY <1>1 DEF TypeOK, InOrder, Ranges, clientVars
<1>5. ASSUME online', NEW r \in Sessions  PROVE Matches(r)' /\ Sweeps(r)'
  <2>0. Carried' = Carried  BY <1>1, CarriedStays
  <2>1. online  BY <1>1, <1>5
  <2>2. Matches(r) /\ Sweeps(r)  BY <2>1 DEF Mirrors
  <2>3. Shown(r)' = Shown(r)  BY <1>1 DEF Shown
  <2>4. CASE r # s
    <3>1. close'[r] = close[r] /\ due'[r] = due[r]  BY <1>1, <2>4 DEF TypeOK
    <3>. QED  BY <1>1, <2>2, <2>3, <3>1, <2>0, SessionStays DEF readerVars
  <2>5. CASE r = s
    <3>1. close'[s] = "sweep"  BY <1>1, <2>1 DEF TypeOK
    <3>2. tracked[s] \subseteq due'[s] /\ seen[s] = {}
      BY <1>1, <2>1 DEF Ranges, TypeOK
    <3>3. Key(s, thing[s])' = Key(s, thing[s])
      BY <1>1 DEF Key, Translated, TranslateSession, readerVars
    <3>4. Pending(s)' = Pending(s)  BY <1>1, <3>3 DEF Pending, Key, readerVars
    <3>. QED  BY <2>0, <1>1, <2>2, <2>3, <2>5, <3>1, <3>2, <3>4 DEF Matches, Sweeps
  <2>. QED  BY <2>4, <2>5
<1>. QED  BY <1>2, <1>3, <1>4, <1>5 DEF Mirrors

LEMMA SweepWriteKeeps ==
  ASSUME IInv, NEW s \in Sessions, SweepWrite(s)
  PROVE  IInv'
<1>. USE DEF IInv
<1>1. PICK t \in tracked[s] \ seen[s] :
        /\ shown' = [shown EXCEPT ![t] = 0]
        /\ seen' = [seen EXCEPT ![s] = @ \cup {t}]
        /\ sweeping' = [sweeping EXCEPT ![s] = @ \cup {t}]
  BY DEF SweepWrite
<1>2. /\ close[s] = "sweep" /\ t \in Things
      /\ UNCHANGED <<online, current, own, connected, open, close, tracked, due, carried,
                     readerVars, clientVars>>
  BY DEF SweepWrite, TypeOK
<1>3. TypeOK'
  <2>1. 0 \in 0 .. MaxSessions  BY ForwardingAssumption
  <2>2. shown' \in [Things -> 0 .. MaxSessions]  BY <1>1, <2>1 DEF TypeOK
  <2>3. /\ seen' \in [Sessions -> SUBSET Things] /\ sweeping' \in [Sessions -> SUBSET Things]
        /\ \A r \in Sessions : sweeping'[r] \subseteq seen'[r]
    BY <1>1, <1>2 DEF TypeOK
  <2>. QED  BY <1>2, <2>2, <2>3 DEF TypeOK, readerVars, clientVars
<1>4. OneAfterAnother' /\ InOrder' /\ Ranges'
  BY <1>1, <1>2 DEF TypeOK, OneAfterAnother, InOrder, Ranges, readerVars, clientVars
<1>5. ASSUME online', NEW r \in Sessions  PROVE Matches(r)' /\ Sweeps(r)'
  <2>0. Carried' = Carried  BY <1>2, CarriedStays
  <2>1. Matches(r) /\ Sweeps(r)  BY <1>2, <1>5 DEF Mirrors
  <2>2. Shown(r)' = Shown(r) \ {t}
    BY <1>1, <1>2, SessionNumbers DEF TypeOK, Shown
  <2>3. Key(r, thing[r])' = Key(r, thing[r])
    BY <1>2 DEF Key, Translated, TranslateSession, readerVars
  <2>4. Pending(r)' = Pending(r)  BY <1>2, <2>3 DEF Pending, Key, readerVars
  <2>5. CASE r # s
    <3>1. close[r] \in {"absent", "closed"}
      BY <1>2, <2>5, ClosingIsCurrent
    <3>2. seen'[r] = seen[r] /\ sweeping'[r] = sweeping[r]
      BY <1>1, <2>5 DEF TypeOK
    <3>. QED  BY <2>0, <1>2, <2>1, <2>2, <2>4, <3>1, <3>2 DEF Matches, Sweeps, Ranges
  <2>6. CASE r = s
    <3>1. seen'[s] = seen[s] \cup {t} /\ sweeping'[s] = sweeping[s] \cup {t}
      BY <1>1 DEF TypeOK
    <3>2. Matches(r)'  BY <2>0, <1>2, <2>1, <2>2, <2>4, <2>6, <3>1 DEF Matches
    <3>3. Sweeps(r)'  BY <2>0, <1>2, <2>1, <2>6, <3>1 DEF Sweeps
    <3>. QED  BY <3>2, <3>3
  <2>. QED  BY <2>5, <2>6
<1>. QED  BY <1>3, <1>4, <1>5 DEF Mirrors

LEMMA SweepDeleteKeeps ==
  ASSUME IInv, NEW s \in Sessions, SweepDelete(s)
  PROVE  IInv'
<1>. USE DEF IInv
<1>1. PICK t \in sweeping[s] :
        /\ tracked' = [tracked EXCEPT ![s] = @ \ {t}]
        /\ sweeping' = [sweeping EXCEPT ![s] = @ \ {t}]
  BY DEF SweepDelete
<1>2. /\ close[s] = "sweep"
      /\ UNCHANGED <<online, current, own, connected, open, close, due, seen, carried, readerVars,
                     shown, clientVars>>
  BY DEF SweepDelete
<1>3. TypeOK'
  <2>1. /\ tracked' \in [Sessions -> SUBSET Things] /\ sweeping' \in [Sessions -> SUBSET Things]
        /\ \A r \in Sessions : sweeping'[r] \subseteq seen[r]
    BY <1>1 DEF TypeOK
  <2>. QED  BY <1>2, <2>1 DEF TypeOK, readerVars, clientVars
<1>4. OneAfterAnother' /\ InOrder' /\ Ranges'
  BY <1>1, <1>2 DEF TypeOK, OneAfterAnother, InOrder, Ranges, readerVars, clientVars
<1>5. ASSUME online', NEW r \in Sessions  PROVE Matches(r)' /\ Sweeps(r)'
  <2>0. Carried' = Carried  BY <1>2, CarriedStays
  <2>1. Matches(r) /\ Sweeps(r)  BY <1>2, <1>5 DEF Mirrors
  <2>2. Shown(r)' = Shown(r)  BY <1>2 DEF Shown
  <2>3. CASE r # s
    <3>1. tracked'[r] = tracked[r] /\ sweeping'[r] = sweeping[r]
      BY <1>1, <2>3 DEF TypeOK
    <3>. QED  BY <1>2, <2>1, <2>2, <3>1, <2>0, SessionStays DEF readerVars
  <2>4. CASE r = s
    <3>1. tracked'[s] = tracked[s] \ {t} /\ sweeping'[s] = sweeping[s] \ {t}
      BY <1>1 DEF TypeOK
    <3>2. Key(s, thing[s])' = Key(s, thing[s])
      BY <1>2 DEF Key, Translated, TranslateSession, readerVars
    <3>3. Pending(s)' = Pending(s)  BY <1>2, <3>2 DEF Pending, Key, readerVars
    <3>4. Matches(r)'  BY <2>0, <1>2, <2>1, <2>2, <2>4, <3>1, <3>3 DEF Matches
    <3>5. Sweeps(r)'  BY <2>0, <1>2, <2>1, <2>4, <3>1 DEF Sweeps
    <3>. QED  BY <3>4, <3>5
  <2>. QED  BY <2>3, <2>4
<1>. QED  BY <1>3, <1>4, <1>5 DEF Mirrors

LEMMA SweptKeeps ==
  ASSUME IInv, NEW s \in Sessions, Swept(s)
  PROVE  IInv'
<1>. USE DEF IInv
<1>1. /\ close[s] = "sweep" /\ sweeping[s] = {} /\ due[s] \cap tracked[s] \subseteq seen[s]
      /\ close' = [close EXCEPT ![s] = "closed"]
      /\ connected' = [connected EXCEPT ![s] = TRUE]
      /\ due' = [due EXCEPT ![s] = {}] /\ seen' = [seen EXCEPT ![s] = {}]
      /\ UNCHANGED <<online, current, own, open, tracked, sweeping, carried, readerVars, shown,
                     clientVars>>
  BY DEF Swept, Closed
<1>2. TypeOK'
  <2>1. /\ due' \in [Sessions -> SUBSET Things] /\ seen' \in [Sessions -> SUBSET Things]
        /\ \A r \in Sessions : sweeping[r] \subseteq seen'[r]
    BY <1>1 DEF TypeOK
  <2>. QED  BY <1>1, <2>1 DEF TypeOK, readerVars, clientVars
<1>3. OneAfterAnother' /\ InOrder' /\ Ranges'
  BY <1>1 DEF TypeOK, OneAfterAnother, InOrder, Ranges, readerVars, clientVars
<1>4. ASSUME online', NEW r \in Sessions  PROVE Matches(r)' /\ Sweeps(r)'
  <2>0. Carried' = Carried  BY <1>1, CarriedStays
  <2>1. Matches(r) /\ Sweeps(r)  BY <1>1, <1>4 DEF Mirrors
  <2>2. Shown(r)' = Shown(r)  BY <1>1 DEF Shown
  <2>3. CASE r # s
    <3>1. close'[r] = close[r] /\ due'[r] = due[r] /\ seen'[r] = seen[r]
      BY <1>1, <2>3 DEF TypeOK
    <3>. QED  BY <1>1, <2>1, <2>2, <3>1, <2>0, SessionStays DEF readerVars
  <2>4. CASE r = s
    <3>1. tracked[s] \subseteq Carried  BY <2>0, <1>1, <2>1, <2>4 DEF Sweeps
    <3>2. Key(s, thing[s])' = Key(s, thing[s])
      BY <1>1 DEF Key, Translated, TranslateSession, readerVars
    <3>3. Pending(s)' = Pending(s)  BY <1>1, <3>2 DEF Pending, Key, readerVars
    <3>4. close'[s] = "closed"  BY <1>1 DEF TypeOK
    <3>. QED  BY <2>0, <1>1, <2>1, <2>2, <2>4, <3>1, <3>3, <3>4 DEF Matches, Sweeps
  <2>. QED  BY <2>3, <2>4
<1>. QED  BY <1>2, <1>3, <1>4 DEF Mirrors

-----------------------------------------------------------------------------
(* The sessions follow each other; the client. *)

LEMMA InstallKeeps == ASSUME IInv, Install PROVE IInv'
<1>. USE DEF IInv
<1>. DEFINE n == current + 1
<1>1. PICK id \in Ids : own' = [own EXCEPT ![n] = id]
  BY DEF Install
<1>2. /\ current < MaxSessions /\ close[current] = "closed" /\ current' = n
      /\ close' = [close EXCEPT ![n] = "open"] /\ open' = [open EXCEPT ![n] = TRUE]
      /\ UNCHANGED <<online, connected, closeVars, carried, readerVars, shown, clientVars>>
  BY DEF Install, Evicted, Installed
<1>3. n \in Sessions /\ current \in Sessions /\ \A s \in Sessions : s \in Nat /\ (s > n <=> s > current /\ s # n)
  BY <1>2, ForwardingAssumption DEF TypeOK, Sessions
<1>4. close[n] = "absent"  BY <1>3 DEF TypeOK
<1>5. TypeOK'
  <2>1. \A s \in Sessions : close'[s] = "absent" <=> s > n
    BY <1>2, <1>3 DEF TypeOK
  <2>2. /\ own' \in [Sessions -> Ids] /\ open' \in [Sessions -> BOOLEAN]
        /\ close' \in [Sessions -> {"absent", "open", "online", "sweep", "closed"}]
    BY <1>1, <1>2, <1>3 DEF TypeOK
  <2>. QED  BY <1>2, <1>3, <2>1, <2>2 DEF TypeOK, closeVars, readerVars, clientVars
<1>6. OneAfterAnother'
  <2>. SUFFICES ASSUME NEW s \in Sessions
                PROVE  /\ s < n => close'[s] = "closed"
                       /\ open'[s] => close'[s] = "open"
                       /\ close'[s] = "absent" => ~connected[s] /\ reader[s] = "read"
    BY <1>2 DEF OneAfterAnother, readerVars
  <2>1. CASE s = n  BY <1>2, <1>3, <2>1 DEF TypeOK
  <2>2. CASE s # n
    <3>1. close'[s] = close[s] /\ open'[s] = open[s]  BY <1>2, <2>2 DEF TypeOK
    <3>2. s < n => s < current \/ s = current  BY <1>3
    <3>. QED  BY <1>2, <3>1, <3>2 DEF OneAfterAnother
  <2>. QED  BY <2>1, <2>2
<1>7. InOrder'  BY <1>2, <1>3, SessionNumbers DEF InOrder, clientVars, TypeOK
<1>8. Ranges'  BY <1>2, <1>4 DEF TypeOK, Ranges, closeVars
<1>9. ASSUME online', NEW r \in Sessions  PROVE Matches(r)' /\ Sweeps(r)'
  <2>0. Carried' = Carried  BY <1>2, CarriedStays
  <2>1. Matches(r) /\ Sweeps(r)  BY <1>2, <1>9 DEF Mirrors
  <2>2. Shown(r)' = Shown(r)  BY <1>2 DEF Shown
  <2>3. CASE r # n
    <3>1. close'[r] = close[r] /\ own'[r] = own[r]
      BY <1>1, <1>2, <2>3 DEF TypeOK
    <3>. QED  BY <1>2, <2>1, <2>2, <3>1, <2>0, SessionStays DEF closeVars, readerVars
  <2>4. CASE r = n
    <3>1. reader[r] = "read" /\ close'[r] = "open"
      BY <1>2, <1>3, <1>4, <2>4 DEF TypeOK, OneAfterAnother
    <3>2. Pending(r)' = {} /\ Pending(r) = {}  BY <1>2, <3>1 DEF Pending, Key, readerVars
    <3>. QED  BY <2>0, <1>2, <2>1, <2>2, <2>4, <3>1, <3>2 DEF Matches, Sweeps, closeVars, readerVars
  <2>. QED  BY <2>3, <2>4
<1>. QED  BY <1>5, <1>6, <1>7, <1>8, <1>9 DEF Mirrors

LEMMA SetConnectedKeeps == ASSUME IInv, SetConnected PROVE IInv'
<1>. USE DEF IInv
<1>1. /\ connected' = [connected EXCEPT ![current] = TRUE]
      /\ UNCHANGED <<online, current, own, open, close, closeVars, carried, readerVars, shown,
                     clientVars>>
  BY DEF SetConnected
<1>2. TypeOK'  BY <1>1 DEF TypeOK, closeVars, readerVars, clientVars
<1>3. close[current] # "absent"  BY SessionNumbers DEF TypeOK
<1>4. OneAfterAnother'  BY <1>1, <1>3 DEF TypeOK, OneAfterAnother, readerVars
<1>5. InOrder' /\ Ranges'  BY <1>1 DEF InOrder, Ranges, closeVars, clientVars
<1>6. Mirrors'  BY <1>1, MirrorsStay DEF readerVars
<1>. QED  BY <1>2, <1>4, <1>5, <1>6

\* The steps that say nothing of the sessions but whether they have a connection.
LEMMA OutsideKeeps ==
  ASSUME IInv, (\E s \in Sessions : BackendLost(s)) \/ Offline
                 \/ ReadClient \/ TranslateClient \/ PassClient \/ UNCHANGED vars
  PROVE  IInv'
<1>. USE DEF IInv
<1>1. /\ UNCHANGED <<current, own, connected, close, closeVars, carried, readerVars, shown>>
      /\ open' \in [Sessions -> BOOLEAN] /\ \A s \in Sessions : open'[s] => open[s]
      /\ online' \in BOOLEAN /\ (online' => online)
      /\ \/ UNCHANGED clientVars
         \/ client = "read" /\ client' = "translate" /\ dest' = current /\ via' = via
         \/ client = "translate" /\ client' = "write" /\ dest' = dest /\ via' \in {current, via}
  <2>1. CASE \E s \in Sessions : BackendLost(s)  BY <2>1 DEF BackendLost, TypeOK
  <2>2. CASE Offline  BY <2>2 DEF Offline, TypeOK
  <2>3. CASE ReadClient  BY <2>3 DEF ReadClient, TypeOK
  <2>4. CASE TranslateClient  BY <2>4 DEF TranslateClient, TypeOK
  <2>5. CASE PassClient  BY <2>5 DEF PassClient, TypeOK
  <2>6. CASE UNCHANGED vars  BY <2>6 DEF vars, TypeOK
  <2>. QED  BY <2>1, <2>2, <2>3, <2>4, <2>5, <2>6
<1>2. current \in 0 .. MaxSessions /\ current \in Sessions
  BY ForwardingAssumption DEF TypeOK, Sessions
<1>3. TypeOK'
  <2>1. /\ client' \in {"read", "translate", "write"} /\ dest' \in 0 .. MaxSessions
        /\ via' \in 0 .. MaxSessions
    BY <1>1, <1>2 DEF TypeOK, clientVars
  <2>. QED  BY <1>1, <2>1 DEF TypeOK, closeVars, readerVars
<1>4. OneAfterAnother'  BY <1>1 DEF OneAfterAnother, readerVars
<1>5. InOrder'  BY <1>1, <1>2, SessionNumbers DEF InOrder, clientVars
<1>6. Ranges'  BY <1>1 DEF Ranges, closeVars
<1>7. Mirrors'  BY <1>1, MirrorsStay DEF readerVars
<1>. QED  BY <1>3, <1>4, <1>5, <1>6, <1>7

LEMMA WriteBackendKeeps == ASSUME IInv, WriteBackend PROVE IInv'
<1>. USE DEF IInv
<1>1. /\ client = "write" /\ client' = "read" /\ dest' = 0 /\ via' = 0
      /\ close' = IF open[dest] THEN close ELSE CloseBegun(dest)
      /\ UNCHANGED <<online, current, own, connected, open, closeVars, carried, readerVars, shown>>
  BY DEF WriteBackend
<1>2. dest \in Sessions  BY <1>1, ForwardingAssumption DEF TypeOK, InOrder, Sessions
<1>3. InOrder'  BY <1>1 DEF InOrder
<1>4. CASE open[dest]
  <2>1. Mirrors'  BY <1>1, <1>4, MirrorsStay DEF readerVars
  <2>2. TypeOK'
    BY <1>1, <1>4, ForwardingAssumption DEF TypeOK, closeVars, readerVars
  <2>3. OneAfterAnother' /\ Ranges'
    BY <1>1, <1>4 DEF OneAfterAnother, Ranges, closeVars, readerVars
  <2>. QED  BY <1>3, <2>1, <2>2, <2>3
<1>5. CASE ~open[dest]
  <2>1. /\ Mirrors' /\ Ranges'
        /\ \A r \in Sessions : close'[r] = close[r] \/ (r = dest /\ close[r] = "open" /\ close'[r] = "online")
        /\ close' \in [Sessions -> {"absent", "open", "online", "sweep", "closed"}]
    BY <1>1, <1>2, <1>5, BegunKeeps DEF readerVars
  <2>2. TypeOK'
    BY <1>1, <2>1, ForwardingAssumption DEF TypeOK, closeVars, readerVars
  <2>3. OneAfterAnother'  BY <1>1, <1>5, <2>1 DEF TypeOK, OneAfterAnother, readerVars
  <2>. QED  BY <1>3, <2>1, <2>2, <2>3
<1>. QED  BY <1>4, <1>5

-----------------------------------------------------------------------------
LEMMA StepKeepsIInv == IInv /\ [Next]_vars => IInv'
<1>. SUFFICES ASSUME IInv, [Next]_vars PROVE IInv'  OBVIOUS
<1>1. ASSUME NEW s \in Sessions, Reader(s)  PROVE IInv'
  BY <1>1, ReadBackendKeeps, WriteClientKeeps, ReaderEndsKeeps DEF Reader
<1>2. ASSUME NEW s \in Sessions, Close(s)  PROVE IInv'
  BY <1>2, CloseConnKeeps, CloseOnlineKeeps, SweepWriteKeeps, SweepDeleteKeeps, SweptKeeps
  DEF Close
<1>. QED
  BY <1>1, <1>2, InstallKeeps, SetConnectedKeeps, OutsideKeeps, WriteBackendKeeps DEF Next

LEMMA Invariance == Spec => []IInv
<1>. QED  BY InitIInv, StepKeepsIInv, PTL DEF Spec

\* ForwardingTyped: the sessions up to the current one exist, and what they
\* remember are things of the client (session.go:87-172, player.go:142-156).
THEOREM ForwardingTyped == Spec => []TypeOK
<1>1. IInv => TypeOK  BY DEF IInv
<1>. QED  BY <1>1, Invariance, PTL

\* ClientMirrored: what a session remembers of entities and scoreboards is what the
\* client shows of it, and when Close has returned and the player is there the client
\* shows nothing of it, but for the things of packets that a reader carried across
\* the Close of its session (session.go:87-238, 281-326).
THEOREM ClientMirrored == Spec => []Mirrored
<1>1. IInv => Mirrored
  <2>. SUFFICES ASSUME IInv, online, NEW s \in Sessions, NEW t \in Things,
                       t \notin Pending(s), t \notin sweeping[s], t \notin Carried
                PROVE  /\ shown[t] = s <=> t \in tracked[s]
                       /\ close[s] = "closed" => shown[t] # s
    BY DEF Mirrored, Carried
  <2>1. Matches(s) /\ Sweeps(s)  BY DEF IInv, Mirrors
  <2>2. t \in Shown(s) <=> t \in tracked[s]  BY <2>1 DEF Matches
  <2>3. close[s] = "closed" => t \notin tracked[s]  BY <2>1 DEF Sweeps
  <2>. QED  BY <2>2, <2>3 DEF Shown
<1>. QED  BY <1>1, Invariance, PTL

\* EntityNamedRight: a packet of the client that reaches a backend is translated to
\* the IDs of that backend, though the destination and the translation ask for the
\* session one after the other; one that session.Packet has no case for, as an attack,
\* names the right entity unless it is the player or has the client's ID there
\* (player.go:58-66, 116-132, session.go:87-238).
THEOREM EntityNamedRight == Spec => []RightEntity
<1>1. IInv => RightEntity
  <2>. SUFFICES ASSUME IInv, client = "write", open[dest], NEW id \in Ids
                PROVE  TranslateSession(dest, Sent(id)) = id \/ (via = 0 /\ id \in {1, own[dest]})
    BY DEF RightEntity
  <2>1. /\ 1 <= dest /\ dest <= current /\ dest \in Sessions
        /\ via # 0 => dest <= via /\ via <= current
        /\ dest \in Int /\ via \in Int /\ current \in Int
    BY ForwardingAssumption DEF IInv, InOrder, TypeOK, Sessions
  <2>2. dest = current
    BY <2>1, ClosingIsCurrent DEF IInv, OneAfterAnother
  <2>3. own[dest] \in Ids  BY <2>1 DEF IInv, TypeOK
  <2>4. CASE via = 0
    BY <2>4 DEF Sent, TranslateSession, Swap
  <2>5. CASE via # 0
    <3>1. via = dest  BY <2>1, <2>2, <2>5
    <3>. QED  BY <2>3, <2>5, <3>1, SwapBack, SessionNumbers DEF Sent, TranslateSession, TranslatePlayer
  <2>. QED  BY <2>4, <2>5
<1>. QED  BY <1>1, Invariance, PTL
=============================================================================
