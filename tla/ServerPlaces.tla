---------------------------- MODULE ServerPlaces ----------------------------
(***************************************************************************)
(* What a remote server promises (session/server.go, kept by               *)
(* remoteserver.go): a visit is one call of Connect with the session it    *)
(* makes.  It takes a place on the server it asks, which Count() tells, and *)
(* gives the place back exactly once, by being refused or by leaving; a    *)
(* player plays in one visit at a time; a server lists a visit after it    *)
(* began to play, and strikes it off after it left.  SessionLifecycle      *)
(* implements this.                                                        *)
(***************************************************************************)
EXTENDS Integers

CONSTANTS
  Visits,    \* <<p, k>>: the k-th visit of player p
  Counting,  \* the servers that count their players
  Elsewhere, \* the servers that do not
  Nowhere    \* the server of a visit that has not begun

VARIABLES
  place,  \* where a visit stands
  host,   \* the server it asked
  taken,  \* what Count() of a counting server tells
  listed  \* the visits PlayerByRuntimeId of the server finds

vars == <<place, host, taken, listed>>

Places == {"none", "asked", "playing", "over", "lost"}

Goto(v, from, next) ==
  /\ place[v] = from
  /\ place' = [place EXCEPT ![v] = next]

\* The count of the visit's server changes by n, if it counts.
Counted(r, n) ==
  taken' = [q \in Counting |-> IF q = r THEN taken[q] + n ELSE taken[q]]

Ask(v) ==
  /\ Goto(v, "none", "asked")
  /\ \E r \in Counting \cup Elsewhere :
       /\ host' = [host EXCEPT ![v] = r]
       /\ Counted(r, 1)
  /\ UNCHANGED listed

\* A visit that a join handler cancels asks nobody.
Cancel(v) ==
  /\ Goto(v, "none", "over")
  /\ UNCHANGED <<host, taken, listed>>

Refuse(v) ==
  /\ Goto(v, "asked", "over")
  /\ Counted(host[v], -1)
  /\ UNCHANGED <<host, listed>>

\* A transfer that cannot spawn keeps its place for ever.
Lose(v) ==
  /\ Goto(v, "asked", "lost")
  /\ UNCHANGED <<host, taken, listed>>

Play(v) ==
  /\ \A w \in Visits : place[w] = "playing" => w[1] # v[1]
  /\ Goto(v, "asked", "playing")
  /\ UNCHANGED <<host, taken, listed>>

Depart(v) ==
  /\ Goto(v, "playing", "over")
  /\ Counted(host[v], -1)
  /\ UNCHANGED <<host, listed>>

\* The end of Connect may come after the visit is over.
List(v) ==
  /\ host[v] \in Counting /\ place[v] \in {"playing", "over"}
  /\ listed' = [listed EXCEPT ![host[v]] = @ \cup {v}]
  /\ UNCHANGED <<place, host, taken>>

Strike(v) ==
  /\ host[v] \in Counting /\ place[v] = "over"
  /\ listed' = [listed EXCEPT ![host[v]] = @ \ {v}]
  /\ UNCHANGED <<place, host, taken>>

Init ==
  /\ place = [v \in Visits |-> "none"]
  /\ host = [v \in Visits |-> Nowhere]
  /\ taken = [r \in Counting |-> 0]
  /\ listed = [r \in Counting |-> {}]

Visit(v) ==
  \/ Ask(v) \/ Cancel(v) \/ Refuse(v) \/ Lose(v) \/ Play(v) \/ Depart(v)
  \/ List(v) \/ Strike(v)

Next == \E v \in Visits : Visit(v)

Spec == Init /\ [][Next]_vars
=============================================================================
