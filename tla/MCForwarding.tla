---------------------------- MODULE MCForwarding ----------------------------
(* Instances of Forwarding.  The order of the objectives does not matter. *)
EXTENDS Forwarding, TLC

MCIds == 1 .. 2

\* Bound: a packet of the client that is under way when the player goes offline is
\* followed no further.
MCBound == online \/ client = "read"
=============================================================================
