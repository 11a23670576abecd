------------------------ MODULE MCSessionLifecycle ------------------------
(* The servers of main.go: the lobby and "one" share an address, "two" is   *)
(* internal.  One player, which connects several times.                     *)
EXTENDS SessionLifecycle, TLC

CONSTANTS lobby, one, two

MCAddress == lobby :> "127.0.0.1:1001" @@ one :> "127.0.0.1:1001" @@ two :> "internal"
============================================================================
