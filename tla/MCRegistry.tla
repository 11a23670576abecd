----------------------------- MODULE MCRegistry -----------------------------
(* Instances of Registry: the calls of main.go about joining and leaving, then *)
(* Run's, while two other goroutines add handlers; three connections, two of   *)
(* them with one identity.                                                     *)
EXTENDS Registry, TLC

CONSTANTS c1, c2, c3, i1, i2, mainJoin, mainLeave, run, o1, o2

MCIdentity == c1 :> i1 @@ c2 :> i1 @@ c3 :> i2
MCMain == <<mainJoin, mainLeave, run>>
MCEvent == mainJoin :> "join" @@ mainLeave :> "leave" @@ run :> "leave"
             @@ o1 :> "leave" @@ o2 :> "join"
=============================================================================
