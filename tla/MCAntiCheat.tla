---------------------------- MODULE MCAntiCheat -----------------------------
(* Instances of AntiCheat: two places, a long step and a rise apart; a yaw   *)
(* to the west, besides the first one to the south; limits that two          *)
(* observations pass.                                                        *)
EXTENDS AntiCheat

MCPlaces == {[x |-> 0, y |-> 0, z |-> 0], [x |-> 9, y |-> 1, z |-> -3]}
MCYaws == {110}
MCSent == {{}, {"allowFlight"}, {"flying", "allowFlight"}, {"noClip"}}
MCLimit == [fly |-> 20, speed |-> 80, timer |-> 40, killaura |-> 80, autoclicker |-> 160]

\* Bound: packets, calls and ticks together; what comes after the next one is left out.
MCBound == packets + calls + ticks <= 5
=============================================================================
