---------------------------- MODULE MCFlightControl ----------------------------
(* Instance for TLC: three positions and a circuit of two waypoints, a circle   *)
(* of six units, a tolerance of one unit.  Passing waypoint 1 on a heading    *)
(* of 5 makes the next bearing 0: within the tolerance, across north.         *)
EXTENDS FlightControl, TLC

Stick(throttle, aileron, elevator, trim) ==
  [throttle |-> throttle, aileron |-> aileron, elevator |-> elevator, trim |-> trim]

MCPackets ==
  {Stick("above", 1, -1, 1), Stick("at", -1, 0, 1), Stick("below", 0, 0, 0)}
MCPositions == {"east", "west", "off"}
MCBearingTo ==
  "east" :> (0 :> 0 @@ 1 :> 3) @@ "west" :> (0 :> 2 @@ 1 :> 5) @@ "off" :> (0 :> 2 @@ 1 :> 3)
MCNear == {<<"west", 0>>, <<"east", 1>>}
==============================================================================
