---------------------------- MODULE MCSimulation ----------------------------
(* Instance for TLC: an ownship (1), a wingman without waypoints (2) and a  *)
(* fixed site (3).                                                          *)
EXTENDS Simulation

MCFlying == {1, 2}
MCCommanded == {1}
MCCooperating == {1}
==============================================================================
