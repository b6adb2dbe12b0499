-------------------------------- MODULE Fleet --------------------------------
(***************************************************************************)
(* What the simulation runtime promises to whoever listens to it: a fleet  *)
(* of entities that advances in lock step.  One tick is one atomic step.   *)
(* At every tick each entity that is still heard reports once, an entity   *)
(* that misses one tick is never heard again, and an immortal (fixed)      *)
(* entity is always heard.  Simulation.tla is shown to implement this.     *)
(***************************************************************************)
EXTENDS Naturals

CONSTANTS
  Members,   (* every entity of the scenario                 *)
  Immortal   (* the entities that have no flight model to fail *)

VARIABLES
  tick,      (* ticks completed                               *)
  heard      (* for each entity, the last tick it reported in *)

fleetVars == <<tick, heard>>

Alive == {e \in Members : heard[e] = tick}

FleetInit == tick = 0 /\ heard = [e \in Members |-> 0]

(* The survivors of the tick report; everybody else falls silent.          *)
Advance ==
  \E survivors \in SUBSET Members :
    /\ Immortal \subseteq survivors
    /\ survivors \subseteq Alive
    /\ tick' = tick + 1
    /\ heard' = [e \in Members |-> IF e \in survivors THEN tick + 1 ELSE heard[e]]

FleetSpec == FleetInit /\ [][Advance]_fleetVars
==============================================================================
