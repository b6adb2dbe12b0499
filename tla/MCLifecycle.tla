----------------------------- MODULE MCLifecycle -----------------------------
(* Instance for TLC: every mode, rates of a tick a second, a tick in four     *)
(* seconds and one doubled by scaling, and configurations that are refused.   *)
EXTENDS Lifecycle

Good ==
  [tick_hz |-> 2, time |-> None, contracts |-> TRUE, force_ids |-> TRUE,
   la_cal |-> TRUE, admin |-> TRUE]
WithTime(mode, rate, hz) ==
  [Good EXCEPT !.time = [mode |-> mode, rate |-> rate, simulation_hz |-> hz]]

MCConfigs ==
  {Good, [Good EXCEPT !.admin = FALSE], [Good EXCEPT !.tick_hz = 8],
   WithTime("scaled", 2, None), WithTime("unpaced", 1, 2), WithTime("stepped", 1, 2),
   [Good EXCEPT !.tick_hz = None], [WithTime("realtime", 1, 2) EXCEPT !.tick_hz = 0],
   WithTime("unpaced", 0, 2), WithTime("scaled", 1, 0),
   [Good EXCEPT !.contracts = FALSE], [Good EXCEPT !.force_ids = FALSE]}
==============================================================================
