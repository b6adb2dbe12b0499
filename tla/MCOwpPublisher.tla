---------------------------- MODULE MCOwpPublisher ----------------------------
(* Instance for TLC: the ownship and one wingman; a queue that overflows, a   *)
(* position report every two ticks and periodic ones every three.             *)
EXTENDS OwpPublisher
===============================================================================
