-------------------------- MODULE MCFgInterpolation --------------------------
(* Instance for TLC: an aircraft that changes its speed and its turn.         *)
EXTENDS FgInterpolation

MCSpeeds == {1, 2}
MCTurnRates == {-1, 1}
==============================================================================
