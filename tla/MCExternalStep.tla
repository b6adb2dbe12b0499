---------------------------- MODULE MCExternalStep ----------------------------
(* Instance for TLC: dt is 1.5 us, so that it rounds to 2 us; commands for    *)
(* the first ticks of one timeline, stamped as the server wants them, and     *)
(* commands that are wrong in one field each.                                 *)
EXTENDS ExternalStep

Command(line, tick) ==
  [line |-> line, tick |-> tick, t |-> ((tick - 1) * DtNs) \div NsPerUs + DtUs,
   dt |-> DtUs, epochOk |-> TRUE]

MCCommands ==
  {Command("a", tick) : tick \in 1..4} \cup
  {Command("b", 2),
   [Command("a", 1) EXCEPT !.epochOk = FALSE],
   [Command("a", 2) EXCEPT !.t = @ + 1],
   [Command("a", 1) EXCEPT !.dt = @ + 1]}
==============================================================================
