---------------------------- MODULE FgInterpolation ----------------------------
(***************************************************************************)
(* What FlightGear is shown between ticks (src/sim.rs): every call of      *)
(* run_internal has a snapshot of its own, written by the bridged entity's *)
(* closure and read by a sender thread, which extrapolates it by wall time *)
(* and blends from the old visual position to the new path.                *)
(*                                                                         *)
(* Motion is one coordinate along the track and one heading on a circle.   *)
(* Wall time is counted in units of which Converge make                    *)
(* FG_CONVERGE_SECONDS; the sender's 16 ms are less than a unit.  A frame  *)
(* is scaled by Scale, so that the blend stays in the integers.            *)
(***************************************************************************)
EXTENDS Integers

CONSTANTS
  Stepped,   (* every call is one tick with a running flag of its own         *)
  Period,    (* wall_period of a tick; 0 is its None, an unpaced run          *)
  Dt,        (* the time one tick advances the entity by, in the same units   *)
  MaxWork,   (* the longest a tick works: its JSBSim calls are bounded        *)
  Converge,  (* FG_CONVERGE_SECONDS                                           *)
  Circle,    (* heading units of a full turn, an even number                  *)
  Speeds,    (* velocities along the track                                    *)
  TurnRates, (* yaw rates                                                     *)
  None,      (* no snapshot, no convergence                                   *)
  MaxCalls,  (* bound: calls of run_internal                                  *)
  MaxNow     (* bound: wall time                                              *)

Motion == [pos : Int, vel : Int, yaw : Int, rate : Int]
Visual == [pos : Int, yaw : Int]
FgInterpState ==
  [state : Motion, timestamp : Nat, converge : Visual \cup {None}, serial : Nat]
Call == 1..MaxCalls

ASSUME FgInterpolationAssumption ==
  /\ Stepped \in BOOLEAN
  /\ Period \in Nat /\ Dt \in Nat \ {0} /\ MaxWork \in Nat
  /\ Converge \in Nat \ {0}
  /\ Circle \in Nat \ {0} /\ Circle % 2 = 0
  /\ Speeds \subseteq Int /\ TurnRates \subseteq Int
  /\ MaxCalls \in Nat /\ MaxNow \in Nat
  /\ None \notin Visual \cup FgInterpState

VARIABLES
  now,       (* the monotonic clock                                           *)
  running,   (* the flag Ctrl-C clears; a paced call's threads watch it       *)
  loop,      (* where the tick loop is                                        *)
  calls,     (* calls of run_internal so far                                  *)
  tickAt,    (* t_start of the tick                                           *)
  flight,    (* the bridged entity's state                                    *)
  alive,     (* its status is Active                                          *)
  published, (* snapshots written so far                                      *)
  fgState,   (* per call: the snapshot in the mutex, or None                  *)
  thread,    (* per call: where its fg-interp thread is                       *)
  held       (* per call: the snapshot its thread has cloned                  *)

loopVars == <<running, loop, calls, tickAt>>
entityVars == <<flight, alive, published>>
vars == <<now, loopVars, entityVars, fgState, thread, held>>

TypeOK ==
  /\ now \in 0..MaxNow /\ tickAt \in 0..MaxNow
  /\ running \in BOOLEAN /\ alive \in BOOLEAN
  /\ loop \in {"idle", "top", "entities", "publish", "sleep"}
  /\ calls \in 0..MaxCalls /\ published \in Nat
  /\ flight \in Motion
  /\ fgState \in [Call -> FgInterpState \cup {None}]
  /\ thread \in [Call -> {"none", "check", "asleep", "send", "stopped"}]
  /\ held \in [Call -> FgInterpState \cup {None}]

Init ==
  /\ now = 0 /\ running = TRUE /\ loop = "idle" /\ calls = 0 /\ tickAt = 0
  /\ \E v \in Speeds, r \in TurnRates :
       flight = [pos |-> 0, vel |-> v, yaw |-> 0, rate |-> r]
  /\ alive = TRUE /\ published = 0
  /\ fgState = [c \in Call |-> None]
  /\ thread = [c \in Call |-> "none"]
  /\ held = [c \in Call |-> None]

-------------------------------------------------------------------------------
(* What is displayed.                                                         *)

(* The % of Rust keeps the sign of its left operand.                          *)
Rem(a, n) == IF a >= 0 THEN a % n ELSE -((-a) % n)

(* extrapolate_fg_state: dead reckoning by the elapsed wall time.             *)
Extrapolated(s, elapsed) ==
  [pos |-> s.pos + s.vel * elapsed,
   yaw |-> Rem(s.yaw + s.rate * elapsed + Circle, Circle)]

Scale == Converge * Converge * Converge

(* smoothstep(elapsed / FG_CONVERGE_SECONDS), times Scale.                    *)
Smoothstep(elapsed) == elapsed * elapsed * (3 * Converge - 2 * elapsed)

(* Mutant: the heading difference is not wrapped.                             *)
PlainDiff(to, from) == to - from

(* The heading difference of the blend, with its one wrap each way.           *)
HeadingDiff(to, from) ==
  LET d == to - from
      half == Circle \div 2
  IN IF d > half THEN d - Circle ELSE IF d < -half THEN d + Circle ELSE d

Blended(from, to, s) ==
  [pos |-> Scale * from.pos + (to.pos - from.pos) * s,
   yaw |-> Rem(Scale * from.yaw + HeadingDiff(to.yaw, from.yaw) * s + Scale * Circle,
               Scale * Circle)]

Converging(snapshot, t) ==
  snapshot.converge # None /\ t - snapshot.timestamp < Converge

(* The frame a sender makes of a snapshot at time t.                          *)
Frame(snapshot, t) ==
  LET elapsed == t - snapshot.timestamp
      path == Extrapolated(snapshot.state, elapsed)
  IN IF Converging(snapshot, t)
       THEN Blended(snapshot.converge, path, Smoothstep(elapsed))
       ELSE [pos |-> Scale * path.pos, yaw |-> Scale * path.yaw]

-------------------------------------------------------------------------------
(* The tick loop.                                                             *)

(* Mutant: the bounded form is used for a paced run, with its own flag.       *)
NeverCleared(c) == FALSE

(* The stop flag of a call's thread: the shared one in a paced run; the one   *)
(* run_ticks_with_time makes for itself is never cleared.                     *)
Cleared(c) == ~Stepped /\ ~running

(* Mutant: a paced run is entered again after it has returned.                *)
EnterRunAgain ==
  /\ loop = "idle"
  /\ loop' = "top"
  /\ calls' = calls + 1
  /\ UNCHANGED <<now, running, tickAt, entityVars, fgState, thread, held>>

(* run_internal: a fresh mutex and a thread, which ends at once when it       *)
(* cannot be spawned or bind its socket.                                      *)
EnterRun ==
  /\ loop = "idle" /\ calls < MaxCalls
  /\ IF Stepped THEN running ELSE calls = 0
  /\ loop' = "top"
  /\ calls' = calls + 1
  /\ \E started \in {"check", "stopped"} : thread' = [thread EXCEPT ![calls'] = started]
  /\ UNCHANGED <<now, running, tickAt, entityVars, fgState, held>>

BeginTick ==
  /\ loop = "top" /\ (Stepped \/ running)
  /\ loop' = "entities"
  /\ tickAt' = now
  /\ UNCHANGED <<now, running, calls, entityVars, fgState, thread, held>>

Return ==
  /\ loop = "top" /\ ~Stepped /\ ~running
  /\ loop' = "idle"
  /\ UNCHANGED <<now, running, calls, tickAt, entityVars, fgState, thread, held>>

(* A step or a read fails, or the entity is dead already: no snapshot.        *)
NoUpdate ==
  /\ loop = "entities"
  /\ loop' = "publish"
  /\ alive' = FALSE
  /\ UNCHANGED <<now, running, calls, tickAt, flight, published, fgState, thread, held>>

(* Mutant: the old state's position is taken as the visual one, unextrapolated. *)
CaptureUnextrapolated(old) == [pos |-> old.state.pos, yaw |-> old.state.yaw]

(* The convergence snapshot: the old state extrapolated to this moment.       *)
Capture(old) == Extrapolated(old.state, now - old.timestamp)

(* The entity is stepped, read and its state published to the thread.         *)
Publish ==
  /\ loop = "entities" /\ alive
  /\ loop' = "publish"
  /\ \E v \in Speeds, r \in TurnRates :
       flight' = [pos |-> flight.pos + v * Dt, vel |-> v,
                  yaw |-> (flight.yaw + r * Dt) % Circle, rate |-> r]
  /\ published' = published + 1
  /\ fgState' = [fgState EXCEPT ![calls] =
       [state |-> flight', timestamp |-> now, serial |-> published + 1,
        converge |-> IF fgState[calls] = None THEN None ELSE Capture(fgState[calls])]]
  /\ UNCHANGED <<now, running, calls, tickAt, alive, thread, held>>

(* A tick of a period sleeps for what remains of it; an unpaced one does not. *)
Sleeps == Period > 0 /\ now - tickAt <= Period

EndTick ==
  /\ loop = "publish"
  /\ loop' = IF Stepped THEN "idle" ELSE IF Sleeps THEN "sleep" ELSE "top"
  /\ UNCHANGED <<now, running, calls, tickAt, entityVars, fgState, thread, held>>

WakeLoop ==
  /\ loop = "sleep" /\ now - tickAt >= Period
  /\ loop' = "top"
  /\ UNCHANGED <<now, running, calls, tickAt, entityVars, fgState, thread, held>>

CtrlC ==
  /\ running
  /\ running' = FALSE
  /\ UNCHANGED <<now, loop, calls, tickAt, entityVars, fgState, thread, held>>

-------------------------------------------------------------------------------
(* The fg-interp thread of a call.                                            *)

CheckFlag(c) ==
  /\ thread[c] = "check"
  /\ thread' = [thread EXCEPT ![c] = IF Cleared(c) THEN "stopped" ELSE "asleep"]
  /\ UNCHANGED <<now, loopVars, entityVars, fgState, held>>

(* Mutant: a thread that holds a snapshot keeps it.                           *)
CloneOnce(c) ==
  /\ thread[c] = "asleep"
  /\ thread' = [thread EXCEPT ![c] = IF fgState[c] = None THEN "check" ELSE "send"]
  /\ held' = [held EXCEPT ![c] = IF held[c] = None THEN fgState[c] ELSE held[c]]
  /\ UNCHANGED <<now, loopVars, entityVars, fgState>>

(* After its sleep the thread clones the snapshot, if there is one.           *)
Clone(c) ==
  /\ thread[c] = "asleep"
  /\ thread' = [thread EXCEPT ![c] = IF fgState[c] = None THEN "check" ELSE "send"]
  /\ held' = [held EXCEPT ![c] = fgState[c]]
  /\ UNCHANGED <<now, loopVars, entityVars, fgState>>

(* Frame(held[c], now) goes to FlightGear; a send error is ignored.           *)
Send(c) ==
  /\ thread[c] = "send"
  /\ thread' = [thread EXCEPT ![c] = "check"]
  /\ UNCHANGED <<now, loopVars, entityVars, fgState, held>>

-------------------------------------------------------------------------------
(* A tick's work ends within MaxWork and a clone is sent within the unit.     *)
WallClock ==
  /\ now < MaxNow
  /\ loop \in {"entities", "publish"} => now - tickAt < MaxWork
  /\ \A c \in Call : thread[c] # "send"
  /\ now' = now + 1
  /\ UNCHANGED <<loopVars, entityVars, fgState, thread, held>>

LoopStep == BeginTick \/ Return \/ NoUpdate \/ Publish \/ EndTick \/ WakeLoop
Sender(c) == CheckFlag(c) \/ Clone(c) \/ Send(c)

Next == EnterRun \/ LoopStep \/ CtrlC \/ WallClock \/ \E c \in Call : Sender(c)

(* The threads run; of the loop only its own end matters to them.             *)
Spec == Init /\ [][Next]_vars /\ \A c \in Call : WF_vars(Sender(c))

-------------------------------------------------------------------------------
(* Properties.                                                                *)

(* Frames that look the same: headings count modulo a full turn.              *)
SameView(f, g) == f.pos = g.pos /\ (f.yaw - g.yaw) % (Scale * Circle) = 0

(* Publishing a fresh state does not move what FlightGear displays: the frame *)
(* made of the new snapshot at that moment is the one the old snapshot gives  *)
(* (sim.rs: "eliminating visible snap-back when the sim tick publishes a new  *)
(* state").                                                                   *)
NoSnapBack ==
  [][\A c \in Call :
       fgState[c] # None /\ fgState'[c] # fgState[c] =>
         SameView(Frame(fgState'[c], now), Frame(fgState[c], now))]_vars

(* Whatever thread is about to send, it sends the latest state or, when it    *)
(* was overtaken after its clone, the one before.                             *)
FramesAreCurrent ==
  \A c \in Call : thread[c] = "send" => held[c].serial >= published - 1

(* While it converges, the displayed position lies between the old visual one *)
(* and the new path's, and the displayed heading on the shorter arc from the  *)
(* one to the other: it neither overshoots nor spins (sim.rs: "Blend          *)
(* orientation with wraparound awareness").                                   *)
Between(x, a, b) == (a <= x /\ x <= b) \/ (b <= x /\ x <= a)

(* The turn to the right from heading a to heading b of a scaled frame.       *)
RightTurn(a, b) == (b - a) % (Scale * Circle)

OnShortArc(h, a, b) ==
  \/ 2 * (RightTurn(a, h) + RightTurn(h, b)) <= Scale * Circle
  \/ 2 * (RightTurn(b, h) + RightTurn(h, a)) <= Scale * Circle

BlendIsDirect ==
  \A c \in Call :
    fgState[c] # None /\ Converging(fgState[c], now) =>
      LET from == fgState[c].converge
          path == Extrapolated(fgState[c].state, now - fgState[c].timestamp)
          shown == Frame(fgState[c], now)
      IN /\ Between(shown.pos, Scale * from.pos, Scale * path.pos)
         /\ OnShortArc(shown.yaw, Scale * from.yaw, Scale * path.yaw)

(* Once Ctrl-C has cleared the flag, every thread ends.                       *)
ThreadsEnd == ~running ~> \A c \in Call : thread[c] \in {"none", "stopped"}
================================================================================
