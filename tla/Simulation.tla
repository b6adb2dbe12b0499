------------------------------ MODULE Simulation ------------------------------
(***************************************************************************)
(* The simulation runtime (src/sim.rs): the tick loop run_internal, the    *)
(* calls that enter it (run_with_time, run_ticks_with_time/step_ticks),    *)
(* the parallel update of the flying entities, the sequential DIS and OWP  *)
(* publication that follows it, and the commit of the tick.                *)
(*                                                                         *)
(* Every JSBSim call is a step of its own and may fail; the entities of    *)
(* one tick interleave freely, as the rayon pool lets them.  What an       *)
(* entity's control writes say is the subject of FlightControl; here they  *)
(* only succeed or fail.  Times are relative to the scenario epoch.        *)
(***************************************************************************)
EXTENDS Naturals

CONSTANTS
  NumEntities,     (* length of Simulation.entities: entity e is its index    *)
  Flying,          (* the RuntimeEntity::Flying ones; the others are Fixed    *)
  Commanded,       (* flying entities with waypoints or a FlightGear bridge   *)
  Cooperating,     (* flying entities published to OWP: blue force or ownship *)
  Dt,              (* simulation_dt, in units of scenario time                *)
  SettleDuration,  (* settle_duration, in the same units                      *)
  MaxTick,         (* bound: no tick beyond this one is started               *)
  NoLimit          (* max_ticks = None                                        *)

Entity == 1..NumEntities
Fixed == Entity \ Flying

ASSUME SimulationAssumption ==
  /\ NumEntities \in Nat
  /\ Flying \subseteq Entity
  /\ Commanded \subseteq Flying
  /\ Cooperating \subseteq Flying
  /\ Dt \in Nat \ {0}
  /\ SettleDuration \in Nat
  /\ MaxTick \in Nat
  /\ NoLimit \notin Nat

VARIABLES
  pc,            (* where the thread that owns the Simulation is              *)
  running,       (* the flag the Ctrl-C handler clears                        *)
  limit,         (* stop_tick of the call in progress                         *)
  tick,          (* the loop's tick                                           *)
  clock,         (* scenario_clock.elapsed()                                  *)
  localTick,     (* Simulation.local_tick                                     *)
  localElapsed,  (* Simulation.local_scenario_elapsed                         *)
  status,        (* EntityStatus of each entity                               *)
  stage,         (* progress of each flying entity through the parallel phase *)
  fdmSteps,      (* dt increments the entity's JSBSim has executed            *)
  asOf,          (* the increment count its EntityState was read at           *)
  cursor,        (* index of the publication loop                             *)
  attempted,     (* last tick in which publication of the entity was tried    *)
  dis,           (* last report the DIS socket took                           *)
  owp            (* last report handed to the OWP publisher                   *)

callVars == <<running, limit>>
timeVars == <<tick, clock, localTick, localElapsed>>
fdmVars == <<fdmSteps, asOf>>
outVars == <<cursor, attempted, dis, owp>>
vars == <<pc, callVars, timeVars, status, stage, fdmVars, outVars>>

Report == [tick : Nat, time : Nat, asOf : Nat]
NoReport == [tick |-> 0, time |-> 0, asOf |-> 0]

TypeOK ==
  /\ pc \in {"new", "idle", "loop", "entities", "publish"}
  /\ running \in BOOLEAN
  /\ limit \in Nat \cup {NoLimit}
  /\ tick \in Nat /\ clock \in Nat /\ localTick \in Nat /\ localElapsed \in Nat
  /\ status \in [Entity -> {"Active", "Dead"}]
  /\ stage \in [Flying -> {"control", "step", "read", "done"}]
  /\ fdmSteps \in [Flying -> Nat] /\ asOf \in [Entity -> Nat]
  /\ cursor \in 1..(NumEntities + 1)
  /\ attempted \in [Entity -> Nat]
  /\ dis \in [Entity -> Report] /\ owp \in [Cooperating -> Report]

Init ==
  /\ pc = "new"
  /\ running = TRUE
  /\ limit = NoLimit
  /\ tick = 0 /\ clock = 0 /\ localTick = 0 /\ localElapsed = 0
  /\ status = [e \in Entity |-> "Active"]
  /\ stage = [e \in Flying |-> "done"]
  /\ fdmSteps = [e \in Flying |-> 0] /\ asOf = [e \in Entity |-> 0]
  /\ cursor = 1
  /\ attempted = [e \in Entity |-> 0]
  /\ dis = [e \in Entity |-> NoReport] /\ owp = [e \in Cooperating |-> NoReport]

-------------------------------------------------------------------------------
(* Calls on the Simulation.                                                   *)

(* start_fdms: an entity whose handle does not start is dead from the outset. *)
StartFdms ==
  /\ pc = "new"
  /\ pc' = "idle"
  /\ \E failed \in SUBSET Flying :
       status' = [e \in Entity |-> IF e \in failed THEN "Dead" ELSE status[e]]
  /\ UNCHANGED <<callVars, timeVars, stage, fdmVars, outVars>>

(* Mutant: the fresh clock of a call is not advanced to the elapsed time kept.  *)
EnterRunAtZero(stopTick) ==
  /\ pc = "idle"
  /\ pc' = "loop"
  /\ limit' = stopTick
  /\ tick' = localTick
  /\ clock' = 0
  /\ UNCHANGED <<running, localTick, localElapsed, status, stage, fdmVars, outVars>>

(* The prologue of run_internal: a fresh clock is advanced to the elapsed     *)
(* time kept across calls.                                                    *)
EnterRun(stopTick) ==
  /\ pc = "idle"
  /\ pc' = "loop"
  /\ limit' = stopTick
  /\ tick' = localTick
  /\ clock' = localElapsed
  /\ UNCHANGED <<running, localTick, localElapsed, status, stage, fdmVars, outVars>>

RunUntilStopped == EnterRun(NoLimit)

(* run_ticks_with_time: a count of zero returns at once and changes nothing.  *)
RunTicks(count) == localTick + count <= MaxTick /\ EnterRun(localTick + count)

(* Mutant: a bounded run watches the shared flag too.                          *)
StopsOnCtrlC ==
  /\ running
  /\ limit # NoLimit => tick < limit

(* Mutant: an unbounded run never looks at the flag.                           *)
IgnoresCtrlC == limit # NoLimit => tick < limit

(* A bounded run owns its stop flag, so only an unbounded one sees `running`. *)
LoopContinues ==
  /\ limit = NoLimit => running
  /\ limit # NoLimit => tick < limit

Return ==
  /\ pc = "loop"
  /\ ~LoopContinues
  /\ pc' = "idle"
  /\ UNCHANGED <<callVars, timeVars, status, stage, fdmVars, outVars>>

CtrlC ==
  /\ running
  /\ running' = FALSE
  /\ UNCHANGED <<pc, limit, timeVars, status, stage, fdmVars, outVars>>

-------------------------------------------------------------------------------
(* One tick: the parallel phase.                                              *)

(* Mutant: dead entities enter the parallel phase like the others.             *)
BeginTickForAll ==
  /\ pc = "loop"
  /\ LoopContinues
  /\ tick < MaxTick
  /\ pc' = "entities"
  /\ tick' = tick + 1
  /\ stage' = [e \in Flying |-> "control"]
  /\ UNCHANGED <<callVars, clock, localTick, localElapsed, status, fdmVars, outVars>>

BeginTick ==
  /\ pc = "loop"
  /\ LoopContinues
  /\ tick < MaxTick
  /\ pc' = "entities"
  /\ tick' = tick + 1
  /\ stage' = [e \in Flying |-> IF status[e] = "Active" THEN "control" ELSE "done"]
  /\ UNCHANGED <<callVars, clock, localTick, localElapsed, status, fdmVars, outVars>>

InSettlePhase == clock < SettleDuration

Working(e, at) == pc = "entities" /\ stage[e] = at

(* An entity that fails returns from its closure at once: it is not stepped   *)
(* or read any further in this tick.                                          *)
Die(e) ==
  /\ status' = [status EXCEPT ![e] = "Dead"]
  /\ stage' = [stage EXCEPT ![e] = "done"]
  /\ UNCHANGED <<pc, callVars, timeVars, outVars>>

Proceed(e, to) ==
  /\ stage' = [stage EXCEPT ![e] = to]
  /\ UNCHANGED <<pc, callVars, timeVars, status, outVars>>

(* All control writes succeed, or none is due.                                *)
WriteControls(e) ==
  /\ Working(e, "control")
  /\ Proceed(e, "step")
  /\ UNCHANGED fdmVars

ControlWriteFails(e) ==
  /\ Working(e, "control")
  /\ e \in Commanded /\ ~InSettlePhase
  /\ Die(e)
  /\ UNCHANGED fdmVars

StepFdm(e) ==
  /\ Working(e, "step")
  /\ fdmSteps' = [fdmSteps EXCEPT ![e] = @ + 1]
  /\ Proceed(e, "read")
  /\ UNCHANGED asOf

(* JSBSim may have executed the step whose reply was lost or came too late.   *)
StepFdmFails(e) ==
  /\ Working(e, "step")
  /\ \E executed \in {0, 1} : fdmSteps' = [fdmSteps EXCEPT ![e] = @ + executed]
  /\ Die(e)
  /\ UNCHANGED asOf

ReadState(e) ==
  /\ Working(e, "read")
  /\ asOf' = [asOf EXCEPT ![e] = fdmSteps[e]]
  /\ Proceed(e, "done")
  /\ UNCHANGED fdmSteps

(* Mutant: a failed read only skips the entity for this tick.                  *)
ReadFailureTolerated(e) ==
  /\ Working(e, "read")
  /\ Proceed(e, "done")
  /\ UNCHANGED fdmVars

ReadStateFails(e) ==
  /\ Working(e, "read")
  /\ Die(e)
  /\ UNCHANGED fdmVars

(* Mutant: the publication loop starts one index too early.                    *)
JoinFromZero ==
  /\ pc = "entities"
  /\ \A e \in Flying : stage[e] = "done"
  /\ pc' = "publish"
  /\ cursor' = 0
  /\ UNCHANGED <<callVars, timeVars, status, stage, fdmVars, attempted, dis, owp>>

(* The barrier at the end of par_iter_mut().for_each.                         *)
JoinEntities ==
  /\ pc = "entities"
  /\ \A e \in Flying : stage[e] = "done"
  /\ pc' = "publish"
  /\ cursor' = 1
  /\ UNCHANGED <<callVars, timeVars, status, stage, fdmVars, attempted, dis, owp>>

-------------------------------------------------------------------------------
(* One tick: the sequential publication phase and the commit.                 *)

TickReport(e) == [tick |-> tick, time |-> clock + Dt, asOf |-> asOf[e]]

(* Mutant: the publication loop stops at the first dead entity.                *)
StopAtDead ==
  /\ pc = "publish" /\ cursor <= NumEntities
  /\ status[cursor] = "Dead"
  /\ cursor' = NumEntities + 1
  /\ UNCHANGED <<pc, callVars, timeVars, status, stage, fdmVars, attempted, dis, owp>>

SkipDead ==
  /\ pc = "publish" /\ cursor <= NumEntities
  /\ status[cursor] = "Dead"
  /\ cursor' = cursor + 1
  /\ UNCHANGED <<pc, callVars, timeVars, status, stage, fdmVars, attempted, dis, owp>>

(* Mutant: an error on the DIS socket abandons the entity before its OWP update. *)
PublishGivesUpOnDisError ==
  /\ pc = "publish" /\ cursor <= NumEntities
  /\ status[cursor] = "Active"
  /\ attempted' = [attempted EXCEPT ![cursor] = tick]
  /\ \E sent \in BOOLEAN :
       /\ dis' = IF sent THEN [dis EXCEPT ![cursor] = TickReport(cursor)] ELSE dis
       /\ owp' = IF sent /\ cursor \in Cooperating
                   THEN [owp EXCEPT ![cursor] = TickReport(cursor)] ELSE owp
  /\ cursor' = cursor + 1
  /\ UNCHANGED <<pc, callVars, timeVars, status, stage, fdmVars>>

(* A DIS error is logged and counted; the OWP update and the loop go on.      *)
PublishEntity ==
  /\ pc = "publish" /\ cursor <= NumEntities
  /\ status[cursor] = "Active"
  /\ attempted' = [attempted EXCEPT ![cursor] = tick]
  /\ \E sent \in BOOLEAN :
       dis' = IF sent THEN [dis EXCEPT ![cursor] = TickReport(cursor)] ELSE dis
  /\ owp' = IF cursor \in Cooperating
              THEN [owp EXCEPT ![cursor] = TickReport(cursor)] ELSE owp
  /\ cursor' = cursor + 1
  /\ UNCHANGED <<pc, callVars, timeVars, status, stage, fdmVars>>

FinishTick ==
  /\ pc = "publish" /\ cursor = NumEntities + 1
  /\ pc' = "loop"
  /\ clock' = clock + Dt
  /\ localTick' = tick
  /\ localElapsed' = clock + Dt
  /\ UNCHANGED <<callVars, tick, status, stage, fdmVars, outVars>>

-------------------------------------------------------------------------------
Call == RunUntilStopped \/ \E count \in 1..MaxTick : RunTicks(count)

EntityStep(e) ==
  \/ WriteControls(e) \/ ControlWriteFails(e)
  \/ StepFdm(e) \/ StepFdmFails(e)
  \/ ReadState(e) \/ ReadStateFails(e)

LoopStep ==
  \/ BeginTick \/ JoinEntities \/ SkipDead \/ PublishEntity \/ FinishTick \/ Return

Next ==
  \/ StartFdms \/ Call \/ CtrlC
  \/ LoopStep
  \/ \E e \in Flying : EntityStep(e)

(* JSBSim calls are bounded by socket timeouts, so a run that has been        *)
(* entered keeps making progress; nobody has to call or to press Ctrl-C.      *)
Spec ==
  /\ Init /\ [][Next]_vars
  /\ WF_vars(LoopStep)
  /\ \A e \in Flying : WF_vars(EntityStep(e))

-------------------------------------------------------------------------------
(* Properties.                                                                *)

(* An active flying entity neither lags nor leads the committed tick: between *)
(* ticks its JSBSim has executed exactly local_tick increments, its state was *)
(* read at that increment, and scenario time is that many dt, however calls,  *)
(* failures of other entities and shutdown were interleaved.                  *)
Lockstep ==
  pc \in {"idle", "loop"} =>
    /\ localElapsed = localTick * Dt
    /\ \A e \in Flying :
         status[e] = "Active" => fdmSteps[e] = localTick /\ asOf[e] = localTick

(* What is published is stamped with the tick it represents: a DIS or OWP     *)
(* report of a flying entity holds the state read after that tick's           *)
(* increment, at that tick's scenario time.  That is what the code stamps     *)
(* (sim.rs:933, 942, owp.rs:938); docs/contracts.md:196 and 267 still have    *)
(* both stamps from the system clock.                                         *)
ReportsAreOfTheirTick ==
  /\ \A e \in Flying : dis[e].asOf = dis[e].tick
  /\ \A e \in Entity : dis[e].time = dis[e].tick * Dt
  /\ \A e \in Cooperating : owp[e].asOf = owp[e].tick /\ owp[e].time = owp[e].tick * Dt

(* No active entity is left out of a committed tick, and a cooperating one    *)
(* reaches OWP in it even when its DIS publication failed.                    *)
NobodyLeftOut ==
  pc \in {"idle", "loop"} =>
    \A e \in Entity : status[e] = "Active" =>
      /\ attempted[e] = localTick
      /\ e \in Cooperating => owp[e].tick = localTick

(* A dead entity is skipped entirely: it never comes back, is never stepped   *)
(* and is never published again.                                              *)
DeadStaysDead ==
  [][\A e \in Entity : status[e] = "Dead" =>
       /\ status'[e] = "Dead"
       /\ attempted'[e] = attempted[e] /\ dis'[e] = dis[e]
       /\ e \in Flying => fdmSteps'[e] = fdmSteps[e]
       /\ e \in Cooperating => owp'[e] = owp[e]]_vars

(* A call for a number of ticks returns with exactly those ticks committed:   *)
(* Ctrl-C does not cut it short, a dying entity does not either.              *)
BoundedRunIsExact ==
  [][pc = "loop" /\ pc' = "idle" /\ limit # NoLimit => localTick = limit]_vars

(* Once Ctrl-C has cleared the flag, the call in progress ends.               *)
ShutdownEndsTheRun == (~running /\ pc # "new") ~> pc = "idle"

(* The runtime is a fleet in lock step: publication within a tick becomes     *)
(* visible when the tick is committed.                                        *)
HeardByCommit ==
  [e \in Entity |-> IF attempted[e] > localTick THEN localTick ELSE attempted[e]]

Committed == INSTANCE Fleet WITH
  Members <- Entity, Immortal <- Fixed, tick <- localTick, heard <- HeardByCommit

ImplementsFleet == Committed!FleetSpec
===============================================================================
