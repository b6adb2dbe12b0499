-------------------------- MODULE SimulationProofs --------------------------
(***************************************************************************)
(* Proofs about Simulation for every number of entities, every partition   *)
(* into flying and fixed ones, every dt and every bound.  The argument is  *)
(* one inductive invariant, Inv: where the committed tick, the tick in     *)
(* progress, each JSBSim and each report stand relative to one another at  *)
(* every point of the loop.                                                *)
(***************************************************************************)
EXTENDS Simulation, TLAPS

Running == pc \in {"loop", "entities", "publish"}
MidTick == pc \in {"entities", "publish"}

(* The loop's tick is one ahead of the committed one in mid-tick, the clock  *)
(* is not, and a bounded call never passes its stop tick.                    *)
TickInv ==
  /\ localElapsed = localTick * Dt
  /\ Running => clock = localElapsed
  /\ pc = "loop" => tick = localTick
  /\ MidTick => tick = localTick + 1
  /\ Running /\ limit # NoLimit => tick <= limit

(* Where the JSBSim of an active entity stands, by its stage.                *)
FdmInv ==
  \A e \in Flying :
    /\ pc = "entities" /\ stage[e] # "done" => status[e] = "Active"
    /\ status[e] = "Active" =>
         /\ ~MidTick => fdmSteps[e] = localTick /\ asOf[e] = localTick
         /\ pc = "entities" /\ stage[e] \in {"control", "step"} => fdmSteps[e] = localTick
         /\ pc = "entities" /\ stage[e] = "read" => fdmSteps[e] = tick
         /\ pc = "entities" /\ stage[e] = "done" => fdmSteps[e] = tick /\ asOf[e] = tick
         /\ pc = "publish" => fdmSteps[e] = tick /\ asOf[e] = tick

(* Who has been published, by the position of the publication loop.          *)
PublishInv ==
  \A e \in Entity :
    /\ e \in Fixed => status[e] = "Active"
    /\ attempted[e] <= localTick \/ (pc = "publish" /\ attempted[e] = tick)
    /\ status[e] = "Active" =>
         attempted[e] = IF pc = "publish" /\ e < cursor THEN tick ELSE localTick
    /\ e \in Cooperating /\ status[e] = "Active" => owp[e].tick = attempted[e]

Inv == TypeOK /\ TickInv /\ FdmInv /\ PublishInv /\ ReportsAreOfTheirTick

-----------------------------------------------------------------------------
(* The clock after one more tick, for the scenario times of reports.         *)
LEMMA NextMultiple == \A n, d \in Nat : (n + 1) * d = n * d + d
  OBVIOUS

(* A Simulation as Simulation::new leaves it satisfies the invariant.        *)
LEMMA InitInv == Init => Inv
  BY SimulationAssumption DEF Init, Inv, TypeOK, TickInv, FdmInv, PublishInv,
     ReportsAreOfTheirTick, Running, MidTick, Report, NoReport, Entity, Fixed

-----------------------------------------------------------------------------
(* A step keeps every variable in its type.                                  *)
LEMMA TypeStep == TypeOK /\ [Next]_vars => TypeOK'
<1> SUFFICES ASSUME TypeOK, [Next]_vars PROVE TypeOK'
  OBVIOUS
<1> USE SimulationAssumption DEF TypeOK, callVars, timeVars, fdmVars, outVars
<1>1. CASE StartFdms
  BY <1>1 DEF StartFdms
<1>2. CASE Call
  <2>1. ASSUME NEW stopTick \in Nat \cup {NoLimit}, EnterRun(stopTick) PROVE TypeOK'
    BY <2>1 DEF EnterRun
  <2>2. CASE RunUntilStopped
    BY <2>1, <2>2 DEF RunUntilStopped
  <2>3. ASSUME NEW count \in 1..MaxTick, RunTicks(count) PROVE TypeOK'
    <3>1. localTick + count \in Nat \cup {NoLimit}
      OBVIOUS
    <3> QED BY <2>1, <2>3, <3>1 DEF RunTicks
  <2> QED BY <1>2, <2>2, <2>3 DEF Call
<1>3. CASE CtrlC
  BY <1>3 DEF CtrlC
<1>4. CASE LoopStep
  <2>1. CASE BeginTick
    BY <2>1 DEF BeginTick
  <2>2. CASE JoinEntities
    BY <2>2 DEF JoinEntities
  <2>3. CASE SkipDead
    BY <2>3 DEF SkipDead
  <2>4. CASE PublishEntity
    <3>1. cursor \in Entity /\ TickReport(cursor) \in Report
      BY <2>4 DEF PublishEntity, TickReport, Report, Entity
    <3>2. dis' \in [Entity -> Report] /\ owp' \in [Cooperating -> Report]
      BY <2>4, <3>1 DEF PublishEntity
    <3> QED BY <2>4, <3>1, <3>2 DEF PublishEntity
  <2>5. CASE FinishTick
    BY <2>5 DEF FinishTick
  <2>6. CASE Return
    BY <2>6 DEF Return
  <2> QED BY <1>4, <2>1, <2>2, <2>3, <2>4, <2>5, <2>6 DEF LoopStep
<1>5. ASSUME NEW e \in Flying, EntityStep(e) PROVE TypeOK'
  <2> USE DEF Working, Die, Proceed
  <2>1. CASE WriteControls(e) \/ ControlWriteFails(e)
    BY <2>1 DEF WriteControls, ControlWriteFails
  <2>2. CASE StepFdm(e) \/ StepFdmFails(e)
    BY <2>2 DEF StepFdm, StepFdmFails
  <2>3. CASE ReadState(e) \/ ReadStateFails(e)
    BY <2>3 DEF ReadState, ReadStateFails
  <2> QED BY <1>5, <2>1, <2>2, <2>3 DEF EntityStep
<1>6. CASE UNCHANGED vars
  BY <1>6 DEF vars
<1> QED BY <1>1, <1>2, <1>3, <1>4, <1>5, <1>6 DEF Next

-----------------------------------------------------------------------------
(* The committed tick, the tick in progress and the clock.                   *)
LEMMA TickStep == TypeOK /\ TickInv /\ [Next]_vars => TickInv'
<1> SUFFICES ASSUME TypeOK, TickInv, [Next]_vars PROVE TickInv'
  OBVIOUS
<1> USE SimulationAssumption
    DEF TypeOK, TickInv, Running, MidTick, callVars, timeVars, fdmVars, outVars
<1>1. CASE StartFdms
  BY <1>1 DEF StartFdms
<1>2. CASE Call
  <2>1. CASE RunUntilStopped
    BY <2>1 DEF RunUntilStopped, EnterRun
  <2>2. ASSUME NEW count \in 1..MaxTick, RunTicks(count) PROVE TickInv'
    BY <2>2 DEF RunTicks, EnterRun
  <2> QED BY <1>2, <2>1, <2>2 DEF Call
<1>3. CASE CtrlC
  BY <1>3 DEF CtrlC
<1>4. CASE LoopStep
  <2>1. CASE BeginTick
    BY <2>1 DEF BeginTick, LoopContinues
  <2>2. CASE FinishTick
    <3>1. (localTick + 1) * Dt = localTick * Dt + Dt
      BY NextMultiple
    <3> QED BY <2>2, <3>1 DEF FinishTick
  <2>3. CASE JoinEntities \/ SkipDead \/ PublishEntity \/ Return
    BY <2>3 DEF JoinEntities, SkipDead, PublishEntity, Return
  <2> QED BY <1>4, <2>1, <2>2, <2>3 DEF LoopStep
<1>5. ASSUME NEW e \in Flying, EntityStep(e) PROVE TickInv'
  BY <1>5 DEF EntityStep, WriteControls, ControlWriteFails, StepFdm, StepFdmFails,
     ReadState, ReadStateFails, Working, Die, Proceed
<1>6. CASE UNCHANGED vars
  BY <1>6 DEF vars
<1> QED BY <1>1, <1>2, <1>3, <1>4, <1>5, <1>6 DEF Next

-----------------------------------------------------------------------------
(* The JSBSim of every active entity.                                        *)
LEMMA FdmStep == TypeOK /\ TickInv /\ FdmInv /\ [Next]_vars => FdmInv'
<1> SUFFICES ASSUME TypeOK, TickInv, FdmInv, [Next]_vars PROVE FdmInv'
  OBVIOUS
<1> USE SimulationAssumption
    DEF TypeOK, TickInv, FdmInv, Running, MidTick, Entity,
        callVars, timeVars, fdmVars, outVars
<1>1. CASE StartFdms
  BY <1>1 DEF StartFdms
<1>2. CASE Call
  BY <1>2 DEF Call, RunUntilStopped, RunTicks, EnterRun
<1>3. CASE CtrlC
  BY <1>3 DEF CtrlC
<1>4. CASE LoopStep
  <2>1. CASE BeginTick
    BY <2>1 DEF BeginTick
  <2>2. CASE JoinEntities
    BY <2>2 DEF JoinEntities
  <2>3. CASE FinishTick
    BY <2>3 DEF FinishTick
  <2>4. CASE SkipDead \/ PublishEntity \/ Return
    BY <2>4 DEF SkipDead, PublishEntity, Return
  <2> QED BY <1>4, <2>1, <2>2, <2>3, <2>4 DEF LoopStep
<1>5. ASSUME NEW e \in Flying, EntityStep(e) PROVE FdmInv'
  <2> USE DEF Working, Die, Proceed
  <2>1. CASE WriteControls(e)
    BY <2>1 DEF WriteControls
  <2>6. CASE ControlWriteFails(e)
    BY <2>6 DEF ControlWriteFails
  <2>2. CASE StepFdm(e)
    BY <2>2 DEF StepFdm
  <2>3. CASE StepFdmFails(e)
    BY <2>3 DEF StepFdmFails
  <2>4. CASE ReadState(e)
    BY <2>4 DEF ReadState
  <2>5. CASE ReadStateFails(e)
    BY <2>5 DEF ReadStateFails
  <2> QED BY <1>5, <2>1, <2>2, <2>3, <2>4, <2>5, <2>6 DEF EntityStep
<1>6. CASE UNCHANGED vars
  BY <1>6 DEF vars
<1> QED BY <1>1, <1>2, <1>3, <1>4, <1>5, <1>6 DEF Next

-----------------------------------------------------------------------------
(* The publication loop reaches every active entity once per tick.           *)
LEMMA PublishStep == TypeOK /\ TickInv /\ PublishInv /\ [Next]_vars => PublishInv'
<1> SUFFICES ASSUME TypeOK, TickInv, PublishInv, [Next]_vars PROVE PublishInv'
  OBVIOUS
<1> USE SimulationAssumption
    DEF TypeOK, TickInv, PublishInv, Running, MidTick, Entity, Fixed,
        callVars, timeVars, fdmVars, outVars
<1>1. CASE StartFdms
  BY <1>1 DEF StartFdms
<1>2. CASE Call
  BY <1>2 DEF Call, RunUntilStopped, RunTicks, EnterRun
<1>3. CASE CtrlC
  BY <1>3 DEF CtrlC
<1>4. CASE LoopStep
  <2>1. CASE BeginTick \/ Return
    BY <2>1 DEF BeginTick, Return
  <2>2. CASE JoinEntities
    BY <2>2 DEF JoinEntities
  <2>3. CASE SkipDead
    BY <2>3 DEF SkipDead
  <2>4. CASE PublishEntity
    <3>1. cursor \in Entity /\ TickReport(cursor).tick = tick
      BY <2>4 DEF PublishEntity, TickReport
    <3>2. /\ attempted' = [attempted EXCEPT ![cursor] = tick]
          /\ owp' = IF cursor \in Cooperating
                      THEN [owp EXCEPT ![cursor] = TickReport(cursor)] ELSE owp
          /\ cursor' = cursor + 1 /\ pc = "publish" /\ pc' = "publish"
          /\ status' = status /\ tick' = tick /\ localTick' = localTick
      BY <2>4 DEF PublishEntity
    <3> QED BY SMTT(30), <3>1, <3>2
  <2>5. CASE FinishTick
    BY <2>5 DEF FinishTick
  <2> QED BY <1>4, <2>1, <2>2, <2>3, <2>4, <2>5 DEF LoopStep
<1>5. ASSUME NEW e \in Flying, EntityStep(e) PROVE PublishInv'
  <2>1. /\ UNCHANGED <<pc, tick, localTick, cursor, attempted, owp>>
        /\ status' = status \/ status' = [status EXCEPT ![e] = "Dead"]
        /\ pc = "entities"
    BY <1>5 DEF EntityStep, WriteControls, ControlWriteFails, StepFdm, StepFdmFails,
       ReadState, ReadStateFails, Working, Die, Proceed
  <2>2. \A x \in Entity : status'[x] = "Active" => status[x] = "Active"
    BY <2>1
  <2>3. \A x \in Fixed : status'[x] = status[x]
    BY <2>1
  <2> QED BY <2>1, <2>2, <2>3
<1>6. CASE UNCHANGED vars
  BY <1>6 DEF vars
<1> QED BY <1>1, <1>2, <1>3, <1>4, <1>5, <1>6 DEF Next

-----------------------------------------------------------------------------
(* What a report says: only PublishEntity writes one.                        *)
LEMMA ReportStep == Inv /\ [Next]_vars => ReportsAreOfTheirTick'
<1> SUFFICES ASSUME Inv, [Next]_vars PROVE ReportsAreOfTheirTick'
  OBVIOUS
<1> USE DEF ReportsAreOfTheirTick
<1>1. CASE PublishEntity
  <2> USE <1>1, SimulationAssumption
  <2>1. /\ cursor \in Entity /\ status[cursor] = "Active" /\ pc = "publish"
        /\ tick \in Nat /\ localTick \in Nat /\ clock \in Nat /\ asOf[cursor] \in Nat
    BY DEF PublishEntity, Inv, TypeOK, Entity
  <2>2. TickReport(cursor).tick = tick /\ TickReport(cursor).asOf = asOf[cursor]
    BY DEF TickReport
  <2>3. TickReport(cursor).time = tick * Dt
    BY <2>1, NextMultiple DEF TickReport, Inv, TickInv, Running, MidTick
  <2>4. cursor \in Flying => asOf[cursor] = tick
    BY <2>1 DEF Inv, FdmInv
  <2>5. /\ dis' = dis \/ dis' = [dis EXCEPT ![cursor] = TickReport(cursor)]
        /\ owp' = owp \/ owp' = [owp EXCEPT ![cursor] = TickReport(cursor)]
    BY DEF PublishEntity
  <2>6. DOMAIN dis = Entity /\ DOMAIN owp = Cooperating
        /\ Flying \subseteq Entity /\ Cooperating \subseteq Flying
    BY DEF Inv, TypeOK
  <2> QED BY <2>1, <2>2, <2>3, <2>4, <2>5, <2>6 DEF Inv
<1>2. CASE UNCHANGED <<dis, owp>>
  BY <1>2 DEF Inv
<1>3. PublishEntity \/ UNCHANGED <<dis, owp>>
  BY DEF Next, vars, outVars, StartFdms, Call, RunUntilStopped, RunTicks, EnterRun,
     CtrlC, LoopStep, BeginTick, JoinEntities, SkipDead, FinishTick, Return,
     EntityStep, WriteControls, ControlWriteFails, StepFdm, StepFdmFails,
     ReadState, ReadStateFails, Die, Proceed
<1> QED BY <1>1, <1>2, <1>3

-----------------------------------------------------------------------------
(* Theorems.                                                                 *)

(* The inductive invariant holds of every behaviour of the runtime.          *)
THEOREM Invariance == Spec => []Inv
<1>1. Inv /\ [Next]_vars => Inv'
  BY TypeStep, TickStep, FdmStep, PublishStep, ReportStep DEF Inv
<1> QED BY InitInv, <1>1, PTL DEF Spec

(* Every variable of the runtime keeps its type.                             *)
THEOREM TypeCorrect == Spec => []TypeOK
<1>1. Inv => TypeOK
  BY DEF Inv
<1> QED BY <1>1, Invariance, PTL

(* Active flying entities are in lock step with the committed tick.          *)
THEOREM LockstepHolds == Spec => []Lockstep
<1>1. Inv => Lockstep
  BY DEF Inv, TickInv, FdmInv, Lockstep, MidTick
<1> QED BY <1>1, Invariance, PTL

(* Reports are stamped with the tick and the time they represent.            *)
THEOREM ReportsHold == Spec => []ReportsAreOfTheirTick
<1>1. Inv => ReportsAreOfTheirTick
  BY DEF Inv
<1> QED BY <1>1, Invariance, PTL

(* No active entity is left out of a committed tick.                         *)
THEOREM NobodyLeftOutHolds == Spec => []NobodyLeftOut
<1>1. Inv => NobodyLeftOut
  BY DEF Inv, PublishInv, NobodyLeftOut
<1> QED BY <1>1, Invariance, PTL

(* A dead entity stays dead, unstepped and unpublished.                      *)
THEOREM DeadStaysDeadHolds == Spec => DeadStaysDead
<1>1. Inv /\ [Next]_vars => [\A e \in Entity : status[e] = "Dead" =>
         /\ status'[e] = "Dead"
         /\ attempted'[e] = attempted[e] /\ dis'[e] = dis[e]
         /\ e \in Flying => fdmSteps'[e] = fdmSteps[e]
         /\ e \in Cooperating => owp'[e] = owp[e]]_vars
  <2> SUFFICES ASSUME Inv, Next, NEW e \in Entity, status[e] = "Dead"
               PROVE /\ status'[e] = "Dead"
                     /\ attempted'[e] = attempted[e] /\ dis'[e] = dis[e]
                     /\ e \in Flying => fdmSteps'[e] = fdmSteps[e]
                     /\ e \in Cooperating => owp'[e] = owp[e]
    OBVIOUS
  <2> USE SimulationAssumption DEF callVars, timeVars, fdmVars, outVars
  <2>0. /\ status \in [Entity -> {"Active", "Dead"}] /\ fdmSteps \in [Flying -> Nat]
        /\ DOMAIN attempted = Entity /\ DOMAIN dis = Entity /\ DOMAIN owp = Cooperating
    BY DEF Inv, TypeOK
  <2>1. CASE StartFdms
    BY <2>0, <2>1 DEF StartFdms
  <2>2. CASE Call \/ CtrlC
    BY <2>2 DEF Call, RunUntilStopped, RunTicks, EnterRun, CtrlC
  <2>3. CASE LoopStep
    <3>1. CASE PublishEntity
      <4>1. cursor # e
        BY <3>1 DEF PublishEntity
      <4> QED BY <2>0, <3>1, <4>1 DEF PublishEntity
    <3>2. CASE BeginTick \/ JoinEntities \/ SkipDead \/ FinishTick \/ Return
      BY <3>2 DEF BeginTick, JoinEntities, SkipDead, FinishTick, Return
    <3> QED BY <2>3, <3>1, <3>2 DEF LoopStep
  <2>4. ASSUME NEW f \in Flying, EntityStep(f)
        PROVE /\ status'[e] = "Dead"
              /\ attempted'[e] = attempted[e] /\ dis'[e] = dis[e]
              /\ e \in Flying => fdmSteps'[e] = fdmSteps[e]
              /\ e \in Cooperating => owp'[e] = owp[e]
    <3>1. f # e
      <4>1. pc = "entities" /\ stage[f] # "done"
        BY <2>4 DEF EntityStep, WriteControls, ControlWriteFails, StepFdm, StepFdmFails,
           ReadState, ReadStateFails, Working
      <4> QED BY <4>1 DEF Inv, FdmInv
    <3>2. /\ UNCHANGED <<attempted, dis, owp>>
          /\ status' = status \/ status' = [status EXCEPT ![f] = "Dead"]
          /\ fdmSteps' = fdmSteps \/ \E n \in {0, 1} : fdmSteps' = [fdmSteps EXCEPT ![f] = @ + n]
      BY <2>4 DEF EntityStep, WriteControls, ControlWriteFails, StepFdm, StepFdmFails,
         ReadState, ReadStateFails, Die, Proceed
    <3> QED BY <2>0, <3>1, <3>2
  <2> QED BY <2>1, <2>2, <2>3, <2>4 DEF Next
<1> QED BY <1>1, Invariance, PTL DEF Spec, DeadStaysDead

(* A bounded call returns with exactly the ticks it was asked for.           *)
THEOREM BoundedRunIsExactHolds == Spec => BoundedRunIsExact
<1>1. Inv /\ [Next]_vars =>
        [pc = "loop" /\ pc' = "idle" /\ limit # NoLimit => localTick = limit]_vars
  <2> SUFFICES ASSUME Inv, Next, pc = "loop", pc' = "idle", limit # NoLimit
               PROVE localTick = limit
    OBVIOUS
  <2>1. Return
    BY DEF Next, StartFdms, Call, RunUntilStopped, RunTicks, EnterRun, CtrlC, LoopStep,
       BeginTick, JoinEntities, SkipDead, PublishEntity, FinishTick, EntityStep,
       WriteControls, ControlWriteFails, StepFdm, StepFdmFails, ReadState,
       ReadStateFails, Working, Die, Proceed
  <2> QED BY <2>1 DEF Return, LoopContinues, Inv, TypeOK, TickInv, Running
<1> QED BY <1>1, Invariance, PTL DEF Spec, BoundedRunIsExact

(* Every step of the runtime is a stutter of the fleet, except the commit of *)
(* a tick, which advances it with the entities published in that tick.       *)
THEOREM Refinement == Spec => ImplementsFleet
<1> USE SimulationAssumption
<1>1. Init => Committed!FleetInit
  BY DEF Init, Committed!FleetInit, HeardByCommit
<1>2. Inv /\ Inv' /\ [Next]_vars => [Committed!Advance]_(Committed!fleetVars)
  <2> SUFFICES ASSUME Inv, Inv', Next
               PROVE Committed!Advance \/ UNCHANGED Committed!fleetVars
    BY DEF vars, timeVars, outVars, Committed!fleetVars, HeardByCommit
  <2>1. CASE FinishTick
    <3> DEFINE survivors == {e \in Entity : attempted[e] = tick}
    <3>1. /\ pc = "publish" /\ cursor = NumEntities + 1 /\ tick = localTick + 1
          /\ localTick' = tick /\ attempted' = attempted
          /\ localTick \in Nat /\ attempted \in [Entity -> Nat]
      BY <2>1 DEF FinishTick, outVars, Inv, TypeOK, TickInv, MidTick
    <3>2. Fixed \subseteq survivors
      BY <3>1 DEF Inv, PublishInv, Fixed, Entity
    <3>3. survivors \subseteq Committed!Alive
      BY <3>1 DEF Committed!Alive, HeardByCommit
    <3>4. HeardByCommit' = [e \in Entity |-> IF e \in survivors THEN localTick + 1
                                             ELSE HeardByCommit[e]]
      <4>1. \A e \in Entity : attempted[e] <= localTick \/ attempted[e] = tick
        BY <3>1 DEF Inv, PublishInv
      <4> QED BY <3>1, <4>1 DEF HeardByCommit
    <3> QED BY <3>1, <3>2, <3>3, <3>4 DEF Committed!Advance
  <2>2. CASE PublishEntity
    <3>1. /\ attempted' = [attempted EXCEPT ![cursor] = tick] /\ localTick' = localTick
          /\ tick = localTick + 1 /\ localTick \in Nat /\ attempted \in [Entity -> Nat]
          /\ cursor \in Entity /\ attempted[cursor] = localTick
      BY <2>2 DEF PublishEntity, timeVars, Inv, TypeOK, TickInv, MidTick, PublishInv, Entity
    <3>2. HeardByCommit' = HeardByCommit
      BY <3>1 DEF HeardByCommit
    <3> QED BY <3>1, <3>2 DEF Committed!fleetVars
  <2>3. CASE UNCHANGED <<localTick, attempted>>
    BY <2>3 DEF Committed!fleetVars, HeardByCommit
  <2>4. FinishTick \/ PublishEntity \/ UNCHANGED <<localTick, attempted>>
    BY DEF Next, callVars, timeVars, outVars, StartFdms, Call, RunUntilStopped, RunTicks,
       EnterRun, CtrlC, LoopStep, BeginTick, JoinEntities, SkipDead, Return, EntityStep,
       WriteControls, ControlWriteFails, StepFdm, StepFdmFails, ReadState,
       ReadStateFails, Die, Proceed
  <2> QED BY <2>1, <2>2, <2>3, <2>4
<1> QED BY <1>1, <1>2, Invariance, PTL DEF Spec, ImplementsFleet, Committed!FleetSpec

=============================================================================
