---------------------------- MODULE LifecycleProofs ----------------------------
(***************************************************************************)
(* What Lifecycle promises of start-up and of the health endpoint, for     *)
(* every fleet, configuration, rate, time limit and length of a second.    *)
(***************************************************************************)
EXTENDS Lifecycle, TLAPS

(* Dividing by the units of a second, by its quotient and remainder.          *)
LEMMA DivisionBounds ==
  ASSUME NEW a \in Nat, NEW d \in Nat \ {0}
  PROVE  /\ a \div d \in Nat
         /\ d * (a \div d) <= a
         /\ a < d * (a \div d) + d
  BY Z3

(* Epoch seconds that are close are of moments that are close, and those of a *)
(* later moment are not less.                                                 *)
LEMMA CloseSeconds ==
  ASSUME NEW n \in Nat, NEW w \in Nat, NEW s \in Nat, NEW d \in Nat \ {0}
  PROVE  /\ n \div d <= (w \div d) + s => n < w + (s + 1) * d
         /\ ~(n \div d <= (w \div d) + s) => n > w + s * d
<1> DEFINE p == n \div d
           q == w \div d
<1>1. p \in Nat /\ d * p <= n /\ n < d * p + d  BY DivisionBounds
<1>2. q \in Nat /\ d * q <= w /\ w < d * q + d  BY DivisionBounds
<1> HIDE DEF p, q
<1>3. CASE p <= q + s
  <2>1. d * p <= d * (q + s)  BY <1>1, <1>2, <1>3
  <2>2. d * (q + s) = d * q + d * s  BY <1>2
  <2>3. (s + 1) * d = d * s + d  OBVIOUS
  <2>4. d * s \in Nat /\ d * p \in Nat /\ d * q \in Nat  BY <1>1, <1>2
  <2>5. n < w + (s + 1) * d  BY <1>1, <1>2, <2>1, <2>2, <2>3, <2>4
  <2> QED  BY <1>3, <2>5 DEF p, q
<1>4. CASE ~(p <= q + s)
  <2>1. q + s + 1 <= p  BY <1>1, <1>2, <1>4
  <2>2. d * (q + s + 1) <= d * p  BY <1>1, <1>2, <2>1
  <2>3. d * (q + s + 1) = d * q + d * s + d  BY <1>2
  <2>4. d * s = s * d  OBVIOUS
  <2>5. d * s \in Nat /\ d * p \in Nat /\ d * q \in Nat  BY <1>1, <1>2
  <2>6. n > w + s * d  BY <1>1, <1>2, <2>2, <2>3, <2>4, <2>5
  <2> QED  BY <1>4, <2>6 DEF p, q
<1> QED  BY <1>3, <1>4

-------------------------------------------------------------------------------
(* How far main has come tells what has been checked and started.             *)
Accepted == Valid(config) /\ config.force_ids
AllConnected == \A e \in Flying : fdm[e] = "connected"

StartInv ==
  /\ stage \notin {"config", "stopping", "exit"} => Valid(config)
  /\ stage \in {"connect", "join", "bind", "serve", "start", "run"} => config.force_ids
  /\ stage \in {"bind", "serve", "start", "run"} => AllConnected
  /\ stage \in {"config", "owp", "contracts", "connect", "join", "bind", "serve"} =>
       admin = "off" /\ loop = "none" /\ ~startupComplete
  /\ AllOrNothing

(* Where the heartbeat stands to the tick that wrote it last, and the moments *)
(* that were recorded to the present.                                         *)
HeartbeatInv ==
  /\ tickAt = None => lastWrite = None /\ lastTick = 0
  /\ tickAt # None =>
       /\ tickAt \in Nat /\ lastWrite \in Nat
       /\ Second <= lastWrite /\ lastWrite <= tickAt /\ tickAt <= now
       /\ tickAt < lastWrite + Second
       /\ lastTick = Seconds(lastWrite)
  /\ adminSince <= now /\ stepAt <= now /\ probeAt <= now

(* A probe that waits came after the step the admin thread is held by.        *)
QueueInv ==
  /\ admin = "step" => Stepped
  /\ admin = "step" /\ probe = "waiting" => stepAt <= probeAt

Inv == TypeOK /\ StartInv /\ HeartbeatInv /\ QueueInv

(* The configuration is settled before anything else.                         *)
LEMMA InitInv == Init => Inv
<1> SUFFICES ASSUME Init PROVE Inv
  OBVIOUS
<1> USE LifecycleAssumption DEF Init
<1>1. TypeOK
  <2>1. fdm \in [Flying -> {"none", "connecting", "connected", "failed"}]
    OBVIOUS
  <2>2. now \in Second..MaxNow /\ config \in SupercellConfig
    OBVIOUS
  <2> QED  BY <2>1, <2>2 DEF TypeOK, Stages
<1>2. StartInv  BY DEF StartInv, AllOrNothing
<1>3. HeartbeatInv /\ QueueInv  BY DEF HeartbeatInv, QueueInv
<1> QED  BY <1>1, <1>2, <1>3 DEF Inv

(* The seconds of a moment are a number, and not zero after the first second. *)
LEMMA SecondsOf ==
  ASSUME NEW t \in Nat
  PROVE  Seconds(t) \in Nat /\ (Second <= t => Seconds(t) # 0)
<1>1. Second \in Nat \ {0}  BY LifecycleAssumption
<1>2. t \div Second \in Nat /\ t < Second * (t \div Second) + Second
  BY <1>1, DivisionBounds
<1>3. t \div Second = 0 => Second * (t \div Second) = 0  BY <1>1, <1>2
<1> QED  BY <1>1, <1>2, <1>3 DEF Seconds

-------------------------------------------------------------------------------
(* A step keeps every variable in its type.                                   *)
LEMMA TypeStep == TypeOK /\ [Next]_vars => TypeOK'
<1> SUFFICES ASSUME TypeOK, [Next]_vars PROVE TypeOK'
  OBVIOUS
<1> USE LifecycleAssumption DEF TypeOK, mainVars, tickVars, adminVars, probeVars
<1>0. Seconds(now) \in Nat  BY SecondsOf
<1>1. CASE Main \/ DropOwp
  <2>1. CASE Configure \/ StartOwp \/ JoinThreads \/ TakeHandles \/ Bind
    BY <2>1 DEF GoOn, Stages, Configure, StartOwp, JoinThreads, TakeHandles, Bind
  <2>2. CASE CheckContracts
    <3>1. fdm' \in [Flying -> {"none", "connecting", "connected", "failed"}]
      BY <2>2 DEF CheckContracts
    <3> QED  BY <2>2, <3>1 DEF GoOn, Stages, CheckContracts
  <2>3. CASE Serve
    BY <2>3 DEF GoOn, Stages, Serve
  <2>4. CASE Start
    BY <2>4 DEF GoOn, Stages, Start
  <2>5. CASE LeaveLoop \/ DropOwp \/ Exit
    BY <2>5 DEF GoOn, Stages, LeaveLoop, DropOwp, Exit
  <2> QED  BY <1>1, <2>1, <2>2, <2>3, <2>4, <2>5 DEF Main
<1>2. ASSUME NEW e \in Flying, Connect(e) PROVE TypeOK'
  BY <1>2 DEF Connect
<1>3. CASE BeginTick
  BY <1>0, <1>3 DEF BeginTick, Heartbeat
<1>4. CASE EndTick \/ WakeLoop \/ BeginStep \/ EndStep \/ RejectStep
  BY <1>0, <1>4 DEF EndTick, WakeLoop, BeginStep, EndStep, RejectStep, Answered
<1>5. CASE Admin \/ Probe
  BY <1>5 DEF Admin, Probe, AdminStep, GiveUpStep, ProbeConnect, ProbeAnswer, ProbeGiveUp
<1>6. CASE CtrlC
  BY ZenonT(30), <1>6 DEF CtrlC, Stages
<1>7. CASE WallClock
  BY <1>7 DEF WallClock
<1>8. CASE UNCHANGED vars
  BY <1>8 DEF vars
<1> QED
  BY <1>1, <1>2, <1>3, <1>4, <1>5, <1>6, <1>7, <1>8 DEF Next, Tick

(* Each stage of start-up is entered with what the ones before it checked.    *)
LEMMA StartStep == TypeOK /\ StartInv /\ [Next]_vars => StartInv'
<1> SUFFICES ASSUME TypeOK, StartInv, [Next]_vars PROVE StartInv'
  OBVIOUS
<1> USE DEF TypeOK, Stages, StartInv, AllConnected, AllOrNothing, mainVars, tickVars,
            adminVars, probeVars
<1>1. CASE Main \/ DropOwp
  <2>1. CASE Configure \/ StartOwp \/ JoinThreads \/ TakeHandles \/ Bind
    BY <2>1 DEF GoOn, Configure, StartOwp, JoinThreads, TakeHandles, Bind
  <2>2. CASE CheckContracts
    BY <2>2 DEF GoOn, CheckContracts
  <2>3. CASE Serve \/ Start
    BY <2>3 DEF GoOn, Serve, Start
  <2>4. CASE LeaveLoop \/ DropOwp \/ Exit
    BY <2>4 DEF GoOn, LeaveLoop, DropOwp, Exit
  <2> QED  BY <1>1, <2>1, <2>2, <2>3, <2>4 DEF Main
<1>2. ASSUME NEW e \in Flying, Connect(e) PROVE StartInv'
  BY <1>2 DEF Connect
<1>3. CASE Tick
  BY <1>3 DEF Tick, BeginTick, EndTick, WakeLoop, BeginStep, EndStep, RejectStep, Answered
<1>4. CASE Admin \/ Probe
  BY <1>4 DEF Admin, Probe, AdminStep, GiveUpStep, ProbeConnect, ProbeAnswer, ProbeGiveUp
<1>5. CASE CtrlC
  BY <1>5 DEF CtrlC
<1>6. CASE WallClock \/ UNCHANGED vars
  BY <1>6 DEF WallClock, vars
<1> QED
  BY <1>1, <1>2, <1>3, <1>4, <1>5, <1>6 DEF Next

(* A heartbeat is written at the start of a tick or is less than a second     *)
(* older than it.                                                             *)
LEMMA HeartbeatStep == TypeOK /\ HeartbeatInv /\ [Next]_vars => HeartbeatInv'
<1> SUFFICES ASSUME TypeOK, HeartbeatInv, [Next]_vars PROVE HeartbeatInv'
  OBVIOUS
<1> USE LifecycleAssumption DEF TypeOK, HeartbeatInv, mainVars, tickVars, adminVars, probeVars
<1>1. CASE Main \/ DropOwp
  BY <1>1 DEF Main, Configure, StartOwp, CheckContracts, JoinThreads,
     TakeHandles, Bind, Serve, Start, LeaveLoop, DropOwp, Exit, Seconds
<1>2. ASSUME NEW e \in Flying, Connect(e) PROVE HeartbeatInv'
  BY <1>2 DEF Connect, Seconds
<1>3. CASE BeginTick
  <2>1. CASE lastWrite = None \/ now - lastWrite >= Second
    BY <1>3, <2>1 DEF BeginTick, Heartbeat, Seconds
  <2>2. CASE lastWrite # None /\ now - lastWrite < Second
    BY <1>3, <2>2 DEF BeginTick, Heartbeat, Seconds
  <2> QED  BY <2>1, <2>2
<1>4. CASE EndTick \/ WakeLoop \/ BeginStep \/ EndStep \/ RejectStep
  BY <1>4 DEF EndTick, WakeLoop, BeginStep, EndStep, RejectStep, Seconds
<1>5. CASE Admin \/ Probe
  BY <1>5 DEF Admin, Probe, AdminStep, GiveUpStep, ProbeConnect, ProbeAnswer, ProbeGiveUp,
     Seconds
<1>6. CASE CtrlC \/ WallClock \/ UNCHANGED vars
  BY <1>6 DEF CtrlC, WallClock, vars, Seconds
<1> QED
  BY <1>1, <1>2, <1>3, <1>4, <1>5, <1>6 DEF Next, Tick

(* Connections are accepted in order.                                         *)
LEMMA QueueStep == TypeOK /\ HeartbeatInv /\ QueueInv /\ [Next]_vars => QueueInv'
<1> SUFFICES ASSUME TypeOK, HeartbeatInv, QueueInv, [Next]_vars PROVE QueueInv'
  OBVIOUS
<1> USE DEF TypeOK, HeartbeatInv, QueueInv, Stepped, mainVars, tickVars, adminVars, probeVars
<1>1. CASE Main \/ DropOwp
  BY <1>1 DEF Main, Configure, StartOwp, CheckContracts, JoinThreads,
     TakeHandles, Bind, Serve, Start, LeaveLoop, DropOwp, Exit
<1>2. ASSUME NEW e \in Flying, Connect(e) PROVE QueueInv'
  BY <1>2 DEF Connect
<1>3. CASE Tick
  BY <1>3 DEF Tick, BeginTick, EndTick, WakeLoop, BeginStep, EndStep, RejectStep, Answered
<1>4. CASE Admin \/ Probe
  BY <1>4 DEF Admin, Probe, AdminStep, GiveUpStep, ProbeConnect, ProbeAnswer, ProbeGiveUp
<1>5. CASE CtrlC \/ WallClock \/ UNCHANGED vars
  BY <1>5 DEF CtrlC, WallClock, vars
<1> QED
  BY <1>1, <1>2, <1>3, <1>4, <1>5 DEF Next

(* The invariant holds in every reachable state.                              *)
THEOREM Invariance == Spec => []Inv
<1>1. Inv /\ [Next]_vars => Inv'
  BY TypeStep, StartStep, HeartbeatStep, QueueStep DEF Inv
<1> QED  BY InitInv, <1>1, PTL DEF Spec

(* Every reachable state is well typed.                                       *)
THEOREM TypeCorrect == Spec => []TypeOK
<1>1. Inv => TypeOK  BY DEF Inv
<1> QED  BY Invariance, <1>1, PTL

(* Nothing is served, ticked or reported ready with part of the fleet or with *)
(* a configuration that was refused.                                          *)
THEOREM AllOrNothingHolds == Spec => []AllOrNothing
<1>1. Inv => AllOrNothing  BY DEF Inv, StartInv
<1> QED  BY Invariance, <1>1, PTL

-------------------------------------------------------------------------------
(* Only an answer tells a probe that the process is healthy or stale.         *)
LEMMA VerdictIsAnswered ==
  ASSUME [Next]_vars, Told("healthy") \/ Told("stale")
  PROVE  ProbeAnswer
<1> USE DEF Told, probeVars
<1>1. CASE Main \/ DropOwp
  BY <1>1 DEF Main, Configure, StartOwp, CheckContracts, JoinThreads,
     TakeHandles, Bind, Serve, Start, LeaveLoop, DropOwp, Exit
<1>2. CASE (\E e \in Flying : Connect(e)) \/ CtrlC \/ WallClock \/ UNCHANGED vars
  BY <1>2 DEF Connect, CtrlC, WallClock, vars
<1>3. CASE Tick \/ Admin
  BY <1>3 DEF Tick, BeginTick, EndTick, WakeLoop, BeginStep, EndStep, RejectStep,
     Admin, AdminStep, GiveUpStep
<1>4. CASE Probe
  BY <1>4 DEF Probe, ProbeConnect, ProbeGiveUp
<1> QED  BY <1>1, <1>2, <1>3, <1>4 DEF Next

(* A probe that is told the simulation is healthy can rely on it.             *)
THEOREM HealthyMeansAliveHolds == Spec => HealthyMeansAlive
<1>1. Inv /\ [Next]_vars =>
        (Told("healthy") =>
           IF Stepped THEN startupComplete
           ELSE IF tickAt = None THEN now - adminSince < (Grace + 1) * Second
           ELSE now - tickAt < (StaleAfter + 1) * Second)
  <2> SUFFICES ASSUME Inv, [Next]_vars, Told("healthy")
               PROVE  IF Stepped THEN startupComplete
                      ELSE IF tickAt = None THEN now - adminSince < (Grace + 1) * Second
                      ELSE now - tickAt < (StaleAfter + 1) * Second
    OBVIOUS
  <2> USE LifecycleAssumption DEF Inv, TypeOK, HeartbeatInv
  <2>1. IsHealthy  BY VerdictIsAnswered DEF ProbeAnswer, Told
  <2>2. CASE Stepped
    BY <2>1, <2>2 DEF IsHealthy
  <2>3. CASE ~Stepped /\ tickAt = None
    <3>1. now - adminSince \in Nat /\ 0 \div Second = 0  OBVIOUS
    <3>2. (now - adminSince) \div Second <= Grace  BY <2>1, <2>3 DEF IsHealthy, Seconds
    <3>3. now - adminSince < 0 + (Grace + 1) * Second
      BY <3>1, <3>2, CloseSeconds
    <3>4. (Grace + 1) * Second \in Nat  OBVIOUS
    <3> QED  BY <2>3, <3>3, <3>4
  <2>4. CASE ~Stepped /\ tickAt # None
    <3>1. lastTick = Seconds(lastWrite) /\ lastTick # 0  BY <2>4, SecondsOf
    <3>2. now \div Second <= (lastWrite \div Second) + StaleAfter
      BY <2>1, <2>4, <3>1 DEF IsHealthy, Seconds
    <3>3. now < lastWrite + (StaleAfter + 1) * Second
      BY <2>4, <3>2, CloseSeconds
    <3>4. (StaleAfter + 1) * Second \in Nat  OBVIOUS
    <3> QED  BY <2>4, <3>3, <3>4
  <2> QED  BY <2>2, <2>3, <2>4
<1> QED  BY Invariance, <1>1, PTL DEF Spec, HealthyMeansAlive

(* A probe that fails has a reason.                                           *)
THEOREM UnhealthyMeansTroubleHolds == Spec => UnhealthyMeansTrouble
<1> DEFINE
      Stale == IF Stepped THEN ~startupComplete
               ELSE IF tickAt = None THEN now - adminSince > Grace * Second
               ELSE now - tickAt > (StaleAfter - 1) * Second
      Held == Stepped /\ admin = "step" /\ stepAt <= probeAt /\ now - stepAt >= ProbeTimeout
<1>1. Inv /\ [Next]_vars => (Told("refused") => admin = "off") /\ (Told("timeout") => Held)
  <2> SUFFICES ASSUME Inv, [Next]_vars
               PROVE  (Told("refused") => admin = "off") /\ (Told("timeout") => Held)
    OBVIOUS
  <2> USE LifecycleAssumption DEF Told, probeVars
  <2>1. CASE Main \/ DropOwp
    BY <2>1 DEF Main, Configure, StartOwp, CheckContracts, JoinThreads,
       TakeHandles, Bind, Serve, Start, LeaveLoop, DropOwp, Exit
  <2>2. CASE (\E e \in Flying : Connect(e)) \/ CtrlC \/ WallClock \/ UNCHANGED vars
    BY <2>2 DEF Connect, CtrlC, WallClock, vars
  <2>3. CASE Tick \/ Admin
    BY <2>3 DEF Tick, BeginTick, EndTick, WakeLoop, BeginStep, EndStep, RejectStep,
       Admin, AdminStep, GiveUpStep
  <2>4. CASE ProbeConnect \/ ProbeAnswer
    BY <2>4 DEF ProbeConnect, ProbeAnswer
  <2>5. CASE ProbeGiveUp
    BY <2>5 DEF ProbeGiveUp, Inv, TypeOK, QueueInv
  <2> QED  BY <2>1, <2>2, <2>3, <2>4, <2>5 DEF Next, Probe
<1>2. Inv /\ [Next]_vars => (Told("stale") => Stale)
  <2> SUFFICES ASSUME Inv, [Next]_vars, Told("stale") PROVE Stale
    OBVIOUS
  <2> USE LifecycleAssumption DEF Inv, TypeOK, HeartbeatInv
  <2>1. ~IsHealthy  BY VerdictIsAnswered DEF ProbeAnswer, Told
  <2>2. CASE Stepped
    BY <2>1, <2>2 DEF IsHealthy
  <2>3. CASE ~Stepped /\ tickAt = None
    <3>1. now - adminSince \in Nat /\ 0 \div Second = 0  OBVIOUS
    <3>2. ~((now - adminSince) \div Second <= 0 + Grace)
      BY <2>1, <2>3, <3>1, SecondsOf DEF IsHealthy, Seconds
    <3>3. now - adminSince > 0 + Grace * Second
      BY <3>1, <3>2, CloseSeconds
    <3>4. Grace * Second \in Nat  OBVIOUS
    <3> QED  BY <2>3, <3>3, <3>4
  <2>4. CASE ~Stepped /\ tickAt # None
    <3>1. lastTick = Seconds(lastWrite) /\ lastTick # 0  BY <2>4, SecondsOf
    <3>2. ~(now \div Second <= (lastWrite \div Second) + StaleAfter)
      BY <2>1, <2>4, <3>1 DEF IsHealthy, Seconds
    <3>3. now > lastWrite + StaleAfter * Second
      BY <2>4, <3>2, CloseSeconds
    <3>4. StaleAfter * Second \in Nat /\ (StaleAfter - 1) * Second = StaleAfter * Second - Second
      OBVIOUS
    <3> QED  BY <2>4, <3>3, <3>4
  <2> QED  BY <2>2, <2>3, <2>4
<1>3. Inv /\ [Next]_vars =>
        /\ Told("refused") => admin = "off"
        /\ Told("stale") => Stale
        /\ Told("timeout") => Held
  BY <1>1, <1>2
<1> QED  BY Invariance, <1>3, PTL DEF Spec, UnhealthyMeansTrouble
================================================================================
