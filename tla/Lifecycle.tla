------------------------------- MODULE Lifecycle -------------------------------
(***************************************************************************)
(* The process from its configuration to its exit (src/main.rs), the        *)
(* heartbeat of the tick loop (src/sim.rs), and the health of it that the   *)
(* admin server reports to a probe (src/admin.rs, --health-check).          *)
(*                                                                         *)
(* Wall time is counted in units of which Second make a second.  A rate in *)
(* Hz is written as its period in units; 0 stands for a rate that is not   *)
(* positive and finite.  SystemTime is taken not to jump, and clients of   *)
(* the admin server to send their request at once.                         *)
(***************************************************************************)
EXTENDS Integers

CONSTANTS
  Flying,       (* the flying entities, the ownship among them                *)
  Configs,      (* the configurations a run may be started with               *)
  None,         (* an absent table or value, a moment that has not come       *)
  Second,       (* units in a second, also SIM_HEARTBEAT_INTERVAL             *)
  StaleAfter,   (* seconds without a heartbeat that /health allows: 5         *)
  Grace,        (* seconds without any tick that /health allows: 60           *)
  ProbeTimeout, (* how long --health-check waits for an answer: 2 s           *)
  StepTimeout,  (* how long the admin thread waits for a step: 30 s           *)
  MaxStall,     (* the longest a tick takes: its JSBSim calls are bounded     *)
  MaxNow        (* bound: wall time                                           *)

Rates == Nat \cup {None}
Mode == {"realtime", "scaled", "unpaced", "stepped"}
TimeConfig == [mode : Mode, rate : Nat, simulation_hz : Rates]
(* contracts: everything else validate_runtime_contracts looks at is in order *)
SupercellConfig ==
  [tick_hz : Rates, time : TimeConfig \cup {None}, contracts : BOOLEAN,
   force_ids : BOOLEAN, la_cal : BOOLEAN, admin : BOOLEAN]

ASSUME LifecycleAssumption ==
  /\ Configs \subseteq SupercellConfig
  /\ None \notin Nat \cup TimeConfig
  /\ Second \in Nat \ {0}
  /\ StaleAfter \in Nat /\ Grace \in Nat /\ MaxStall \in Nat
  /\ ProbeTimeout \in Nat \ {0} /\ StepTimeout \in Nat \ {0}
  /\ MaxNow \in Nat /\ Second <= MaxNow

VARIABLES
  now,             (* wall time; its seconds are the epoch seconds            *)
  config,          (* the parsed configuration                                *)
  stage,           (* how far main has come                                   *)
  running,         (* the flag Ctrl-C clears                                  *)
  owp,             (* the OWP manager's thread                                *)
  fdm,             (* per flying entity: the thread that connects it          *)
  startupComplete, (* what /ready, /status and a stepped /health report       *)
  loop,            (* where the tick loop, or the step loop, is               *)
  tickAt,          (* when the last tick began, None before the first         *)
  lastWrite,       (* last_heartbeat_write of the current call                *)
  lastTick,        (* last_tick_epoch_secs                                    *)
  admin,           (* what the admin server's thread does                     *)
  adminSince,      (* when that thread started                                *)
  stepAt,          (* when it began to wait for its step                      *)
  queued,          (* step requests in main's channel                         *)
  probe,           (* --health-check: what it waits for or has been told      *)
  probeAt          (* when it connected                                       *)

mainVars == <<config, stage, running, owp, fdm, startupComplete>>
tickVars == <<loop, tickAt, lastWrite, lastTick>>
adminVars == <<admin, adminSince, stepAt, queued>>
probeVars == <<probe, probeAt>>
vars == <<now, mainVars, tickVars, adminVars, probeVars>>

Stages == {"config", "owp", "contracts", "connect", "join", "bind", "serve",
           "start", "run", "stopping", "exit"}

TypeOK ==
  /\ now \in Second..MaxNow
  /\ config \in SupercellConfig
  /\ stage \in Stages
  /\ running \in BOOLEAN /\ startupComplete \in BOOLEAN
  /\ owp \in {"none", "up", "joined"}
  /\ fdm \in [Flying -> {"none", "connecting", "connected", "failed"}]
  /\ loop \in {"none", "top", "work", "sleep"}
  /\ tickAt \in Nat \cup {None} /\ lastWrite \in Nat \cup {None} /\ lastTick \in Nat
  /\ admin \in {"off", "idle", "step"}
  /\ adminSince \in Nat /\ stepAt \in Nat /\ queued \in Nat
  /\ probe \in {"none", "waiting", "healthy", "stale", "timeout", "refused"}
  /\ probeAt \in Nat

Init ==
  /\ now = Second
  /\ config \in Configs /\ stage = "config" /\ running = TRUE
  /\ owp = "none" /\ fdm = [e \in Flying |-> "none"] /\ startupComplete = FALSE
  /\ loop = "none" /\ tickAt = None /\ lastWrite = None /\ lastTick = 0
  /\ admin = "off" /\ adminSince = 0 /\ stepAt = 0 /\ queued = 0
  /\ probe = "none" /\ probeAt = 0

-------------------------------------------------------------------------------
(* The configuration.                                                         *)

(* simulation_hz: time.simulation_hz, or else the legacy tick_hz.             *)
SimulationHz(c) ==
  IF c.time # None /\ c.time.simulation_hz # None THEN c.time.simulation_hz ELSE c.tick_hz

TimeMode(c) == IF c.time = None THEN "realtime" ELSE c.time.mode
TimeRate(c) == IF c.time = None THEN 1 ELSE c.time.rate

(* validate_runtime_contracts: a tick_hz that is overridden and a rate that   *)
(* is not used are validated all the same.                                    *)
Valid(c) ==
  /\ c.tick_hz # 0
  /\ SimulationHz(c) \notin {None, 0}
  /\ TimeRate(c) # 0
  /\ c.contracts

Stepped == TimeMode(config) = "stepped"
Paced == TimeMode(config) \in {"realtime", "scaled"}

(* wall_period_for                                                            *)
WallPeriod ==
  IF TimeMode(config) = "scaled" THEN SimulationHz(config) \div TimeRate(config)
                                 ELSE SimulationHz(config)

-------------------------------------------------------------------------------
(* main, up to the loop.  An error drops what has been started.               *)

GoOn(from, to) == stage = from /\ stage' = to

Configure ==
  /\ GoOn("config", IF Valid(config) THEN "owp" ELSE "stopping")
  /\ UNCHANGED <<now, config, running, owp, fdm, startupComplete, tickVars, adminVars, probeVars>>

(* start_owp_publisher, when LA-CAL is configured; it may fail.               *)
StartOwp ==
  /\ \/ /\ GoOn("owp", "contracts")
        /\ owp' = IF config.la_cal THEN "up" ELSE owp
     \/ /\ config.la_cal /\ GoOn("owp", "stopping")
        /\ owp' = owp
  /\ UNCHANGED <<now, config, running, fdm, startupComplete, tickVars, adminVars, probeVars>>

(* The entities' force ids, then the Ctrl-C handler, then one thread each.    *)
CheckContracts ==
  /\ \/ /\ config.force_ids /\ GoOn("contracts", "connect")
        /\ fdm' = [e \in Flying |-> "connecting"]
     \/ /\ ~config.force_ids /\ GoOn("contracts", "stopping")
        /\ fdm' = fdm
  /\ UNCHANGED <<now, config, running, owp, startupComplete, tickVars, adminVars, probeVars>>

(* JsbsimHandle::new_with_running: it looks at the flag between attempts and  *)
(* in its waits, so an attempt that Ctrl-C finds under way may still succeed. *)
Connect(e) ==
  /\ stage = "connect" /\ fdm[e] = "connecting"
  /\ \E result \in {"connected", "failed"} : fdm' = [fdm EXCEPT ![e] = result]
  /\ UNCHANGED <<now, config, stage, running, owp, startupComplete,
                 tickVars, adminVars, probeVars>>

(* The scope ends when every thread has.                                      *)
JoinThreads ==
  /\ \A e \in Flying : fdm[e] # "connecting"
  /\ GoOn("connect", "join")
  /\ UNCHANGED <<now, config, running, owp, fdm, startupComplete, tickVars, adminVars, probeVars>>

(* Mutant: an entity that could not be connected is left out.                 *)
TakeAnyHandle ==
  /\ GoOn("join", IF \E e \in Flying : fdm[e] = "connected" THEN "bind" ELSE "stopping")
  /\ UNCHANGED <<now, config, running, owp, fdm, startupComplete, tickVars, adminVars, probeVars>>

(* fdm_map.insert(idx, result?): one failure ends the process.                *)
TakeHandles ==
  /\ GoOn("join", IF \A e \in Flying : fdm[e] = "connected" THEN "bind" ELSE "stopping")
  /\ UNCHANGED <<now, config, running, owp, fdm, startupComplete, tickVars, adminVars, probeVars>>

(* The FlightGear bridge and the DIS publisher bind their sockets, or fail.   *)
Bind ==
  /\ \E to \in {"serve", "stopping"} : GoOn("bind", to)
  /\ UNCHANGED <<now, config, running, owp, fdm, startupComplete, tickVars, adminVars, probeVars>>

(* spawn_admin_server; when its bind fails the thread ends, and with it the   *)
(* sender of step requests.                                                   *)
Serve ==
  /\ GoOn("serve", "start")
  /\ \/ config.admin /\ admin' = "idle" /\ adminSince' = now
     \/ UNCHANGED <<admin, adminSince>>
  /\ UNCHANGED <<now, config, running, owp, fdm, startupComplete, tickVars,
                 stepAt, queued, probeVars>>

(* start_fdms always returns; then main signals readiness and runs.           *)
Start ==
  /\ GoOn("start", "run")
  /\ startupComplete' = TRUE
  /\ loop' = "top"
  /\ UNCHANGED <<now, config, running, owp, fdm, tickAt, lastWrite, lastTick,
                 adminVars, probeVars>>

(* The admin thread that held the sender of a stepped run could not bind.     *)
(* Without an admin address main keeps the sender itself.                     *)
Disconnected == Stepped /\ config.admin /\ admin = "off"

(* Mutant: the step loop looks at the flag only when a request has come.      *)
LeaveWhenAsked ==
  /\ loop = "top"
  /\ Disconnected \/ (~running /\ (Stepped => queued > 0))
  /\ GoOn("run", "stopping")
  /\ loop' = "none" /\ queued' = 0
  /\ UNCHANGED <<now, config, running, owp, fdm, startupComplete, tickAt, lastWrite,
                 lastTick, admin, adminSince, stepAt, probeVars>>

(* Both loops end on the flag, that of run_external_steps also when nobody is *)
(* left to send a request; it then drops its receiver.                        *)
LeaveLoop ==
  /\ loop = "top"
  /\ ~running \/ Disconnected
  /\ GoOn("run", "stopping")
  /\ loop' = "none" /\ queued' = 0
  /\ UNCHANGED <<now, config, running, owp, fdm, startupComplete, tickAt, lastWrite,
                 lastTick, admin, adminSince, stepAt, probeVars>>

(* Dropping the OWP handle joins its manager, if that ever stops (DropReturns *)
(* of OwpPublisher); the admin thread is not joined.                          *)
DropOwp ==
  /\ stage = "stopping" /\ owp = "up"
  /\ owp' = "joined"
  /\ UNCHANGED <<now, config, stage, running, fdm, startupComplete, tickVars,
                 adminVars, probeVars>>

Exit ==
  /\ owp # "up" /\ GoOn("stopping", "exit")
  /\ admin' = "off"
  /\ UNCHANGED <<now, config, running, owp, fdm, startupComplete, tickVars,
                 adminSince, stepAt, queued, probeVars>>

(* Before its handler is set, Ctrl-C ends the process.                        *)
CtrlC ==
  /\ running /\ stage # "exit"
  /\ running' = FALSE
  /\ stage' = IF stage \in {"config", "owp", "contracts"} THEN "exit" ELSE stage
  /\ UNCHANGED <<now, config, owp, fdm, startupComplete, tickVars, adminVars, probeVars>>

-------------------------------------------------------------------------------
(* The tick loop and its heartbeat.                                           *)

Seconds(t) == t \div Second

(* Mutant: the heartbeat is written once per call.                            *)
HeartbeatOnce ==
  IF lastWrite = None
    THEN lastWrite' = now /\ lastTick' = Seconds(now)
    ELSE UNCHANGED <<lastWrite, lastTick>>

(* At the start of a tick, at most once a second.                             *)
Heartbeat ==
  IF lastWrite = None \/ now - lastWrite >= Second
    THEN lastWrite' = now /\ lastTick' = Seconds(now)
    ELSE UNCHANGED <<lastWrite, lastTick>>

(* The bound: a paced tick is not begun when its period would pass MaxNow.    *)
BeginTick ==
  /\ loop = "top" /\ running /\ ~Stepped
  /\ Paced => now + WallPeriod <= MaxNow
  /\ loop' = "work" /\ tickAt' = now
  /\ Heartbeat
  /\ UNCHANGED <<now, mainVars, adminVars, probeVars>>

(* A paced loop sleeps for what is left of the period.                        *)
EndTick ==
  /\ loop = "work" /\ ~Stepped
  /\ loop' = IF Paced /\ now - tickAt <= WallPeriod THEN "sleep" ELSE "top"
  /\ UNCHANGED <<now, mainVars, tickAt, lastWrite, lastTick, adminVars, probeVars>>

WakeLoop ==
  /\ loop = "sleep" /\ now - tickAt >= WallPeriod
  /\ loop' = "top"
  /\ UNCHANGED <<now, mainVars, tickAt, lastWrite, lastTick, adminVars, probeVars>>

(* Mutant: an expired wait for a request is taken for one.                    *)
BeginUnasked ==
  /\ loop = "top" /\ running /\ Stepped
  /\ loop' = "work" /\ tickAt' = now
  /\ lastWrite' = now /\ lastTick' = Seconds(now)
  /\ queued' = queued - 1
  /\ UNCHANGED <<now, mainVars, admin, adminSince, stepAt, probeVars>>

(* run_external_steps: a request is taken and its tick begun, by a call of    *)
(* run_internal of its own.                                                   *)
BeginStep ==
  /\ loop = "top" /\ running /\ Stepped /\ queued > 0
  /\ loop' = "work" /\ tickAt' = now
  /\ lastWrite' = now /\ lastTick' = Seconds(now)
  /\ queued' = queued - 1
  /\ UNCHANGED <<now, mainVars, admin, adminSince, stepAt, probeVars>>

(* The answer reaches the admin thread if it still waits for this request:    *)
(* the last one sent, so that none is queued behind it.                       *)
Answered == admin' = IF admin = "step" /\ queued' = 0 THEN "idle" ELSE admin

EndStep ==
  /\ loop = "work" /\ Stepped
  /\ loop' = "top"
  /\ queued' = queued /\ Answered
  /\ UNCHANGED <<now, mainVars, tickAt, lastWrite, lastTick, adminSince, stepAt, probeVars>>

(* A request that does not fit the timeline is answered without a tick.       *)
RejectStep ==
  /\ loop = "top" /\ running /\ Stepped /\ queued > 0
  /\ queued' = queued - 1 /\ Answered
  /\ UNCHANGED <<now, mainVars, tickVars, adminSince, stepAt, probeVars>>

-------------------------------------------------------------------------------
(* The admin server's one thread, and a probe.  Connections are accepted in   *)
(* order: a probe that waits comes before the next step request.              *)

AdminStep ==
  /\ admin = "idle" /\ Stepped /\ stage \in {"start", "run"} /\ probe # "waiting"
  /\ admin' = "step" /\ stepAt' = now /\ queued' = queued + 1
  /\ UNCHANGED <<now, mainVars, tickVars, adminSince, probeVars>>

(* recv_timeout: the time is up, or main has dropped the receiver.            *)
GiveUpStep ==
  /\ admin = "step"
  /\ now - stepAt >= StepTimeout \/ stage = "stopping"
  /\ admin' = "idle"
  /\ UNCHANGED <<now, mainVars, tickVars, adminSince, stepAt, queued, probeVars>>

(* Mutant: a server that has seen no tick is healthy.                         *)
HealthyUntilTick ==
  IF Stepped THEN startupComplete
  ELSE IF lastTick = 0 THEN TRUE
  ELSE Seconds(now) <= lastTick + StaleAfter

(* GET /health.                                                               *)
IsHealthy ==
  IF Stepped THEN startupComplete
  ELSE IF lastTick = 0 THEN Seconds(now - adminSince) <= Grace
  ELSE Seconds(now) <= lastTick + StaleAfter

(* --health-check connects, at most once a unit: the listener queues it, or   *)
(* there is none.                                                             *)
ProbeConnect ==
  /\ probe # "waiting" /\ probeAt < now
  /\ probe' = IF admin = "off" THEN "refused" ELSE "waiting"
  /\ probeAt' = now
  /\ UNCHANGED <<now, mainVars, tickVars, adminVars>>

ProbeAnswer ==
  /\ probe = "waiting" /\ admin = "idle"
  /\ probe' = IF IsHealthy THEN "healthy" ELSE "stale"
  /\ UNCHANGED <<now, mainVars, tickVars, adminVars, probeAt>>

ProbeGiveUp ==
  /\ probe = "waiting"
  /\ probe' = IF admin = "off" THEN "refused" ELSE "timeout"
  /\ admin = "off" \/ (admin = "step" /\ now - probeAt >= ProbeTimeout)
  /\ UNCHANGED <<now, mainVars, tickVars, adminVars, probeAt>>

-------------------------------------------------------------------------------
(* Time passes while somebody waits for the network or for it; an idle admin  *)
(* thread answers within the unit.                                            *)
WallClock ==
  /\ now < MaxNow
  /\ stage \notin {"config", "owp", "contracts", "exit"}
  /\ loop = "work" => now - tickAt < MaxStall
  /\ admin = "step" => now - stepAt < StepTimeout
  /\ probe = "waiting" => admin = "step" /\ now - probeAt < ProbeTimeout
  /\ now' = now + 1
  /\ UNCHANGED <<mainVars, tickVars, adminVars, probeVars>>

Main == Configure \/ StartOwp \/ CheckContracts \/ JoinThreads \/ TakeHandles \/ Bind
        \/ Serve \/ Start \/ LeaveLoop \/ Exit
Tick == BeginTick \/ EndTick \/ WakeLoop \/ BeginStep \/ EndStep \/ RejectStep
Admin == AdminStep \/ GiveUpStep
Probe == ProbeConnect \/ ProbeAnswer \/ ProbeGiveUp

Next == Main \/ DropOwp \/ (\E e \in Flying : Connect(e)) \/ Tick \/ Admin \/ Probe \/ CtrlC \/ WallClock

(* Threads run, a connection attempt and a tick end, and time passes.  Main's *)
(* join of the OWP manager need not return.                                   *)
Fairness ==
  /\ WF_vars(Main) /\ \A e \in Flying : WF_vars(Connect(e))
  /\ WF_vars(EndTick \/ WakeLoop \/ EndStep)
  /\ WF_vars(GiveUpStep) /\ WF_vars(ProbeAnswer \/ ProbeGiveUp) /\ WF_vars(WallClock)

Spec == Init /\ [][Next]_vars /\ Fairness

-------------------------------------------------------------------------------
(* Properties.                                                                *)

(* Nothing is served, ticked or reported ready with part of the fleet: the    *)
(* admin server and the loop exist only when the configuration was accepted   *)
(* and every flying entity connected (main.rs:432).                           *)
AllOrNothing ==
  admin # "off" \/ loop # "none" \/ startupComplete =>
    /\ Valid(config) /\ config.force_ids
    /\ \A e \in Flying : fdm[e] = "connected"

Told(verdict) == probe' = verdict /\ probe # verdict

(* A probe that is told the simulation is healthy can rely on it: in a        *)
(* stepped run start-up is complete; otherwise a tick began less than         *)
(* StaleAfter + 1 seconds ago, or none has and the server is young.  The      *)
(* stepped case is the code's (admin.rs:82-85, on purpose): a stepped run     *)
(* that never ticks is healthy for ever, where docs/contracts.md:305 has 503  *)
(* 60 s after startup in every mode.                                          *)
HealthyMeansAlive ==
  [][Told("healthy") =>
       IF Stepped THEN startupComplete
       ELSE IF tickAt = None THEN now - adminSince < (Grace + 1) * Second
       ELSE now - tickAt < (StaleAfter + 1) * Second]_vars

(* A probe that fails has a reason: the process is not serving, a stepped run *)
(* has not started, no tick has begun for more than StaleAfter - 1 seconds    *)
(* (the heartbeat may be a second older than the tick), or the admin thread   *)
(* has been held by a step request for as long as the probe waited.           *)
UnhealthyMeansTrouble ==
  [][/\ Told("refused") => admin = "off"
     /\ Told("stale") =>
          IF Stepped THEN ~startupComplete
          ELSE IF tickAt = None THEN now - adminSince > Grace * Second
          ELSE now - tickAt > (StaleAfter - 1) * Second
     /\ Told("timeout") =>
          Stepped /\ admin = "step" /\ stepAt <= probeAt /\ now - stepAt >= ProbeTimeout]_vars

(* Wherever Ctrl-C finds the process, connecting, serving a step, in a tick   *)
(* or asleep, it ends, unless main waits for ever in the join of an OWP       *)
(* manager that is stuck in a publish (owp.rs:945-968).                       *)
ShutdownEndsTheProcess ==
  (~running ~> stage = "exit") \/ <>[](stage = "stopping" /\ owp = "up")
================================================================================
