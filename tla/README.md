# SuperCell: a verification project

TLA+ modules, TLC runs and machine-checked proofs for SuperCell, the aircraft
simulation runtime in this repository: a Rust process that steps JSBSim flight
models over TCP, steers them, and publishes their state over DIS, OWP (LA-CAL)
and FlightGear. All paths below are relative to the repository root, so the
code is in `src/*.rs`.

## 1. The system

| Part | State it keeps | Operations | Talks to |
|---|---|---|---|
| Simulation runtime (`sim.rs`, `time.rs`) | entities and their status, `local_tick`, `local_scenario_elapsed` | `start_fdms`, `run_with_time`, `run_ticks_with_time`, `step_once`/`step_ticks` | JSBSim client (calls, in a thread pool), DIS (call), OWP (handle), interpolation thread (mutex) |
| Flight control (closure of `run_internal`) | manual flag, stick inputs, altitude offset, heading setpoint, active waypoint | drain packets, choose mode, write setpoints, advance waypoint | FlightGear socket, JSBSim properties |
| JSBSim client (`fdm.rs`) | one TCP stream per entity | connect and start-up with retries, `step`, `read_state`, `set_property` | JSBSim console |
| External stepping (`admin.rs`, `main.rs`) | request channel, active timeline | `POST /control/step`, `run_external_steps` | HTTP clients, runtime |
| OWP publisher (`owp.rs`) | queue of 1024, per-platform schedule and limiter, backoff | `update_timed_entity_state`, connection manager, drop | broker over WebSocket |
| FlightGear display (`sim.rs`: a thread per call; `flightgear.rs`: codec) | last snapshot and convergence start, per call | publish a snapshot per tick; extrapolate, blend and send at 60 Hz | FlightGear over UDP |
| DIS publisher (`dis.rs`) | socket, buffer | `publish_at` | multicast |
| Admin endpoints (`admin.rs`, `telemetry.rs`) | heartbeat, readiness, metrics | `/health`, `/ready`, `/status`, `/metrics` | HTTP clients, `--health-check` |
| Start-up and shutdown (`main.rs`) | how far main has come, the running flag | validate, connect in parallel, bind, serve, run, drop | everything |
| Configuration (`config.rs`), types (`entity.rs`) | - | run once | start-up |

What is hard: the entities of one tick run in parallel and fail one by one;
JSBSim replies late, on a stream whose replies are not numbered; three threads
(main, admin, OWP manager) and a Ctrl-C handler share flags and channels;
requests time out while they are still queued; the OWP queue overflows while
the broker is away; suppression and manual/autopilot switching remember state
that JSBSim may not have; what FlightGear displays is computed by a thread from
a snapshot that another replaces; the health of the loop is judged by a third
from a heartbeat that is throttled and truncated. `PROJECT.json` lists each of these at its line
("hazards") with the properties that would catch it going wrong.

What makes each part correct, in a sentence: the *runtime* keeps every active
entity on the committed tick and leaves nobody out; *stepping* executes tick i
for exactly one request and never lies about it; *flight control* never
believes a setpoint JSBSim does not have and always gives control back; the
*client* never takes one command's reply for another's; the *publisher*
reports forwards only, on a fixed grid, and can always be shut down; the
*display* neither jumps nor shows the past; *start-up* is all or nothing,
*health* tells the truth within a known margin, and Ctrl-C ends the process
unless the broker holds a publish for ever.

## 2. Modules

| Module | Models | Checked by | Proofs |
|---|---|---|---|
| `Simulation` | the tick loop and its calls | `MCSimulation` | `SimulationProofs` |
| `Fleet` | abstract: a fleet in lock step; implemented by `Simulation` | (as property `ImplementsFleet`) | refinement |
| `ExternalStep` | admin thread, channel, stepping loop of the main thread | `MCExternalStep` | `ExternalStepProofs` |
| `StepService` | abstract: at-most-once steps with truthful answers; implemented by `ExternalStep` | (as property `ImplementsStepService`) | refinement |
| `FlightControl` | steering of one entity | `MCFlightControl` | `FlightControlProofs` |
| `OwpPublisher` | handoff, schedule, connection manager | `MCOwpPublisher` | `OwpPublisherProofs` |
| `JsbsimClient` | one entity's JSBSim connection | `MCJsbsimClient` | `JsbsimClientProofs` |
| `FgInterpolation` | snapshots, sender threads and what FlightGear is shown | `MCFgInterpolation` | `FgInterpolationProofs` |
| `Lifecycle` | the process from configuration to exit, heartbeat, health and its probe | `MCLifecycle` | `LifecycleProofs` |

How they fit: `Simulation` is the frame. It treats an entity's control writes,
step and read as three calls that succeed or fail; `FlightControl` opens up
the first (what is written, and what a failure half way leaves), and
`JsbsimClient` opens up all three (how a call fails, and that a read follows a
completed step). `ExternalStep` takes a step as atomic, which `Simulation`'s
`BoundedRunIsExact` and `Lockstep` justify: a call for one tick commits
exactly that tick, whatever fails and whenever Ctrl-C comes. `OwpPublisher`
takes the updates `Simulation.PublishEntity` hands over. `FgInterpolation` is
the other reader of an entity's state: it keeps `Simulation`'s calls and ticks
and adds what hangs on them. `Lifecycle` is the outer frame: of a tick it keeps
that it begins, stalls and ends (`Simulation`), of a step request that it is
queued, taken and answered (`ExternalStep`), of a connection that it succeeds,
fails or is cancelled (`JsbsimClient`), and shows how these fit in one process.

### Simulation

`pc` is where the owner of the `Simulation` stands: `idle` between calls,
`loop` at the `while` condition, `entities` inside `par_iter_mut`, `publish`
in the sequential publication loop. `stage[e]` is an entity's progress through
its closure; its steps interleave with those of all others. `fdmSteps`,
`asOf`, `attempted`, `dis` and `owp` record what the outside saw. A step that
failed may or may not have been executed by JSBSim (`StepFdmFails`). `status`
is a failure's only lasting mark, as in the code. Scenario time is in units of
which `Dt` make a tick; the epoch is left out.

### ExternalStep

Two threads, a channel and one one-shot channel per request. `stepped` is the
time mode, which decides whether the admin server gets a sender; without an
admin address (`adminPc = "absent"`) main keeps the unused sender, so the loop
waits for Ctrl-C; a failed bind drops the sender and ends the loop. The 30 s
and 250 ms timers may expire at any moment at which they wait. A request that
was answered 504 stays in the channel. When main has left the loop the process
may end at any moment (`ProcessEnds`) and takes the admin thread with it.
A command is abstracted to the fields that validation looks at.

### FlightControl

One tick is `Control` (receive, decide, write) and `StepAndRead`; a write that
fails (`ControlFails`) kills the entity after any prefix of the writes, and
JSBSim may have taken the one that failed. `ap` is JSBSim's side, `lastHdg`
what the code remembers of it. Headings live on a circle of `Circle` units;
throttle, stick and trim are known by the side of their threshold or deadband
they are on. `StopAt` reproduces the drain loop, which ends at the first
datagram that does not decode and leaves the rest for the next tick.

### OwpPublisher

The simulation's side (`NextTick`, `UpdateTimedEntityState`, `DropHandle`,
`Join`) and the manager's (`LoopTop` ... `BatchDone`). Every await of the
manager is a state in which the other side, the broker's failures and the
shutdown can happen; the await of a publish (`pc = "publish"` with topics left
in `batch`) is the one that does not listen for the shutdown and has no timeout,
so nothing but the broker ends it. `advance_deadline_past` is written as division rather
than as its loop. A topic stands for the report its builder makes.

### JsbsimClient

The commands are a program: start-up (`run_startup`, health check, dt check),
the initial read of `build_runtime_entities`, then write, step and read for
every tick. A command is sent, awaited, and accepted or rejected by what the
code compares (`Matches`). A failure abandons what is still under way, which
keeps coming; `Tolerates` names the steps whose failure the code ignores.
`Serve` and `Integrate` are JSBSim: it may refuse, delay or never answer, and
may acknowledge an iterate before it has integrated. `owed` is what it has
acknowledged and not yet integrated; `lag` is a history of what was owed when
the present step call read its base time. The code compares times, and cannot
tell its own frames from frames of start-up that come late: `StepCompletes`
says exactly what that comparison achieves.

### FgInterpolation

`calls` counts the calls of `run_internal`; each has its own mutex
(`fgState[c]`) and its own thread (`thread[c]`: before the flag, asleep,
holding a clone, stopped). `Publish` is the end of the bridged entity's
closure: it captures where the old state has been extrapolated to and replaces
it. `Frame` is what a sender makes of a snapshot. Motion is one coordinate and
one heading; altitude repeats the coordinate and roll the heading, pitch is a
coordinate, and the turning of the velocity within an extrapolation is left
out, since the old and the new frame share it. The blend's cubic is kept in the
integers by multiplying a frame by `Scale = Converge^3`, and `Rem` is Rust's
`%`, which keeps the sign. Publications carry a serial number, a history the
code does not have. `Stepped` chooses between a paced run and calls of one tick
(`step_once`), whose flag nobody clears. `Period = 0` is the unpaced mode, in
which `wall_period` is `None` and a tick is followed by the next one without a
sleep (`Sleeps`). No run is unpaced: the properties are about the display of
paced and stepped runs, and the theorems on frames and snap-back exclude it by
their hypotheses (ticks that follow one another at once are all closer together
than a blend); types and `BlendIsDirect` hold there too. Bounded runs in a paced
mode (`run_ticks_with_time` as tests and embedders call it) are left out.

### Lifecycle

`stage` is how far `main` has come; each stage is an action with its error
branch, and an error leads to `stopping`, where what has been started is
dropped. Until the handler is set (end of `CheckContracts`), Ctrl-C kills.
`fdm[e]` are the connection threads, which look at the flag between attempts and
in waits, so that one may still succeed after Ctrl-C (`Connect`); `JoinThreads`
waits for all of them, `TakeHandles` is the `result?` that ends the process when
one has failed. A loop is left on the flag, and the step loop also when the
sender of requests is gone because the admin server could not bind
(`Disconnected`): a stepped process then ends without Ctrl-C. `DropOwp` is the
join of the OWP manager, which may never return.
`loop` is the tick loop or, in stepped mode, `run_external_steps`; `Heartbeat`
keeps the throttle (`lastWrite`, a monotonic time, per call) and the truncation
to seconds (`lastTick`). The admin thread is one thread: while it waits for a
step (`admin = "step"`) nobody else is answered. A probe is `--health-check`:
it connects, and is answered, refused, or gives up after its read timeout.

Taken on trust: SystemTime does not jump; clients send their request at once;
an idle admin thread answers within a unit; connections are accepted in order;
a tick takes at most `MaxStall`, as every JSBSim call has a timeout.

## 3. Runs

All passing runs complete their state space. `CHECK_DEADLOCK FALSE` is set
where the program ends or waits for a client that never comes; the liveness
properties say what must not stop.

| Run | Shows | Bounds, and why they suffice |
|---|---|---|
| `sim` | `Lockstep`, `ReportsAreOfTheirTick`, `NobodyLeftOut`, `DeadStaysDead`, `BoundedRunIsExact`, `ShutdownEndsTheRun`, `ImplementsFleet` | two flying entities (one commanded and cooperating, one neither) and a fixed one: each kind beside another that can fail; three ticks: calls of one, two and three ticks, a settle phase that ends inside, failures in a first, middle and last tick |
| `steps` | `ExecutedInOrder`, `StampsDoNotDrift`, `ImplementsStepService`, `ShutdownCompletes`, `EveryRequestAnswered` | three requests: one timed out, its retry, and one more; commands wrong in each field; dt = 1.5 us, so that rounding matters |
| `flight` | `SuppressionIsSound`, `AutopilotTracks`, `ManualHeadingIsNearest`, `NoOffsetOutsideManual`, `LinkLossReturnsControl` | two waypoints, three positions, six heading units: suppression within tolerance across north, leads on both sides; two datagrams buffered: a malformed one before a valid one |
| `owp` | `ReportsMoveForward`, `DeadlinesDoNotDrift`, `EveryPeriodIsReported`, `BackoffIsLinear`, `DropReturns` | two platforms, queue of two (overflows in one tick's backlog), periods 2 and 3 over four ticks, backoff 2, 4, 5, 5; the publish that never returns is the stuttering of `Publish` and `PublishFails`. Without the alternative `StuckInPublish` TLC refutes `DropReturns` with just that behaviour |
| `jsbsim` | `RepliesAreOwn`, `StepCompletes`, `StartupEnds` | two attempts, a batch of two gets, two ticks: a late reply can meet every kind of later command; both iterates of start-up may still be owed when the first tick begins, so `StepCompletes` with `owed = 0` for `owed <= lag` is refuted |
| `interp` | `FramesAreCurrent`, `BlendIsDirect`, `NoSnapBack`, `ThreadsEnd` | ticks every 5 units that work for up to 2, a blend of 3 that ends just before the earliest next publication, three publications in 13 units; a circle of 14 with turns both ways, which in that time come to less than a full turn: a blend crosses north, where the raw difference exceeds half a turn. `snapback` has the shipped ratio (period 2, blend 3), `leak` three stepped calls |
| `health` | `AllOrNothing`, `HealthyMeansAlive`, `UnhealthyMeansTrouble`, `ShutdownEndsTheProcess` | twelve configurations: each mode, a tick per second, per four seconds and one doubled by scaling, and one refused by each contract; two entities: one connected beside one that fails; a second is two units, so truncation matters; a stall (9) longer than `StaleAfter` plus a second, a step wait (5) longer than a probe's (2), a grace (1 s) that ends inside the run (12); a stepped run whose admin server cannot bind |

Five runs end in a violation: what a comment, a document or the code's own
intent says, against what the code does.

| Run | Statement | What TLC shows |
|---|---|---|
| `timeout` | `admin.rs`: a step request is answered "only after the simulation finishes it" | after 30 s it is answered 504 and executed later |
| `trim` | `sim.rs`: trim "adds persistent bias" to the hold altitude | with the stick centered the offset is reset in the same tick |
| `ignored` | `fdm.rs`, `main.rs`: a failed dt check or initial read is tolerated | a late reply to it fails the next command and kills the entity |
| `snapback` | `sim.rs`: the blend is "eliminating visible snap-back" | at the shipped 5 Hz a tick comes before the 0.3 s blend has ended, its capture ignores the blend, and the display jumps |
| `leak` | `jsbsim-fdm-mapping.md`: "an `fg-interp` sender thread" extrapolates "from latest state" | in stepped mode every step leaves a thread behind that goes on sending its own old state |

Where a document and the code disagree and a property had to choose, the
property states what the code does:

- `docs/contracts.md:196` and `docs/dis-entity-state-pdu.md:412` say that the DIS
  header timestamp is that of the system clock, and `docs/contracts.md:267` that
  UCI's `MessageHeader.Timestamp` is the current wall-clock time. The code stamps
  both with the tick's scenario time (`sim.rs:933, 942`, `owp.rs:938`), as
  `docs/faster_than_real_time_development_plan.md:21` plans.
  `ReportsAreOfTheirTick` (run `sim`) is about scenario time; it refutes the
  contract wherever scenario time is not the system's.
- `docs/contracts.md:305` says that `/health` answers 503 when the first tick does
  not occur within 60 s of startup. In stepped mode it answers 200 from the end
  of start-up on, however long no step comes (`admin.rs:82-85`, deliberately);
  `HealthyMeansAlive` (run `health`) promises nothing more of a stepped run.
- `docs/contracts.md:132` says that an iterate is "followed by a state-sync polling
  loop". Those of start-up are not (`fdm.rs:475-491`, "let the FDM integrate with
  trim applied"): the connection counts as started when JSBSim has acknowledged
  them, and if it has not integrated them by the first tick, that tick's poll is
  satisfied by them. `StepCompletes` (run `jsbsim`) therefore allows for `lag`.

More divergences were met and need no run, being visible in one place each: the
gauge described as the "current number of active entities"
(`telemetry.rs:112-115`) is set once per run (`sim.rs:399`) and not lowered when
entities die; `decisions.md:20` describes the handoff to the OWP manager as a
watch channel that retains only the newest state, while the manager reads a
queue of 1024 updates (`owp.rs:733, 768-773`); and the comment at `sim.rs:665`
lets the stick lead the heading by up to 30 degrees, while the code clamps the
lead to 20 (`sim.rs:673`; `MaxHdgLead` in `FlightControl`).

### Fairness

- `Simulation`: weak fairness of the loop and of each entity's closure. Every
  JSBSim call is bounded by a socket timeout, so a closure that has begun goes
  on. Nobody has to call, and nobody has to press Ctrl-C.
- `ExternalStep`: weak fairness of both threads, whose every wait has a timer.
  Posting, Ctrl-C and the end of the process are not fair: what main drops on
  its way out (the OWP handle joins a thread) can take its time, and requests
  must be answered meanwhile.
- `FlightControl`: weak fairness of the tick loop and the wall clock.
- `OwpPublisher`: weak fairness of what the runtime polls: loop heads, the
  retry timer, a shutdown while connecting, the end of a batch, and of taking an
  update *or* the shutdown. Nothing is assumed of the broker: an attempt to
  connect need not be answered, and a publish need not return. The first does
  no harm, as the attempt listens for the shutdown; the second does, and
  `DropReturns` says that it is the only thing that does.
- `JsbsimClient`: weak fairness of the client thread and of the connect window.
  Nothing is assumed of JSBSim.
- `FgInterpolation`: weak fairness of every sender thread, which only sleeps
  and sends. Nothing is assumed of the loop: `ThreadsEnd` needs the flag only.
- `Lifecycle`: weak fairness of `main`, of each connection thread (bounded by
  its windows and attempts, and cancelled by the flag: `JsbsimClient`'s
  `StartupEnds`), of the end of a tick and of a sleep, of the admin thread's
  timer and of the clock. Beginning a tick is not fair, nor is Ctrl-C, nor a
  client, nor the join of the OWP manager (`DropOwp`), which `OwpPublisher` does
  not promise: `ShutdownEndsTheProcess` names waiting in it for ever as the only
  alternative to the exit.

## 4. Proofs

`SimulationProofs` proves, for every number of entities, every division into
flying, commanded and cooperating ones, every dt, settle time and tick bound:

| Theorem | States |
|---|---|
| `TypeCorrect` | `Spec => []TypeOK` |
| `LockstepHolds` | `Spec => []Lockstep` |
| `ReportsHold` | `Spec => []ReportsAreOfTheirTick` |
| `NobodyLeftOutHolds` | `Spec => []NobodyLeftOut` |
| `DeadStaysDeadHolds` | `Spec => DeadStaysDead` |
| `BoundedRunIsExactHolds` | `Spec => BoundedRunIsExact` |
| `Refinement` | `Spec => ImplementsFleet` |

The only assumption is `SimulationAssumption` on the constants. None of the
properties is inductive: `Lockstep` speaks of the moments between ticks, and
says nothing of the entity that is half way through one. The invariant `Inv`
closes the gaps:

- `TickInv` relates the loop's tick, the committed tick, the clock and the
  stop tick at each `pc`;
- `FdmInv` says where the JSBSim of an active entity stands by its stage, and
  that an entity still at work is active;
- `PublishInv` says who has been published, by the position of the cursor;
- `ReportsAreOfTheirTick` is inductive relative to these.

Each conjunct is proved preserved under the ones before it (`TypeStep`,
`TickStep`, `FdmStep`, `PublishStep`, `ReportStep`), one case per action that
can disturb it. The refinement maps every action to a stutter of `Fleet`
except `FinishTick`, which is `Advance` with the entities published in this
tick as survivors: publication counts as heard only from the commit on, hence
`HeardByCommit`.

### LifecycleProofs

For every set of configurations and entities and every choice of the time
constants that satisfies `LifecycleAssumption`:

| Theorem | States |
|---|---|
| `TypeCorrect` | `Spec => []TypeOK` |
| `AllOrNothingHolds` | `Spec => []AllOrNothing` |
| `HealthyMeansAliveHolds` | `Spec => HealthyMeansAlive` |
| `UnhealthyMeansTroubleHolds` | `Spec => UnhealthyMeansTrouble` |
| `Invariance` | `Spec => []Inv` |

`AllOrNothing` does not say what `main` has checked by the time it serves;
`StartInv` does, stage by stage. A verdict is computed from `lastTick`, in whole
seconds, while the properties speak of `tickAt`, in units: `HeartbeatInv` says
that the heartbeat holds the seconds of a write that is at most a `Second`
older than the last tick and no later than it, and `CloseSeconds` that
truncation costs less than a second. `QueueInv` ties the admin thread's wait to
the requests in the channel. `VerdictIsAnswered` reduces an action that tells a
probe something to the one action that can.

### FgInterpolationProofs

| Theorem | States | Assuming |
|---|---|---|
| `TypeCorrect` | `Spec => []TypeOK` | |
| `FramesAreCurrentHolds` | `Spec => []FramesAreCurrent` | `~Stepped`, `Period >= 1 + MaxWork` |
| `NoSnapBackHolds` | `Spec => NoSnapBack` | `Stepped`, or `Period >= Converge + MaxWork` |
| `BlendIsDirectHolds` | `Spec /\ []Fresh(age) => []BlendIsDirect` | `Converge <= age`, `GentleTurns(age)` |

The first two results need ticks to be far enough apart; `Inv(gap)` says they are:
`Spaced(gap)` follows the last publication of the present call through the rest
of its tick, the sleep and the next tick's work, and concludes that at least
`gap` has passed when the next publication comes. With a gap of one unit a
thread that was overtaken has sent before it is overtaken again (`SendInv`);
with a gap of a blend the capture is what is displayed, and the new blend
starts exactly there (`PublicationKeepsTheView`, with `SamePlace` and the lemmas
on `Rem`). The assumptions cannot be dropped: the shipped 5 Hz fails the
second one (0.2 s against 0.3 s, run `snapback`) and stepped mode the first
(run `leak`).

`BlendIsDirect` has two halves. That the position stays between the old and the
new one is a fact about the cubic: `Scale` less the smoothstep at `e` is
`(C - e)^2 (3 e + (C - e))`, so it is a share of `Scale` (`SmoothstepIsAShare`,
`ShareIsBetween`). That the displayed heading is on the short arc between the old
and the new one has three steps: both are within `0..Circle - 1`, and one wrap is
then enough (`ShortWay`; `DisplayInv` keeps them there); a share of a turn of at
most half a circle is on that turn (`ShareOfTheWay`, `WayAround`); and the
remainder at the end of the blend, in whichever of three turns it falls, changes
no place on the circle (`RemainderWithinThreeTurns`, `ShareIsOnTheShortArc`). The
hypotheses speak of a snapshot's age and not of the length of the run:
`Fresh(age)` says that a snapshot about to be replaced is at most `age` units old
(a blend lasts no longer than `Converge <= age`), and `GentleTurns(age)` that no
left turn held for that long comes to more than a full one. They are needed. The
code adds one turn before it takes the remainder, and Rust's remainder keeps the
sign, so an older extrapolation would be a negative heading, and the blend from
it could turn by more than half a turn. TLC shows that with rates of -5 and 5
units and a circle of 12.

### ExternalStepProofs

For every set of commands, every dt and the way it is rounded, and every number
of requests:

| Theorem | States |
|---|---|
| `TypeCorrect` | `Spec => []TypeOK` |
| `ExecutedInOrderHolds` | `Spec => []ExecutedInOrder` |
| `StampsDoNotDriftHolds` | `Spec => []StampsDoNotDrift` |
| `Refinement` | `Spec => ImplementsStepService` |
| `Invariance` | `Spec => []Inv` |

The properties speak of what was executed; why it is in order lies on the way
there. `OrderInv` follows a request through the backlog, the channel and the
main thread's hand: each is increasing, and all that is behind is larger.
`ParsedInv` says that only what was parsed goes down the channel, `ExecutedInv`
what each executed request was validated against (tick, timeline and the stamp
the code computes from the elapsed nanoseconds), and `AnswerInv` what can have
been said of a request by where it is: nothing definite before it is handled,
and by its completion only what became of it. The last is what makes the
refinement work: a 504 leaves the outcome open, and a later completion is not
answered again. `StampsDoNotDrift` is then arithmetic on one division
(the elapsed time is a multiple of `DtNs`, never a sum of rounded stamps).
Every action is a stutter of `StepService` or one of its steps
(`RefinementStep`).

### FlightControlProofs

For every flight plan, circle, tolerance, lead, timeout and stream of packets:

| Theorem | States |
|---|---|
| `TypeCorrect` | `Spec => []TypeOK` |
| `SuppressionIsSoundHolds` | `Spec => []SuppressionIsSound` |
| `AutopilotTracksHolds` | `Spec => []AutopilotTracks` |
| `NoOffsetOutsideManualHolds` | `Spec => []NoOffsetOutsideManual` |
| `ManualHeadingIsNearestHolds` | `Spec => ManualHeadingIsNearest` |
| `Invariance` | `Spec => []Inv` |

None of the three invariants is inductive alone. A heading that is not written
because the last one is close enough leaves JSBSim on course only if the last
one is what JSBSim has; together they are inductive, with no further
strengthening. The work is in the writes: `AppliedOnce` and `AppliedNowhere`
say what a sequence of writes leaves in a property that it writes once or not at
all, `ManualWritesAre` and `AutopilotWritesAre` which properties those are, and
`SetpointFollows` that what is remembered follows what was written. A write
that fails kills the entity, of which the properties then say nothing. The lead
is geometry on the circle: `Turned` and `LeadIsNearest` compare the clamped
difference with every other heading within the lead. `Received`, on where the
drain loop stops, takes a least element (`LeastOf`).

### OwpPublisherProofs

For every number of platforms, capacity, period and delay, and runs of any
length:

| Theorem | States |
|---|---|
| `TypeCorrect` | `Spec => []TypeOK` |
| `EveryPeriodIsReportedHolds` | `Spec => []EveryPeriodIsReported` |
| `BackoffIsLinearHolds` | `Spec => []BackoffIsLinear` |
| `ReportsMoveForwardHolds` | `Spec => ReportsMoveForward` |
| `DeadlinesDoNotDriftHolds` | `Spec => DeadlinesDoNotDrift` |
| `Invariance` | `Spec => []Inv` |

`ReportsMoveForward` speaks of two reports, between which lie the queue, a
schedule and perhaps a reconnect. `OrderInv` says that per platform everything
sent or scheduled is older than everything in the queue, the queue is
increasing, and the next update handed over is newer still; dropping an update
when the queue is full, or a batch when a publish fails, keeps that.
`ScheduleInv` places a schedule's deadlines in the period after its last
update, `ReportInv` says that the period before a deadline has been reported or
is still in the batch, and `BackoffInv` ties the delay to the count of waits.
`DeadlinesDoNotDrift` follows from what the division in `Past` returns.

### JsbsimClientProofs

For every number of start properties, batch size, number of attempts and ticks,
and whatever the console answers, refuses, delays or leaves unanswered:

| Theorem | States |
|---|---|
| `TypeCorrect` | `Spec => []TypeOK` |
| `StepCompletesHolds` | `Spec => []StepCompletes` |
| `RepliesAreOwnHolds` | `Spec => RepliesAreOwn` |
| `Invariance` | `Spec => []Inv` |

`RepliesAreOwn` rests on an order nobody states in the code: in what JSBSim has
sent and in what it has yet to answer, the replies to commands given up on come
first, then exactly those the client waits for. `StreamInv` says so, and of
which kinds the first ones can be (`LeftBehind`): those of the commands since
the last one whose failure counts. They are never of the kind the present
command accepts, except in the run of start properties, whose failures do not
count (`LeftOvers`). `TickInv` ties the program's place to the tick count.
`TimeInv` is needed for the types alone: `TypeOK` bounds the simulated time, and
that bound holds because every iterate was paid for by an attempt or a tick
(`Budget`), at most one is on its way and it is the last command sent.
`StepCompletes` says that a read finds no more iterations owed than the step call
found when it began. The poll does not know what is owed; it compares two times,
both of which are old when they arrive. `LagInv` follows them: whatever answer
to the first question is still in the stream, the simulated time and what is
owed exceed it by at most `lag`; and from the iterate on, they exceed `base +
lag` by the one iteration of this tick (`LagStep`, `ServeOwes`). With `CaughtUp`,
the poll's own condition at the moment it is left, at most `lag` can be owed.
TLC has checked `Inv`
also without start properties, with three of them, and with batches of one.

### Assumptions, and what is only model-checked

The theorems rest on the `ASSUME` of their component's module, which TLC
evaluates in every run, and on the hypotheses listed above for
`FgInterpolation`. Every inductive invariant was checked by TLC as an invariant
of its run's instance before it was proved.

Only model-checked are the liveness properties (`ShutdownEndsTheRun`,
`ShutdownCompletes`, `EveryRequestAnswered`, `LinkLossReturnsControl`,
`DropReturns`, `StartupEnds`, `ThreadsEnd`, `ShutdownEndsTheProcess`): liveness
under fairness is out of the prover's reach. Every other property of the
passing runs is a theorem. The refinement theorems are about safety, which is
all that `Fleet` and `StepService` state.

## 5. Not modelled

- Overrun warnings, and pacing inside `Simulation`: they change no state a
  property there speaks of. Pacing is in `Lifecycle` and `FgInterpolation`.
- Coordinate conversions, dead reckoning, PDU and FlightGear byte layouts,
  report payloads: floating-point and byte-level data conversions.
- DIS timestamps (`dis.rs:271-290`): pure arithmetic with boundary tests of its
  own.
- Configuration text, defaults, identifiers and the command line, which run
  before anything concurrent; what is validated and how the rate is resolved is
  in `Lifecycle`.
- The values behind `/metrics`.
- The wrap of longitudes at the 180th meridian, which the blend does not do
  (hazard at `sim.rs:489`).
- Posted requests whose bytes do not arrive in full: the connection is closed
  without an answer, before the endpoint sees a request.
- A process that is killed: nothing is persisted, so there is no recovery.
- Two bridged entities (the code asserts at most one).

### What a reader should know

Consequences of the code that contradict no statement of it, and that the
models show:

- A tick spacing above four seconds, or a tick that stalls that long on JSBSim
  timeouts, can be reported stale: the heartbeat may be a second older than the
  tick, and is compared in whole seconds (`UnhealthyMeansTrouble` is stated with
  `StaleAfter - 1`).
- In stepped mode a probe that waits 2 s behind a step of up to 30 s fails,
  though the process is alive (the `timeout` branch of `UnhealthyMeansTrouble`).
- The admin server starts when all JSBSim connections are made. While they are
  being made a probe is refused; the interval in which `/ready` answers 503
  (`contracts.md:307-308`) is that of `start_fdms` only.
- Before the first tick `/health` is lenient for a minute in every mode but
  stepped (for that one see the divergences above).
- A stepped process whose admin server cannot bind its address logs an error and
  exits as if it had been asked to (`Disconnected`); without an admin address it
  waits for Ctrl-C (`main.rs:240`, `admin.rs:58-62`).
- A broker that keeps the connection open and takes nothing keeps the process
  from ending after Ctrl-C (`owp.rs:945-968`; a second Ctrl-C only clears the flag
  again). The test `drain_connection_exits_on_shutdown` (`owp.rs:1492`) covers a
  broker that takes what it is sent.

## 6. Plan

Every component whose behaviour is concurrent, timed or failing is modelled.
Left:

1. Proofs: properties no run states yet, such as a component's guarantee that
   another one takes for granted (`Simulation`'s atomic step in `ExternalStep`),
   and the hypotheses of `FgInterpolationProofs` derived from a bound on the
   ticks' lateness.
2. What the wall-rate limiter may lose: `configuration.md:40` says excess due
   reports are coalesced, but the schedule has consumed their deadlines when
   the limiter is asked.
