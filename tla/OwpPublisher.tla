----------------------------- MODULE OwpPublisher -----------------------------
(***************************************************************************)
(* The handoff from the simulation loop to the OWP broker (src/owp.rs):    *)
(* the handle's bounded queue, filled with try_send, and the background    *)
(* connection manager, which connects, drains the queue into report        *)
(* batches, waits between attempts, and is joined when the handle drops.   *)
(*                                                                         *)
(* Scenario time is counted in ticks; an update carries its tick.  0, a    *)
(* time before the first tick, stands for None.  Wall time is only the age *)
(* of a platform's last batch.  The payloads are left out: a report is its *)
(* topic, its platform and the scenario time it is stamped with.           *)
(***************************************************************************)
EXTENDS Integers, Sequences

CONSTANTS
  NumPlatforms,    (* cooperating platforms, 1 is the ownship                  *)
  HasRoute,        (* the ownship has waypoints                                *)
  Capacity,        (* of the event queue                                       *)
  PositionPeriod,  (* position_period, in ticks                                *)
  PeriodicPeriod,  (* periodic_period, in ticks                                *)
  MinInterval,     (* minimum_interval of the wall-rate limiter, in wall units *)
  InitialDelay,    (* initial_retry_delay                                      *)
  MaxDelay,        (* max_retry_delay                                          *)
  MaxTick          (* bound: ticks simulated                                   *)

ASSUME OwpPublisherAssumption ==
  /\ NumPlatforms \in Nat \ {0}
  /\ HasRoute \in BOOLEAN
  /\ Capacity \in Nat \ {0}
  /\ PositionPeriod \in Nat \ {0} /\ PeriodicPeriod \in Nat \ {0}
  /\ MinInterval \in Nat
  /\ InitialDelay \in Nat \ {0} /\ MaxDelay \in Nat /\ MaxDelay >= InitialDelay
  /\ MaxTick \in Nat

Platform == 1..NumPlatforms
Ownship == 1
Time == 0..MaxTick
None == 0
PeriodicTopics ==
  IF HasRoute THEN <<"status", "route", "navigation">> ELSE <<"status", "navigation">>
Topic == {"position", "status", "route", "navigation"}
Update == [platform : Platform, time : Time]

VARIABLES
  tick,       (* tick the simulation is publishing                             *)
  turn,       (* platform it hands over next                                   *)
  handle,     (* "held", "dropping" (in join) or "gone"                        *)
  queue,      (* the mpsc channel                                              *)
  pc,         (* where the manager is                                          *)
  current,    (* the update whose batch it publishes                           *)
  batch,      (* topics still to publish for it                                *)
  schedules,  (* per platform, of this connection: its next deadlines          *)
  idle,       (* wall age of the platform's last batch, capped at MinInterval, *)
              (* where it also is before the first one                         *)
  limited,    (* a wall-rate limit is configured                               *)
  delay,      (* backoff.current                                               *)
  waits,      (* history: waits begun since the last attempt that connected,   *)
              (* capped where the delay is                                     *)
  sent        (* history: time of the last report published, per platform and  *)
              (* topic                                                         *)

simVars == <<tick, turn, handle>>
drainVars == <<current, batch, schedules, idle>>
vars == <<simVars, queue, pc, drainVars, limited, delay, waits, sent>>

FreshSchedule == [position |-> None, periodic |-> None, last |-> None]
Forever == MaxTick + PositionPeriod + PeriodicPeriod
MaxWaits == MaxDelay \div InitialDelay
NoUpdate == [platform |-> Ownship, time |-> None]

TypeOK ==
  /\ tick \in Time /\ turn \in 1..(NumPlatforms + 1)
  /\ handle \in {"held", "dropping", "gone"}
  /\ queue \in Seq(Update) /\ Len(queue) <= Capacity
  /\ pc \in {"top", "connecting", "drain", "select", "publish", "wait", "stopped"}
  /\ current \in Update /\ batch \in Seq(Topic)
  /\ schedules \in
       [Platform -> [position : 0..Forever, periodic : 0..Forever, last : Time]]
  /\ idle \in [Platform -> 0..MinInterval] /\ limited \in BOOLEAN
  /\ delay \in InitialDelay..MaxDelay /\ waits \in 0..MaxWaits
  /\ sent \in [Platform -> [Topic -> Time]]

(* The thread stops at once when its runtime cannot be built.                 *)
Init ==
  /\ tick = 0 /\ turn = NumPlatforms + 1 /\ handle = "held"
  /\ queue = <<>>
  /\ pc \in {"top", "stopped"}
  /\ current = NoUpdate /\ batch = <<>>
  /\ schedules = [p \in Platform |-> FreshSchedule]
  /\ idle = [p \in Platform |-> MinInterval] /\ limited \in BOOLEAN
  /\ delay = InitialDelay /\ waits = 0
  /\ sent = [p \in Platform |-> [t \in Topic |-> None]]

Shutdown == handle # "held"

-------------------------------------------------------------------------------
(* The simulation loop's side.                                                *)

NextTick ==
  /\ handle = "held" /\ turn > NumPlatforms /\ tick < MaxTick
  /\ tick' = tick + 1 /\ turn' = 1
  /\ UNCHANGED <<handle, queue, pc, drainVars, limited, delay, waits, sent>>

(* Mutant: the channel is not bounded.                                        *)
UpdateUnbounded ==
  /\ handle = "held" /\ turn <= NumPlatforms
  /\ turn' = turn + 1
  /\ queue' \in {queue, Append(queue, [platform |-> turn, time |-> tick])}
  /\ UNCHANGED <<tick, handle, pc, drainVars, limited, delay, waits, sent>>

(* update_timed_entity_state for a platform that publishes, or the platform   *)
(* is not Active any more.  try_send refuses the newest update when the queue *)
(* is full or its receiver gone.                                              *)
UpdateTimedEntityState ==
  /\ handle = "held" /\ turn <= NumPlatforms
  /\ turn' = turn + 1
  /\ queue' \in {queue} \cup
       (IF Len(queue) < Capacity /\ pc # "stopped"
        THEN {Append(queue, [platform |-> turn, time |-> tick])} ELSE {})
  /\ UNCHANGED <<tick, handle, pc, drainVars, limited, delay, waits, sent>>

(* Drop sends the shutdown and joins the thread.                              *)
DropHandle ==
  /\ handle = "held" /\ turn > NumPlatforms
  /\ handle' = "dropping"
  /\ UNCHANGED <<tick, turn, queue, pc, drainVars, limited, delay, waits, sent>>

Join ==
  /\ handle = "dropping" /\ pc = "stopped"
  /\ handle' = "gone"
  /\ UNCHANGED <<tick, turn, queue, pc, drainVars, limited, delay, waits, sent>>

WallClock ==
  /\ \E p \in Platform : idle[p] < MinInterval
  /\ idle' = [p \in Platform |-> IF idle[p] < MinInterval THEN idle[p] + 1 ELSE idle[p]]
  /\ UNCHANGED <<simVars, queue, pc, current, batch, schedules, limited, delay,
                 waits, sent>>

-------------------------------------------------------------------------------
(* PublicationSchedule: advance_deadline_past as arithmetic, and its count.   *)

Missed(deadline, period, t) ==
  IF deadline > t THEN 0 ELSE ((t - deadline) \div period) + 1

(* Mutant: the next deadline is counted from the update that was due.         *)
PastFromUpdate(deadline, period, t) == IF deadline > t THEN deadline ELSE t + period

Past(deadline, period, t) == deadline + period * Missed(deadline, period, t)

(* The deadlines an update at t is judged by.                                 *)
Deadline(s, kind, t) == IF s[kind] = None \/ t < s.last THEN t ELSE s[kind]

DuePosition(s, t) == Deadline(s, "position", t) <= t
DuePeriodic(s, t) == Deadline(s, "periodic", t) <= t

Updated(s, t) ==
  [position |-> Past(Deadline(s, "position", t), PositionPeriod, t),
   periodic |-> Past(Deadline(s, "periodic", t), PeriodicPeriod, t),
   last |-> t]

(* Mutant: the periodic reports go out with a position report only.           *)
ReportsTogether(s, p, t) ==
  IF ~DuePosition(s, t) THEN <<>>
  ELSE <<"position">> \o (IF DuePeriodic(s, t) /\ p = Ownship THEN PeriodicTopics ELSE <<>>)

(* What an update of platform p at t publishes, in order.                     *)
Reports(s, p, t) ==
  (IF DuePosition(s, t) THEN <<"position">> ELSE <<>>)
  \o (IF DuePeriodic(s, t) /\ p = Ownship THEN PeriodicTopics ELSE <<>>)

-------------------------------------------------------------------------------
(* run_connection_loop.                                                       *)

Stop == pc' = "stopped"

LoopTop ==
  /\ pc = "top"
  /\ pc' = IF Shutdown THEN "stopped" ELSE "connecting"
  /\ UNCHANGED <<simVars, queue, drainVars, limited, delay, waits, sent>>

ConnectInterrupted ==
  /\ pc = "connecting" /\ Shutdown
  /\ Stop
  /\ UNCHANGED <<simVars, queue, drainVars, limited, delay, waits, sent>>

(* Mutant: a new connection does not reset the backoff.                       *)
ConnectedKeepingBackoff ==
  /\ pc = "connecting"
  /\ pc' = "drain"
  /\ schedules' = [p \in Platform |-> FreshSchedule]
  /\ idle' = [p \in Platform |-> MinInterval]
  /\ waits' = 0
  /\ UNCHANGED <<simVars, queue, current, batch, limited, delay, sent>>

(* drain_connection starts with empty schedules and limiters.                 *)
Connected ==
  /\ pc = "connecting"
  /\ pc' = "drain"
  /\ delay' = InitialDelay
  /\ schedules' = [p \in Platform |-> FreshSchedule]
  /\ idle' = [p \in Platform |-> MinInterval]
  /\ waits' = 0
  /\ UNCHANGED <<simVars, queue, current, batch, limited, sent>>

Capped(x, bound) == IF x > bound THEN bound ELSE x

(* A failed attempt or a lost connection: wait_for_retry(next_delay()), unless *)
(* the shutdown is already there.                                             *)
Retry ==
  /\ pc' = IF Shutdown THEN "stopped" ELSE "wait"
  /\ delay' = Capped(delay + InitialDelay, MaxDelay)
  /\ waits' = Capped(waits + 1, MaxWaits)
  /\ UNCHANGED <<simVars, queue, schedules, idle, limited, sent>>

ConnectFails ==
  /\ pc = "connecting"
  /\ Retry
  /\ UNCHANGED <<current, batch>>

(* Mutant: the wait between attempts does not listen for the shutdown.        *)
WaitOnlyForTimer ==
  /\ pc = "wait" /\ ~Shutdown
  /\ pc' = "top"
  /\ UNCHANGED <<simVars, queue, drainVars, limited, delay, waits, sent>>

WaitEnds ==
  /\ pc = "wait"
  /\ pc' = IF Shutdown THEN "stopped" ELSE "top"
  /\ UNCHANGED <<simVars, queue, drainVars, limited, delay, waits, sent>>

-------------------------------------------------------------------------------
(* drain_connection: the select! takes any branch that is ready, also an      *)
(* update when the shutdown has come as well.                                 *)

DrainTop ==
  /\ pc = "drain"
  /\ pc' = IF Shutdown THEN "stopped" ELSE "select"
  /\ UNCHANGED <<simVars, queue, drainVars, limited, delay, waits, sent>>

SelectShutdown ==
  /\ pc = "select" /\ Shutdown
  /\ Stop
  /\ UNCHANGED <<simVars, queue, drainVars, limited, delay, waits, sent>>

Allows(p) == ~limited \/ idle[p] = MinInterval

(* The deadlines advance whether or not the limiter lets the batch out.       *)
SelectUpdate ==
  /\ pc = "select" /\ queue # <<>>
  /\ LET u == Head(queue)
         s == schedules[u.platform]
         reports == Reports(s, u.platform, u.time)
         due == DuePosition(s, u.time) \/ DuePeriodic(s, u.time)
     IN /\ queue' = Tail(queue)
        /\ schedules' = [schedules EXCEPT ![u.platform] = Updated(s, u.time)]
        /\ IF due /\ Allows(u.platform)
             THEN /\ idle' = [idle EXCEPT ![u.platform] = 0]
                  /\ current' = u /\ batch' = reports
                  /\ pc' = "publish"
             ELSE /\ UNCHANGED <<idle, current, batch>>
                  /\ pc' = "drain"
  /\ UNCHANGED <<simVars, limited, delay, waits, sent>>

(* A message for this publisher-only client is ignored.                       *)
SelectIncoming ==
  /\ pc = "select"
  /\ pc' = "drain"
  /\ UNCHANGED <<simVars, queue, drainVars, limited, delay, waits, sent>>

SelectClientError ==
  /\ pc = "select"
  /\ Retry
  /\ UNCHANGED <<current, batch>>

Publish ==
  /\ pc = "publish" /\ batch # <<>>
  /\ sent' = [sent EXCEPT ![current.platform][Head(batch)] = current.time]
  /\ batch' = Tail(batch)
  /\ UNCHANGED <<simVars, queue, pc, current, schedules, idle, limited, delay, waits>>

(* Mutant: the update whose batch failed is queued again.                     *)
PublishFailsRequeues ==
  /\ pc = "publish" /\ batch # <<>> /\ Len(queue) < Capacity
  /\ queue' = Append(queue, current)
  /\ current' = NoUpdate /\ batch' = <<>>
  /\ pc' = IF Shutdown THEN "stopped" ELSE "wait"
  /\ delay' = Capped(delay + InitialDelay, MaxDelay)
  /\ waits' = Capped(waits + 1, MaxWaits)
  /\ UNCHANGED <<simVars, schedules, idle, limited, sent>>

(* The rest of the batch is lost with the connection.                         *)
PublishFails ==
  /\ pc = "publish" /\ batch # <<>>
  /\ current' = NoUpdate /\ batch' = <<>>
  /\ Retry

BatchDone ==
  /\ pc = "publish" /\ batch = <<>>
  /\ pc' = "drain" /\ current' = NoUpdate
  /\ UNCHANGED <<simVars, queue, batch, schedules, idle, limited, delay, waits, sent>>

-------------------------------------------------------------------------------
Feed == NextTick \/ UpdateTimedEntityState

SelectReady == SelectShutdown \/ SelectUpdate \/ SelectIncoming \/ SelectClientError
PublishReady == Publish \/ PublishFails \/ BatchDone

Manager ==
  \/ LoopTop \/ ConnectInterrupted \/ Connected \/ ConnectFails \/ WaitEnds
  \/ DrainTop \/ SelectReady \/ PublishReady

Next == Feed \/ DropHandle \/ Join \/ WallClock \/ Manager

(* The runtime runs what is ready: the loop heads, the retry timer, the       *)
(* shutdown.  Nothing is assumed of the broker, which need not answer an      *)
(* attempt to connect nor take a publish: client.publish is awaited in the    *)
(* branch's body, without a timeout and where nobody listens for the shutdown *)
(* (owp.rs:945-968), so Publish and PublishFails have no fairness.            *)
Spec ==
  /\ Init /\ [][Next]_vars
  /\ WF_vars(LoopTop \/ DrainTop) /\ WF_vars(WaitEnds) /\ WF_vars(Join)
  /\ WF_vars(ConnectInterrupted) /\ WF_vars(BatchDone)
  /\ WF_vars(SelectUpdate \/ SelectShutdown)

-------------------------------------------------------------------------------
(* Properties.                                                                *)

(* A platform's reports on a topic are stamped with strictly increasing       *)
(* scenario times, across reconnects, backlogs and failed batches: no update  *)
(* is reported twice and none after a later one.                              *)
ReportsMoveForward ==
  [][\A p \in Platform, t \in Topic :
       sent'[p][t] # sent[p][t] => sent'[p][t] > sent[p][t]]_vars

(* Deadlines stay on the grid of the connection's first update: lateness of   *)
(* an update never shifts the later ones, and no deadline is left behind.     *)
DeadlinesDoNotDrift ==
  [][\A p \in Platform :
       LET old == schedules[p]
           new == schedules'[p]
       IN new # old /\ old.last # None /\ new.last # None =>
            /\ (new.position - old.position) % PositionPeriod = 0
            /\ (new.periodic - old.periodic) % PeriodicPeriod = 0
            /\ new.last < new.position /\ new.position <= new.last + PositionPeriod
            /\ new.last < new.periodic /\ new.periodic <= new.last + PeriodicPeriod]_vars

(* Without a wall-rate limit, each period of scenario time in which a         *)
(* platform's update was taken has its position report, and of the ownship    *)
(* its status and navigation reports, before the next update is taken.        *)
EveryPeriodIsReported ==
  pc \in {"drain", "select"} /\ ~limited =>
    \A p \in Platform :
      schedules[p].last # None =>
        /\ sent[p]["position"] >= schedules[p].position - PositionPeriod
        /\ p = Ownship =>
             \A t \in {"status", "navigation"} :
               sent[p][t] >= schedules[p].periodic - PeriodicPeriod

(* The wait grows linearly with the waits in a row up to its maximum, and  *)
(* starts over after an attempt that connected.                               *)
BackoffIsLinear ==
  pc = "connecting" => delay = Capped((waits + 1) * InitialDelay, MaxDelay)

(* One publish that the broker neither takes nor refuses, for ever.           *)
StuckInPublish == <>[](pc = "publish" /\ batch # <<>>)

(* Dropping the handle returns, also while an attempt to connect never        *)
(* resolves, in a retry wait or with a backlog to publish.  One thing alone   *)
(* can hold it: a publish that never returns (owp.rs:945-968), for which the  *)
(* join in Drop then waits for ever.                                          *)
DropReturns == (handle = "dropping" ~> handle = "gone") \/ StuckInPublish
===============================================================================
