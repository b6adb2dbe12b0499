----------------------------- MODULE JsbsimClient -----------------------------
(***************************************************************************)
(* One entity's connection to its JSBSim console (src/fdm.rs): startup     *)
(* with its attempts, waits and cancellation, the first read_state of      *)
(* build_runtime_entities (src/main.rs), then set_property, step and       *)
(* read_state as the tick loop calls them.  The console answers in order   *)
(* and its replies carry no request number, so the client must never be    *)
(* one reply behind.  A command that timed out leaves its reply to come.   *)
(*                                                                         *)
(* The commands are steps of one program, run from 1 to Read and then from *)
(* Write again for every tick.  A command or reply is [kind, n, own]: n is *)
(* a time, or the place of a property in a batch; own (history) is FALSE   *)
(* once the client has given up on it.  One unit of simulated time stands  *)
(* for the frames of one iterate.                                          *)
(***************************************************************************)
EXTENDS Integers, Sequences

CONSTANTS
  MaxAttempts,  (* startup_max_attempts                                        *)
  StartSets,    (* number of start_props                                       *)
  BatchSize,    (* number of properties read_state pipelines                   *)
  MaxTicks      (* bound: ticks run                                            *)

ASSUME JsbsimClientAssumption ==
  /\ MaxAttempts \in Nat \ {0} /\ StartSets \in Nat
  /\ BatchSize \in Nat \ {0} /\ MaxTicks \in Nat

(* The program: run_startup, the health check and the dt check of             *)
(* new_with_policy; the initial read; and a tick.                             *)
Spool == StartSets + 1
Trim == StartSets + 2
Settle == StartSets + 3
HealthCheck == StartSets + 4
DtCheck == StartSets + 5
InitialRead == StartSets + 6
Write == StartSets + 7
TimeAtStart == StartSets + 8
Iterate == StartSets + 9
Poll == StartSets + 10
Read == StartSets + 11

Kind(i) ==
  CASE i <= StartSets \/ i \in {Trim, Write} -> "set"
    [] i \in {Spool, Settle, Iterate} -> "iterate"
    [] i \in {HealthCheck, TimeAtStart, Poll} -> "time"
    [] i = DtCheck -> "dt"
    [] i \in {InitialRead, Read} -> "batch"

(* Commands whose failure is logged and ignored.                              *)
Tolerates(i) == i <= StartSets \/ i \in {Trim, DtCheck, InitialRead}

MaxTime == 2 * MaxAttempts + MaxTicks
Message ==
  [kind : {"set", "iterate", "time", "dt", "batch", "error"},
   n : 0..(MaxTime + BatchSize), own : BOOLEAN]

VARIABLES
  running,     (* the Ctrl-C flag                                              *)
  pc,          (* where startup is; "exchange" runs the program                *)
  attempt,     (* startup attempts begun                                       *)
  windowOpen,  (* connect_retry_window has not passed                          *)
  at,          (* program step                                                 *)
  awaited,     (* replies the step still awaits, 0 before it is sent           *)
  base,        (* t_start of the step call                                     *)
  ticks,       (* ticks completed                                              *)
  inbox,       (* commands on the way to JSBSim                                *)
  wire,        (* replies on the way back                                      *)
  simTime,     (* JSBSim's simulated time (external)                           *)
  owed,        (* iterations it has acknowledged and not integrated (external) *)
  lag,         (* history: what was owed already when the step call began      *)
  fatal        (* history: how the fatal command failed                        *)

startupVars == <<attempt, windowOpen>>
programVars == <<at, awaited, base, ticks, lag>>
linkVars == <<inbox, wire>>
simVars == <<simTime, owed>>
vars == <<running, pc, startupVars, programVars, linkVars, simVars, fatal>>

TypeOK ==
  /\ running \in BOOLEAN /\ windowOpen \in BOOLEAN
  /\ pc \in {"attempt", "connect", "connecting", "connectWait", "exchange",
             "reconnectWait", "failed", "dead"}
  /\ attempt \in 0..MaxAttempts
  /\ at \in 1..Read /\ awaited \in 0..BatchSize /\ ticks \in 0..MaxTicks
  /\ base \in 0..MaxTime /\ simTime + owed \in 0..MaxTime
  /\ lag \in 0..MaxTime
  /\ inbox \in Seq(Message) /\ wire \in Seq(Message)
  /\ fatal \in {"none", "lost", "own", "stale"}

Init ==
  /\ running = TRUE /\ pc = "attempt" /\ attempt = 0 /\ windowOpen = FALSE
  /\ at = 1 /\ awaited = 0 /\ base = 0 /\ ticks = 0 /\ lag = 0
  /\ inbox = <<>> /\ wire = <<>>
  /\ simTime = 0 /\ owed = 0 /\ fatal = "none"

-------------------------------------------------------------------------------
(* Startup: attempts and connecting.                                          *)

CtrlC ==
  /\ running
  /\ running' = FALSE
  /\ UNCHANGED <<pc, startupVars, programVars, linkVars, simVars, fatal>>

Goto(place) ==
  /\ pc' = place
  /\ UNCHANGED <<running, startupVars, programVars, linkVars, simVars, fatal>>

(* Mutant: one attempt too many.                                              *)
BeginOneMore ==
  /\ pc = "attempt" /\ running /\ attempt <= MaxAttempts
  /\ pc' = "connect"
  /\ attempt' = attempt + 1 /\ windowOpen' = TRUE
  /\ UNCHANGED <<running, programVars, linkVars, simVars, fatal>>

BeginAttempt ==
  /\ pc = "attempt" /\ running /\ attempt < MaxAttempts
  /\ pc' = "connect"
  /\ attempt' = attempt + 1 /\ windowOpen' = TRUE
  /\ UNCHANGED <<running, programVars, linkVars, simVars, fatal>>

GiveUp == pc = "attempt" /\ (~running \/ attempt = MaxAttempts) /\ Goto("failed")

TryConnect == pc = "connect" /\ Goto(IF running THEN "connecting" ELSE "attempt")

WindowCloses ==
  /\ windowOpen
  /\ windowOpen' = FALSE
  /\ UNCHANGED <<running, pc, attempt, programVars, linkVars, simVars, fatal>>

(* Mutant: the deadline does not end the connect loop.                        *)
ConnectRefusedForever == pc = "connecting" /\ Goto("connectWait")

ConnectRefused ==
  pc = "connecting" /\ Goto(IF windowOpen THEN "connectWait" ELSE "attempt")

(* sleep_with_cancel ends with its time or, cancelled, with an error.         *)
ConnectWaitEnds ==
  /\ pc = "connectWait"
  /\ Goto("connect") \/ (~running /\ Goto("attempt"))

ReconnectWaitEnds ==
  /\ pc = "reconnectWait"
  /\ Goto("attempt") \/ (~running /\ Goto("failed"))

(* A banner is drained before any command is sent, so it takes no reply.      *)
Connected ==
  /\ pc = "connecting"
  /\ pc' = "exchange" /\ at' = 1 /\ awaited' = 0
  /\ inbox' = <<>> /\ wire' = <<>>
  /\ UNCHANGED <<running, startupVars, base, ticks, lag, simVars, fatal>>

-------------------------------------------------------------------------------
(* Commands.                                                                  *)

Replies(i) == IF Kind(i) = "batch" THEN BatchSize ELSE 1

(* batch_get sends all its gets before it reads; the others are one command.  *)
Send ==
  /\ pc = "exchange" /\ awaited = 0
  /\ at = Write => ticks < MaxTicks
  /\ inbox' = inbox \o [i \in 1..Replies(at) |->
                          [kind |-> Kind(at), n |-> i, own |-> TRUE]]
  /\ awaited' = Replies(at)
  /\ lag' = IF at = TimeAtStart THEN owed ELSE lag
  /\ UNCHANGED <<running, pc, startupVars, at, base, ticks, wire, simVars, fatal>>

(* A tick in the settle phase writes nothing, others may write again.         *)
SkipWrite ==
  /\ pc = "exchange" /\ awaited = 0 /\ at = Write /\ ticks < MaxTicks
  /\ at' = TimeAtStart
  /\ UNCHANGED <<running, pc, startupVars, awaited, base, ticks, lag, linkVars, simVars, fatal>>

(* Mutant: the property name in a get's reply is not compared.                *)
MatchesAnyGet(r) ==
  \/ r.kind = Kind(at) /\ Kind(at) \in {"set", "iterate"}
  \/ r.kind \in {"time", "dt", "batch"} /\ Kind(at) \in {"time", "dt", "batch"}

(* What the client checks of a reply: the words after a set or an iterate,    *)
(* the property name after a get.                                             *)
Matches(r) ==
  /\ r.kind = Kind(at)
  /\ r.kind = "batch" => r.n = BatchSize - awaited + 1

(* Mutant: the first answer to the poll ends the step.                        *)
AnyTime(r) == TRUE

Enough(r) == r.n >= base + 1

(* One more reply of the step has come and is accepted.                       *)
Accept ==
  /\ pc = "exchange" /\ awaited > 0 /\ wire # <<>> /\ Matches(Head(wire))
  /\ wire' = Tail(wire)
  /\ base' = IF at = TimeAtStart THEN Head(wire).n ELSE base
  /\ awaited' = awaited - 1
  /\ IF awaited > 1 \/ (at = Poll /\ ~Enough(Head(wire)))
       THEN UNCHANGED <<at, ticks>>
     ELSE IF at = Read THEN at' = Write /\ ticks' = ticks + 1
     ELSE at' = at + 1 /\ UNCHANGED ticks
  /\ UNCHANGED <<running, pc, startupVars, lag, inbox, simVars, fatal>>

Abandoned(messages) == [i \in DOMAIN messages |-> [messages[i] EXCEPT !.own = FALSE]]

(* The step fails: ignored, or the end of the attempt, or of the entity.      *)
Fail(left, how) ==
  /\ inbox' = Abandoned(inbox) /\ wire' = Abandoned(left)
  /\ awaited' = 0
  /\ IF Tolerates(at)
       THEN at' = at + 1 /\ UNCHANGED <<pc, fatal>>
       ELSE /\ pc' = IF at > InitialRead THEN "dead"
                     ELSE IF attempt < MaxAttempts THEN "reconnectWait" ELSE "attempt"
            /\ fatal' = how
            /\ UNCHANGED at
  /\ UNCHANGED <<running, startupVars, base, ticks, lag, simVars>>

Reject ==
  /\ pc = "exchange" /\ awaited > 0 /\ wire # <<>> /\ ~Matches(Head(wire))
  /\ Fail(Tail(wire), IF Head(wire).own THEN "own" ELSE "stale")

(* The read times out or the socket fails.                                    *)
ReadFails ==
  /\ pc = "exchange" /\ awaited > 0
  /\ Fail(wire, "lost")

(* STEP_SYNC_TIMEOUT passes with the simulated time behind.                   *)
PollExpires ==
  /\ pc = "exchange" /\ at = Poll /\ awaited > 0 /\ wire # <<>>
  /\ Matches(Head(wire)) /\ ~Enough(Head(wire))
  /\ Fail(Tail(wire), "lost")

-------------------------------------------------------------------------------
(* JSBSim (external): it serves commands in order, may refuse any, and may    *)
(* acknowledge an iterate before it has integrated.                           *)

Answer(c) == [c EXCEPT !.n = IF c.kind = "time" THEN simTime ELSE c.n]

Serve ==
  /\ inbox # <<>>
  /\ inbox' = Tail(inbox)
  /\ \/ /\ wire' = Append(wire, Answer(Head(inbox)))
        /\ IF Head(inbox).kind = "iterate"
             THEN owed' = owed + 1
             ELSE owed' = owed
     \/ /\ wire' = Append(wire, [Head(inbox) EXCEPT !.kind = "error"])
        /\ owed' = owed
  /\ UNCHANGED <<running, pc, startupVars, programVars, simTime, fatal>>

Integrate ==
  /\ owed > 0
  /\ simTime' = simTime + 1 /\ owed' = owed - 1
  /\ UNCHANGED <<running, pc, startupVars, programVars, linkVars, fatal>>

-------------------------------------------------------------------------------
Connecting ==
  BeginAttempt \/ GiveUp \/ TryConnect \/ ConnectRefused \/ ConnectWaitEnds
    \/ ReconnectWaitEnds \/ Connected

Exchange == Send \/ SkipWrite \/ Accept \/ Reject \/ ReadFails \/ PollExpires

Next == CtrlC \/ WindowCloses \/ Connecting \/ Exchange \/ Serve \/ Integrate

(* The client's thread runs, its timers expire.  Nothing is assumed of JSBSim. *)
Spec ==
  Init /\ [][Next]_vars /\ WF_vars(WindowCloses) /\ WF_vars(Connecting) /\ WF_vars(Exchange)

-------------------------------------------------------------------------------
(* Properties.                                                                *)

(* A command whose failure counts never succeeds on the reply to another      *)
(* command, although replies of ignored failures are still arriving.          *)
RepliesAreOwn == [][Accept /\ ~Tolerates(at) => Head(wire).own]_vars

(* fdm.rs, step: the poll waits for JSBSim "to integrate".  When read_state   *)
(* runs, JSBSim owes no more than it owed when the step call began: a step    *)
(* whose predecessors are integrated reads a state with all its own frames,   *)
(* and no step adds to what start-up's unawaited iterates (spool, settle)     *)
(* left owed.  So it is for every order of acknowledgement and integration.   *)
StepCompletes == pc = "exchange" /\ at = Read => owed <= lag

(* Startup ends, with a handle or with an error, whether JSBSim answers,      *)
(* refuses, stalls or is not there, and whether or not Ctrl-C comes.          *)
StartupEnds == attempt = 0 ~> pc \in {"failed", "dead"} \/ (pc = "exchange" /\ at > DtCheck)

(* main.rs: "initial read_state failed - using zero kinematics", and fdm.rs:  *)
(* "could not read simulation/dt": the entity goes on.  So what an ignored    *)
(* failure left in the stream is not what kills it.                           *)
IgnoredFailureIsHarmless == pc = "dead" => fatal # "stale"
===============================================================================
