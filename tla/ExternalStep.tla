----------------------------- MODULE ExternalStep -----------------------------
(***************************************************************************)
(* Externally stepped execution: the single-threaded admin server          *)
(* (src/admin.rs), the channel it shares with the main thread, and the     *)
(* main thread's loop run_external_steps (src/main.rs), which owns the     *)
(* Simulation.                                                             *)
(*                                                                         *)
(* A request is its index in `posted`.  It waits in the accept queue, is   *)
(* parsed by the admin thread, sent down an unbounded channel, handled by  *)
(* the main thread, and answered through a one-shot channel of its own, on *)
(* which the admin thread waits for 30 seconds at most.  step_once is one  *)
(* atomic step here: Simulation.tla shows that it commits exactly one tick *)
(* and cannot be cut short.                                                *)
(***************************************************************************)
EXTENDS Naturals, Sequences

CONSTANTS
  Commands,     (* bodies that parse: records [line, tick, t, dt, epochOk],   *)
                (* line being run_id with timeline_epoch, epochOk whether     *)
                (* scenario_epoch_utc is an RFC 3339 time                     *)
  Garbage,      (* a body that does not parse                                 *)
  NoLine,       (* active_timeline = None                                     *)
  DtNs,         (* simulation_dt in nanoseconds                               *)
  DtUs,         (* expected_dt_us                                             *)
  NsPerUs,      (* nanoseconds per microsecond (1000)                         *)
  MaxRequests   (* bound: requests posted in one behaviour                    *)

Lines == {c.line : c \in Commands}
Request == 1..MaxRequests

ASSUME ExternalStepAssumption ==
  /\ Commands \subseteq [line : Lines, tick : Nat, t : Nat, dt : Nat, epochOk : BOOLEAN]
  /\ Garbage \notin Commands
  /\ NoLine \notin Lines
  /\ DtNs \in Nat /\ DtUs \in Nat /\ NsPerUs \in Nat \ {0}
  /\ 2 * DtUs * NsPerUs <= 2 * DtNs + NsPerUs
  /\ 2 * DtNs <= 2 * DtUs * NsPerUs + NsPerUs
  /\ MaxRequests \in Nat

VARIABLES
  stepped,      (* TimeMode::Stepped, when the admin server gets a sender   *)
  running,      (* the flag the Ctrl-C handler clears                       *)
  posted,       (* the bodies posted so far                                 *)
  backlog,      (* connections not accepted yet                             *)
  adminPc,      (* admin thread: "bind", "accept", "await" or "gone";        *)
                (* "absent" when admin_bind_addr is not configured            *)
  awaited,      (* the request the admin thread waits for, when it does     *)
  answer,       (* HTTP status written for each request, 0 before           *)
  channel,      (* requests sent to the main thread                         *)
  completion,   (* the one-shot channel of each request: "empty", "ok", "err" *)
  mainPc,       (* main thread: "check", "recv", "handle", "reply", "exited" *)
                (* (the loop) and "ended" (the process, all threads with it)  *)
  current,      (* the request the main thread handles, when it does        *)
  verdict,      (* result of the request in hand: "ok" or "err"             *)
  timeline,     (* active_timeline                                          *)
  localTick,    (* Simulation.local_tick                                    *)
  elapsedNs,    (* Simulation.local_scenario_elapsed                        *)
  executed      (* the requests that advanced the simulation, in order      *)

adminVars == <<adminPc, awaited, answer>>
mainVars == <<mainPc, current, verdict>>
simVars == <<timeline, localTick, elapsedNs, executed>>
vars == <<stepped, running, posted, backlog, adminVars, channel, completion, mainVars, simVars>>

TypeOK ==
  /\ stepped \in BOOLEAN /\ running \in BOOLEAN
  /\ posted \in Seq(Commands \cup {Garbage}) /\ Len(posted) <= MaxRequests
  /\ backlog \in Seq(Request) /\ channel \in Seq(Request) /\ executed \in Seq(Request)
  /\ adminPc \in {"bind", "accept", "await", "gone", "absent"}
  /\ awaited \in 0..MaxRequests
  /\ answer \in [Request -> {0, 200, 400, 409, 503, 504}]
  /\ completion \in [Request -> {"empty", "ok", "err"}]
  /\ mainPc \in {"check", "recv", "handle", "reply", "exited", "ended"}
  /\ current \in 0..MaxRequests
  /\ verdict \in {"ok", "err"}
  /\ timeline \in Lines \cup {NoLine}
  /\ localTick \in Nat /\ elapsedNs \in Nat

Init ==
  /\ stepped \in BOOLEAN /\ running = TRUE
  /\ posted = <<>> /\ backlog = <<>>
  /\ adminPc \in {"bind", "absent"} /\ awaited = 0 /\ answer = [r \in Request |-> 0]
  /\ channel = <<>> /\ completion = [r \in Request |-> "empty"]
  /\ mainPc = "check" /\ current = 0 /\ verdict = "err"
  /\ timeline = NoLine /\ localTick = 0 /\ elapsedNs = 0 /\ executed = <<>>

-------------------------------------------------------------------------------
(* Clients (external) and the operator.                                       *)
(* A posted request is one that is read in full: read_http_request closes a   *)
(* connection that stalls for a second or sends too much without an answer.   *)

Post(body) ==
  /\ mainPc # "ended"
  /\ Len(posted) < MaxRequests
  /\ adminPc \in {"accept", "await"}
  /\ posted' = Append(posted, body)
  /\ backlog' = Append(backlog, Len(posted) + 1)
  /\ UNCHANGED <<stepped, running, adminVars, channel, completion, mainVars, simVars>>

CtrlC ==
  /\ running /\ mainPc # "ended"
  /\ running' = FALSE
  /\ UNCHANGED <<stepped, posted, backlog, adminVars, channel, completion, mainVars, simVars>>

-------------------------------------------------------------------------------
(* The admin thread.                                                          *)

(* A failed bind ends the thread, and with it the only sender of the channel. *)
Bind ==
  /\ adminPc = "bind"
  /\ adminPc' \in {"accept", "gone"}
  /\ UNCHANGED <<stepped, running, posted, backlog, awaited, answer, channel, completion,
                 mainVars, simVars>>

(* Mutant: statuses are kept as counts of replies.                             *)
CountReplies(r, code) == answer' = [answer EXCEPT ![r] = @ + 1]

Reply(r, code) == answer' = [answer EXCEPT ![r] = code]

Accepting == adminPc = "accept" /\ backlog # <<>>

(* handle_external_step without a sender, with a bad body, or with no receiver. *)
RefuseRequest ==
  LET r == Head(backlog) IN
  /\ Accepting
  /\ \/ ~stepped /\ Reply(r, 409)
     \/ stepped /\ posted[r] = Garbage /\ Reply(r, 400)
     \/ stepped /\ posted[r] # Garbage /\ mainPc = "exited" /\ Reply(r, 503)
  /\ backlog' = Tail(backlog)
  /\ UNCHANGED <<stepped, running, posted, adminPc, awaited, channel, completion, mainVars, simVars>>

ForwardRequest ==
  /\ Accepting
  /\ stepped /\ posted[Head(backlog)] # Garbage /\ mainPc # "exited"
  /\ channel' = Append(channel, Head(backlog))
  /\ awaited' = Head(backlog)
  /\ adminPc' = "await"
  /\ backlog' = Tail(backlog)
  /\ UNCHANGED <<stepped, running, posted, answer, completion, mainVars, simVars>>

(* Mutant: one completion channel for all requests, so that an answer that    *)
(* came too late for one request is taken for the answer to the next.         *)
AwaitAnyCompletion ==
  /\ adminPc = "await"
  /\ \E r \in Request :
       /\ completion[r] # "empty" /\ answer[r] \in {0, 504}
       /\ Reply(awaited, IF completion[r] = "ok" THEN 200 ELSE 409)
  /\ adminPc' = "accept"
  /\ UNCHANGED <<stepped, running, posted, backlog, awaited, channel, completion, mainVars, simVars>>

AwaitCompletion ==
  /\ adminPc = "await"
  /\ completion[awaited] # "empty"
  /\ Reply(awaited, IF completion[awaited] = "ok" THEN 200 ELSE 409)
  /\ adminPc' = "accept"
  /\ UNCHANGED <<stepped, running, posted, backlog, awaited, channel, completion, mainVars, simVars>>

(* Mutant: only the timer is handled, not the request dropped unanswered.     *)
AwaitOnlyTimer ==
  /\ adminPc = "await" /\ mainPc # "exited"
  /\ completion[awaited] = "empty"
  /\ Reply(awaited, 504)
  /\ adminPc' = "accept"
  /\ UNCHANGED <<stepped, running, posted, backlog, awaited, channel, completion, mainVars, simVars>>

(* recv_timeout fails: the 30 seconds are over, or the request was dropped    *)
(* with the main thread's receiver.  The request itself stays where it is.    *)
AwaitTimeout ==
  /\ adminPc = "await"
  /\ completion[awaited] = "empty"
  /\ Reply(awaited, 504)
  /\ adminPc' = "accept"
  /\ UNCHANGED <<stepped, running, posted, backlog, awaited, channel, completion, mainVars, simVars>>

-------------------------------------------------------------------------------
(* The main thread: run_external_steps.                                       *)

(* `while running`; on the way out the receiver and what it holds are dropped. *)
(* Without stepped mode run_with_time takes this place, which returns when     *)
(* running is cleared (Simulation.tla).                                        *)
CheckRunning ==
  /\ mainPc = "check" /\ (stepped \/ ~running)
  /\ mainPc' = IF running THEN "recv" ELSE "exited"
  /\ channel' = IF running THEN channel ELSE <<>>
  /\ UNCHANGED <<stepped, running, posted, backlog, adminVars, completion, current, verdict, simVars>>

(* Mutant: a blocking recv, woken only by the loss of the last sender.         *)
RecvDisconnected ==
  /\ mainPc = "recv"
  /\ channel = <<>> /\ adminPc = "gone"
  /\ mainPc' = "exited"
  /\ UNCHANGED <<stepped, running, posted, backlog, adminVars, channel, completion, current,
                 verdict, simVars>>

(* recv_timeout: nothing within 250 ms, or no sender is left.                 *)
RecvNothing ==
  /\ mainPc = "recv"
  /\ channel = <<>>
  /\ mainPc' = IF adminPc = "gone" THEN "exited" ELSE "check"
  /\ UNCHANGED <<stepped, running, posted, backlog, adminVars, channel, completion, current,
                 verdict, simVars>>

Recv ==
  /\ mainPc = "recv"
  /\ channel # <<>>
  /\ current' = Head(channel)
  /\ channel' = Tail(channel)
  /\ mainPc' = "handle"
  /\ UNCHANGED <<stepped, running, posted, backlog, adminVars, completion, verdict, simVars>>

(* Mutant: the expected stamp is accumulated from the rounded dt.              *)
AccumulatedTUs == (localTick + 1) * DtUs

(* validate_external_step                                                     *)
ExpectedTUs == elapsedNs \div NsPerUs + DtUs

(* Mutant: a later tick is accepted as long as its stamp is the expected one.  *)
ValidatesTickLoosely(c) ==
  /\ c.dt = DtUs
  /\ timeline # NoLine => c.line = timeline
  /\ c.tick > localTick
  /\ c.t >= ExpectedTUs

Validates(c) ==
  /\ c.dt = DtUs
  /\ timeline # NoLine => c.line = timeline
  /\ c.tick = localTick + 1
  /\ c.t = ExpectedTUs

(* A valid first command must also bring an epoch that parses.                *)
Acceptable(c) == Validates(c) /\ (timeline = NoLine => c.epochOk)

Execute ==
  /\ mainPc = "handle"
  /\ Acceptable(posted[current])
  /\ timeline' = posted[current].line
  /\ localTick' = localTick + 1
  /\ elapsedNs' = elapsedNs + DtNs
  /\ executed' = Append(executed, current)
  /\ verdict' = "ok"
  /\ mainPc' = "reply"
  /\ UNCHANGED <<stepped, running, posted, backlog, adminVars, channel, completion, current>>

Reject ==
  /\ mainPc = "handle"
  /\ ~Acceptable(posted[current])
  /\ verdict' = "err"
  /\ mainPc' = "reply"
  /\ UNCHANGED <<stepped, running, posted, backlog, adminVars, channel, completion, current, simVars>>

(* Nobody may be listening any more; the error is ignored.                    *)
SendCompletion ==
  /\ mainPc = "reply"
  /\ completion' = [completion EXCEPT ![current] = verdict]
  /\ mainPc' = "check"
  /\ UNCHANGED <<stepped, running, posted, backlog, adminVars, channel, current, verdict, simVars>>

(* main returns: the admin thread dies with the process, whatever it waits on. *)
ProcessEnds ==
  /\ mainPc = "exited"
  /\ mainPc' = "ended"
  /\ UNCHANGED <<stepped, running, posted, backlog, adminVars, channel, completion, current,
                 verdict, simVars>>

-------------------------------------------------------------------------------
AdminStep ==
  /\ mainPc # "ended"
  /\ Bind \/ RefuseRequest \/ ForwardRequest \/ AwaitCompletion \/ AwaitTimeout

MainStep == CheckRunning \/ RecvNothing \/ Recv \/ Execute \/ Reject \/ SendCompletion

Next ==
  \/ \E body \in Commands \cup {Garbage} : Post(body)
  \/ CtrlC
  \/ AdminStep
  \/ MainStep
  \/ ProcessEnds

(* Both threads are scheduled and every wait of theirs is bounded by a timer; *)
(* no client has to post and nobody has to press Ctrl-C, and what main drops  *)
(* on its way out may keep the process alive.                                 *)
Spec == Init /\ [][Next]_vars /\ WF_vars(AdminStep) /\ WF_vars(MainStep)

-------------------------------------------------------------------------------
(* Properties.                                                                *)

(* Whatever is posted, retried or timed out: tick i is executed by exactly    *)
(* one request, which asked for tick i; requests are executed in the order    *)
(* they were posted, on the timeline of the first.                            *)
ExecutedInOrder ==
  /\ Len(executed) = localTick
  /\ \A i \in DOMAIN executed :
       /\ posted[executed[i]].tick = i
       /\ posted[executed[i]].line = timeline
       /\ \A j \in 1..(i - 1) : executed[j] < executed[i]

(* The rounding of dt to microseconds does not accumulate: at any tick an     *)
(* accepted t_us is at most half a microsecond ahead of the scenario time it  *)
(* stands for, and at most one and a half behind it.                          *)
StampsDoNotDrift ==
  \A i \in DOMAIN executed :
    LET t == posted[executed[i]].t IN
      /\ 2 * t * NsPerUs <= 2 * i * DtNs + NsPerUs
      /\ 2 * i * DtNs <= 2 * t * NsPerUs + 3 * NsPerUs

(* Once Ctrl-C has been pressed, or the admin server could not bind, the main *)
(* thread leaves its loop.  (Without an admin server only Ctrl-C ends it: the *)
(* sender that nobody uses is kept alive by main.)                            *)
ShutdownCompletes ==
  (~running \/ (stepped /\ adminPc = "gone")) ~> mainPc \in {"exited", "ended"}

(* Every posted request is answered as long as the process lives, whatever    *)
(* the main thread does with it: also one that was dropped with the receiver. *)
EveryRequestAnswered ==
  \A r \in Request : r <= Len(posted) ~> (answer[r] # 0 \/ mainPc = "ended")

(* The endpoint is a step service with definite and indefinite answers.       *)
OutcomeOf(r) ==
  IF \E i \in DOMAIN executed : executed[i] = r THEN "applied"
  ELSE IF \/ answer[r] \in {400, 409, 503}
          \/ completion[r] = "err"
          \/ mainPc = "reply" /\ current = r
  THEN "refused" ELSE "open"

AnswerOf(r) ==
  CASE answer[r] = 0 -> "none"
    [] answer[r] = 200 -> "completed"
    [] answer[r] \in {400, 409, 503} -> "refused"
    [] OTHER -> "unknown"

Service == INSTANCE StepService WITH
  Requests <- Request, ticks <- localTick,
  outcome <- [r \in Request |-> OutcomeOf(r)],
  answer <- [r \in Request |-> AnswerOf(r)]

ImplementsStepService == Service!ServiceSpec

(* admin.rs says that POST /control/step "responds only after the simulation  *)
(* finishes it": a request that has been answered is not pending any more.    *)
Pending(r) ==
  \/ \E i \in DOMAIN channel : channel[i] = r
  \/ mainPc = "handle" /\ current = r

RespondsAfterFinish == \A r \in Request : answer[r] # 0 => ~Pending(r)
===============================================================================
