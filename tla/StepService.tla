----------------------------- MODULE StepService -----------------------------
(***************************************************************************)
(* What POST /control/step promises to the ecosystem clock.  A request is  *)
(* applied at most once, and a definite answer is the truth about it:      *)
(* "completed" only if it was applied, "refused" only if it was not and    *)
(* never will be.  The one indefinite answer, "unknown", promises nothing: *)
(* the request may have been applied, may be applied later, or never.      *)
(* ExternalStep.tla is shown to implement this.                            *)
(***************************************************************************)
EXTENDS Naturals

CONSTANT Requests

VARIABLES
  ticks,    (* simulation ticks advanced by requests                   *)
  outcome,  (* what became of each request: "open", "applied", "refused" *)
  answer    (* what its sender was told, "none" before                 *)

serviceVars == <<ticks, outcome, answer>>

ServiceInit ==
  /\ ticks = 0
  /\ outcome = [r \in Requests |-> "open"]
  /\ answer = [r \in Requests |-> "none"]

Apply(r) ==
  /\ outcome[r] = "open"
  /\ outcome' = [outcome EXCEPT ![r] = "applied"]
  /\ ticks' = ticks + 1
  /\ UNCHANGED answer

Refuse(r) ==
  /\ outcome[r] = "open"
  /\ outcome' = [outcome EXCEPT ![r] = "refused"]
  /\ UNCHANGED <<ticks, answer>>

Answer(r) ==
  /\ answer[r] = "none"
  /\ \/ outcome[r] = "applied" /\ answer' = [answer EXCEPT ![r] = "completed"]
     \/ outcome[r] = "refused" /\ answer' = [answer EXCEPT ![r] = "refused"]
     \/ answer' = [answer EXCEPT ![r] = "unknown"]
  /\ UNCHANGED <<ticks, outcome>>

RefuseAtOnce(r) ==
  /\ outcome[r] = "open" /\ answer[r] = "none"
  /\ outcome' = [outcome EXCEPT ![r] = "refused"]
  /\ answer' = [answer EXCEPT ![r] = "refused"]
  /\ UNCHANGED ticks

ServiceNext == \E r \in Requests : Apply(r) \/ Refuse(r) \/ Answer(r) \/ RefuseAtOnce(r)

ServiceSpec == ServiceInit /\ [][ServiceNext]_serviceVars
==============================================================================
