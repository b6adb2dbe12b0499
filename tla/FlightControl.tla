---------------------------- MODULE FlightControl ----------------------------
(***************************************************************************)
(* How one flying entity is steered (the per-entity closure of             *)
(* run_internal, src/sim.rs): FlightGear control packets are drained from  *)
(* the bridge's socket, throttle decides between manual override and       *)
(* waypoint autopilot, the autopilot properties of JSBSim are written one  *)
(* by one, the entity is stepped and read, and the waypoint index advances *)
(* on arrival.  Simulation.tla embeds this entity in the tick loop.        *)
(*                                                                         *)
(* Headings are whole units on a circle of Circle units.  Throttle is      *)
(* known by its side of autopilot_threshold, the stick and the trim wheel  *)
(* by their sign past the deadband.  JSBSim's altitude setpoint is known   *)
(* by what it refers to: a waypoint's altitude or a lead over the present  *)
(* one.  The wall clock matters only for the age of the last valid packet. *)
(***************************************************************************)
EXTENDS Integers, Sequences

CONSTANTS
  Packets,       (* control inputs FlightGear sends: records                  *)
                 (* [throttle, aileron, elevator, trim]                       *)
  Malformed,     (* a datagram that does not decode                           *)
  Positions,     (* where the entity can be                                   *)
  NumWaypoints,  (* length of its flight plan                                 *)
  BearingTo,     (* bearing_deg from each position to each waypoint           *)
  Near,          (* positions within waypoint_threshold_m of a waypoint       *)
  Circle,        (* units of heading in a full turn                           *)
  HdgTolerance,  (* heading changes up to this are not sent to the autopilot  *)
  MaxHdgLead,    (* max_lead                                                  *)
  MaxAltLead,    (* max_alt_lead_m                                            *)
  SettleTicks,   (* ticks that begin in the settle phase                      *)
  Timeout,       (* override_timeout_secs, in ticks of the wall clock         *)
  MaxQueue,      (* bound: datagrams the socket buffers                       *)
  Unset          (* no heading recorded, a JSBSim property never written      *)

Heading == 0..(Circle - 1)
Waypoint == 0..(NumWaypoints - 1)
Sign == {-1, 0, 1}
Datagram == Packets \cup {Malformed}
Property == {"hdgSet", "hdgHold", "attHold", "altHold", "altSet", "throttle"}
NoInput == [throttle |-> "below", aileron |-> 0, elevator |-> 0, trim |-> 0]

ASSUME FlightControlAssumption ==
  /\ Packets \subseteq [throttle : {"below", "at", "above"},
                        aileron : Sign, elevator : Sign, trim : Sign]
  /\ Malformed \notin Packets
  /\ NumWaypoints \in Nat
  /\ Circle \in Nat \ {0}
  /\ BearingTo \in [Positions -> [Waypoint -> Heading]]
  /\ Near \subseteq Positions \X Waypoint
  /\ HdgTolerance \in Nat /\ MaxHdgLead \in Nat /\ MaxAltLead \in Nat
  /\ 2 * MaxHdgLead <= Circle
  /\ SettleTicks \in Nat /\ Timeout \in Nat /\ MaxQueue \in Nat
  /\ Unset \notin Heading

VARIABLES
  pc,         (* "controls" (before the writes), "step" (after) or "dead"       *)
  bridged,    (* the entity has a FlightGear bridge                             *)
  linkUp,     (* FlightGear still sends (external)                              *)
  socket,     (* datagrams in the bridge's receive buffer                       *)
  age,        (* wall time since the last valid packet was taken, capped just   *)
              (* above Timeout, where it also is before the first one           *)
  manual,     (* state.manual_override                                          *)
  input,      (* state.fg_*: the inputs last taken                              *)
  altOffset,  (* state.manual_alt_offset_m                                      *)
  lastHdg,    (* last_hdg_setpoint                                              *)
  activeWp,   (* active_wp                                                      *)
  settleLeft, (* ticks of the settle phase still to come                        *)
  pos, yaw,   (* the EntityState last read                                      *)
  ap          (* the autopilot properties as JSBSim has them (external)         *)

linkVars == <<bridged, linkUp>>
stateVars == <<activeWp, settleLeft, pos, yaw>>
vars == <<pc, linkVars, socket, age, manual, input, altOffset, lastHdg, stateVars, ap>>

TypeOK ==
  /\ pc \in {"controls", "step", "dead"}
  /\ bridged \in BOOLEAN /\ linkUp \in BOOLEAN /\ manual \in BOOLEAN
  /\ socket \in Seq(Datagram) /\ Len(socket) <= MaxQueue
  /\ age \in 0..(Timeout + 1)
  /\ input \in Packets \cup {NoInput}
  /\ altOffset \in (-MaxAltLead)..MaxAltLead
  /\ lastHdg \in Heading \cup {Unset}
  /\ NumWaypoints > 0 => activeWp \in Waypoint
  /\ settleLeft \in 0..SettleTicks
  /\ pos \in Positions /\ yaw \in Heading
  /\ DOMAIN ap = Property /\ ap["hdgSet"] \in Heading \cup {Unset}

Init ==
  /\ pc = "controls"
  /\ bridged \in BOOLEAN /\ linkUp = TRUE
  /\ socket = <<>> /\ age = Timeout + 1
  /\ manual = FALSE /\ input = NoInput /\ altOffset = 0
  /\ lastHdg = Unset /\ activeWp = 0 /\ settleLeft = SettleTicks
  /\ pos \in Positions /\ yaw \in Heading
  /\ ap = [p \in Property |-> Unset]

-------------------------------------------------------------------------------
(* The outside world.  Datagrams arrive between ticks only: nothing but the   *)
(* receiving looks at the socket.                                             *)

Arrive(d) ==
  /\ pc = "controls"
  /\ bridged /\ linkUp
  /\ Len(socket) < MaxQueue
  /\ socket' = Append(socket, d)
  /\ UNCHANGED <<pc, linkVars, age, manual, input, altOffset, lastHdg, stateVars, ap>>

LoseLink ==
  /\ pc = "controls"
  /\ bridged /\ linkUp
  /\ linkUp' = FALSE
  /\ UNCHANGED <<pc, bridged, socket, age, manual, input, altOffset, lastHdg, stateVars, ap>>

WallClock ==
  /\ pc # "dead"
  /\ age <= Timeout
  /\ age' = age + 1
  /\ UNCHANGED <<pc, linkVars, socket, manual, input, altOffset, lastHdg, stateVars, ap>>

-------------------------------------------------------------------------------
(* Arithmetic on headings.                                                    *)

(* The length of the shorter arc between two headings.                        *)
Apart(a, b) ==
  LET d == IF a >= b THEN a - b ELSE b - a
  IN IF 2 * d > Circle THEN Circle - d ELSE d

Clamp(x, bound) == IF x > bound THEN bound ELSE IF x < -bound THEN -bound ELSE x

(* Mutant: the difference to the actual heading is not wrapped before the clamp. *)
LeadWithoutWrap(from, delta) ==
  (yaw + Clamp(((from + delta + Circle) % Circle) - yaw, MaxHdgLead) + Circle) % Circle

(* A heading delta away from `from`, pulled back to within MaxHdgLead of the  *)
(* actual heading.                                                            *)
Lead(from, delta) ==
  LET diff == ((from + delta + Circle) % Circle) - yaw
      wrapped == IF 2 * diff > Circle THEN diff - Circle
                 ELSE IF 2 * diff < -Circle THEN diff + Circle ELSE diff
  IN (yaw + Clamp(wrapped, MaxHdgLead) + Circle) % Circle

-------------------------------------------------------------------------------
(* Receiving controls.  The drain loop stops at the first datagram that does  *)
(* not decode, which is consumed; what is queued behind it stays queued.      *)

Malformeds == {i \in DOMAIN socket : socket[i] = Malformed}
StopAt ==
  IF Malformeds = {} THEN Len(socket) + 1
  ELSE CHOOSE i \in Malformeds : \A j \in Malformeds : i <= j
Fresh == StopAt > 1                          \* latest_ctrls is Some
Latest == IF Fresh THEN socket[StopAt - 1] ELSE input
Undrained == SubSeq(socket, StopAt + 1, Len(socket))

(* Mutant: every tick resets the age, whether or not a packet was received.    *)
AgeReset == 0

AgeAfterReceive == IF Fresh THEN 0 ELSE age

Engages == Fresh /\ Latest.throttle = "above"
Stale == ~Fresh /\ age > Timeout
Disengages == manual /\ (Stale \/ ~bridged \/ (Fresh /\ Latest.throttle = "below"))

ManualNext == (manual \/ Engages) /\ ~Disengages

(* Mutant: handing back to the autopilot forgets to clear the offset.          *)
OffsetKept == altOffset

OffsetAtStart == IF Disengages THEN 0 ELSE altOffset
HdgAtStart == IF Disengages THEN Unset ELSE lastHdg

-------------------------------------------------------------------------------
(* What is written to the autopilot.                                          *)

Write(p, v) == [prop |-> p, value |-> v]

ManualHdg ==
  IF Latest.aileron # 0
  THEN Lead(IF HdgAtStart = Unset THEN yaw ELSE HdgAtStart, Latest.aileron)
  ELSE yaw

(* Mutant: the offset is bounded against the stick's own share of it only.     *)
OffsetUnclamped ==
  IF Latest.elevator # 0
  THEN OffsetAtStart + Latest.trim - Clamp(Latest.elevator, MaxAltLead)
  ELSE 0

(* Trim moves the offset, then the elevator moves and clamps it or, centered, *)
(* resets it.                                                                 *)
ManualOffset ==
  IF Latest.elevator # 0
  THEN Clamp(OffsetAtStart + Latest.trim - Latest.elevator, MaxAltLead)
  ELSE 0

ManualWrites ==
  << Write("hdgSet", ManualHdg), Write("hdgHold", TRUE), Write("attHold", TRUE),
     Write("altHold", TRUE), Write("altSet", <<"lead", ManualOffset>>),
     Write("throttle", Latest.throttle) >>

Desired == BearingTo[pos][activeWp]

(* Mutant: the heading is sent once per autopilot engagement.                  *)
FirstHeadingOnly == HdgAtStart = Unset

NeedUpdate == HdgAtStart = Unset \/ Apart(Desired, HdgAtStart) > HdgTolerance

AutopilotWrites ==
  << Write("altHold", TRUE), Write("altSet", <<"waypoint", activeWp>>) >>
  \o (IF NeedUpdate THEN << Write("hdgSet", Desired) >> ELSE <<>>)
  \o << Write("hdgHold", TRUE), Write("attHold", TRUE) >>

InSettlePhase == settleLeft > 0

Writes ==
  IF InSettlePhase THEN <<>>
  ELSE IF ManualNext THEN ManualWrites
  ELSE IF NumWaypoints > 0 THEN AutopilotWrites
  ELSE <<>>

(* Mutant: the heading is remembered as sent although the write is suppressed. *)
HdgAssumedSent ==
  IF InSettlePhase THEN HdgAtStart
  ELSE IF ManualNext THEN ManualHdg
  ELSE IF NumWaypoints > 0 THEN Desired
  ELSE HdgAtStart

HdgNext ==
  IF InSettlePhase THEN HdgAtStart
  ELSE IF ManualNext THEN ManualHdg
  ELSE IF NumWaypoints > 0 /\ NeedUpdate THEN Desired
  ELSE HdgAtStart

OffsetNext == IF ~InSettlePhase /\ ManualNext THEN ManualOffset ELSE OffsetAtStart

(* JSBSim after the writes w.                                                 *)
Applied(w) ==
  [p \in Property |->
     LET hits == {i \in DOMAIN w : w[i].prop = p}
     IN IF hits = {} THEN ap[p] ELSE w[CHOOSE i \in hits : TRUE].value]

Receive ==
  /\ socket' = Undrained
  /\ age' = AgeAfterReceive
  /\ input' = Latest
  /\ manual' = ManualNext

Control ==
  /\ pc = "controls" /\ pc' = "step"
  /\ UNCHANGED <<linkVars, stateVars>>
  /\ Receive
  /\ \E w \in {Writes} : ap' = Applied(w)
  /\ lastHdg' = HdgNext
  /\ altOffset' = OffsetNext

(* The heading is remembered, and the offset moved, after the third write.    *)
(* JSBSim may have taken the write whose reply did not come.                  *)
ControlFails ==
  /\ pc = "controls" /\ pc' = "dead"
  /\ UNCHANGED <<linkVars, stateVars>>
  /\ Receive
  /\ \E w \in {Writes} : \E n \in 0..(Len(w) - 1), taken \in {0, 1} :
       /\ ap' = Applied(SubSeq(w, 1, n + taken))
       /\ lastHdg' = IF n > 2 THEN HdgNext ELSE HdgAtStart
       /\ altOffset' = IF n > 2 THEN OffsetNext ELSE OffsetAtStart

(* JSBSim moves the aircraft somewhere, turning it by one unit at most.       *)
StepAndRead ==
  /\ pc = "step" /\ pc' = "controls"
  /\ UNCHANGED <<linkVars, socket, age, manual, input, altOffset, lastHdg, ap>>
  /\ pos' \in Positions
  /\ \E turn \in Sign : yaw' = (yaw + turn + Circle) % Circle
  /\ activeWp' = IF NumWaypoints > 0 /\ <<pos', activeWp>> \in Near
                   THEN (activeWp + 1) % NumWaypoints ELSE activeWp
  /\ settleLeft' = IF InSettlePhase THEN settleLeft - 1 ELSE 0

StepOrReadFails ==
  /\ pc = "step"
  /\ pc' = "dead"
  /\ UNCHANGED <<linkVars, socket, age, manual, input, altOffset, lastHdg, stateVars, ap>>

-------------------------------------------------------------------------------
Tick == Control \/ ControlFails \/ StepAndRead \/ StepOrReadFails

Next == (\E d \in Datagram : Arrive(d)) \/ LoseLink \/ WallClock \/ Tick

(* The tick loop and the wall clock go on; FlightGear owes nothing.           *)
Spec == Init /\ [][Next]_vars /\ WF_vars(Tick) /\ WF_vars(WallClock)

-------------------------------------------------------------------------------
(* Properties.                                                                *)

(* The suppression of redundant heading updates compares with the setpoint    *)
(* JSBSim really has: the heading remembered is the one last accepted.        *)
SuppressionIsSound ==
  pc # "dead" /\ lastHdg # Unset => ap["hdgSet"] = lastHdg

(* When the autopilot is in charge and the settle phase is over, JSBSim holds *)
(* the active waypoint's altitude and a heading within the tolerance of its   *)
(* bearing, whatever manual flight, suppression or waypoint switch came before. *)
AutopilotTracks ==
  pc = "step" /\ ~manual /\ ~InSettlePhase /\ NumWaypoints > 0 =>
    /\ ap["hdgHold"] = TRUE /\ ap["attHold"] = TRUE /\ ap["altHold"] = TRUE
    /\ ap["altSet"] = <<"waypoint", activeWp>>
    /\ Apart(Desired, ap["hdgSet"]) <= HdgTolerance

(* In manual flight the setpoint is, of the headings within the allowed lead  *)
(* of the actual one, the nearest to what the stick asks for: also across     *)
(* north, and when the last setpoint was the autopilot's and far away.        *)
ManualHeadingIsNearest ==
  [][pc = "controls" /\ pc' = "step" /\ manual' /\ ~InSettlePhase =>
       LET from == IF HdgAtStart = Unset THEN yaw ELSE HdgAtStart
           asked == IF Latest.aileron = 0 THEN yaw
                    ELSE (from + Latest.aileron + Circle) % Circle
           allowed == {h \in Heading : Apart(h, yaw) <= MaxHdgLead}
       IN /\ ap'["hdgSet"] \in allowed
          /\ \A h \in allowed : Apart(ap'["hdgSet"], asked) <= Apart(h, asked)]_vars

(* An altitude offset built up in one manual session is gone when the         *)
(* autopilot has taken over, so the next session starts from zero.            *)
NoOffsetOutsideManual == pc # "dead" /\ ~manual => altOffset = 0

(* When FlightGear falls silent, the autopilot gets the aircraft back for     *)
(* good, with nothing left in the socket to take it away again (unless the    *)
(* entity dies).                                                              *)
LinkLossReturnsControl == ~linkUp ~> (~manual /\ socket = <<>>) \/ pc = "dead"

(* sim.rs: "Trim: adds persistent bias so the 'hold' altitude drifts": with   *)
(* the elevator centered and the trim out of its deadband, the altitude held  *)
(* is not the present one.                                                    *)
TrimBiasesHold ==
  pc = "step" /\ manual /\ ~InSettlePhase /\ input.elevator = 0 /\ input.trim # 0 =>
    ap["altSet"] # <<"lead", 0>>
===============================================================================
