------------------------- MODULE FgInterpolationProofs -------------------------
(***************************************************************************)
(* What FgInterpolation shows on the display, for every motion, period,    *)
(* convergence time and circle: where the ticks leave room for it, no      *)
(* publication moves the picture, and every frame is of a current state;   *)
(* the blend neither overshoots nor turns the long way.                    *)
(***************************************************************************)
EXTENDS FgInterpolation, TLAPS

-------------------------------------------------------------------------------
(* Arithmetic on a circle.                                                    *)

(* A remainder is determined by a quotient that fits.                         *)
LEMMA RemainderIs ==
  ASSUME NEW m \in Nat \ {0}, NEW a \in Int
  PROVE  /\ a % m \in Int /\ 0 <= a % m /\ a % m < m
         /\ 0 <= a /\ a < m => a % m = a
         /\ m <= a /\ a < 2 * m => a % m = a - m
  BY Z3

(* Rust's remainder is smaller than the divisor, with either sign.            *)
LEMMA RemBounds ==
  ASSUME NEW n \in Nat \ {0}, NEW a \in Int
  PROVE  Rem(a, n) \in Int /\ -n < Rem(a, n) /\ Rem(a, n) < n
<1>1. CASE a >= 0
  BY <1>1, RemainderIs DEF Rem
<1>2. CASE ~(a >= 0)
  <2>1. -a \in Int  OBVIOUS
  <2>2. (-a) % n \in Int /\ 0 <= (-a) % n /\ (-a) % n < n  BY <2>1, RemainderIs
  <2> QED  BY <1>2, <2>2 DEF Rem
<1> QED  BY <1>1, <1>2

(* Taking the remainder of a heading of either sign, a turn on, keeps it on   *)
(* its place of the circle.                                                   *)
LEMMA SamePlace ==
  ASSUME NEW m \in Nat \ {0}, NEW y \in Int, -m < y, y < m
  PROVE  (Rem(y + m, m) - y) % m = 0
<1>1. y + m \in Int /\ y + m >= 0  OBVIOUS
<1>2. Rem(y + m, m) = (y + m) % m  BY <1>1 DEF Rem
<1>3. CASE y >= 0
  <2>1. (y + m) % m = y  BY <1>1, <1>3, RemainderIs
  <2>2. y - y = 0 /\ 0 % m = 0  BY RemainderIs
  <2> QED  BY <1>2, <2>1, <2>2
<1>4. CASE ~(y >= 0)
  <2>1. 0 <= y + m /\ y + m < m  BY <1>4
  <2>2. (y + m) % m = y + m  BY <1>1, <2>1, RemainderIs
  <2>3. (y + m) - y = m /\ m % m = 0  BY RemainderIs
  <2> QED  BY <1>2, <2>2, <2>3
<1> QED  BY <1>3, <1>4

(* A product with a positive number keeps strict bounds.                      *)
LEMMA ScaledBounds ==
  ASSUME NEW k \in Nat \ {0}, NEW n \in Nat \ {0}, NEW y \in Int, -n < y, y < n
  PROVE  /\ k * n \in Nat \ {0} /\ k * y \in Int
         /\ -(k * n) < k * y /\ k * y < k * n
<1>1. k * n \in Nat \ {0} /\ k * y \in Int  BY Z3
<1>2. k * y < k * n  BY Z3
<1>3. k * (-n) < k * y /\ k * (-n) = -(k * n)  BY Z3
<1> QED  BY <1>1, <1>2, <1>3

LEMMA ScaleIsPositive == Scale \in Nat \ {0}
<1>1. Converge \in Nat \ {0}  BY FgInterpolationAssumption
<1>2. Converge * Converge \in Nat \ {0}  BY <1>1, Z3
<1>3. (Converge * Converge) * Converge \in Nat \ {0}  BY <1>1, <1>2, Z3
<1> QED  BY <1>3 DEF Scale

(* Dead reckoning gives a position and a heading of less than a turn.         *)
LEMMA ExtrapolatedIsVisual ==
  ASSUME NEW s \in Motion, NEW t \in Int
  PROVE  /\ Extrapolated(s, t) \in Visual
         /\ -Circle < Extrapolated(s, t).yaw /\ Extrapolated(s, t).yaw < Circle
<1>1. Circle \in Nat \ {0}  BY FgInterpolationAssumption
<1>2. s.pos \in Int /\ s.vel \in Int /\ s.yaw \in Int /\ s.rate \in Int  BY DEF Motion
<1>3. s.pos + s.vel * t \in Int /\ s.yaw + s.rate * t + Circle \in Int  BY <1>1, <1>2
<1> QED  BY <1>1, <1>3, RemBounds DEF Extrapolated, Visual

-------------------------------------------------------------------------------
(* Types.                                                                     *)

(* The convergence snapshot taken of an earlier one.                          *)
LEMMA CaptureIsVisual ==
  ASSUME TypeOK, NEW c \in Call, fgState[c] # None
  PROVE  Capture(fgState[c]) \in Visual
<1>1. fgState[c] \in FgInterpState  BY DEF TypeOK
<1>2. fgState[c].state \in Motion /\ now - fgState[c].timestamp \in Int
  BY <1>1 DEF FgInterpState, TypeOK
<1> QED  BY <1>2, ExtrapolatedIsVisual DEF Capture

(* The state a tick flies to, and the snapshot made of it.                    *)
LEMMA PublishTypes ==
  ASSUME TypeOK, Publish
  PROVE  flight' \in Motion /\ fgState' \in [Call -> FgInterpState \cup {None}]
<1> USE FgInterpolationAssumption DEF TypeOK
<1>1. PICK v \in Speeds, r \in TurnRates :
        flight' = [pos |-> flight.pos + v * Dt, vel |-> v,
                   yaw |-> (flight.yaw + r * Dt) % Circle, rate |-> r]
  BY DEF Publish
<1>2. flight.pos \in Int /\ flight.yaw \in Int /\ v \in Int /\ r \in Int
  BY DEF Motion
<1>3. flight.pos + v * Dt \in Int /\ flight.yaw + r * Dt \in Int  BY <1>2
<1>4. (flight.yaw + r * Dt) % Circle \in Int  BY <1>3, RemainderIs
<1>5. flight' \in Motion  BY <1>1, <1>2, <1>3, <1>4 DEF Motion
<1> DEFINE converge == IF fgState[calls] = None THEN None ELSE Capture(fgState[calls])
           snapshot == [state |-> flight', timestamp |-> now, serial |-> published + 1,
                        converge |-> converge]
<1>6. CASE calls \in Call
  <2>1. converge \in Visual \cup {None}  BY <1>6, CaptureIsVisual
  <2>2. now \in Nat /\ published + 1 \in Nat  OBVIOUS
  <2> HIDE DEF converge
  <2>3. snapshot \in FgInterpState  BY <1>5, <2>1, <2>2 DEF FgInterpState
  <2>4. fgState' = [fgState EXCEPT ![calls] = snapshot]  BY DEF Publish, converge
  <2> HIDE DEF snapshot
  <2> QED  BY <1>5, <1>6, <2>3, <2>4
<1>7. CASE calls \notin Call
  <2>1. fgState' = fgState  BY <1>7 DEF Publish
  <2> QED  BY <1>5, <2>1
<1> QED  BY <1>6, <1>7

(* A step keeps every variable in its type.                                   *)
LEMMA TypeStep == TypeOK /\ [Next]_vars => TypeOK'
<1> SUFFICES ASSUME TypeOK, [Next]_vars PROVE TypeOK'
  OBVIOUS
<1> USE FgInterpolationAssumption DEF loopVars, entityVars
<1>1. CASE EnterRun
  <2>1. calls + 1 \in 0..MaxCalls  BY <1>1 DEF EnterRun, TypeOK
  <2> QED  BY <1>1, <2>1 DEF EnterRun, TypeOK
<1>2. CASE BeginTick \/ Return \/ NoUpdate \/ EndTick \/ WakeLoop
  BY <1>2 DEF TypeOK, BeginTick, Return, NoUpdate, EndTick, WakeLoop
<1>3. CASE Publish
  <2>1. flight' \in Motion /\ fgState' \in [Call -> FgInterpState \cup {None}]
    BY <1>3, PublishTypes
  <2> QED  BY <1>3, <2>1 DEF TypeOK, Publish
<1>4. CASE CtrlC \/ UNCHANGED vars
  BY <1>4 DEF TypeOK, CtrlC, vars
<1>5. CASE WallClock
  <2>1. now' \in 0..MaxNow  BY <1>5 DEF TypeOK, WallClock
  <2> QED  BY <1>5, <2>1 DEF TypeOK, WallClock
<1>6. ASSUME NEW c \in Call, Sender(c) PROVE TypeOK'
  BY <1>6 DEF TypeOK, Sender, CheckFlag, Clone, Send
<1> QED  BY <1>1, <1>2, <1>3, <1>4, <1>5, <1>6 DEF Next, LoopStep

LEMMA TypeInit == Init => TypeOK
<1> SUFFICES ASSUME Init PROVE TypeOK
  OBVIOUS
<1>1. flight \in Motion  BY FgInterpolationAssumption DEF Init, Motion
<1> QED  BY <1>1, FgInterpolationAssumption DEF Init, TypeOK

(* Every reachable state is well typed.                                       *)
THEOREM TypeCorrect == Spec => []TypeOK
BY TypeInit, TypeStep, PTL DEF Spec

-------------------------------------------------------------------------------
(* Timing.                                                                    *)

Taken(c) == fgState[c] # None

(* Calls have their snapshots to themselves; a stepped one publishes once.    *)
CallInv ==
  /\ loop # "idle" => calls \in Call
  /\ ~Stepped /\ loop = "idle" => calls = 0 \/ ~running
  /\ ~Stepped => calls <= 1
  /\ \A c \in Call : c > calls => ~Taken(c) /\ thread[c] = "none"
  /\ Stepped => loop # "sleep"
  /\ Stepped /\ loop \in {"top", "entities"} => ~Taken(calls)

(* In a paced run the next publication is at least gap after the last one.    *)
Spaced(gap) ==
  /\ tickAt <= now
  /\ loop \in {"entities", "publish"} => now <= tickAt + MaxWork
  /\ ~Stepped /\ calls \in Call /\ Taken(calls) =>
       LET t == fgState[calls].timestamp IN
         /\ loop = "top" => t + gap <= now
         /\ loop = "entities" => t + gap <= tickAt
         /\ loop \in {"publish", "sleep"} => t <= tickAt + MaxWork

(* What a thread is about to send was taken in this unit, so at most one      *)
(* publication has overtaken it.                                              *)
SendInv ==
  /\ ~Stepped => IF calls \in Call /\ Taken(calls) THEN fgState[calls].serial = published
                                                   ELSE published = 0
  /\ ~Stepped => \A c \in Call : thread[c] = "send" =>
       /\ c = calls /\ held[c] # None /\ Taken(c)
       /\ \/ held[c].serial = published
          \/ held[c].serial = published - 1 /\ fgState[c].timestamp = now

LEMMA CallStep == TypeOK /\ CallInv /\ [Next]_vars => CallInv'
<1> SUFFICES ASSUME TypeOK, CallInv, [Next]_vars PROVE CallInv'
  OBVIOUS
<1> USE FgInterpolationAssumption DEF TypeOK, CallInv, Call, Taken, loopVars, entityVars
<1>1. CASE EnterRun
  BY <1>1 DEF EnterRun
<1>2. CASE BeginTick \/ Return \/ NoUpdate \/ EndTick \/ WakeLoop
  BY <1>2 DEF BeginTick, Return, NoUpdate, EndTick, WakeLoop
<1>3. CASE Publish
  BY <1>3 DEF Publish
<1>4. CASE CtrlC \/ WallClock \/ UNCHANGED vars
  BY <1>4 DEF CtrlC, WallClock, vars
<1>5. ASSUME NEW c \in Call, Sender(c) PROVE CallInv'
  BY <1>5 DEF Sender, CheckFlag, Clone, Send
<1> QED  BY <1>1, <1>2, <1>3, <1>4, <1>5 DEF Next, LoopStep

(* Snapshots are stamped with their publication.                              *)
LEMMA PublishStamps ==
  ASSUME TypeOK, CallInv, Publish
  PROVE  /\ calls \in Call /\ Taken(calls)'
         /\ fgState'[calls].timestamp = now /\ fgState'[calls].serial = published + 1
         /\ \A c \in Call : c # calls => fgState'[c] = fgState[c]
<1>1. calls \in Call  BY DEF CallInv, Publish
<1>2. fgState'[calls] =
        [state |-> flight', timestamp |-> now, serial |-> published + 1,
         converge |-> IF fgState[calls] = None THEN None ELSE Capture(fgState[calls])]
  BY <1>1 DEF Publish, TypeOK
<1>3. calls' = calls  BY DEF Publish
<1>4. fgState'[calls] \in FgInterpState \cup {None}  BY <1>1, PublishTypes
<1>5. \A c \in Call : c # calls => fgState'[c] = fgState[c]
  BY <1>1 DEF Publish, TypeOK
<1>6. fgState'[calls] # None
  <2>1. CASE fgState[calls] = None
    BY <1>2, <2>1, PublishTypes, FgInterpolationAssumption DEF FgInterpState, TypeOK, Publish
  <2>2. CASE fgState[calls] # None
    BY <1>1, <1>2, <2>2, PublishTypes, CaptureIsVisual, FgInterpolationAssumption
       DEF FgInterpState, TypeOK, Publish
  <2> QED  BY <2>1, <2>2
<1> QED  BY <1>1, <1>2, <1>3, <1>5, <1>6 DEF Taken

(* The distance between publications is kept where the period allows for it   *)
(* and for the longest tick.                                                  *)
LEMMA SpacedStep ==
  ASSUME NEW gap \in Nat \ {0}, Stepped \/ Period >= gap + MaxWork,
         TypeOK, CallInv, Spaced(gap), [Next]_vars
  PROVE  Spaced(gap)'
<1> USE FgInterpolationAssumption DEF loopVars, entityVars
<1>0. /\ now \in Nat /\ tickAt \in Nat
      /\ \A c \in Call : Taken(c) => fgState[c].timestamp \in Nat
  BY DEF TypeOK, Taken, FgInterpState
<1>1. CASE EnterRun
  BY <1>0, <1>1 DEF EnterRun, Spaced, CallInv, Taken, Call, TypeOK
<1>2. CASE BeginTick
  BY <1>0, <1>2 DEF BeginTick, Spaced, Taken
<1>3. CASE Return
  BY <1>0, <1>3 DEF Return, Spaced, Taken
<1>4. CASE NoUpdate
  BY <1>0, <1>4 DEF NoUpdate, Spaced, Taken
<1>5. CASE Publish
  <2>1. calls \in Call /\ fgState'[calls].timestamp = now  BY <1>5, PublishStamps
  <2> QED  BY <1>0, <1>5, <2>1 DEF Publish, Spaced
<1>6. CASE EndTick
  BY <1>0, <1>6 DEF EndTick, Sleeps, Spaced, Taken
<1>7. CASE WakeLoop
  BY <1>0, <1>7 DEF WakeLoop, Spaced, Taken
<1>8. CASE WallClock
  BY <1>0, <1>8 DEF WallClock, Spaced, Taken
<1>9. CASE CtrlC \/ UNCHANGED vars
  BY <1>9 DEF CtrlC, vars, Spaced, Taken
<1>10. ASSUME NEW c \in Call, Sender(c) PROVE Spaced(gap)'
  BY <1>10 DEF Sender, CheckFlag, Clone, Send, Spaced, Taken
<1> QED
  BY <1>1, <1>2, <1>3, <1>4, <1>5, <1>6, <1>7, <1>8, <1>9, <1>10 DEF Next, LoopStep

(* A thread is overtaken once at most between its clone and its send.         *)
LEMMA SendStep ==
  ASSUME TypeOK, CallInv, Spaced(1), SendInv, [Next]_vars
  PROVE  SendInv'
<1> USE FgInterpolationAssumption DEF loopVars, entityVars
<1>0. /\ now \in Nat /\ tickAt \in Nat /\ published \in Nat
      /\ \A c \in Call : Taken(c) => fgState[c].timestamp \in Nat
  BY DEF TypeOK, Taken, FgInterpState
<1>1. CASE EnterRun
  <2>1. calls' = calls + 1 /\ calls' \in Call
    BY <1>1 DEF EnterRun, Call, TypeOK
  <2>2. ~Taken(calls') /\ \A c \in Call : thread'[c] = "send" => thread[c] = "send"
    BY <1>1, <2>1 DEF EnterRun, CallInv, TypeOK
  <2>3. ~Stepped => calls = 0 /\ calls \notin Call
    BY <1>1 DEF EnterRun, Call
  <2>4. ~Stepped => \A c \in Call : thread[c] # "send"  BY <2>3 DEF SendInv
  <2> QED  BY <1>1, <2>1, <2>2, <2>3, <2>4 DEF EnterRun, SendInv, Taken
<1>2. CASE BeginTick \/ Return \/ NoUpdate \/ EndTick \/ WakeLoop
  BY <1>2 DEF BeginTick, Return, NoUpdate, EndTick, WakeLoop, SendInv, Taken
<1>3. CASE Publish
  <2>1. /\ calls \in Call /\ Taken(calls)'
        /\ fgState'[calls].timestamp = now /\ fgState'[calls].serial = published + 1
    BY <1>3, PublishStamps
  <2>2. calls' = calls /\ published' = published + 1 /\ now' = now
        /\ thread' = thread /\ held' = held
    BY <1>3 DEF Publish
  <2>3. ASSUME ~Stepped, thread[calls] = "send"
        PROVE  held[calls] # None /\ held[calls].serial = published
    <3>1. Taken(calls) /\ held[calls] # None  BY <2>1, <2>3 DEF SendInv
    <3>2. fgState[calls].timestamp + 1 <= now
      BY <1>0, <1>3, <2>1, <2>3, <3>1 DEF Publish, Spaced
    <3>3. fgState[calls].timestamp # now  BY <1>0, <2>1, <3>1, <3>2
    <3> QED  BY <2>1, <2>3, <3>1, <3>3 DEF SendInv
  <2>4. ~Stepped => \A c \in Call : thread[c] = "send" => c = calls  BY DEF SendInv
  <2>5. (published + 1) - 1 = published  BY <1>0
  <2> QED  BY <2>1, <2>2, <2>3, <2>4, <2>5 DEF SendInv, Taken
<1>4. CASE WallClock
  BY <1>4 DEF WallClock, SendInv, Taken
<1>5. CASE CtrlC \/ UNCHANGED vars
  BY <1>5 DEF CtrlC, vars, SendInv, Taken
<1>6. ASSUME NEW c \in Call, CheckFlag(c) \/ Send(c) PROVE SendInv'
  BY <1>6 DEF CheckFlag, Send, SendInv, Taken, TypeOK
<1>7. ASSUME NEW c \in Call, Clone(c) PROVE SendInv'
  <2>1. ~Stepped => c = calls
    BY <1>7 DEF Clone, CallInv, Call, TypeOK
  <2>2. held'[c] = fgState[c] /\ fgState' = fgState /\ calls' = calls
        /\ published' = published /\ now' = now
    BY <1>7 DEF Clone, TypeOK
  <2>3. thread'[c] = "send" => Taken(c)
    BY <1>7 DEF Clone, Taken, TypeOK
  <2>4. \A d \in Call : d # c => thread'[d] = thread[d] /\ held'[d] = held[d]
    BY <1>7 DEF Clone, TypeOK
  <2> QED  BY <2>1, <2>2, <2>3, <2>4 DEF SendInv, Taken
<1> QED
  BY <1>1, <1>2, <1>3, <1>4, <1>5, <1>6, <1>7 DEF Next, LoopStep, Sender

(* The invariant, where a period has room for the longest tick and for gap.   *)
Inv(gap) == TypeOK /\ CallInv /\ Spaced(gap)

LEMMA InitInv ==
  ASSUME NEW gap \in Nat
  PROVE  Init => Inv(gap) /\ SendInv
<1> SUFFICES ASSUME Init PROVE Inv(gap) /\ SendInv
  OBVIOUS
<1>1. TypeOK  BY TypeInit
<1>2. CallInv  BY DEF Init, CallInv, Taken
<1>3. Spaced(gap)  BY DEF Init, Spaced, Taken
<1>4. SendInv  BY DEF Init, SendInv, Taken
<1> QED  BY <1>1, <1>2, <1>3, <1>4 DEF Inv

(* In a paced run whose period is longer than its longest tick, a thread      *)
(* sends the latest state, or the one before when it was overtaken.           *)
THEOREM FramesAreCurrentHolds ==
  ASSUME ~Stepped, Period >= 1 + MaxWork
  PROVE  Spec => []FramesAreCurrent
<1>1. Init => Inv(1) /\ SendInv  BY InitInv
<1>2. Inv(1) /\ SendInv /\ [Next]_vars => Inv(1)' /\ SendInv'
  BY TypeStep, CallStep, SpacedStep, SendStep DEF Inv
<1>3. Inv(1) /\ SendInv => FramesAreCurrent
  <2> SUFFICES ASSUME Inv(1), SendInv, NEW c \in Call, thread[c] = "send"
               PROVE  held[c].serial >= published - 1
    BY DEF FramesAreCurrent
  <2> QED  BY DEF Inv, SendInv, TypeOK
<1> QED  BY <1>1, <1>2, <1>3, PTL DEF Spec

-------------------------------------------------------------------------------
(* The picture.                                                               *)

(* A frame made at the moment of a publication is the one its predecessor,    *)
(* which no longer converges, gives.                                          *)
LEMMA PublicationKeepsTheView ==
  ASSUME NEW old \in FgInterpState, NEW new \in FgInterpState,
         now \in Nat, old.timestamp + Converge <= now,
         new.timestamp = now, new.converge = Capture(old)
  PROVE  SameView(Frame(new, now), Frame(old, now))
<1> USE FgInterpolationAssumption
<1> DEFINE v == Capture(old)
           path == Extrapolated(new.state, 0)
<1>1. old.state \in Motion /\ old.timestamp \in Nat /\ new.state \in Motion
  BY DEF FgInterpState
<1>2. v \in Visual /\ -Circle < v.yaw /\ v.yaw < Circle
  BY <1>1, ExtrapolatedIsVisual DEF Capture
<1>3. path \in Visual  BY <1>1, ExtrapolatedIsVisual
<1>4. v # None  BY <1>2
<1>5. Frame(old, now) = [pos |-> Scale * v.pos, yaw |-> Scale * v.yaw]
  <2>1. ~Converging(old, now)  BY <1>1 DEF Converging
  <2> QED  BY <2>1 DEF Frame, Capture
<1>6. Frame(new, now) = Blended(v, path, Smoothstep(0))
  <2>1. now - new.timestamp = 0  OBVIOUS
  <2>2. Converging(new, now)  BY <1>4, <2>1 DEF Converging
  <2> QED  BY <2>1, <2>2 DEF Frame
<1> HIDE DEF v, path
<1>7. Smoothstep(0) = 0  BY DEF Smoothstep
<1>8. /\ v.pos \in Int /\ v.yaw \in Int /\ path.pos \in Int /\ path.yaw \in Int
      /\ HeadingDiff(path.yaw, v.yaw) \in Int
  <2>1. /\ v.pos \in Int /\ v.yaw \in Int /\ path.pos \in Int /\ path.yaw \in Int
    BY <1>2, <1>3 DEF Visual
  <2>2. Circle \in Nat /\ Circle \div 2 \in Int  BY Z3
  <2> HIDE FgInterpolationAssumption
  <2>3. HeadingDiff(path.yaw, v.yaw) \in Int  BY <2>1, <2>2 DEF HeadingDiff
  <2> QED  BY <2>1, <2>3
<1>9. Scale * Circle \in Nat \ {0} /\ Scale * v.yaw \in Int /\ Scale * v.pos \in Int
      /\ -(Scale * Circle) < Scale * v.yaw /\ Scale * v.yaw < Scale * Circle
  BY <1>2, <1>8, ScaleIsPositive, ScaledBounds
<1>10. Frame(new, now) = [pos |-> Scale * v.pos,
                          yaw |-> Rem(Scale * v.yaw + Scale * Circle, Scale * Circle)]
  <2>1. Scale * v.pos + (path.pos - v.pos) * 0 = Scale * v.pos  BY <1>8, <1>9
  <2>2. Scale * v.yaw + HeadingDiff(path.yaw, v.yaw) * 0 + Scale * Circle
          = Scale * v.yaw + Scale * Circle
    BY <1>8, <1>9
  <2> QED  BY <1>6, <1>7, <2>1, <2>2 DEF Blended
<1>11. (Rem(Scale * v.yaw + Scale * Circle, Scale * Circle) - Scale * v.yaw)
          % (Scale * Circle) = 0
  BY <1>9, SamePlace
<1> QED  BY <1>5, <1>10, <1>11 DEF SameView

(* In a stepped run, and in a paced one whose period leaves the time to       *)
(* converge after the longest tick, no publication moves the picture.         *)
THEOREM NoSnapBackHolds ==
  ASSUME Stepped \/ Period >= Converge + MaxWork
  PROVE  Spec => NoSnapBack
<1>1. Init => Inv(Converge)  BY InitInv, FgInterpolationAssumption
<1>2. Inv(Converge) /\ [Next]_vars => Inv(Converge)'
  BY TypeStep, CallStep, SpacedStep, FgInterpolationAssumption DEF Inv
<1>3. Inv(Converge) /\ [Next]_vars =>
        \A c \in Call :
          fgState[c] # None /\ fgState'[c] # fgState[c] =>
            SameView(Frame(fgState'[c], now), Frame(fgState[c], now))
  <2> SUFFICES ASSUME Inv(Converge), [Next]_vars, NEW c \in Call,
                      fgState[c] # None, fgState'[c] # fgState[c]
               PROVE  SameView(Frame(fgState'[c], now), Frame(fgState[c], now))
    OBVIOUS
  <2> USE DEF Inv
  <2>1. Publish
    BY DEF Next, LoopStep, Sender, EnterRun, BeginTick, Return, NoUpdate, EndTick, WakeLoop,
       CtrlC, CheckFlag, Clone, Send, WallClock, vars
  <2>2. c = calls /\ fgState'[c].timestamp = now  BY <2>1, PublishStamps
  <2>3. ~Stepped  BY <2>1, <2>2 DEF Publish, CallInv, Taken
  <2>4. fgState[c].timestamp + Converge <= tickAt /\ tickAt <= now
    BY <2>1, <2>2, <2>3 DEF Publish, Spaced, Taken
  <2>5. fgState[c] \in FgInterpState  BY DEF TypeOK
  <2>6. fgState[c].timestamp + Converge <= now
    BY <2>4, <2>5, FgInterpolationAssumption DEF FgInterpState, TypeOK
  <2>7. fgState'[c] \in FgInterpState
    BY <2>1, <2>2, PublishTypes, PublishStamps DEF Taken, Publish
  <2>8. fgState'[c].converge = Capture(fgState[c])
    BY <2>1, <2>2 DEF Publish, TypeOK
  <2>9. now \in Nat  BY FgInterpolationAssumption DEF TypeOK
  <2> QED  BY <2>2, <2>5, <2>6, <2>7, <2>8, <2>9, PublicationKeepsTheView
<1> QED  BY <1>1, <1>2, <1>3, PTL DEF Spec, NoSnapBack

-------------------------------------------------------------------------------
(* The blend.                                                                 *)

LEMMA ProductBounds ==
  ASSUME NEW k \in Nat, NEW x \in Int, NEW y \in Int, x <= y
  PROVE  k * x \in Int /\ k * y \in Int /\ k * x <= k * y
BY Z3

(* A share s of scale of the way from a to b lies between the two.            *)
LEMMA ShareIsBetween ==
  ASSUME NEW scale \in Nat, NEW s \in Int, 0 <= s, s <= scale, NEW a \in Int, NEW b \in Int
  PROVE  Between(scale * a + (b - a) * s, scale * a, scale * b)
<1> DEFINE d == b - a
           way == d * s
<1>1. /\ d \in Int /\ way \in Int /\ scale * a \in Int /\ scale * b \in Int
      /\ scale * b = scale * a + scale * d
  BY Z3
<1>2. scale * d = d * scale /\ d * scale \in Int  BY <1>1, Z3
<1>3. CASE 0 <= d
  <2>1. d \in Nat  BY <1>1, <1>3
  <2>2. d * 0 <= d * s /\ d * s <= d * scale  BY <2>1, ProductBounds
  <2>3. d * 0 = 0  BY <1>1
  <2>4. 0 <= way /\ way <= d * scale  BY <2>2, <2>3
  <2> HIDE DEF way, d
  <2>5. scale * a <= scale * a + way /\ scale * a + way <= scale * b  BY <1>1, <1>2, <2>4
  <2> QED  BY <2>5 DEF Between, way, d
<1>4. CASE ~(0 <= d)
  <2> DEFINE e == -d
  <2>1. e \in Nat  BY <1>1, <1>4
  <2>2. e * 0 <= e * s /\ e * s <= e * scale  BY <2>1, ProductBounds
  <2>3. e * 0 = 0 /\ e * s = -way /\ e * scale = -(d * scale)  BY <1>1, Z3
  <2>4. way <= 0 /\ d * scale <= way  BY <1>1, <1>2, <2>2, <2>3
  <2> HIDE DEF way, d
  <2>5. scale * b <= scale * a + way /\ scale * a + way <= scale * a  BY <1>1, <1>2, <2>4
  <2> QED  BY <2>5 DEF Between, way, d
<1> QED  BY <1>3, <1>4

(* The smoothstep of a time within the convergence is a share of Scale.       *)
LEMMA SmoothstepIsAShare ==
  ASSUME NEW e \in Nat, e < Converge
  PROVE  Smoothstep(e) \in Int /\ 0 <= Smoothstep(e) /\ Smoothstep(e) <= Scale
<1> DEFINE r == Converge - e
<1>1. Converge \in Nat /\ r \in Nat  BY FgInterpolationAssumption
<1>2. 3 * Converge - 2 * e \in Nat /\ e * e \in Nat  BY <1>1, Z3
<1>3. Smoothstep(e) \in Nat  BY <1>2, Z3 DEF Smoothstep
(* What is missing to the whole is r r (3 e + r).                             *)
<1>4. r * r \in Nat /\ 3 * e + r \in Nat  BY <1>1, Z3
<1>5. (r * r) * (3 * e + r) \in Nat  BY <1>4, Z3
<1>6. Scale = Smoothstep(e) + (r * r) * (3 * e + r)
  <2>1. Converge = e + r  BY <1>1
  <2> HIDE DEF r
  <2> QED  BY <1>1, <2>1, Z3 DEF Scale, Smoothstep
<1>7. Scale \in Nat  BY ScaleIsPositive
<1> QED  BY <1>3, <1>5, <1>6, <1>7

(* Of two headings within one turn, the wrapped difference is the short way.  *)
LEMMA ShortWay ==
  ASSUME NEW a \in Int, NEW b \in Int, 0 <= a, a < Circle, 0 <= b, b < Circle
  PROVE  /\ HeadingDiff(a, b) \in Int
         /\ 2 * HeadingDiff(a, b) <= Circle /\ -Circle <= 2 * HeadingDiff(a, b)
<1>1. Circle \in Nat /\ Circle \div 2 \in Int /\ 2 * (Circle \div 2) = Circle
  BY FgInterpolationAssumption, Z3
<1> QED  BY <1>1 DEF HeadingDiff

(* Rust's remainder of a heading that has not turned back past a full turn.   *)
LEMMA HeadingIsWithinATurn ==
  ASSUME NEW s \in Motion, NEW t \in Int, 0 <= s.yaw, 0 <= s.rate * t + Circle
  PROVE  0 <= Extrapolated(s, t).yaw
<1>1. Circle \in Nat \ {0}  BY FgInterpolationAssumption
<1>2. s.yaw \in Int /\ s.rate * t \in Int  BY DEF Motion
<1>3. s.yaw + s.rate * t + Circle \in Int /\ s.yaw + s.rate * t + Circle >= 0
  BY <1>1, <1>2
<1>4. 0 <= (s.yaw + s.rate * t + Circle) % Circle  BY <1>1, <1>3, RemainderIs
<1> QED  BY <1>3, <1>4 DEF Extrapolated, Rem

(* No turn to the left comes to more than a full one within `age`.            *)
GentleTurns(age) == \A r \in TurnRates : r * age + Circle >= 0

(* A snapshot that is about to be replaced is not older than that.            *)
Fresh(age) ==
  loop = "entities" /\ alive /\ calls \in Call /\ fgState[calls] # None =>
    now - fgState[calls].timestamp <= age

LEMMA GentleOverTime ==
  ASSUME NEW age \in Nat, GentleTurns(age), NEW r \in TurnRates, NEW t \in 0..age
  PROVE  0 <= r * t + Circle
<1>1. r \in Int /\ Circle \in Nat /\ t \in Nat /\ t <= age
  BY FgInterpolationAssumption
<1>2. r * t \in Int /\ r * age \in Int /\ r * age + Circle >= 0
  BY <1>1 DEF GentleTurns
<1>3. CASE 0 <= r
  <2>1. 0 <= r * t  BY <1>1, <1>3, Z3
  <2> QED  BY <1>1, <1>2, <2>1
<1>4. CASE ~(0 <= r)
  <2>1. -r \in Nat  BY <1>1, <1>4
  <2>2. (-r) * t <= (-r) * age  BY <1>1, <2>1, ProductBounds
  <2>3. (-r) * t = -(r * t) /\ (-r) * age = -(r * age)  BY <1>1, Z3
  <2> QED  BY <1>1, <1>2, <2>2, <2>3
<1> QED  BY <1>3, <1>4

(* The headings of flight and snapshots are within one turn, and snapshots    *)
(* are of the past.                                                           *)
Upright(s) == s.rate \in TurnRates /\ 0 <= s.yaw

DisplayInv ==
  /\ Upright(flight)
  /\ \A c \in Call : Taken(c) =>
       /\ fgState[c].timestamp <= now /\ Upright(fgState[c].state)
       /\ fgState[c].converge # None =>
            0 <= fgState[c].converge.yaw /\ fgState[c].converge.yaw < Circle

(* What a snapshot shows while it is not too old.                             *)
LEMMA ShownIsWithinATurn ==
  ASSUME NEW age \in Nat, GentleTurns(age), TypeOK, DisplayInv, NEW c \in Call, Taken(c),
         now - fgState[c].timestamp <= age
  PROVE  LET shown == Extrapolated(fgState[c].state, now - fgState[c].timestamp) IN
           shown \in Visual /\ 0 <= shown.yaw /\ shown.yaw < Circle
<1> DEFINE e == now - fgState[c].timestamp
<1>1. fgState[c].state \in Motion /\ fgState[c].timestamp \in Nat /\ now \in 0..MaxNow
  BY DEF TypeOK, Taken, FgInterpState
<1>2. fgState[c].timestamp <= now /\ Upright(fgState[c].state)  BY DEF DisplayInv
<1>3. e \in 0..age /\ e \in Int  BY <1>1, <1>2, FgInterpolationAssumption
<1>4. 0 <= fgState[c].state.rate * e + Circle  BY <1>2, <1>3, GentleOverTime DEF Upright
<1> HIDE DEF e
<1>5. 0 <= Extrapolated(fgState[c].state, e).yaw
  BY <1>1, <1>2, <1>3, <1>4, HeadingIsWithinATurn DEF Upright
<1>6. Extrapolated(fgState[c].state, e) \in Visual /\ Extrapolated(fgState[c].state, e).yaw < Circle
  BY <1>1, <1>3, ExtrapolatedIsVisual
<1> QED  BY <1>5, <1>6 DEF e

LEMMA DisplayStep ==
  ASSUME NEW age \in Nat, GentleTurns(age), Fresh(age), TypeOK, CallInv, DisplayInv, [Next]_vars
  PROVE  DisplayInv'
<1> USE FgInterpolationAssumption DEF loopVars, entityVars
<1>1. CASE Publish
  <2>1. PICK v \in Speeds, r \in TurnRates :
          flight' = [pos |-> flight.pos + v * Dt, vel |-> v,
                     yaw |-> (flight.yaw + r * Dt) % Circle, rate |-> r]
    BY <1>1 DEF Publish
  <2>2. flight.yaw + r * Dt \in Int  BY DEF TypeOK, Motion
  <2>3. Upright(flight')  BY <2>1, <2>2, RemainderIs DEF Upright
  <2>4. /\ calls \in Call /\ Taken(calls)'
        /\ fgState'[calls].timestamp = now
        /\ \A c \in Call : c # calls => fgState'[c] = fgState[c]
    BY <1>1, PublishStamps
  <2>5. /\ fgState'[calls].state = flight'
        /\ fgState'[calls].converge
             = IF fgState[calls] = None THEN None ELSE Capture(fgState[calls])
    BY <1>1, <2>4 DEF Publish, TypeOK
  <2>6. now' = now /\ now \in Nat  BY <1>1 DEF Publish, TypeOK
  <2>7. fgState[calls] # None =>
          0 <= Capture(fgState[calls]).yaw /\ Capture(fgState[calls]).yaw < Circle
    <3> SUFFICES ASSUME fgState[calls] # None
                 PROVE  0 <= Capture(fgState[calls]).yaw /\ Capture(fgState[calls]).yaw < Circle
      OBVIOUS
    <3>1. now - fgState[calls].timestamp <= age  BY <1>1, <2>4 DEF Fresh, Publish
    <3> QED  BY <2>4, <3>1, ShownIsWithinATurn DEF Capture, Taken
  <2>8. ASSUME NEW c \in Call, Taken(c)'
        PROVE  /\ fgState'[c].timestamp <= now' /\ Upright(fgState'[c].state)
               /\ fgState'[c].converge # None =>
                    0 <= fgState'[c].converge.yaw /\ fgState'[c].converge.yaw < Circle
    <3>1. CASE c = calls  BY <2>3, <2>4, <2>5, <2>6, <2>7, <3>1
    <3>2. CASE c # calls
      <4>1. fgState'[c] = fgState[c] /\ Taken(c)  BY <2>4, <2>8, <3>2 DEF Taken
      <4> QED  BY <2>6, <4>1 DEF DisplayInv
    <3> QED  BY <3>1, <3>2
  <2> QED  BY <2>3, <2>8 DEF DisplayInv, Upright
<1>2. CASE WallClock
  <2>1. now' = now + 1 /\ flight' = flight /\ fgState' = fgState
    BY <1>2 DEF WallClock
  <2>2. \A c \in Call : Taken(c) => fgState[c].timestamp \in Nat
    BY DEF TypeOK, Taken, FgInterpState
  <2>3. now \in Nat  BY DEF TypeOK
  <2> QED  BY <2>1, <2>2, <2>3 DEF DisplayInv, Taken, Upright
<1>3. CASE EnterRun \/ CtrlC \/ UNCHANGED vars
  BY <1>3 DEF EnterRun, CtrlC, vars, DisplayInv, Taken, Upright
<1>4. CASE BeginTick \/ Return \/ NoUpdate \/ EndTick \/ WakeLoop
  BY <1>4 DEF BeginTick, Return, NoUpdate, EndTick, WakeLoop, DisplayInv, Taken, Upright
<1>5. ASSUME NEW c \in Call, Sender(c) PROVE DisplayInv'
  BY <1>5 DEF Sender, CheckFlag, Clone, Send, DisplayInv, Taken, Upright
<1> QED  BY <1>1, <1>2, <1>3, <1>4, <1>5 DEF Next, LoopStep

(* The displayed heading: a share of the way to a heading less than half a    *)
(* turn from here, taken on the circle, is on the shorter arc.                *)
LEMMA Residues ==
  ASSUME NEW m \in Nat \ {0}, NEW w \in Nat, w < m
  PROVE  /\ w % m = w /\ (w + m) % m = w /\ (w + 2 * m) % m = w
         /\ (w - m) % m = w /\ (w - 2 * m) % m = w
<1>1. w % m = w /\ (w + m) % m = w  BY Z3
<1>2. (w + 2 * m) % m = w  BY Z3
<1>3. (w - m) % m = w  BY Z3
<1>4. (w - 2 * m) % m = w  BY Z3
<1> QED  BY <1>1, <1>2, <1>3, <1>4

LEMMA RemainderWithinThreeTurns ==
  ASSUME NEW m \in Nat \ {0}, NEW x \in Nat, x < 3 * m
  PROVE  x % m \in {x, x - m, x - 2 * m}
<1>1. CASE x < m
  BY <1>1, RemainderIs
<1>2. CASE m <= x /\ x < 2 * m
  BY <1>2, RemainderIs
<1>3. CASE 2 * m <= x
  <2>1. x - 2 * m \in Nat /\ x - 2 * m < m  BY <1>3
  <2>2. ((x - 2 * m) + 2 * m) % m = x - 2 * m  BY <2>1, Residues
  <2>3. (x - 2 * m) + 2 * m = x  OBVIOUS
  <2> QED  BY <2>2, <2>3
<1> QED  BY <1>1, <1>2, <1>3

LEMMA ShareIsOnTheShortArc ==
  ASSUME NEW a \in Nat, a < Scale * Circle, NEW b \in Nat, b < Scale * Circle,
         NEW w \in Int, NEW way \in Int,
         way \in {b - a, b - a - Scale * Circle, b - a + Scale * Circle},
         2 * way <= Scale * Circle, -2 * way <= Scale * Circle,
         (0 <= w /\ w <= way) \/ (way <= w /\ w <= 0)
  PROVE  OnShortArc(Rem(a + w + Scale * Circle, Scale * Circle), a, b)
<1> DEFINE m == Scale * Circle
           h == Rem(a + w + m, m)
<1>1. m \in Nat \ {0}
  <2>1. Circle \in Nat \ {0}  BY FgInterpolationAssumption
  <2> QED  BY <2>1, ScaleIsPositive, Z3
<1> SUFFICES \/ 2 * (((h - a) % m) + ((b - h) % m)) <= m
             \/ 2 * (((h - b) % m) + ((a - h) % m)) <= m
  BY DEF OnShortArc, RightTurn
<1>2. /\ a < m /\ b < m /\ 2 * way <= m /\ -2 * way <= m
      /\ way \in {b - a, b - a - m, b - a + m}
  OBVIOUS
<1>3. h \in {a + w + m, a + w, a + w - m}
  <2> HIDE DEF m
  <2>1. a + w + m \in Nat /\ a + w + m < 3 * m  BY <1>1, <1>2
  <2>2. h = (a + w + m) % m  BY <2>1 DEF Rem
  <2>3. h \in {a + w + m, (a + w + m) - m, (a + w + m) - 2 * m}
    BY <1>1, <2>1, <2>2, RemainderWithinThreeTurns
  <2> QED  BY <1>1, <2>3
<1> HIDE DEF m, h
<1>4. CASE 0 <= w /\ w <= way
  <2>1. (h - a) % m = w
    <3>1. w \in Nat /\ w < m  BY <1>1, <1>2, <1>4
    <3>2. h - a \in {w + m, w, w - m}  BY <1>1, <1>3
    <3> QED  BY <1>1, <3>1, <3>2, Residues
  <2>2. (b - h) % m = way - w
    <3> DEFINE u == way - w
    <3>1. u \in Nat /\ u < m  BY <1>1, <1>2, <1>4
    <3>2. b - h \in {u, u + m, u + 2 * m, u - m, u - 2 * m}
      <4>1. b = a + way \/ b = a + way + m \/ b = a + way - m  BY <1>1, <1>2
      <4>2. h = a + w + m \/ h = a + w \/ h = a + w - m  BY <1>3
      <4> QED  BY <1>1, <4>1, <4>2
    <3> HIDE DEF u
    <3>3. (b - h) % m = u  BY <1>1, <3>1, <3>2, Residues
    <3> QED  BY <3>3 DEF u
  <2> QED  BY <1>1, <1>2, <2>1, <2>2
<1>5. CASE way <= w /\ w <= 0
  <2>1. (a - h) % m = -w
    <3> DEFINE u == -w
    <3>1. u \in Nat /\ u < m  BY <1>1, <1>2, <1>5
    <3>2. a - h \in {u, u + m, u - m}  BY <1>1, <1>3
    <3> HIDE DEF u
    <3>3. (a - h) % m = u  BY <1>1, <3>1, <3>2, Residues
    <3> QED  BY <3>3 DEF u
  <2>2. (h - b) % m = w - way
    <3> DEFINE u == w - way
    <3>1. u \in Nat /\ u < m  BY <1>1, <1>2, <1>5
    <3>2. h - b \in {u, u + m, u + 2 * m, u - m, u - 2 * m}
      <4>1. b = a + way \/ b = a + way + m \/ b = a + way - m  BY <1>1, <1>2
      <4>2. h = a + w + m \/ h = a + w \/ h = a + w - m  BY <1>3
      <4> QED  BY <1>1, <4>1, <4>2
    <3> HIDE DEF u
    <3>3. (h - b) % m = u  BY <1>1, <3>1, <3>2, Residues
    <3> QED  BY <3>3 DEF u
  <2> QED  BY <1>1, <1>2, <2>1, <2>2
<1> QED  BY <1>4, <1>5

(* Scaled, the wrapped difference leads from one heading to the other.        *)
LEMMA WayAround ==
  ASSUME NEW a \in Int, NEW b \in Int, 0 <= a, a < Circle, 0 <= b, b < Circle
  PROVE  LET way == Scale * HeadingDiff(b, a) IN
         /\ way \in Int
         /\ way \in {Scale * b - Scale * a, Scale * b - Scale * a - Scale * Circle,
                     Scale * b - Scale * a + Scale * Circle}
         /\ 2 * way <= Scale * Circle /\ -2 * way <= Scale * Circle
<1> DEFINE d == HeadingDiff(b, a)
<1>1. Scale \in Nat /\ Circle \in Nat  BY ScaleIsPositive, FgInterpolationAssumption
<1>2. d \in Int /\ 2 * d <= Circle /\ -Circle <= 2 * d  BY ShortWay
<1>3. d \in {b - a, b - a - Circle, b - a + Circle}  BY DEF HeadingDiff
<1> HIDE DEF d
<1>4. Scale * d \in {Scale * b - Scale * a, Scale * b - Scale * a - Scale * Circle,
                     Scale * b - Scale * a + Scale * Circle}
  <2>1. /\ Scale * (b - a) = Scale * b - Scale * a
        /\ Scale * (b - a - Circle) = Scale * b - Scale * a - Scale * Circle
        /\ Scale * (b - a + Circle) = Scale * b - Scale * a + Scale * Circle
    BY <1>1, Z3
  <2> QED  BY <1>3, <2>1
<1>5. 2 * d \in Int /\ -(2 * d) \in Int /\ -(2 * d) <= Circle
  BY <1>1, <1>2
<1>6. Scale * (2 * d) <= Scale * Circle /\ Scale * (-(2 * d)) <= Scale * Circle
  BY <1>1, <1>2, <1>5, ProductBounds
<1>7. Scale * (2 * d) = 2 * (Scale * d) /\ Scale * (-(2 * d)) = -2 * (Scale * d)
  BY <1>1, <1>2, Z3
<1>8. Scale * d \in Int  BY <1>1, <1>2, Z3
<1> QED  BY <1>4, <1>6, <1>7, <1>8 DEF d

(* A share s of scale of a way lies between nothing and all of it.            *)
LEMMA ShareOfTheWay ==
  ASSUME NEW scale \in Nat, NEW s \in Int, 0 <= s, s <= scale, NEW d \in Int
  PROVE  /\ d * s \in Int
         /\ (0 <= d * s /\ d * s <= scale * d) \/ (scale * d <= d * s /\ d * s <= 0)
<1>1. d * s \in Int /\ scale * d = d * scale /\ d * scale \in Int  BY Z3
<1>2. CASE 0 <= d
  <2>1. d \in Nat /\ d * 0 = 0  BY <1>2
  <2>2. d * 0 <= d * s /\ d * s <= d * scale  BY <2>1, ProductBounds
  <2> QED  BY <1>1, <2>1, <2>2
<1>3. CASE ~(0 <= d)
  <2>1. -d \in Nat /\ (-d) * 0 = 0  BY <1>3
  <2>2. (-d) * 0 <= (-d) * s /\ (-d) * s <= (-d) * scale  BY <2>1, ProductBounds
  <2>3. (-d) * s = -(d * s) /\ (-d) * scale = -(d * scale)  BY <1>1, Z3
  <2> QED  BY <1>1, <2>1, <2>2, <2>3
<1> QED  BY <1>2, <1>3

LEMMA BlendFollows ==
  ASSUME NEW age \in Nat, Converge <= age, GentleTurns(age), TypeOK, DisplayInv
  PROVE  BlendIsDirect
<1> SUFFICES ASSUME NEW c \in Call, fgState[c] # None, Converging(fgState[c], now)
             PROVE  LET from == fgState[c].converge
                        path == Extrapolated(fgState[c].state, now - fgState[c].timestamp)
                        shown == Frame(fgState[c], now)
                    IN /\ Between(shown.pos, Scale * from.pos, Scale * path.pos)
                       /\ OnShortArc(shown.yaw, Scale * from.yaw, Scale * path.yaw)
  BY DEF BlendIsDirect
<1> DEFINE e == now - fgState[c].timestamp
           from == fgState[c].converge
           path == Extrapolated(fgState[c].state, e)
           shown == Frame(fgState[c], now)
           diff == HeadingDiff(path.yaw, from.yaw)
           way == Scale * diff
<1>1. from \in Visual /\ e \in Nat /\ e < Converge
  BY FgInterpolationAssumption
     DEF TypeOK, FgInterpState, Converging, DisplayInv, Taken
<1>2. path \in Visual /\ 0 <= path.yaw /\ path.yaw < Circle
  <2>1. e <= age  BY <1>1, FgInterpolationAssumption
  <2> QED  BY <2>1, ShownIsWithinATurn DEF Taken
<1>3. 0 <= from.yaw /\ from.yaw < Circle  BY DEF DisplayInv, Taken, Converging
<1>4. /\ shown.pos = Scale * from.pos + (path.pos - from.pos) * Smoothstep(e)
      /\ shown.yaw = Rem(Scale * from.yaw + diff * Smoothstep(e) + Scale * Circle, Scale * Circle)
  BY DEF Frame, Blended
<1> HIDE DEF e, from, path, shown
<1>5. from.pos \in Int /\ from.yaw \in Int /\ path.pos \in Int /\ path.yaw \in Int
  BY <1>1, <1>2 DEF Visual
<1>6. Scale \in Nat \ {0} /\ Circle \in Nat \ {0}
  BY ScaleIsPositive, FgInterpolationAssumption
<1>7. Smoothstep(e) \in Int /\ 0 <= Smoothstep(e) /\ Smoothstep(e) <= Scale
  BY <1>1, SmoothstepIsAShare
<1>8. Between(shown.pos, Scale * from.pos, Scale * path.pos)
  BY <1>4, <1>5, <1>6, <1>7, ShareIsBetween
<1>9. /\ way \in Int /\ 2 * way <= Scale * Circle /\ -2 * way <= Scale * Circle
      /\ way \in {Scale * path.yaw - Scale * from.yaw,
                  Scale * path.yaw - Scale * from.yaw - Scale * Circle,
                  Scale * path.yaw - Scale * from.yaw + Scale * Circle}
  BY <1>2, <1>3, <1>5, WayAround
<1>10. diff \in Int  BY <1>2, <1>3, <1>5, ShortWay
<1> HIDE DEF diff
<1>11. /\ diff * Smoothstep(e) \in Int
       /\ \/ 0 <= diff * Smoothstep(e) /\ diff * Smoothstep(e) <= way
          \/ way <= diff * Smoothstep(e) /\ diff * Smoothstep(e) <= 0
  BY <1>6, <1>7, <1>10, ShareOfTheWay
<1> HIDE DEF way
<1>12. /\ Scale * from.yaw \in Nat /\ Scale * from.yaw < Scale * Circle
       /\ Scale * path.yaw \in Nat /\ Scale * path.yaw < Scale * Circle
  <2>1. -Circle < from.yaw /\ -Circle < path.yaw  BY <1>2, <1>3, <1>5, <1>6
  <2>2. /\ Scale * from.yaw \in Int /\ Scale * from.yaw < Scale * Circle
        /\ Scale * path.yaw \in Int /\ Scale * path.yaw < Scale * Circle
    BY <1>2, <1>3, <1>5, <1>6, <2>1, ScaledBounds
  <2>3. 0 <= Scale * from.yaw /\ 0 <= Scale * path.yaw
    BY <1>2, <1>3, <1>5, <1>6, Z3
  <2> QED  BY <2>2, <2>3
<1>13. OnShortArc(shown.yaw, Scale * from.yaw, Scale * path.yaw)
  BY <1>4, <1>9, <1>11, <1>12, ShareIsOnTheShortArc
<1> QED  BY <1>8, <1>13 DEF e, from, path, shown

(* Where no aircraft turns left by more than a full turn while a snapshot     *)
(* waits to be replaced, and for runs of any length, the display converges    *)
(* between the old visual position and the new path, on the shorter arc       *)
(* between their headings, at whatever moment a frame is made.                *)
THEOREM BlendIsDirectHolds ==
  ASSUME NEW age \in Nat, Converge <= age, GentleTurns(age)
  PROVE  Spec /\ []Fresh(age) => []BlendIsDirect
<1>1. Init => TypeOK /\ CallInv /\ DisplayInv
  <2> SUFFICES ASSUME Init PROVE TypeOK /\ CallInv /\ DisplayInv
    OBVIOUS
  <2>1. TypeOK  BY TypeInit
  <2>2. CallInv  BY DEF Init, CallInv, Taken
  <2>3. DisplayInv  BY DEF Init, DisplayInv, Taken, Upright
  <2> QED  BY <2>1, <2>2, <2>3
<1>2. TypeOK /\ CallInv /\ DisplayInv /\ Fresh(age) /\ [Next]_vars =>
        TypeOK' /\ CallInv' /\ DisplayInv'
  BY TypeStep, CallStep, DisplayStep
<1>3. TypeOK /\ CallInv /\ DisplayInv => BlendIsDirect  BY BlendFollows
<1> QED  BY <1>1, <1>2, <1>3, PTL DEF Spec
================================================================================
