-------------------------- MODULE JsbsimClientProofs --------------------------
(***************************************************************************)
(* What the client of one JSBSim console promises, for every number of     *)
(* start properties, batch size and number of attempts, and whatever the   *)
(* console answers, refuses, delays or leaves unanswered.                  *)
(***************************************************************************)
EXTENDS JsbsimClient, TLAPS

(* The answers to commands that are given up on may still come.  Of what      *)
(* kinds they can be when the program stands at `place`: those of the         *)
(* commands since the last one whose failure counts, never its own kind,      *)
(* except in the run of sets at the start.                                    *)
LeftBehind(place) ==
  IF place <= Spool \/ place = Settle THEN {"set", "error"}
  ELSE IF place = InitialRead THEN {"dt", "error"}
  ELSE IF place \in {Write, TimeAtStart} THEN {"dt", "batch", "error"}
  ELSE {}

Fits(m, left, place) ==
  IF left THEN m.kind \in LeftBehind(place)
  ELSE m.own /\ m.kind \in {Kind(place), "error"}

(* In order, replies on the wire w and then the commands c: first what is     *)
(* left behind, then the n that the step awaits.                              *)
InOrder(w, c, n, place) ==
  LET behind == Len(w) + Len(c) - n IN
  /\ 0 <= behind
  /\ \A i \in DOMAIN w : Fits(w[i], i <= behind, place)
  /\ \A i \in DOMAIN c : Fits(c[i], Len(w) + i <= behind, place)

StreamInv == pc = "exchange" => InOrder(wire, inbox, awaited, at)

TickInv ==
  /\ pc = "exchange" /\ (at > Write \/ (at = Write /\ awaited > 0)) => ticks < MaxTicks
  /\ pc = "exchange" /\ at < Write => ticks = 0
  /\ pc \notin {"exchange", "dead"} => ticks = 0

(* Iterates on the way to JSBSim are the last command there, and every one    *)
(* ever sent belongs to an attempt or a tick.                                 *)
Coming(c) == IF \E i \in DOMAIN c : c[i].kind = "iterate" THEN 1 ELSE 0
Sent(iterate) == IF at > iterate \/ (at = iterate /\ awaited > 0) THEN 1 ELSE 0
Budget ==
  IF pc = "exchange" THEN 2 * (attempt - 1) + Sent(Spool) + Sent(Settle) + ticks + Sent(Iterate)
  ELSE IF pc = "dead" THEN MaxTime
  ELSE IF pc \in {"attempt", "reconnectWait", "failed"} THEN 2 * attempt
  ELSE 2 * (attempt - 1)

TimeInv ==
  /\ simTime \in Nat /\ owed \in Nat
  /\ \A i \in DOMAIN inbox : inbox[i].kind = "iterate" => i = Len(inbox)
  /\ simTime + owed + Coming(inbox) <= Budget
  /\ \A i \in DOMAIN wire : wire[i].kind = "time" => wire[i].n <= simTime

(* Of a step, up to read_state: the time it reads first, and every answer     *)
(* with one, is so late that all but the iterations owed before are in it.    *)
LagInv ==
  pc = "exchange" =>
    /\ at = TimeAtStart /\ awaited > 0 =>
         /\ owed <= lag
         /\ \A i \in DOMAIN wire :
              wire[i].kind = "time" => simTime + owed <= wire[i].n + lag
    /\ at \in {Iterate, Poll, Read} =>
         simTime + owed + Coming(inbox) <= base + lag + Sent(Iterate)

(* The poll has seen the time that the step waits for.                        *)
CaughtUp == pc = "exchange" /\ at = Read => simTime >= base + 1

Inv == TypeOK /\ StreamInv /\ TickInv /\ TimeInv /\ LagInv /\ CaughtUp

-------------------------------------------------------------------------------
(* The program and the streams.                                               *)
LEMMA Kinds ==
  ASSUME NEW i \in 1..Read
  PROVE  /\ Kind(i) \in {"set", "iterate", "time", "dt", "batch"}
         /\ i <= StartSets \/ i = Trim => Kind(i) = "set"
         /\ (i = DtCheck => Kind(i) = "dt") /\ (i = InitialRead => Kind(i) = "batch")
         /\ Kind(i) = "iterate" <=> i \in {Spool, Settle, Iterate}
         /\ Kind(i) = "time" <=> i \in {HealthCheck, TimeAtStart, Poll}
         /\ Replies(i) \in 1..BatchSize /\ (Kind(i) # "batch" => Replies(i) = 1)
<1>1. /\ i \in Nat /\ StartSets \in Nat /\ BatchSize \in Nat \ {0} /\ i <= StartSets + 11
      /\ 1 <= i
  BY JsbsimClientAssumption DEF Read
<1>2. \/ i <= StartSets \/ i = Spool \/ i = Trim \/ i = Settle \/ i = HealthCheck \/ i = DtCheck
      \/ i = InitialRead \/ i = Write \/ i = TimeAtStart \/ i = Iterate \/ i = Poll \/ i = Read
  BY <1>1 DEF Spool, Trim, Settle, HealthCheck, DtCheck, InitialRead, Write, TimeAtStart,
             Iterate, Poll, Read
<1>3. /\ Kind(i) \in {"set", "iterate", "time", "dt", "batch"}
      /\ i <= StartSets \/ i = Trim => Kind(i) = "set"
      /\ (i = DtCheck => Kind(i) = "dt") /\ (i = InitialRead => Kind(i) = "batch")
      /\ Kind(i) = "iterate" <=> i \in {Spool, Settle, Iterate}
      /\ Kind(i) = "time" <=> i \in {HealthCheck, TimeAtStart, Poll}
  BY <1>1, <1>2 DEF Kind, Spool, Trim, Settle, HealthCheck, DtCheck, InitialRead, Write,
                   TimeAtStart, Iterate, Poll, Read
<1>4. Replies(i) \in 1..BatchSize /\ (Kind(i) # "batch" => Replies(i) = 1)
  BY <1>1 DEF Replies
<1> QED  BY <1>3, <1>4

(* A late answer is never of the kind awaited once the failures of the step   *)
(* count, and an ignored failure leaves what the next step allows for.        *)
LEMMA LeftOvers ==
  ASSUME NEW i \in 1..Read
  PROVE  /\ Kind(i) \in LeftBehind(i) => i <= StartSets
         /\ "iterate" \notin LeftBehind(i)
         /\ LeftBehind(i) # {} => "error" \in LeftBehind(i)
         /\ Tolerates(i) =>
              /\ i + 1 \in 1..Read /\ i < Write
              /\ LeftBehind(i) \subseteq LeftBehind(i + 1)
              /\ Kind(i) \in LeftBehind(i + 1) /\ "error" \in LeftBehind(i + 1)
         /\ i <= StartSets => LeftBehind(i) = {"set", "error"}
         /\ LeftBehind(Write) = LeftBehind(TimeAtStart)
<1>1. i \in Nat /\ StartSets \in Nat /\ i <= StartSets + 11 /\ 1 <= i
  BY JsbsimClientAssumption DEF Read
<1>2. \/ i <= StartSets \/ i = Spool \/ i = Trim \/ i = Settle \/ i = HealthCheck \/ i = DtCheck
      \/ i = InitialRead \/ i = Write \/ i = TimeAtStart \/ i = Iterate \/ i = Poll \/ i = Read
  BY <1>1 DEF Spool, Trim, Settle, HealthCheck, DtCheck, InitialRead, Write, TimeAtStart,
             Iterate, Poll, Read
<1>3. Kind(i) \in LeftBehind(i) => i <= StartSets
  BY <1>1, <1>2 DEF Kind, LeftBehind, Spool, Trim, Settle, HealthCheck, DtCheck, InitialRead,
                   Write, TimeAtStart, Iterate, Poll, Read
<1>4. "iterate" \notin LeftBehind(i) /\ (LeftBehind(i) # {} => "error" \in LeftBehind(i))
  BY DEF LeftBehind
<1>5. i <= StartSets => LeftBehind(i) = {"set", "error"}
  BY <1>1 DEF LeftBehind, Spool
<1>6. LeftBehind(Write) = LeftBehind(TimeAtStart)
  BY <1>1 DEF LeftBehind, Spool, Settle, InitialRead, Write, TimeAtStart
<1>7. ASSUME Tolerates(i)
      PROVE  /\ i + 1 \in 1..Read /\ i < Write
             /\ LeftBehind(i) \subseteq LeftBehind(i + 1)
             /\ Kind(i) \in LeftBehind(i + 1) /\ "error" \in LeftBehind(i + 1)
  <2>1. i <= StartSets \/ i = Trim \/ i = DtCheck \/ i = InitialRead  BY <1>7 DEF Tolerates
  <2>2. i + 1 \in 1..Read /\ i < Write
    BY <1>1, <2>1 DEF Trim, DtCheck, InitialRead, Write, Read
  <2>3. CASE i <= StartSets
    <3>1. LeftBehind(i + 1) = {"set", "error"}  BY <1>1, <2>3 DEF LeftBehind, Spool
    <3>2. Kind(i) = "set"  BY <2>3, Kinds
    <3> QED  BY <1>5, <2>2, <2>3, <3>1, <3>2
  <2>4. CASE i = Trim
    <3>1. LeftBehind(i + 1) = {"set", "error"} /\ LeftBehind(i) = {}
      BY <1>1, <2>4 DEF LeftBehind, Spool, Trim, Settle, InitialRead, Write, TimeAtStart
    <3>2. Kind(i) = "set"  BY <2>4, Kinds
    <3> QED  BY <2>2, <3>1, <3>2
  <2>5. CASE i = DtCheck
    <3>1. LeftBehind(i + 1) = {"dt", "error"} /\ LeftBehind(i) = {}
      BY <1>1, <2>5 DEF LeftBehind, Spool, DtCheck, Settle, InitialRead, Write, TimeAtStart
    <3>2. Kind(i) = "dt"  BY <2>5, Kinds
    <3> QED  BY <2>2, <3>1, <3>2
  <2>6. CASE i = InitialRead
    <3>1. LeftBehind(i + 1) = {"dt", "batch", "error"} /\ LeftBehind(i) = {"dt", "error"}
      BY <1>1, <2>6 DEF LeftBehind, Spool, Settle, InitialRead, Write, TimeAtStart
    <3>2. Kind(i) = "batch"  BY <2>6, Kinds
    <3> QED  BY <2>2, <3>1, <3>2
  <2> QED  BY <2>1, <2>3, <2>4, <2>5, <2>6
<1> QED  BY <1>3, <1>4, <1>5, <1>6, <1>7

LEMMA TailOf ==
  ASSUME NEW S, NEW s \in Seq(S), s # <<>>
  PROVE  /\ Head(s) = s[1] /\ Head(s) \in S /\ Len(s) \in Nat \ {0}
         /\ Tail(s) \in Seq(S) /\ Len(Tail(s)) = Len(s) - 1
         /\ \A i \in 1..(Len(s) - 1) : Tail(s)[i] = s[i + 1]
  OBVIOUS

LEMMA AppendOf ==
  ASSUME NEW S, NEW s \in Seq(S), NEW e \in S
  PROVE  /\ Append(s, e) \in Seq(S) /\ Len(Append(s, e)) = Len(s) + 1
         /\ \A i \in 1..Len(s) : Append(s, e)[i] = s[i]
         /\ Append(s, e)[Len(s) + 1] = e
  OBVIOUS

LEMMA ConcatOf ==
  ASSUME NEW S, NEW a \in Seq(S), NEW b \in Seq(S)
  PROVE  /\ a \o b \in Seq(S) /\ Len(a \o b) = Len(a) + Len(b)
         /\ \A i \in 1..Len(a) : (a \o b)[i] = a[i]
         /\ \A i \in 1..Len(b) : (a \o b)[Len(a) + i] = b[i]
         /\ \A i \in 1..Len(a \o b) :
              i \in 1..Len(a) \/ (i - Len(a) \in 1..Len(b) /\ (a \o b)[i] = b[i - Len(a)])
  OBVIOUS

(* Giving up on messages changes whose they are, nothing else of them.        *)
LEMMA AbandonedOf ==
  ASSUME NEW s \in Seq(Message)
  PROVE  /\ Abandoned(s) \in Seq(Message) /\ Len(Abandoned(s)) = Len(s)
         /\ \A i \in 1..Len(s) : Abandoned(s)[i].kind = s[i].kind /\ Abandoned(s)[i].n = s[i].n
<1>1. Len(s) \in Nat /\ DOMAIN s = 1..Len(s)  OBVIOUS
<1>2. \A i \in 1..Len(s) :
        /\ [s[i] EXCEPT !.own = FALSE] \in Message
        /\ [s[i] EXCEPT !.own = FALSE].kind = s[i].kind
        /\ [s[i] EXCEPT !.own = FALSE].n = s[i].n
  <2>1. \A m \in Message : /\ [m EXCEPT !.own = FALSE] \in Message
                           /\ [m EXCEPT !.own = FALSE].kind = m.kind
                           /\ [m EXCEPT !.own = FALSE].n = m.n
    BY DEF Message
  <2>2. \A i \in 1..Len(s) : s[i] \in Message  OBVIOUS
  <2> QED  BY <2>1, <2>2
<1>3. Abandoned(s) = [i \in 1..Len(s) |-> [s[i] EXCEPT !.own = FALSE]]
  BY <1>1 DEF Abandoned
<1>4. Abandoned(s) \in [1..Len(s) -> Message]  BY <1>2, <1>3
<1>5. Abandoned(s) \in Seq(Message) /\ Len(Abandoned(s)) = Len(s)  BY <1>1, <1>4
<1>6. \A i \in 1..Len(s) : Abandoned(s)[i] = [s[i] EXCEPT !.own = FALSE]  BY <1>3
<1> QED  BY <1>2, <1>5, <1>6

-------------------------------------------------------------------------------
(* What the steps do.                                                         *)
LEMMA Places ==
  /\ StartSets \in Nat /\ MaxAttempts \in Nat \ {0} /\ MaxTicks \in Nat
  /\ BatchSize \in Nat \ {0}
  /\ Spool = StartSets + 1 /\ Settle = StartSets + 3 /\ InitialRead = StartSets + 6
  /\ Write = StartSets + 7 /\ TimeAtStart = StartSets + 8 /\ Iterate = StartSets + 9
  /\ Poll = StartSets + 10 /\ Read = StartSets + 11 /\ MaxTime = 2 * MaxAttempts + MaxTicks
  BY JsbsimClientAssumption DEF Spool, Settle, InitialRead, Write, TimeAtStart, Iterate, Poll,
     Read, MaxTime

LEMMA SentBits == \A i : Sent(i) \in {0, 1} /\ Coming(inbox) \in {0, 1}
  BY DEF Sent, Coming

StartupMove ==
  BeginAttempt \/ GiveUp \/ TryConnect \/ ConnectRefused \/ ConnectWaitEnds \/ ReconnectWaitEnds

LEMMA StartupMoves ==
  ASSUME TypeOK, StartupMove
  PROVE  /\ UNCHANGED <<running, at, awaited, base, ticks, lag, inbox, wire, simTime, owed, fatal>>
         /\ pc \notin {"exchange", "dead"}
         /\ pc' \in {"attempt", "connect", "connecting", "connectWait", "reconnectWait", "failed"}
         /\ attempt' \in 0..MaxAttempts /\ windowOpen' \in BOOLEAN
         /\ Budget <= Budget'
<1>1. attempt \in 0..MaxAttempts /\ MaxAttempts \in Nat /\ windowOpen \in BOOLEAN
  BY Places DEF TypeOK
<1>2. CASE BeginAttempt
  BY <1>1, <1>2 DEF BeginAttempt, programVars, linkVars, simVars, Budget
<1>3. CASE GiveUp
  BY <1>1, <1>3 DEF GiveUp, Goto, startupVars, programVars, linkVars, simVars, Budget
<1>4. CASE TryConnect
  BY <1>1, <1>4 DEF TryConnect, Goto, startupVars, programVars, linkVars, simVars, Budget
<1>5. CASE ConnectRefused
  BY <1>1, <1>5 DEF ConnectRefused, Goto, startupVars, programVars, linkVars, simVars, Budget
<1>6. CASE ConnectWaitEnds
  BY <1>1, <1>6 DEF ConnectWaitEnds, Goto, startupVars, programVars, linkVars, simVars, Budget
<1>7. CASE ReconnectWaitEnds
  BY <1>1, <1>7 DEF ReconnectWaitEnds, Goto, startupVars, programVars, linkVars, simVars, Budget
<1> QED  BY <1>2, <1>3, <1>4, <1>5, <1>6, <1>7 DEF StartupMove

LEMMA SendFacts ==
  ASSUME TypeOK, Send
  PROVE  /\ inbox' \in Seq(Message) /\ Len(inbox) \in Nat
         /\ Len(inbox') = Len(inbox) + Replies(at) /\ Replies(at) \in 1..BatchSize
         /\ \A i \in 1..Len(inbox) : inbox'[i] = inbox[i]
         /\ \A i \in 1..Len(inbox') :
              i \notin 1..Len(inbox) => inbox'[i].kind = Kind(at) /\ inbox'[i].own
<1> DEFINE new == [i \in 1..Replies(at) |-> [kind |-> Kind(at), n |-> i, own |-> TRUE]]
<1>1. at \in 1..Read /\ inbox \in Seq(Message)  BY DEF TypeOK
<1>2. Replies(at) \in 1..BatchSize /\ Replies(at) \in Nat  BY <1>1, Kinds, Places
<1>3. new \in Seq(Message) /\ Len(new) = Replies(at)
  <2>1. \A i \in 1..Replies(at) : [kind |-> Kind(at), n |-> i, own |-> TRUE] \in Message
    <3> SUFFICES ASSUME NEW i \in 1..Replies(at)
                 PROVE  [kind |-> Kind(at), n |-> i, own |-> TRUE] \in Message
      OBVIOUS
    <3>1. i \in 0..(MaxTime + BatchSize)  BY <1>2, Places
    <3>2. Kind(at) \in {"set", "iterate", "time", "dt", "batch"}  BY <1>1, Kinds
    <3> QED  BY <3>1, <3>2 DEF Message
  <2>2. new \in [1..Replies(at) -> Message]  BY <2>1
  <2> QED  BY <1>2, <2>2
<1>4. /\ inbox \o new \in Seq(Message) /\ Len(inbox \o new) = Len(inbox) + Len(new)
      /\ \A i \in 1..Len(inbox) : (inbox \o new)[i] = inbox[i]
      /\ \A i \in 1..Len(inbox \o new) :
           i \in 1..Len(inbox)
             \/ (i - Len(inbox) \in 1..Len(new) /\ (inbox \o new)[i] = new[i - Len(inbox)])
  <2>1. inbox \in Seq(Message) /\ new \in Seq(Message)  BY <1>1, <1>3
  <2> HIDE DEF new
  <2> QED  BY <2>1, ConcatOf
<1>5. inbox' = inbox \o new  BY DEF Send
<1>6. \A i \in 1..Len(new) : new[i].kind = Kind(at) /\ new[i].own  BY <1>3
<1> HIDE DEF new
<1> QED  BY <1>1, <1>2, <1>3, <1>4, <1>5, <1>6

LEMMA ServeFacts ==
  ASSUME TypeOK, TimeInv, Serve
  PROVE  /\ UNCHANGED <<running, pc, attempt, windowOpen, at, awaited, base, ticks, lag, simTime, fatal>>
         /\ inbox # <<>> /\ inbox' = Tail(inbox)
         /\ \E r \in Message :
              /\ wire' = Append(wire, r)
              /\ r.kind \in {inbox[1].kind, "error"} /\ r.own = inbox[1].own
              /\ r.kind = "time" => r.n = simTime
         /\ owed' = owed \/ (owed' = owed + 1 /\ inbox[1].kind = "iterate")
<1>1. /\ inbox # <<>> /\ inbox' = Tail(inbox) /\ inbox \in Seq(Message)
      /\ UNCHANGED <<running, pc, attempt, windowOpen, at, awaited, base, ticks, lag, simTime, fatal>>
  BY DEF Serve, TypeOK, startupVars, programVars
<1>2. Head(inbox) = inbox[1] /\ inbox[1] \in Message  BY <1>1, TailOf
<1>3. simTime \in 0..(MaxTime + BatchSize)
  <2>1. simTime \in Nat /\ owed \in Nat /\ simTime + owed \in 0..MaxTime
    BY DEF TypeOK, TimeInv
  <2> QED  BY <2>1, Places
<1>4. ASSUME NEW c \in Message
      PROVE  /\ Answer(c) \in Message /\ Answer(c).kind = c.kind /\ Answer(c).own = c.own
             /\ c.kind = "time" => Answer(c).n = simTime
             /\ [c EXCEPT !.kind = "error"] \in Message
             /\ [c EXCEPT !.kind = "error"].kind = "error"
             /\ [c EXCEPT !.kind = "error"].own = c.own
  BY <1>3 DEF Answer, Message
<1>5. CASE wire' = Append(wire, Answer(Head(inbox)))
           /\ IF Head(inbox).kind = "iterate" THEN owed' = owed + 1 ELSE owed' = owed
  <2>1. \E r \in Message :
          /\ wire' = Append(wire, r)
          /\ r.kind \in {inbox[1].kind, "error"} /\ r.own = inbox[1].own
          /\ r.kind = "time" => r.n = simTime
    <3> DEFINE c == inbox[1]
               r == Answer(c)
    <3>1. /\ r \in Message /\ r.kind = c.kind /\ r.own = c.own
          /\ c.kind = "time" => r.n = simTime
      BY <1>2, <1>4
    <3>2. wire' = Append(wire, r)  BY <1>2, <1>5
    <3> HIDE DEF r
    <3> QED  BY <3>1, <3>2
  <2> QED  BY <1>1, <1>2, <1>5, <2>1
<1>6. CASE wire' = Append(wire, [Head(inbox) EXCEPT !.kind = "error"]) /\ owed' = owed
  <2>1. \E r \in Message :
          /\ wire' = Append(wire, r)
          /\ r.kind \in {inbox[1].kind, "error"} /\ r.own = inbox[1].own
          /\ r.kind = "time" => r.n = simTime
    BY <1>2, <1>4, <1>6
  <2> QED  BY <1>1, <1>6, <2>1
<1> QED  BY <1>5, <1>6 DEF Serve

Failure == Reject \/ ReadFails \/ PollExpires

LEMMA FailFacts ==
  ASSUME TypeOK, Failure
  PROVE  /\ pc = "exchange" /\ awaited > 0 /\ awaited' = 0
         /\ UNCHANGED <<running, attempt, windowOpen, base, ticks, lag, simTime, owed>>
         /\ inbox' \in Seq(Message) /\ Len(inbox') = Len(inbox) /\ wire' \in Seq(Message)
         /\ \A i \in 1..Len(inbox) : inbox'[i].kind = inbox[i].kind
         /\ \A i \in 1..Len(wire') : \E j \in 1..Len(wire) :
              wire'[i].kind = wire[j].kind /\ wire'[i].n = wire[j].n
         /\ Tolerates(at) => at' = at + 1 /\ pc' = pc /\ fatal' = fatal
         /\ ~Tolerates(at) =>
              /\ at' = at /\ pc' \in {"dead", "reconnectWait", "attempt"}
              /\ at <= InitialRead <=> pc' # "dead"
              /\ fatal' \in {"lost", "own", "stale"}
<1>1. inbox \in Seq(Message) /\ wire \in Seq(Message)  BY DEF TypeOK
<1>2. \E left \in Seq(Message), how \in {"lost", "own", "stale"} :
        /\ Fail(left, how)
        /\ \A i \in 1..Len(left) : \E j \in 1..Len(wire) : left[i] = wire[j]
  <2>1. CASE ReadFails
    BY <1>1, <2>1 DEF ReadFails
  <2>2. CASE Reject \/ PollExpires
    <3>1. wire # <<>> /\ \E how \in {"lost", "own", "stale"} : Fail(Tail(wire), how)
      BY <2>2 DEF Reject, PollExpires
    <3>2. /\ Tail(wire) \in Seq(Message) /\ Len(wire) \in Nat /\ Len(Tail(wire)) = Len(wire) - 1
          /\ \A i \in 1..(Len(wire) - 1) : Tail(wire)[i] = wire[i + 1]
      BY <1>1, <3>1, TailOf
    <3>3. \A i \in 1..Len(Tail(wire)) : \E j \in 1..Len(wire) : Tail(wire)[i] = wire[j]
      <4> SUFFICES ASSUME NEW i \in 1..Len(Tail(wire))
                   PROVE  \E j \in 1..Len(wire) : Tail(wire)[i] = wire[j]
        OBVIOUS
      <4>1. i + 1 \in 1..Len(wire) /\ i \in 1..(Len(wire) - 1)  BY <3>2
      <4> QED  BY <3>2, <4>1
    <3> QED  BY <3>1, <3>2, <3>3
  <2> QED  BY <2>1, <2>2 DEF Failure
<1>3. PICK left \in Seq(Message), how \in {"lost", "own", "stale"} :
        /\ Fail(left, how)
        /\ \A i \in 1..Len(left) : \E j \in 1..Len(wire) : left[i] = wire[j]
  BY <1>2
<1>4. pc = "exchange" /\ awaited > 0
  BY DEF Failure, Reject, ReadFails, PollExpires
<1>5. /\ awaited' = 0 /\ inbox' = Abandoned(inbox) /\ wire' = Abandoned(left)
      /\ UNCHANGED <<running, attempt, windowOpen, base, ticks, lag, simTime, owed>>
      /\ Tolerates(at) => at' = at + 1 /\ pc' = pc /\ fatal' = fatal
      /\ ~Tolerates(at) =>
           /\ at' = at /\ fatal' = how
           /\ pc' = IF at > InitialRead THEN "dead"
                    ELSE IF attempt < MaxAttempts THEN "reconnectWait" ELSE "attempt"
  BY <1>3 DEF Fail, startupVars, simVars
<1>6. /\ inbox' \in Seq(Message) /\ Len(inbox') = Len(inbox)
      /\ \A i \in 1..Len(inbox) : inbox'[i].kind = inbox[i].kind
  BY <1>1, <1>5, AbandonedOf
<1>7. /\ wire' \in Seq(Message) /\ Len(wire') = Len(left)
      /\ \A i \in 1..Len(left) : wire'[i].kind = left[i].kind /\ wire'[i].n = left[i].n
  BY <1>5, AbandonedOf
<1>8. \A i \in 1..Len(wire') : \E j \in 1..Len(wire) :
        wire'[i].kind = wire[j].kind /\ wire'[i].n = wire[j].n
  BY <1>3, <1>7
<1>9. at <= InitialRead <=> ~(at > InitialRead)
  BY Places DEF TypeOK
<1>10. ~Tolerates(at) =>
         /\ at' = at /\ pc' \in {"dead", "reconnectWait", "attempt"}
         /\ at <= InitialRead <=> pc' # "dead"
         /\ fatal' \in {"lost", "own", "stale"}
  BY <1>5, <1>9
<1>11. /\ awaited' = 0
       /\ UNCHANGED <<running, attempt, windowOpen, base, ticks, lag, simTime, owed>>
  BY <1>5
<1>12. Tolerates(at) => at' = at + 1 /\ pc' = pc /\ fatal' = fatal
  BY <1>5
<1>13. wire' \in Seq(Message)
  BY <1>7
<1> QED  BY <1>4, <1>6, <1>8, <1>10, <1>11, <1>12, <1>13

(* A reply that matches a command past the start properties is the command's  *)
(* own: nothing is left behind when it comes.                                 *)
LEMMA Matched ==
  ASSUME TypeOK, StreamInv, pc = "exchange", awaited > 0, wire # <<>>, Matches(Head(wire)),
         at > StartSets
  PROVE  Head(wire).own /\ Len(wire) + Len(inbox) = awaited
<1>1. /\ wire \in Seq(Message) /\ inbox \in Seq(Message) /\ at \in 1..Read
      /\ Len(wire) \in Nat /\ Len(inbox) \in Nat /\ awaited \in Nat
  BY Places DEF TypeOK
<1>2. /\ Head(wire) = wire[1] /\ 1 \in DOMAIN wire
  BY <1>1, TailOf
<1>3. wire[1].kind = Kind(at)  BY <1>2 DEF Matches
<1> DEFINE behind == Len(wire) + Len(inbox) - awaited
<1>4. 0 <= behind /\ Fits(wire[1], 1 <= behind, at)
  BY <1>2 DEF StreamInv, InOrder
<1>5. ~(at <= StartSets)  BY <1>1, Places
<1>6. ~(1 <= behind)
  <2> SUFFICES ASSUME 1 <= behind PROVE FALSE
    OBVIOUS
  <2>1. wire[1].kind \in LeftBehind(at)  BY <1>4 DEF Fits
  <2> QED  BY <1>1, <1>3, <1>5, <2>1, LeftOvers
<1>7. wire[1].own  BY <1>4, <1>6 DEF Fits
<1>8. behind = 0  BY <1>1, <1>4, <1>6
<1> QED  BY <1>1, <1>2, <1>7, <1>8

LEMMA AcceptFacts ==
  ASSUME TypeOK, Accept
  PROVE  /\ pc = "exchange" /\ awaited > 0 /\ wire # <<>> /\ Matches(Head(wire))
         /\ wire' = Tail(wire) /\ awaited' = awaited - 1
         /\ UNCHANGED <<running, pc, attempt, windowOpen, lag, inbox, simTime, owed, fatal>>
         /\ base' = IF at = TimeAtStart THEN Head(wire).n ELSE base
         /\ \/ /\ awaited > 1 \/ (at = Poll /\ ~Enough(Head(wire)))
               /\ at' = at /\ ticks' = ticks
            \/ awaited = 1 /\ at = Read /\ at' = Write /\ ticks' = ticks + 1
            \/ /\ awaited = 1 /\ at # Read /\ at' = at + 1 /\ ticks' = ticks
               /\ at = Poll => Enough(Head(wire))
  BY Places DEF Accept, TypeOK, startupVars, simVars

LEMMA StreamStep ==
  TypeOK /\ StreamInv /\ TimeInv /\ [Next]_vars => StreamInv'
<1> SUFFICES ASSUME TypeOK, StreamInv, TimeInv, [Next]_vars, pc' = "exchange"
             PROVE  InOrder(wire', inbox', awaited', at')
  BY DEF StreamInv
<1>0. /\ wire \in Seq(Message) /\ inbox \in Seq(Message) /\ at \in 1..Read
      /\ Len(wire) \in Nat /\ Len(inbox) \in Nat /\ awaited \in Nat
      /\ DOMAIN wire = 1..Len(wire) /\ DOMAIN inbox = 1..Len(inbox)
  BY Places DEF TypeOK
<1> DEFINE behind == Len(wire) + Len(inbox) - awaited
<1>a. ASSUME pc = "exchange"
      PROVE  /\ 0 <= behind
             /\ \A i \in 1..Len(wire) : Fits(wire[i], i <= behind, at)
             /\ \A i \in 1..Len(inbox) : Fits(inbox[i], Len(wire) + i <= behind, at)
  BY <1>0, <1>a DEF StreamInv, InOrder
<1> HIDE DEF behind
<1>1. CASE StartupMove
  BY <1>1, StartupMoves
<1>2. CASE Connected
  <2>1. wire' = <<>> /\ inbox' = <<>> /\ awaited' = 0  BY <1>2 DEF Connected
  <2> QED  BY <2>1 DEF InOrder
<1>3. CASE Send
  <2>1. pc = "exchange" /\ awaited = 0 /\ awaited' = Replies(at) /\ at' = at /\ wire' = wire
    BY <1>3 DEF Send
  <2>2. /\ inbox' \in Seq(Message) /\ Len(inbox') = Len(inbox) + Replies(at)
        /\ Replies(at) \in Nat
        /\ \A i \in 1..Len(inbox) : inbox'[i] = inbox[i]
        /\ \A i \in 1..Len(inbox') :
             i \notin 1..Len(inbox) => inbox'[i].kind = Kind(at) /\ inbox'[i].own
    BY <1>3, SendFacts, Places
  <2>3. Len(wire') + Len(inbox') - awaited' = behind /\ behind = Len(wire) + Len(inbox)
    BY <1>0, <2>1, <2>2 DEF behind
  <2>4. \A i \in 1..Len(wire') : Fits(wire'[i], i <= behind, at')
    BY <1>a, <2>1
  <2>5. ASSUME NEW i \in 1..Len(inbox') PROVE Fits(inbox'[i], Len(wire') + i <= behind, at')
    <3>1. CASE i \in 1..Len(inbox)
      BY <1>a, <2>1, <2>2, <3>1
    <3>2. CASE i \notin 1..Len(inbox)
      <4>1. ~(Len(wire') + i <= behind)  BY <1>0, <2>1, <2>2, <2>3, <3>2
      <4> QED  BY <2>1, <2>2, <3>2, <4>1 DEF Fits
    <3> QED  BY <3>1, <3>2
  <2>6. 0 <= behind  BY <1>0, <2>3
  <2>7. DOMAIN wire' = 1..Len(wire') /\ DOMAIN inbox' = 1..Len(inbox')
    BY <1>0, <2>1, <2>2
  <2> QED  BY <2>3, <2>4, <2>5, <2>6, <2>7 DEF InOrder
<1>4. CASE SkipWrite
  <2>1. /\ pc = "exchange" /\ awaited = 0 /\ at = Write /\ at' = TimeAtStart
        /\ awaited' = awaited /\ wire' = wire /\ inbox' = inbox
    BY <1>4 DEF SkipWrite, linkVars
  <2>2. behind = Len(wire) + Len(inbox)  BY <1>0, <2>1 DEF behind
  <2>3. LeftBehind(at') = LeftBehind(at)  BY <1>0, <2>1, LeftOvers
  <2>4. \A i \in 1..Len(wire) : wire[i].kind \in LeftBehind(at) /\ i <= behind
    BY <1>0, <1>a, <2>1, <2>2 DEF Fits
  <2>5. \A i \in 1..Len(inbox) : inbox[i].kind \in LeftBehind(at) /\ Len(wire) + i <= behind
    BY <1>0, <1>a, <2>1, <2>2 DEF Fits
  <2>6. 0 <= behind /\ behind = Len(wire') + Len(inbox') - awaited'
    BY <1>0, <2>1, <2>2
  <2> QED  BY <1>0, <2>1, <2>3, <2>4, <2>5, <2>6 DEF InOrder, Fits
<1>5. CASE Accept
  <2>1. /\ pc = "exchange" /\ awaited > 0 /\ wire # <<>> /\ Matches(Head(wire))
        /\ wire' = Tail(wire) /\ awaited' = awaited - 1 /\ inbox' = inbox
    BY <1>5, AcceptFacts
  <2>2. \/ at' = at
        \/ awaited = 1 /\ (at' = Write \/ at' = at + 1) /\ (at <= StartSets => at' = at + 1)
    BY <1>0, <1>5, AcceptFacts, Places
  <2>3. /\ Len(wire') = Len(wire) - 1 /\ wire' \in Seq(Message) /\ Len(wire) >= 1
        /\ \A i \in 1..Len(wire') : i + 1 \in 1..Len(wire) /\ wire'[i] = wire[i + 1]
    <3>1. /\ Tail(wire) \in Seq(Message) /\ Len(Tail(wire)) = Len(wire) - 1
          /\ \A i \in 1..(Len(wire) - 1) : Tail(wire)[i] = wire[i + 1]
      BY <1>0, <2>1, TailOf
    <3>2. Len(wire) >= 1  BY <1>0, <2>1
    <3> QED  BY <1>0, <2>1, <3>1, <3>2
  <2>4. DOMAIN wire' = 1..Len(wire') /\ DOMAIN inbox' = 1..Len(inbox')
    BY <1>0, <2>1, <2>3
  <2>5. Len(wire') + Len(inbox') - awaited' = behind
    BY <1>0, <2>1, <2>3 DEF behind
  <2>6. 0 <= behind  BY <1>a, <2>1
  <2>7. CASE at > StartSets
    <3>1. Len(wire) + Len(inbox) = awaited  BY <2>1, <2>7, Matched
    <3>2. behind = 0  BY <1>0, <3>1 DEF behind
    <3>3. CASE at' = at
      <4>1. ASSUME NEW i \in 1..Len(wire') PROVE Fits(wire'[i], i <= behind, at')
        <5>1. Fits(wire[i + 1], i + 1 <= behind, at) /\ wire'[i] = wire[i + 1]
          BY <1>a, <2>1, <2>3
        <5>2. ~(i + 1 <= behind) /\ ~(i <= behind)  BY <2>3, <3>2
        <5> QED  BY <3>3, <5>1, <5>2 DEF Fits
      <4>2. ASSUME NEW i \in 1..Len(inbox') PROVE Fits(inbox'[i], Len(wire') + i <= behind, at')
        <5>1. Fits(inbox[i], Len(wire) + i <= behind, at) /\ inbox'[i] = inbox[i]
          BY <1>a, <2>1
        <5>2. ~(Len(wire) + i <= behind) /\ ~(Len(wire') + i <= behind)
          BY <1>0, <2>1, <2>3, <3>2
        <5> QED  BY <3>3, <5>1, <5>2 DEF Fits
      <4> QED  BY <2>4, <2>5, <2>6, <4>1, <4>2 DEF InOrder
    <3>4. CASE awaited = 1
      <4>1. 1..Len(wire') = {} /\ 1..Len(inbox') = {}
        BY <1>0, <2>1, <2>3, <3>1, <3>4
      <4> QED  BY <2>4, <2>5, <2>6, <4>1 DEF InOrder
    <3> QED  BY <2>2, <3>3, <3>4
  <2>8. CASE at <= StartSets
    <3>1. /\ LeftBehind(at) = {"set", "error"} /\ Kind(at) = "set"
          /\ LeftBehind(at') = {"set", "error"}
      <4>1. LeftBehind(at) = {"set", "error"} /\ Kind(at) = "set"
        BY <1>0, <2>8, LeftOvers, Kinds
      <4>2. at' = at \/ at' = at + 1  BY <2>2, <2>8
      <4>3. at + 1 <= Spool  BY <1>0, <2>8, Places
      <4> QED  BY <4>1, <4>2, <4>3 DEF LeftBehind
    <3>2. CASE at' = at
      <4>1. ASSUME NEW i \in 1..Len(wire') PROVE Fits(wire'[i], i <= behind, at')
        <5>1. Fits(wire[i + 1], i + 1 <= behind, at) /\ wire'[i] = wire[i + 1]
          BY <1>a, <2>1, <2>3
        <5>2. i <= behind \/ ~(i + 1 <= behind)  BY <1>0, <2>3 DEF behind
        <5> QED  BY <3>1, <3>2, <5>1, <5>2 DEF Fits
      <4>2. ASSUME NEW i \in 1..Len(inbox') PROVE Fits(inbox'[i], Len(wire') + i <= behind, at')
        <5>1. Fits(inbox[i], Len(wire) + i <= behind, at) /\ inbox'[i] = inbox[i]
          BY <1>a, <2>1
        <5>2. Len(wire') + i <= behind \/ ~(Len(wire) + i <= behind)
          BY <1>0, <2>1, <2>3 DEF behind
        <5> QED  BY <3>1, <3>2, <5>1, <5>2 DEF Fits
      <4> QED  BY <2>4, <2>5, <2>6, <4>1, <4>2 DEF InOrder
    <3>3. CASE awaited = 1
      <4>1. awaited' = 0 /\ behind = Len(wire') + Len(inbox')  BY <1>0, <2>1, <2>3, <2>5, <3>3
      <4>2. ASSUME NEW i \in 1..Len(wire') PROVE Fits(wire'[i], i <= behind, at')
        <5>1. Fits(wire[i + 1], i + 1 <= behind, at) /\ wire'[i] = wire[i + 1]
          BY <1>a, <2>1, <2>3
        <5>2. i <= behind  BY <1>0, <2>1, <2>3, <4>1
        <5> QED  BY <3>1, <5>1, <5>2 DEF Fits
      <4>3. ASSUME NEW i \in 1..Len(inbox') PROVE Fits(inbox'[i], Len(wire') + i <= behind, at')
        <5>1. Fits(inbox[i], Len(wire) + i <= behind, at) /\ inbox'[i] = inbox[i]
          BY <1>a, <2>1
        <5>2. Len(wire') + i <= behind  BY <1>0, <2>1, <2>3, <4>1
        <5> QED  BY <3>1, <5>1, <5>2 DEF Fits
      <4> QED  BY <2>4, <2>5, <2>6, <4>2, <4>3 DEF InOrder
    <3> QED  BY <2>2, <3>2, <3>3
  <2> QED  BY <1>0, <2>7, <2>8, Places
<1>6. CASE Failure
  <2>1. /\ pc = "exchange" /\ awaited' = 0
        /\ inbox' \in Seq(Message) /\ Len(inbox') = Len(inbox) /\ wire' \in Seq(Message)
        /\ \A i \in 1..Len(inbox) : inbox'[i].kind = inbox[i].kind
        /\ \A i \in 1..Len(wire') : \E j \in 1..Len(wire) : wire'[i].kind = wire[j].kind
    BY <1>6, FailFacts
  <2>2. Tolerates(at) /\ at' = at + 1  BY <1>6, FailFacts
  <2>3. /\ LeftBehind(at) \subseteq LeftBehind(at') /\ Kind(at) \in LeftBehind(at')
        /\ "error" \in LeftBehind(at')
    BY <1>0, <2>2, LeftOvers
  <2>4. /\ \A j \in 1..Len(wire) : wire[j].kind \in LeftBehind(at')
        /\ \A j \in 1..Len(inbox) : inbox[j].kind \in LeftBehind(at')
    BY <1>a, <2>1, <2>3 DEF Fits
  <2>5. Len(wire') \in Nat /\ DOMAIN wire' = 1..Len(wire') /\ DOMAIN inbox' = 1..Len(inbox)
    BY <1>0, <2>1
  <2>6. /\ \A i \in 1..Len(wire') : wire'[i].kind \in LeftBehind(at')
        /\ \A i \in 1..Len(inbox) : inbox'[i].kind \in LeftBehind(at')
    BY <2>1, <2>4
  <2> DEFINE later == Len(wire') + Len(inbox') - awaited'
  <2>7. later = Len(wire') + Len(inbox) /\ 0 <= later  BY <1>0, <2>1, <2>5
  <2>8. /\ \A i \in 1..Len(wire') : i <= later
        /\ \A i \in 1..Len(inbox) : Len(wire') + i <= later
    BY <1>0, <2>5, <2>7
  <2> QED  BY <2>5, <2>6, <2>7, <2>8 DEF InOrder, Fits
<1>7. CASE Serve
  <2>1. /\ pc = "exchange" /\ at' = at /\ awaited' = awaited
        /\ inbox # <<>> /\ inbox' = Tail(inbox)
    BY <1>7, ServeFacts
  <2>2. PICK r \in Message : /\ wire' = Append(wire, r)
                             /\ r.kind \in {inbox[1].kind, "error"} /\ r.own = inbox[1].own
    BY <1>7, ServeFacts
  <2>3. /\ wire' \in Seq(Message) /\ Len(wire') = Len(wire) + 1
        /\ \A i \in 1..Len(wire) : wire'[i] = wire[i]
        /\ wire'[Len(wire) + 1] = r
    BY <1>0, <2>2, AppendOf
  <2>4. /\ inbox' \in Seq(Message) /\ Len(inbox') = Len(inbox) - 1 /\ Len(inbox) >= 1
        /\ \A i \in 1..(Len(inbox) - 1) : inbox'[i] = inbox[i + 1]
    BY <1>0, <2>1, TailOf
  <2>5. Len(wire') + Len(inbox') - awaited' = behind /\ 0 <= behind
    BY <1>0, <1>a, <2>1, <2>3, <2>4 DEF behind
  <2>6. ASSUME NEW i \in 1..Len(wire') PROVE Fits(wire'[i], i <= behind, at')
    <3>1. CASE i \in 1..Len(wire)
      BY <1>a, <2>1, <2>3, <3>1
    <3>2. CASE i = Len(wire) + 1
      <4>1. 1 \in 1..Len(inbox)  BY <1>0, <2>4
      <4>2. Fits(inbox[1], i <= behind, at)  BY <1>a, <2>1, <3>2, <4>1
      <4>3. LeftBehind(at) # {} => "error" \in LeftBehind(at)  BY <1>0, LeftOvers
      <4>4. wire'[i] = r  BY <2>3, <3>2
      <4> QED  BY <2>1, <2>2, <4>2, <4>3, <4>4 DEF Fits
    <3> QED  BY <1>0, <2>3, <3>1, <3>2
  <2>7. ASSUME NEW i \in 1..Len(inbox') PROVE Fits(inbox'[i], Len(wire') + i <= behind, at')
    <3>1. /\ i + 1 \in 1..Len(inbox) /\ inbox'[i] = inbox[i + 1]
          /\ Len(wire') + i = Len(wire) + (i + 1)
      BY <1>0, <2>3, <2>4
    <3>2. Fits(inbox[i + 1], Len(wire) + (i + 1) <= behind, at)  BY <1>a, <2>1, <3>1
    <3> QED  BY <2>1, <3>1, <3>2
  <2>8. DOMAIN wire' = 1..Len(wire') /\ DOMAIN inbox' = 1..Len(inbox')
    BY <2>3, <2>4
  <2> QED  BY <2>5, <2>6, <2>7, <2>8 DEF InOrder
<1>8. CASE CtrlC \/ WindowCloses \/ Integrate \/ UNCHANGED vars
  <2>1. UNCHANGED <<pc, at, awaited, wire, inbox>>
    BY <1>8 DEF CtrlC, WindowCloses, Integrate, vars, programVars, linkVars
  <2> QED  BY <2>1 DEF StreamInv
<1> QED  BY <1>1, <1>2, <1>3, <1>4, <1>5, <1>6, <1>7, <1>8
        DEF Next, Connecting, Exchange, StartupMove, Failure

LEMMA TickStep == TypeOK /\ TickInv /\ [Next]_vars => TickInv'
<1> SUFFICES ASSUME TypeOK, TickInv, [Next]_vars PROVE TickInv'
  OBVIOUS
<1>0. at \in 1..Read /\ at \in Nat /\ awaited \in Nat /\ ticks \in Nat
  BY Places DEF TypeOK
<1>1. CASE StartupMove
  BY <1>1, StartupMoves DEF TickInv
<1>2. CASE Connected
  BY <1>2, Places DEF Connected, TickInv
<1>3. CASE Send
  BY <1>0, <1>3, Places DEF Send, TickInv
<1>4. CASE SkipWrite
  BY <1>0, <1>4, Places DEF SkipWrite, TickInv
<1>5. CASE Accept
  <2>1. /\ pc = "exchange" /\ pc' = pc /\ awaited > 0 /\ awaited' = awaited - 1
        /\ \/ at' = at /\ ticks' = ticks
           \/ awaited = 1 /\ at = Read /\ at' = Write /\ ticks' = ticks + 1
           \/ awaited = 1 /\ at # Read /\ at' = at + 1 /\ ticks' = ticks
    BY <1>5, AcceptFacts
  <2> QED  BY <1>0, <2>1, Places DEF TickInv
<1>6. CASE Failure
  <2>1. pc = "exchange" /\ awaited > 0 /\ awaited' = 0 /\ ticks' = ticks
    BY <1>6, FailFacts
  <2>2. CASE Tolerates(at)
    <3>1. at' = at + 1 /\ pc' = pc  BY <1>6, <2>2, FailFacts
    <3>2. at < Write  BY <1>0, <2>2, LeftOvers
    <3> QED  BY <1>0, <2>1, <3>1, <3>2, Places DEF TickInv
  <2>3. CASE ~Tolerates(at)
    <3>1. /\ at' = at /\ pc' \in {"dead", "reconnectWait", "attempt"}
          /\ at <= InitialRead <=> pc' # "dead"
      BY <1>6, <2>3, FailFacts
    <3> QED  BY <1>0, <2>1, <3>1, Places DEF TickInv
  <2> QED  BY <2>2, <2>3
<1>7. CASE Serve
  BY <1>7 DEF Serve, TickInv, programVars
<1>8. CASE CtrlC \/ WindowCloses \/ Integrate \/ UNCHANGED vars
  BY <1>8 DEF CtrlC, WindowCloses, Integrate, vars, programVars, TickInv
<1> QED  BY <1>1, <1>2, <1>3, <1>4, <1>5, <1>6, <1>7, <1>8
        DEF Next, Connecting, Exchange, StartupMove, Failure

(* The time that all iterates there may ever be add up to.                    *)
LEMMA BudgetBound == TypeOK /\ TickInv => Budget \in Int /\ Budget <= MaxTime
<1> SUFFICES ASSUME TypeOK, TickInv PROVE Budget \in Int /\ Budget <= MaxTime
  OBVIOUS
<1>1. /\ attempt \in Nat /\ attempt <= MaxAttempts /\ ticks \in Nat /\ ticks <= MaxTicks
      /\ at \in Nat /\ awaited \in Nat
  BY Places DEF TypeOK
<1>2. /\ Sent(Spool) \in {0, 1} /\ Sent(Settle) \in {0, 1} /\ Sent(Iterate) \in {0, 1}
  BY SentBits
<1>3. CASE pc = "exchange"
  <2>1. ticks + Sent(Iterate) <= MaxTicks
    BY <1>1, <1>3, Places DEF TickInv, Sent
  <2> QED  BY <1>1, <1>2, <1>3, <2>1, Places DEF Budget
<1>4. CASE pc # "exchange"
  BY <1>1, <1>4, Places DEF Budget
<1> QED  BY <1>3, <1>4

(* No iterate is under way when the program sends its next command.           *)
LEMMA NoneComing ==
  ASSUME TypeOK, StreamInv, pc = "exchange", awaited = 0
  PROVE  \A i \in DOMAIN inbox : inbox[i].kind # "iterate"
<1>1. at \in 1..Read /\ Len(wire) \in Nat /\ Len(inbox) \in Nat /\ DOMAIN inbox = 1..Len(inbox)
  BY DEF TypeOK
<1>2. \A i \in 1..Len(inbox) : Fits(inbox[i], Len(wire) + i <= Len(wire) + Len(inbox) - awaited, at)
  BY <1>1 DEF StreamInv, InOrder
<1>3. \A i \in 1..Len(inbox) : Len(wire) + i <= Len(wire) + Len(inbox) - awaited
  BY <1>1
<1>4. \A i \in 1..Len(inbox) : inbox[i].kind \in LeftBehind(at)
  BY <1>2, <1>3 DEF Fits
<1> QED  BY <1>1, <1>4, LeftOvers

(* An iterate is coming or owed, not both, when JSBSim answers.               *)
LEMMA ServeOwes ==
  ASSUME TypeOK, TimeInv, Serve
  PROVE  owed' \in Nat /\ owed' + Coming(inbox') <= owed + Coming(inbox)
<1>0. inbox \in Seq(Message) /\ Len(inbox) \in Nat /\ DOMAIN inbox = 1..Len(inbox)
  BY DEF TypeOK
<1>a. owed \in Nat /\ \A i \in 1..Len(inbox) : inbox[i].kind = "iterate" => i = Len(inbox)
  BY <1>0 DEF TimeInv
<1>c. Coming(inbox) \in {0, 1}
  BY SentBits
<1>1. /\ inbox # <<>> /\ inbox' = Tail(inbox)
      /\ owed' = owed \/ (owed' = owed + 1 /\ inbox[1].kind = "iterate")
  BY ServeFacts
<1>2. /\ inbox' \in Seq(Message) /\ Len(inbox') = Len(inbox) - 1 /\ Len(inbox) >= 1
      /\ \A i \in 1..(Len(inbox) - 1) : inbox'[i] = inbox[i + 1]
  BY <1>0, <1>1, TailOf
<1>3. \A i \in 1..Len(inbox') :
        i + 1 \in 1..Len(inbox) /\ inbox'[i].kind = inbox[i + 1].kind
  BY <1>0, <1>2
<1>4. DOMAIN inbox' = 1..Len(inbox')  BY <1>2
<1>5. CASE inbox[1].kind = "iterate"
  <2>1. Len(inbox) = 1
    <3>1. 1 \in 1..Len(inbox)  BY <1>0, <1>2
    <3> QED  BY <1>a, <1>5, <3>1
  <2>2. Coming(inbox') = 0  BY <1>2, <1>4, <2>1 DEF Coming
  <2>3. Coming(inbox) = 1  BY <1>0, <1>2, <1>5 DEF Coming
  <2> QED  BY <1>a, <1>1, <2>2, <2>3
<1>6. CASE inbox[1].kind # "iterate"
  <2>1. Coming(inbox') <= Coming(inbox)  BY SMTT(30), <1>0, <1>3, <1>4 DEF Coming
  <2>2. Coming(inbox') \in Int  BY DEF Coming
  <2> QED  BY <1>a, <1>c, <1>1, <1>6, <2>1, <2>2
<1> QED  BY <1>5, <1>6

LEMMA TimeStep ==
  TypeOK /\ StreamInv /\ TickInv /\ TimeInv /\ [Next]_vars => TimeInv'
<1> SUFFICES ASSUME TypeOK, StreamInv, TickInv, TimeInv, [Next]_vars PROVE TimeInv'
  OBVIOUS
<1>0. /\ wire \in Seq(Message) /\ inbox \in Seq(Message) /\ at \in 1..Read
      /\ Len(wire) \in Nat /\ Len(inbox) \in Nat /\ awaited \in Nat /\ attempt \in Nat
      /\ DOMAIN wire = 1..Len(wire) /\ DOMAIN inbox = 1..Len(inbox)
      /\ ticks \in Nat /\ at \in Nat
  BY Places DEF TypeOK
<1>a. /\ simTime \in Nat /\ owed \in Nat
      /\ \A i \in 1..Len(inbox) : inbox[i].kind = "iterate" => i = Len(inbox)
      /\ simTime + owed + Coming(inbox) <= Budget
      /\ \A i \in 1..Len(wire) : wire[i].kind = "time" => wire[i].n <= simTime
  BY <1>0 DEF TimeInv
<1>b. Budget \in Int /\ Budget <= MaxTime  BY BudgetBound
<1>c. /\ Sent(Spool) \in {0, 1} /\ Sent(Settle) \in {0, 1} /\ Sent(Iterate) \in {0, 1}
      /\ Coming(inbox) \in {0, 1}
  BY SentBits
<1>1. CASE StartupMove
  <2>1. UNCHANGED <<inbox, wire, simTime, owed>> /\ Budget <= Budget'
    BY <1>1, StartupMoves
  <2>2. Budget' \in Int
    <3>1. pc' \notin {"exchange", "dead"} /\ attempt' \in Nat
      BY <1>1, StartupMoves, Places
    <3> QED  BY <3>1 DEF Budget
  <2>3. simTime + owed + Coming(inbox) <= Budget'  BY <1>a, <1>b, <1>c, <2>1, <2>2
  <2> QED  BY <1>0, <1>a, <2>1, <2>3 DEF TimeInv
<1>2. CASE Connected
  <2>1. /\ wire' = <<>> /\ inbox' = <<>> /\ pc = "connecting" /\ pc' = "exchange" /\ at' = 1
        /\ awaited' = 0
        /\ UNCHANGED <<attempt, ticks, simTime, owed>>
    BY <1>2 DEF Connected, startupVars, simVars
  <2>2. Budget = 2 * (attempt - 1)  BY <2>1 DEF Budget
  <2>3. Sent(Spool)' = 0 /\ Sent(Settle)' = 0 /\ Sent(Iterate)' = 0
    BY <2>1, Places DEF Sent
  <2>4. ticks = 0  BY <2>1 DEF TickInv
  <2>5. Budget' = 2 * (attempt - 1)  BY <1>0, <2>1, <2>3, <2>4 DEF Budget
  <2>6. Coming(inbox') = 0  BY <2>1 DEF Coming
  <2>7. simTime' + owed' + Coming(inbox') <= Budget'
    <3>1. simTime + owed + Coming(inbox) <= 2 * (attempt - 1)  BY <1>a, <2>2
    <3>2. simTime' + owed' + Coming(inbox') = simTime + owed
      <4>1. simTime' = simTime /\ owed' = owed  BY <2>1
      <4> QED  BY <1>a, <2>6, <4>1
    <3>3. simTime + owed <= 2 * (attempt - 1)
      <4>1. simTime \in Nat /\ owed \in Nat /\ attempt \in Nat /\ Coming(inbox) \in {0, 1}
        BY <1>0, <1>a, <1>c
      <4> QED  BY <3>1, <4>1
    <3> QED  BY <2>5, <3>2, <3>3
  <2> QED  BY <1>a, <2>1, <2>7 DEF TimeInv
<1>3. CASE Send
  <2>1. /\ pc = "exchange" /\ awaited = 0 /\ awaited' = Replies(at)
        /\ UNCHANGED <<pc, attempt, at, ticks, wire, simTime, owed>>
    BY <1>3 DEF Send, startupVars, simVars
  <2>2. /\ inbox' \in Seq(Message) /\ Len(inbox') = Len(inbox) + Replies(at)
        /\ Replies(at) \in Nat /\ Replies(at) > 0
        /\ \A i \in 1..Len(inbox) : inbox'[i] = inbox[i]
        /\ \A i \in 1..Len(inbox') : i \notin 1..Len(inbox) => inbox'[i].kind = Kind(at)
    BY <1>3, SendFacts, Places
  <2>3. \A i \in 1..Len(inbox) : inbox[i].kind # "iterate"
    BY <1>0, <2>1, NoneComing
  <2>4. DOMAIN inbox' = 1..Len(inbox')  BY <2>2
  <2>5. Coming(inbox) = 0  BY <1>0, <2>3 DEF Coming
  <2>6. \A i \in 1..Len(inbox') :
          inbox'[i].kind = "iterate" => i \notin 1..Len(inbox) /\ Kind(at) = "iterate"
    BY <2>2, <2>3
  <2>7. Sent(Spool) <= Sent(Spool)' /\ Sent(Settle) <= Sent(Settle)'
        /\ Sent(Iterate) <= Sent(Iterate)'
    BY <1>0, <2>1, <2>2, Places DEF Sent
  <2>8. Sent(Spool)' \in {0, 1} /\ Sent(Settle)' \in {0, 1} /\ Sent(Iterate)' \in {0, 1}
    BY DEF Sent
  <2>9. /\ Budget = 2 * (attempt - 1) + Sent(Spool) + Sent(Settle) + ticks + Sent(Iterate)
        /\ Budget' = 2 * (attempt - 1) + Sent(Spool)' + Sent(Settle)' + ticks + Sent(Iterate)'
    BY <2>1 DEF Budget
  <2>10. CASE Kind(at) # "iterate"
    <3>1. Coming(inbox') = 0  BY <2>4, <2>6, <2>10 DEF Coming
    <3>2. Budget <= Budget'  BY SMTT(30), <1>0, <1>c, <2>7, <2>8, <2>9
    <3>3. Budget' \in Int  BY <1>0, <2>8, <2>9
    <3>4. simTime' + owed' + Coming(inbox') <= Budget'
      BY <1>a, <1>b, <2>1, <2>5, <3>1, <3>2, <3>3
    <3> QED  BY <1>0, <1>a, <2>1, <2>4, <2>6, <2>10, <3>4 DEF TimeInv
  <2>11. CASE Kind(at) = "iterate"
    <3>1. at \in {Spool, Settle, Iterate} /\ Replies(at) = 1
      BY <1>0, <2>11, Kinds
    <3>2. \A i \in 1..Len(inbox') : inbox'[i].kind = "iterate" => i = Len(inbox')
      BY <1>0, <2>2, <2>6, <3>1
    <3>3. Coming(inbox') <= 1 /\ Coming(inbox') \in Int  BY DEF Coming
    <3>4. Budget + 1 <= Budget'
      <4>1. Sent(at) = 0 /\ Sent(at)' = 1  BY <1>0, <2>1, <2>2 DEF Sent
      <4>2. CASE at = Spool
        <5>1. Sent(Spool) = 0 /\ Sent(Spool)' = 1  BY <2>1, <2>2, <4>2, Places DEF Sent
        <5> QED  BY SMTT(30), <1>0, <1>c, <2>7, <2>8, <2>9, <5>1
      <4>3. CASE at = Settle
        <5>1. Sent(Settle) = 0 /\ Sent(Settle)' = 1  BY <2>1, <2>2, <4>3, Places DEF Sent
        <5> QED  BY SMTT(30), <1>0, <1>c, <2>7, <2>8, <2>9, <5>1
      <4>4. CASE at = Iterate
        <5>1. Sent(Iterate) = 0 /\ Sent(Iterate)' = 1  BY <2>1, <2>2, <4>4, Places DEF Sent
        <5> QED  BY SMTT(30), <1>0, <1>c, <2>7, <2>8, <2>9, <5>1
      <4> QED  BY <3>1, <4>2, <4>3, <4>4
    <3>5. Budget' \in Int  BY <1>0, <2>8, <2>9
    <3>6. simTime' + owed' + Coming(inbox') <= Budget'
      BY <1>a, <1>b, <2>1, <2>5, <3>3, <3>4, <3>5
    <3> QED  BY <1>0, <1>a, <2>1, <2>4, <3>2, <3>6 DEF TimeInv
  <2> QED  BY <2>10, <2>11
<1>4. CASE SkipWrite
  <2>1. /\ pc = "exchange" /\ awaited = 0 /\ at = Write /\ at' = TimeAtStart
        /\ UNCHANGED <<pc, attempt, awaited, ticks, wire, inbox, simTime, owed>>
    BY <1>4 DEF SkipWrite, startupVars, linkVars, simVars
  <2>2. Budget' = Budget  BY <2>1, Places DEF Budget, Sent
  <2> QED  BY <1>0, <1>a, <2>1, <2>2 DEF TimeInv
<1>5. CASE Accept
  <2>1. /\ pc = "exchange" /\ awaited > 0 /\ wire # <<>>
        /\ wire' = Tail(wire) /\ awaited' = awaited - 1
        /\ UNCHANGED <<pc, attempt, inbox, simTime, owed>>
        /\ \/ (awaited > 1 \/ at = Poll) /\ at' = at /\ ticks' = ticks
           \/ at = Read /\ at' = Write /\ awaited = 1 /\ ticks' = ticks + 1
           \/ at' = at + 1 /\ ticks' = ticks
    BY <1>5, AcceptFacts
  <2>2. /\ Sent(Spool)' \in {0, 1} /\ Sent(Settle)' \in {0, 1} /\ Sent(Iterate)' \in {0, 1}
    BY DEF Sent
  <2>3. /\ Budget = 2 * (attempt - 1) + Sent(Spool) + Sent(Settle) + ticks + Sent(Iterate)
        /\ Budget' = 2 * (attempt - 1) + Sent(Spool)' + Sent(Settle)' + ticks' + Sent(Iterate)'
    BY <2>1 DEF Budget
  <2>4. Budget <= Budget'
    <3>1. CASE (awaited > 1 \/ at = Poll) /\ at' = at /\ ticks' = ticks
      <4>1. /\ Sent(Spool) <= Sent(Spool)' /\ Sent(Settle) <= Sent(Settle)'
            /\ Sent(Iterate) <= Sent(Iterate)'
        BY <1>0, <2>1, <3>1, Places DEF Sent
      <4> QED  BY SMTT(30), <1>0, <1>c, <2>2, <2>3, <3>1, <4>1
    <3>2. CASE at = Read /\ at' = Write /\ awaited = 1 /\ ticks' = ticks + 1
      <4>1. /\ Sent(Spool)' = 1 /\ Sent(Settle)' = 1  BY <3>2, Places DEF Sent
      <4> QED  BY <1>0, <1>c, <2>2, <2>3, <3>2, <4>1
    <3>3. CASE at' = at + 1 /\ ticks' = ticks
      <4>1. /\ Sent(Spool) <= Sent(Spool)' /\ Sent(Settle) <= Sent(Settle)'
            /\ Sent(Iterate) <= Sent(Iterate)'
        BY <1>0, <2>1, <3>3, Places DEF Sent
      <4> QED  BY SMTT(30), <1>0, <1>c, <2>2, <2>3, <3>3, <4>1
    <3> QED  BY <2>1, <3>1, <3>2, <3>3
  <2>5. Budget' \in Int
    <3>1. ticks' \in Nat  BY <1>0, <2>1
    <3> QED  BY <1>0, <2>2, <2>3, <3>1
  <2>6. simTime' + owed' + Coming(inbox') <= Budget'
    BY <1>a, <1>b, <1>c, <2>1, <2>4, <2>5
  <2>7. /\ Tail(wire) \in Seq(Message) /\ Len(Tail(wire)) = Len(wire) - 1
        /\ \A i \in 1..(Len(wire) - 1) : Tail(wire)[i] = wire[i + 1]
    BY <1>0, <2>1, TailOf
  <2>8. \A i \in DOMAIN wire' : wire'[i].kind = "time" => wire'[i].n <= simTime
    <3> SUFFICES ASSUME NEW i \in DOMAIN wire', wire'[i].kind = "time"
                 PROVE  wire'[i].n <= simTime
      OBVIOUS
    <3>1. i \in 1..(Len(wire) - 1) /\ i + 1 \in 1..Len(wire)  BY <1>0, <2>1, <2>7
    <3>2. wire'[i] = wire[i + 1]  BY <2>1, <2>7, <3>1
    <3> QED  BY <1>a, <3>1, <3>2
  <2> QED  BY <1>0, <1>a, <2>1, <2>6, <2>8 DEF TimeInv
<1>6. CASE Failure
  <2>1. /\ pc = "exchange" /\ awaited > 0 /\ awaited' = 0
        /\ UNCHANGED <<attempt, ticks, simTime, owed>>
        /\ inbox' \in Seq(Message) /\ Len(inbox') = Len(inbox) /\ wire' \in Seq(Message)
        /\ \A i \in 1..Len(inbox) : inbox'[i].kind = inbox[i].kind
        /\ \A i \in 1..Len(wire') : \E j \in 1..Len(wire) :
             wire'[i].kind = wire[j].kind /\ wire'[i].n = wire[j].n
    BY <1>6, FailFacts
  <2>2. DOMAIN inbox' = 1..Len(inbox) /\ DOMAIN wire' = 1..Len(wire')  BY <1>0, <2>1
  <2>3. Coming(inbox') = Coming(inbox)  BY <1>0, <2>1, <2>2 DEF Coming
  <2>4. Budget = 2 * (attempt - 1) + Sent(Spool) + Sent(Settle) + ticks + Sent(Iterate)
    BY <2>1 DEF Budget
  <2>5. Budget' \in Int /\ Budget <= Budget'
    <3>1. CASE Tolerates(at)
      <4>1. at' = at + 1 /\ pc' = "exchange"  BY <1>6, <2>1, <3>1, FailFacts
      <4>2. Sent(Spool)' \in {0, 1} /\ Sent(Settle)' \in {0, 1} /\ Sent(Iterate)' \in {0, 1}
        BY DEF Sent
      <4>3. /\ Sent(Spool) <= Sent(Spool)' /\ Sent(Settle) <= Sent(Settle)'
            /\ Sent(Iterate) <= Sent(Iterate)'
        BY <1>0, <4>1, Places DEF Sent
      <4>4. Budget' = 2 * (attempt - 1) + Sent(Spool)' + Sent(Settle)' + ticks + Sent(Iterate)'
        BY <2>1, <4>1 DEF Budget
      <4> QED  BY SMTT(30), <1>0, <1>c, <2>4, <4>2, <4>3, <4>4
    <3>2. CASE ~Tolerates(at) /\ pc' = "dead"
      <4>1. Budget' = MaxTime  BY <3>2 DEF Budget
      <4> QED  BY <1>b, <4>1, Places
    <3>3. CASE ~Tolerates(at) /\ pc' # "dead"
      <4>1. pc' \in {"reconnectWait", "attempt"} /\ at <= InitialRead
        BY <1>6, <3>3, FailFacts
      <4>2. ticks = 0 /\ Sent(Iterate) = 0  BY <1>0, <2>1, <4>1, Places DEF TickInv, Sent
      <4>3. Budget' = 2 * attempt  BY <2>1, <4>1 DEF Budget
      <4> QED  BY <1>0, <1>c, <2>4, <4>2, <4>3
    <3> QED  BY <3>1, <3>2, <3>3
  <2>6. simTime' + owed' + Coming(inbox') <= Budget'
    BY <1>a, <1>b, <1>c, <2>1, <2>3, <2>5
  <2>7. \A i \in 1..Len(wire') : wire'[i].kind = "time" => wire'[i].n <= simTime
    BY <1>a, <2>1
  <2> QED  BY <1>a, <2>1, <2>2, <2>6, <2>7 DEF TimeInv
<1>7. CASE Serve
  <2>1. /\ UNCHANGED <<pc, attempt, at, awaited, ticks, simTime>>
        /\ inbox # <<>> /\ inbox' = Tail(inbox)
        /\ owed' = owed \/ (owed' = owed + 1 /\ inbox[1].kind = "iterate")
    BY <1>7, ServeFacts
  <2>2. PICK r \in Message : wire' = Append(wire, r) /\ (r.kind = "time" => r.n = simTime)
    BY <1>7, ServeFacts
  <2>3. /\ wire' \in Seq(Message) /\ Len(wire') = Len(wire) + 1
        /\ \A i \in 1..Len(wire) : wire'[i] = wire[i]
        /\ wire'[Len(wire) + 1] = r
    BY <1>0, <2>2, AppendOf
  <2>4. /\ inbox' \in Seq(Message) /\ Len(inbox') = Len(inbox) - 1 /\ Len(inbox) >= 1
        /\ \A i \in 1..(Len(inbox) - 1) : inbox'[i] = inbox[i + 1]
    BY <1>0, <2>1, TailOf
  <2>5. \A i \in 1..Len(inbox') :
          i + 1 \in 1..Len(inbox) /\ inbox'[i].kind = inbox[i + 1].kind
    BY <1>0, <2>4
  <2>6. DOMAIN wire' = 1..Len(wire') /\ DOMAIN inbox' = 1..Len(inbox')  BY <2>3, <2>4
  <2>7. Budget' = Budget  BY <2>1 DEF Budget, Sent
  <2>8. owed' + Coming(inbox') <= owed + Coming(inbox)  BY <1>7, ServeOwes
  <2>9. simTime' + owed' + Coming(inbox') <= Budget'
    <3>1. Coming(inbox') \in Int /\ owed' \in Nat  BY <1>a, <2>1 DEF Coming
    <3> QED  BY SMTT(30), <1>a, <1>b, <1>c, <2>1, <2>7, <2>8, <3>1
  <2>10. \A i \in 1..Len(inbox') : inbox'[i].kind = "iterate" => i = Len(inbox')
    <3> SUFFICES ASSUME NEW i \in 1..Len(inbox'), inbox'[i].kind = "iterate"
                 PROVE  i = Len(inbox')
      OBVIOUS
    <3>1. i + 1 = Len(inbox)  BY <1>a, <2>5
    <3>2. i \in Int /\ Len(inbox') = Len(inbox) - 1  BY <2>4
    <3> QED  BY <3>1, <3>2
  <2>11. \A i \in 1..Len(wire') : wire'[i].kind = "time" => wire'[i].n <= simTime
    <3> SUFFICES ASSUME NEW i \in 1..Len(wire'), wire'[i].kind = "time"
                 PROVE  wire'[i].n <= simTime
      OBVIOUS
    <3>1. CASE i \in 1..Len(wire)
      BY <1>a, <2>3, <3>1
    <3>2. CASE i = Len(wire) + 1
      BY <1>a, <2>2, <2>3, <3>2
    <3> QED  BY <1>0, <2>3, <3>1, <3>2
  <2>12. simTime' \in Nat /\ owed' \in Nat  BY <1>a, <2>1
  <2> QED  BY <2>1, <2>6, <2>9, <2>10, <2>11, <2>12 DEF TimeInv
<1>8. CASE Integrate
  <2>1. /\ simTime' = simTime + 1 /\ owed' = owed - 1 /\ owed > 0
        /\ UNCHANGED <<pc, attempt, at, awaited, ticks, wire, inbox>>
    BY <1>8 DEF Integrate, startupVars, programVars, linkVars
  <2>2. Budget' = Budget  BY <2>1 DEF Budget, Sent
  <2>3. /\ simTime' \in Nat /\ owed' \in Nat
        /\ simTime' + owed' = simTime + owed /\ simTime <= simTime'
    BY <1>a, <2>1
  <2>4. simTime' + owed' + Coming(inbox') <= Budget'  BY <1>a, <2>1, <2>2, <2>3
  <2>5. \A i \in 1..Len(wire) : wire[i].kind = "time" => wire[i].n <= simTime'
    <3> SUFFICES ASSUME NEW i \in 1..Len(wire), wire[i].kind = "time"
                 PROVE  wire[i].n <= simTime'
      OBVIOUS
    <3>1. wire[i] \in Message  BY <1>0
    <3>2. wire[i].n \in Int  BY <3>1, Places DEF Message
    <3> QED  BY <1>a, <2>1, <3>2
  <2> QED  BY <1>0, <1>a, <2>1, <2>3, <2>4, <2>5 DEF TimeInv
<1>9. CASE CtrlC \/ WindowCloses \/ UNCHANGED vars
  <2>1. UNCHANGED <<pc, attempt, at, awaited, ticks, wire, inbox, simTime, owed>>
    BY <1>9 DEF CtrlC, WindowCloses, vars, startupVars, programVars, linkVars, simVars
  <2>2. Budget' = Budget  BY <2>1 DEF Budget, Sent
  <2> QED  BY <1>0, <1>a, <2>1, <2>2 DEF TimeInv
<1> QED  BY <1>1, <1>2, <1>3, <1>4, <1>5, <1>6, <1>7, <1>8, <1>9
        DEF Next, Connecting, Exchange, StartupMove, Failure

LEMMA LagStep ==
  TypeOK /\ StreamInv /\ TimeInv /\ LagInv /\ [Next]_vars => LagInv'
<1> SUFFICES ASSUME TypeOK, StreamInv, TimeInv, LagInv, [Next]_vars, pc' = "exchange"
             PROVE  /\ at' = TimeAtStart /\ awaited' > 0 =>
                         /\ owed' <= lag'
                         /\ \A i \in DOMAIN wire' :
                              wire'[i].kind = "time" => simTime' + owed' <= wire'[i].n + lag'
                    /\ at' \in {Iterate, Poll, Read} =>
                         simTime' + owed' + Coming(inbox') <= base' + lag' + Sent(Iterate)'
  BY DEF LagInv
<1>0. /\ wire \in Seq(Message) /\ inbox \in Seq(Message) /\ at \in 1..Read
      /\ Len(wire) \in Nat /\ Len(inbox) \in Nat /\ awaited \in Nat
      /\ DOMAIN wire = 1..Len(wire) /\ DOMAIN inbox = 1..Len(inbox)
      /\ at \in Nat /\ base \in Nat /\ lag \in Nat /\ simTime \in Nat /\ owed \in Nat
      /\ Coming(inbox) \in {0, 1} /\ Sent(Iterate) \in {0, 1}
  BY Places, SentBits DEF TypeOK, TimeInv
<1>a. ASSUME pc = "exchange"
      PROVE  /\ at = TimeAtStart /\ awaited > 0 =>
                  /\ owed <= lag
                  /\ \A i \in 1..Len(wire) :
                       wire[i].kind = "time" => simTime + owed <= wire[i].n + lag
             /\ at \in {Iterate, Poll, Read} =>
                  simTime + owed + Coming(inbox) <= base + lag + Sent(Iterate)
  BY <1>0, <1>a DEF LagInv
<1>1. CASE StartupMove
  <2>1. pc' # "exchange"  BY <1>1, StartupMoves
  <2> QED  BY <2>1
<1>2. CASE Connected
  <2>1. at' = 1  BY <1>2 DEF Connected
  <2>2. 1 \notin {TimeAtStart, Iterate, Poll, Read}  BY Places
  <2> QED  BY <2>1, <2>2
<1>3. CASE Send
  <2>1. /\ pc = "exchange" /\ awaited = 0 /\ awaited' = Replies(at)
        /\ UNCHANGED <<at, base, wire, simTime, owed>>
        /\ lag' = IF at = TimeAtStart THEN owed ELSE lag
    BY <1>3 DEF Send, simVars
  <2>2. CASE at = TimeAtStart
    <3>1. lag' = owed /\ at' = TimeAtStart /\ at' \notin {Iterate, Poll, Read}
      BY <2>1, <2>2, Places
    <3>2. \A i \in 1..Len(wire) : wire[i].kind # "time"
      <4> SUFFICES ASSUME NEW i \in 1..Len(wire) PROVE wire[i].kind # "time"
        OBVIOUS
      <4>1. Fits(wire[i], i <= Len(wire) + Len(inbox) - awaited, at)
        BY <1>0, <2>1 DEF StreamInv, InOrder
      <4>2. i <= Len(wire) + Len(inbox) - awaited  BY <1>0, <2>1
      <4>3. wire[i].kind \in LeftBehind(at)  BY <4>1, <4>2 DEF Fits
      <4>4. Kind(at) = "time" /\ ~(at <= StartSets)  BY <1>0, <2>2, Kinds, Places
      <4>5. "time" \notin LeftBehind(at)  BY <1>0, <4>4, LeftOvers
      <4> QED  BY <4>3, <4>5
    <3> QED  BY <1>0, <2>1, <3>1, <3>2
  <2>3. CASE at \in {Iterate, Poll, Read}
    <3>1. at' = at /\ at' # TimeAtStart /\ lag' = lag  BY <2>1, <2>3, Places
    <3>2. Coming(inbox) = 0
      BY <2>1, NoneComing DEF Coming
    <3>3. Replies(at) \in Nat \ {0}  BY <1>0, Kinds, Places
    <3>4. Sent(Iterate)' = 1  BY <1>0, <2>1, <2>3, <3>1, <3>3, Places DEF Sent
    <3>5. Coming(inbox') \in {0, 1}  BY DEF Coming
    <3>6. CASE at = Iterate
      <4>1. Sent(Iterate) = 0  BY <1>0, <2>1, <3>6, Places DEF Sent
      <4> QED  BY <1>0, <1>a, <2>1, <2>3, <3>1, <3>2, <3>4, <3>5, <4>1
    <3>7. CASE at # Iterate
      <4>1. Kind(at) # "iterate"
        BY <1>0, <2>3, <3>7, Kinds, Places
      <4>2. Coming(inbox') = 0
        <5>1. \A i \in DOMAIN inbox' : inbox'[i].kind # "iterate"
          <6>1. /\ DOMAIN inbox' = 1..Len(inbox')
                /\ \A i \in 1..Len(inbox) : inbox'[i] = inbox[i]
                /\ \A i \in 1..Len(inbox') : i \notin 1..Len(inbox) => inbox'[i].kind = Kind(at)
            BY <1>3, SendFacts
          <6>2. \A i \in 1..Len(inbox) : inbox[i].kind # "iterate"
            BY <1>0, <2>1, NoneComing
          <6> QED  BY <4>1, <6>1, <6>2
        <5> QED  BY <5>1 DEF Coming
      <4> QED  BY <1>0, <1>a, <2>1, <2>3, <3>1, <3>2, <3>4, <4>2
    <3> QED  BY <3>6, <3>7
  <2>4. CASE at \notin {TimeAtStart, Iterate, Poll, Read}
    BY <2>1, <2>4
  <2> QED  BY <2>2, <2>3, <2>4
<1>4. CASE SkipWrite
  <2>1. at' = TimeAtStart /\ awaited' = 0  BY <1>4 DEF SkipWrite
  <2>2. TimeAtStart \notin {Iterate, Poll, Read}  BY Places
  <2> QED  BY <2>1, <2>2
<1>5. CASE Accept
  <2>1. /\ pc = "exchange" /\ awaited > 0 /\ wire # <<>> /\ Matches(Head(wire))
        /\ wire' = Tail(wire) /\ awaited' = awaited - 1
        /\ UNCHANGED <<lag, inbox, simTime, owed>>
        /\ base' = IF at = TimeAtStart THEN Head(wire).n ELSE base
        /\ \/ (awaited > 1 \/ at = Poll) /\ at' = at
           \/ at = Read /\ at' = Write
           \/ awaited = 1 /\ at # Read /\ at' = at + 1
    BY <1>5, AcceptFacts
  <2>2. CASE at = TimeAtStart
    <3>1. Head(wire) = wire[1] /\ Head(wire) \in Message /\ 1 \in 1..Len(wire)
      BY <1>0, <2>1, TailOf
    <3>2. Kind(at) = "time" /\ at > StartSets /\ Replies(at) = 1
      BY <1>0, <2>2, Kinds, Places
    <3>3. wire[1].kind = "time"  BY <2>1, <3>1, <3>2 DEF Matches
    <3>4. simTime + owed <= base' + lag
      BY <1>a, <2>1, <2>2, <3>1, <3>3
    <3>5. base' \in Nat  BY <2>1, <2>2, <3>1, Places DEF Message
    <3>6. CASE at' = at
      <4>1. \A i \in 1..(Len(wire) - 1) : wire'[i] = wire[i + 1]
        BY <1>0, <2>1, TailOf
      <4>2. DOMAIN wire' = 1..(Len(wire) - 1)  BY <1>0, <2>1, TailOf
      <4>3. \A i \in DOMAIN wire' : wire'[i].kind = "time" => simTime + owed <= wire'[i].n + lag
        <5> SUFFICES ASSUME NEW i \in 1..(Len(wire) - 1), wire'[i].kind = "time"
                     PROVE  simTime + owed <= wire'[i].n + lag
          BY <4>2
        <5>1. i + 1 \in 1..Len(wire) /\ wire'[i] = wire[i + 1]  BY <1>0, <4>1
        <5> QED  BY <1>a, <2>1, <2>2, <5>1
      <4>4. at' \notin {Iterate, Poll, Read}  BY <2>2, <3>6, Places
      <4> QED  BY <1>a, <2>1, <2>2, <4>3, <4>4
    <3>7. CASE at' # at
      <4>1. at' = Iterate /\ awaited = 1  BY <2>1, <2>2, <3>7, Places
      <4>2. Len(wire) + Len(inbox) = awaited  BY <2>1, <3>2, Matched
      <4>3. DOMAIN inbox = {}  BY <1>0, <3>1, <4>1, <4>2
      <4>4. Coming(inbox') = 0  BY <2>1, <4>3 DEF Coming
      <4>5. Sent(Iterate)' \in {0, 1} /\ at' # TimeAtStart  BY <4>1, Places DEF Sent
      <4> QED  BY <1>0, <2>1, <3>4, <3>5, <4>4, <4>5
    <3> QED  BY <3>6, <3>7
  <2>3. CASE at \in {Iterate, Poll, Read}
    <3>1. at' # TimeAtStart /\ base' = base  BY <2>1, <2>3, Places
    <3>2. Sent(Iterate) = 1  BY <1>0, <2>1, <2>3, Places DEF Sent
    <3>3. at' \in {Iterate, Poll, Read} => Sent(Iterate)' = 1
      <4>1. CASE at' = Iterate
        <5>1. awaited' > 0  BY <1>0, <2>1, <2>3, <4>1, Places
        <5> QED  BY <4>1, <5>1 DEF Sent
      <4>2. CASE at' \in {Poll, Read}
        BY <4>2, Places DEF Sent
      <4> QED  BY <4>1, <4>2
    <3> QED  BY <1>0, <1>a, <2>1, <2>3, <3>1, <3>2, <3>3
  <2>4. CASE at \notin {TimeAtStart, Iterate, Poll, Read}
    <3>1. at' \notin {Iterate, Poll, Read}  BY <1>0, <2>1, <2>4, Places
    <3>2. at' = TimeAtStart => ~(awaited' > 0)  BY <1>0, <2>1, <2>4, Places
    <3> QED  BY <3>1, <3>2
  <2> QED  BY <2>2, <2>3, <2>4
<1>6. CASE Failure
  <2>1. awaited' = 0 /\ (~Tolerates(at) => pc' # "exchange") /\ (Tolerates(at) => at' = at + 1)
    BY <1>6, FailFacts
  <2>2. at < Write /\ at' = at + 1  BY <1>0, <2>1, LeftOvers
  <2>3. at' \notin {Iterate, Poll, Read}  BY <1>0, <2>2, Places
  <2> QED  BY <2>1, <2>3
<1>7. CASE Serve
  <2>1. /\ UNCHANGED <<pc, at, awaited, base, lag, simTime>>
        /\ inbox # <<>>
        /\ owed' = owed \/ (owed' = owed + 1 /\ inbox[1].kind = "iterate")
    BY <1>7, ServeFacts
  <2>2. owed' \in Nat /\ owed' + Coming(inbox') <= owed + Coming(inbox)  BY <1>7, ServeOwes
  <2>3. Sent(Iterate)' = Sent(Iterate)  BY <2>1 DEF Sent
  <2>4. at' \in {Iterate, Poll, Read} =>
          simTime' + owed' + Coming(inbox') <= base' + lag' + Sent(Iterate)'
    <3>1. Coming(inbox') \in {0, 1}  BY DEF Coming
    <3>2. SUFFICES ASSUME at \in {Iterate, Poll, Read}
                   PROVE  simTime + owed' + Coming(inbox') <= base + lag + Sent(Iterate)
      BY <2>1, <2>3
    <3>3. simTime + owed + Coming(inbox) <= base + lag + Sent(Iterate)
      BY <1>a, <2>1, <3>2
    <3>4. /\ owed' + Coming(inbox') \in Int /\ owed + Coming(inbox) \in Int
          /\ simTime \in Int /\ base + lag + Sent(Iterate) \in Int
      BY <1>0, <2>2, <3>1
    <3>5. simTime + (owed + Coming(inbox)) <= base + lag + Sent(Iterate)
      BY <1>0, <3>3
    <3>6. simTime + (owed' + Coming(inbox')) <= base + lag + Sent(Iterate)
      BY <2>2, <3>4, <3>5
    <3> QED  BY <1>0, <2>2, <3>1, <3>6
  <2>5. ASSUME at = TimeAtStart, awaited > 0
        PROVE  /\ owed' <= lag'
               /\ \A i \in DOMAIN wire' :
                    wire'[i].kind = "time" => simTime' + owed' <= wire'[i].n + lag'
    <3>1. inbox[1].kind # "iterate"
      <4>1. 1 \in 1..Len(inbox)  BY <1>0, <2>1
      <4>2. Fits(inbox[1], Len(wire) + 1 <= Len(wire) + Len(inbox) - awaited, at)
        BY <1>0, <2>1, <4>1 DEF StreamInv, InOrder
      <4>3. inbox[1].kind \in LeftBehind(at) \/ inbox[1].kind \in {Kind(at), "error"}
        BY <4>2 DEF Fits
      <4>4. Kind(at) = "time"  BY <1>0, <2>5, Kinds
      <4> QED  BY <1>0, <4>3, <4>4, LeftOvers
    <3>2. owed' = owed  BY <2>1, <3>1
    <3>3. PICK m \in Message : wire' = Append(wire, m) /\ (m.kind = "time" => m.n = simTime)
      BY <1>7, ServeFacts
    <3>4. /\ DOMAIN wire' = 1..(Len(wire) + 1)
          /\ \A i \in 1..Len(wire) : wire'[i] = wire[i]
          /\ wire'[Len(wire) + 1] = m
      BY <1>0, <3>3, AppendOf
    <3>5. ASSUME NEW i \in DOMAIN wire', wire'[i].kind = "time"
          PROVE  simTime' + owed' <= wire'[i].n + lag'
      <4>1. CASE i \in 1..Len(wire)
        BY <1>a, <2>1, <2>5, <3>2, <3>4, <3>5, <4>1
      <4>2. CASE i = Len(wire) + 1
        <5>1. wire'[i].n = simTime  BY <3>3, <3>4, <3>5, <4>2
        <5> QED  BY <1>0, <1>a, <2>1, <2>5, <3>2, <5>1
      <4> QED  BY <1>0, <3>4, <4>1, <4>2
    <3> QED  BY <1>a, <2>1, <2>5, <3>2, <3>5
  <2> QED  BY <2>1, <2>4, <2>5
<1>8. CASE Integrate
  <2>1. /\ simTime' = simTime + 1 /\ owed' = owed - 1 /\ owed > 0
        /\ UNCHANGED <<pc, at, awaited, base, lag, wire, inbox>>
    BY <1>8 DEF Integrate, programVars, linkVars
  <2>2. Sent(Iterate)' = Sent(Iterate)  BY <2>1 DEF Sent
  <2>3. simTime' + owed' = simTime + owed /\ owed' <= owed  BY <1>0, <2>1
  <2>4. at = TimeAtStart /\ awaited > 0 => owed' <= lag  BY <1>0, <1>a, <2>1
  <2> QED  BY <1>0, <1>a, <2>1, <2>2, <2>3, <2>4
<1>9. CASE CtrlC \/ WindowCloses \/ UNCHANGED vars
  <2>1. UNCHANGED <<pc, at, awaited, base, lag, wire, inbox, simTime, owed>>
    BY <1>9 DEF CtrlC, WindowCloses, vars, programVars, linkVars, simVars
  <2>2. Sent(Iterate)' = Sent(Iterate)  BY <2>1 DEF Sent
  <2> QED  BY <1>0, <1>a, <2>1, <2>2
<1> QED  BY <1>1, <1>2, <1>3, <1>4, <1>5, <1>6, <1>7, <1>8, <1>9
        DEF Next, Connecting, Exchange, StartupMove, Failure

LEMMA Within ==
  ASSUME NEW t \in Nat, NEW o \in Nat, NEW c \in {0, 1}, NEW b \in Int, NEW m \in Int,
         t + o + c <= b, b <= m
  PROVE  t + o \in 0..m
  OBVIOUS

LEMMA TypeStep ==
  TypeOK /\ StreamInv /\ TickInv /\ TimeInv /\ [Next]_vars => TypeOK'
<1> SUFFICES ASSUME TypeOK, StreamInv, TickInv, TimeInv, [Next]_vars PROVE TypeOK'
  OBVIOUS
<1>a. TickInv' /\ TimeInv'  BY TickStep, TimeStep
<1> DEFINE Rest ==
      /\ running \in BOOLEAN /\ windowOpen \in BOOLEAN
      /\ pc \in {"attempt", "connect", "connecting", "connectWait", "exchange",
                 "reconnectWait", "failed", "dead"}
      /\ attempt \in 0..MaxAttempts
      /\ at \in 1..Read /\ awaited \in 0..BatchSize /\ ticks \in 0..MaxTicks
      /\ base \in 0..MaxTime /\ lag \in 0..MaxTime
      /\ inbox \in Seq(Message) /\ wire \in Seq(Message)
      /\ fatal \in {"none", "lost", "own", "stale"}
<1>0. Rest /\ at \in Nat /\ awaited \in Nat  BY Places DEF TypeOK
<1>b. Rest'
  <2>1. CASE StartupMove
    BY <1>0, <2>1, StartupMoves
  <2>2. CASE Connected
    <3>1. /\ pc' = "exchange" /\ at' = 1 /\ awaited' = 0 /\ inbox' = <<>> /\ wire' = <<>>
          /\ UNCHANGED <<running, attempt, windowOpen, base, ticks, lag, fatal>>
      BY <2>2 DEF Connected, startupVars
    <3>2. 1 \in 1..Read /\ 0 \in 0..BatchSize /\ <<>> \in Seq(Message)  BY Places
    <3> QED  BY <1>0, <3>1, <3>2
  <2>3. CASE Send
    <3>1. /\ awaited' = Replies(at) /\ inbox' \in Seq(Message) /\ Replies(at) \in 1..BatchSize
          /\ UNCHANGED <<running, pc, attempt, windowOpen, at, base, ticks, wire, fatal>>
          /\ lag' = IF at = TimeAtStart THEN owed ELSE lag
      BY <2>3, SendFacts DEF Send, startupVars
    <3>2. Replies(at) \in 0..BatchSize  BY <3>1, Places
    <3>3. owed \in 0..MaxTime
      <4>1. simTime \in Nat /\ owed \in Nat /\ simTime + owed \in 0..MaxTime
        BY DEF TypeOK, TimeInv
      <4> QED  BY <4>1, Places
    <3>4. lag' \in 0..MaxTime  BY <1>0, <3>1, <3>3
    <3> QED  BY <1>0, <3>1, <3>2, <3>4
  <2>4. CASE SkipWrite
    <3>1. /\ at' = TimeAtStart
          /\ UNCHANGED <<running, pc, attempt, windowOpen, awaited, base, ticks, lag, inbox, wire,
                         fatal>>
      BY <2>4 DEF SkipWrite, startupVars, linkVars
    <3>2. TimeAtStart \in 1..Read  BY Places
    <3> QED  BY <1>0, <3>1, <3>2
  <2>5. CASE Accept
    <3>1. /\ pc = "exchange" /\ awaited > 0 /\ wire # <<>> /\ Matches(Head(wire))
          /\ wire' = Tail(wire) /\ awaited' = awaited - 1
          /\ UNCHANGED <<running, pc, attempt, windowOpen, lag, inbox, fatal>>
          /\ base' = IF at = TimeAtStart THEN Head(wire).n ELSE base
          /\ \/ at' = at /\ ticks' = ticks
             \/ awaited = 1 /\ at = Read /\ at' = Write /\ ticks' = ticks + 1
             \/ at # Read /\ at' = at + 1 /\ ticks' = ticks
      BY <2>5, AcceptFacts
    <3>2. awaited' \in 0..BatchSize  BY <1>0, <3>1, Places
    <3>3. at' \in 1..Read  BY <1>0, <3>1, Places
    <3>4. ticks' \in 0..MaxTicks
      <4>1. at = Read => ticks < MaxTicks  BY <3>1, Places DEF TickInv
      <4> QED  BY <1>0, <3>1, <4>1, Places
    <3>5. wire' \in Seq(Message)  BY <1>0, <3>1, TailOf
    <3>6. base' \in 0..MaxTime
      <4>1. CASE at = TimeAtStart
        <5>1. Head(wire) = wire[1] /\ Head(wire) \in Message /\ 1 \in DOMAIN wire
          BY <1>0, <3>1, TailOf
        <5>2. Kind(at) = "time"  BY <1>0, <4>1, Kinds
        <5>3. Head(wire).n <= simTime  BY <3>1, <5>1, <5>2 DEF Matches, TimeInv
        <5>4. Head(wire).n \in Nat  BY <5>1, Places DEF Message
        <5>5. simTime \in Nat /\ simTime <= MaxTime
          <6>1. simTime \in Nat /\ owed \in Nat /\ simTime + owed \in 0..MaxTime
            BY DEF TypeOK, TimeInv
          <6> QED  BY <6>1, Places
        <5> QED  BY <3>1, <4>1, <5>3, <5>4, <5>5, Places
      <4>2. CASE at # TimeAtStart
        BY <1>0, <3>1, <4>2
      <4> QED  BY <4>1, <4>2
    <3> QED  BY <1>0, <3>1, <3>2, <3>3, <3>4, <3>5, <3>6
  <2>6. CASE Failure
    <3>1. /\ pc = "exchange" /\ awaited' = 0 /\ inbox' \in Seq(Message) /\ wire' \in Seq(Message)
          /\ UNCHANGED <<running, attempt, windowOpen, base, ticks, lag>>
      BY <2>6, FailFacts
    <3>2. /\ at' \in 1..Read
          /\ pc' \in {"exchange", "dead", "reconnectWait", "attempt"}
          /\ fatal' \in {"none", "lost", "own", "stale"}
      <4>1. CASE Tolerates(at)
        <5>1. at' = at + 1 /\ pc' = pc /\ fatal' = fatal  BY <2>6, <4>1, FailFacts
        <5>2. at + 1 \in 1..Read  BY <1>0, <4>1, LeftOvers
        <5> QED  BY <1>0, <3>1, <5>1, <5>2
      <4>2. CASE ~Tolerates(at)
        BY <1>0, <2>6, <4>2, FailFacts
      <4> QED  BY <4>1, <4>2
    <3>3. 0 \in 0..BatchSize  BY Places
    <3> QED  BY <1>0, <3>1, <3>2, <3>3
  <2>7. CASE Serve
    <3>1. /\ UNCHANGED <<running, pc, attempt, windowOpen, at, awaited, base, ticks, lag, fatal>>
          /\ inbox # <<>> /\ inbox' = Tail(inbox)
          /\ \E r \in Message : wire' = Append(wire, r)
      BY <2>7, ServeFacts
    <3>2. inbox' \in Seq(Message)  BY <1>0, <3>1, TailOf
    <3>3. wire' \in Seq(Message)  BY <1>0, <3>1, AppendOf
    <3> QED  BY <1>0, <3>1, <3>2, <3>3
  <2>8. CASE CtrlC \/ WindowCloses \/ Integrate \/ UNCHANGED vars
    <3>1. /\ UNCHANGED <<pc, attempt, at, awaited, base, ticks, lag, inbox, wire, fatal>>
          /\ running' \in BOOLEAN /\ windowOpen' \in BOOLEAN
      BY <1>0, <2>8 DEF CtrlC, WindowCloses, Integrate, vars, startupVars, programVars, linkVars
    <3> QED  BY <1>0, <3>1
  <2> QED  BY <2>1, <2>2, <2>3, <2>4, <2>5, <2>6, <2>7, <2>8
          DEF Next, Connecting, Exchange, StartupMove, Failure
<1>c. (simTime + owed \in 0..MaxTime)'
  <2>1. /\ attempt' \in Nat /\ attempt' <= MaxAttempts /\ ticks' \in Nat /\ ticks' <= MaxTicks
        /\ at' \in Nat /\ awaited' \in Nat
    BY <1>b, Places
  <2>2. Sent(Spool)' \in {0, 1} /\ Sent(Settle)' \in {0, 1} /\ Sent(Iterate)' \in {0, 1}
    BY DEF Sent
  <2>3. Budget' \in Int /\ Budget' <= MaxTime
    <3>1. CASE pc' = "exchange"
      <4>1. ticks' + Sent(Iterate)' <= MaxTicks
        <5>1. at' > Write \/ (at' = Write /\ awaited' > 0) => ticks' < MaxTicks
          BY <1>a, <3>1 DEF TickInv
        <5>2. CASE at' > Iterate \/ (at' = Iterate /\ awaited' > 0)
          <6>1. ticks' < MaxTicks  BY <2>1, <5>1, <5>2, Places
          <6> QED  BY <2>1, <2>2, <6>1, Places
        <5>3. CASE ~(at' > Iterate \/ (at' = Iterate /\ awaited' > 0))
          <6>1. Sent(Iterate)' = 0  BY <5>3, Places DEF Sent
          <6> QED  BY <2>1, <6>1
        <5> QED  BY <5>2, <5>3
      <4>2. Budget' = 2 * (attempt' - 1) + Sent(Spool)' + Sent(Settle)' + ticks' + Sent(Iterate)'
        BY <3>1 DEF Budget
      <4> QED  BY <2>1, <2>2, <4>1, <4>2, Places
    <3>2. CASE pc' # "exchange"
      <4>1. \/ Budget' = MaxTime \/ Budget' = 2 * attempt' \/ Budget' = 2 * (attempt' - 1)
        BY <3>2 DEF Budget
      <4> QED  BY <2>1, <4>1, Places
    <3> QED  BY <3>1, <3>2
  <2>4. /\ simTime' \in Nat /\ owed' \in Nat
        /\ simTime' + owed' + Coming(inbox') <= Budget'
    BY <1>a DEF TimeInv
  <2>5. Coming(inbox') \in {0, 1}  BY DEF Coming
  <2>6. MaxTime \in Int  BY Places
  <2> QED  BY <2>3, <2>4, <2>5, <2>6, Within
<1> QED  BY <1>b, <1>c DEF TypeOK

LEMMA CaughtUpStep ==
  TypeOK /\ TickInv /\ TimeInv /\ CaughtUp /\ [Next]_vars => CaughtUp'
<1> SUFFICES ASSUME TypeOK, TickInv, TimeInv, CaughtUp, [Next]_vars,
                    pc' = "exchange", at' = Read
             PROVE  simTime' >= base' + 1
  BY DEF CaughtUp
<1>0. /\ at \in 1..Read /\ at \in Nat /\ base \in Nat /\ simTime \in Nat /\ owed \in Nat
      /\ awaited \in Nat /\ wire \in Seq(Message)
  BY Places DEF TypeOK, TimeInv
<1>1. CASE StartupMove
  <2>1. pc' # "exchange"  BY <1>1, StartupMoves
  <2> QED  BY <2>1
<1>2. CASE Connected
  <2>1. at' = 1  BY <1>2 DEF Connected
  <2>2. 1 # Read  BY Places
  <2> QED  BY <2>1, <2>2
<1>3. CASE Send
  <2>1. pc = "exchange" /\ at = Read /\ base' = base /\ simTime' = simTime
    BY <1>3 DEF Send, simVars
  <2> QED  BY <2>1 DEF CaughtUp
<1>4. CASE SkipWrite
  <2>1. at' = TimeAtStart  BY <1>4 DEF SkipWrite
  <2>2. TimeAtStart # Read  BY Places
  <2> QED  BY <2>1, <2>2
<1>5. CASE Accept
  <2>1. /\ pc = "exchange" /\ awaited > 0 /\ wire # <<>> /\ Matches(Head(wire))
        /\ UNCHANGED <<simTime>>
        /\ base' = IF at = TimeAtStart THEN Head(wire).n ELSE base
        /\ \/ at' = at
           \/ at = Read /\ at' = Write
           \/ at' = at + 1 /\ (at = Poll => Enough(Head(wire)))
    BY <1>5, AcceptFacts
  <2>2. CASE at = Read
    BY <2>1, <2>2, Places DEF CaughtUp
  <2>3. CASE at # Read
    <3>1. at = Poll /\ Enough(Head(wire)) /\ base' = base  BY <1>0, <2>1, <2>3, Places
    <3>2. Head(wire) = wire[1] /\ Head(wire) \in Message /\ 1 \in DOMAIN wire
      BY <1>0, <2>1, TailOf
    <3>3. Kind(at) = "time"  BY <1>0, <3>1, Kinds
    <3>4. Head(wire).n <= simTime  BY <2>1, <3>2, <3>3 DEF Matches, TimeInv
    <3>5. Head(wire).n \in Nat  BY <3>2, Places DEF Message
    <3> QED  BY <1>0, <2>1, <3>1, <3>4, <3>5 DEF Enough
  <2> QED  BY <2>2, <2>3
<1>6. CASE Failure
  <2>1. Tolerates(at) /\ at' = at + 1  BY <1>6, FailFacts
  <2>2. at < Write  BY <1>0, <2>1, LeftOvers
  <2>3. at + 1 # Read
    <3>1. at \in Nat /\ at < Write /\ Write \in Nat /\ Read = Write + 4  BY <1>0, <2>2, Places
    <3> QED  BY <3>1
  <2> QED  BY <2>1, <2>3
<1>7. CASE Serve
  BY <1>7 DEF Serve, CaughtUp, programVars
<1>8. CASE Integrate
  <2>1. simTime' = simTime + 1 /\ UNCHANGED <<pc, at, base>>
    BY <1>8 DEF Integrate, programVars
  <2> QED  BY <1>0, <2>1 DEF CaughtUp
<1>9. CASE CtrlC \/ WindowCloses \/ UNCHANGED vars
  BY <1>9 DEF CtrlC, WindowCloses, vars, programVars, simVars, CaughtUp
<1> QED  BY <1>1, <1>2, <1>3, <1>4, <1>5, <1>6, <1>7, <1>8, <1>9
        DEF Next, Connecting, Exchange, StartupMove, Failure

LEMMA InitInv == Init => Inv
<1> SUFFICES ASSUME Init PROVE Inv
  OBVIOUS
<1>1. TypeOK
  <2>1. /\ 0 \in 0..MaxAttempts /\ 1 \in 1..Read /\ 0 \in 0..BatchSize /\ 0 \in 0..MaxTicks
        /\ 0 \in 0..MaxTime /\ 0 + 0 \in 0..MaxTime /\ <<>> \in Seq(Message)
    BY Places
  <2> QED  BY <2>1 DEF Init, TypeOK
<1>2. StreamInv  BY DEF Init, StreamInv
<1>3. TickInv  BY DEF Init, TickInv
<1>4. TimeInv
  <2>1. inbox = <<>> /\ wire = <<>> /\ simTime = 0 /\ owed = 0  BY DEF Init
  <2>2. Coming(inbox) = 0  BY <2>1 DEF Coming
  <2>3. Budget = 0  BY DEF Init, Budget
  <2> QED  BY <2>1, <2>2, <2>3 DEF TimeInv
<1>5. LagInv /\ CaughtUp
  <2>1. at = 1 /\ awaited = 0  BY DEF Init
  <2>2. 1 \notin {TimeAtStart, Iterate, Poll, Read}  BY Places
  <2> QED  BY <2>1, <2>2 DEF LagInv, CaughtUp
<1> QED  BY <1>1, <1>2, <1>3, <1>4, <1>5 DEF Inv

-------------------------------------------------------------------------------
(* The invariant holds in every state.                                        *)
THEOREM Invariance == Spec => []Inv
<1>1. Inv /\ [Next]_vars => Inv'
  BY TypeStep, StreamStep, TickStep, TimeStep, LagStep, CaughtUpStep DEF Inv
<1> QED  BY <1>1, InitInv, PTL DEF Spec

(* Two iterates per attempt and one per tick are all the simulated time there *)
(* is: the times the client compares stay within that (fdm.rs).               *)
THEOREM TypeCorrect == Spec => []TypeOK
<1>1. Inv => TypeOK  BY DEF Inv
<1> QED  BY <1>1, Invariance, PTL

(* When read_state runs, JSBSim owes no more iterations than when the step    *)
(* began (step in fdm.rs, whose poll waits for the step's own): everything    *)
(* acknowledged by then is in the time that the poll saw, but for those.      *)
THEOREM StepCompletesHolds == Spec => []StepCompletes
<1>1. Inv => StepCompletes
  <2> SUFFICES ASSUME Inv, pc = "exchange", at = Read PROVE owed <= lag
    BY DEF StepCompletes
  <2>1. simTime + owed + Coming(inbox) <= base + lag + Sent(Iterate)
    BY DEF Inv, LagInv
  <2>2. simTime >= base + 1  BY DEF Inv, CaughtUp
  <2>3. /\ simTime \in Nat /\ owed \in Nat /\ base \in Nat /\ lag \in Nat
        /\ Coming(inbox) \in {0, 1} /\ Sent(Iterate) \in {0, 1}
    BY Places, SentBits DEF Inv, TypeOK, TimeInv
  <2> QED  BY <2>1, <2>2, <2>3
<1> QED  BY <1>1, Invariance, PTL

(* A command whose failure counts succeeds on its own reply only, although    *)
(* the replies to commands given up on may still be arriving (set, iterate    *)
(* and parse_get_response in fdm.rs).                                         *)
THEOREM RepliesAreOwnHolds == Spec => RepliesAreOwn
<1>1. Inv /\ Accept /\ ~Tolerates(at) => Head(wire).own
  <2> SUFFICES ASSUME Inv, Accept, ~Tolerates(at) PROVE Head(wire).own
    OBVIOUS
  <2>1. TypeOK /\ StreamInv  BY DEF Inv
  <2>2. pc = "exchange" /\ awaited > 0 /\ wire # <<>> /\ Matches(Head(wire))
    BY <2>1, AcceptFacts
  <2>3. at > StartSets  BY <2>1, Places DEF Tolerates, TypeOK
  <2> QED  BY <2>1, <2>2, <2>3, Matched
<1> QED  BY <1>1, Invariance, PTL DEF Spec, RepliesAreOwn
================================================================================
