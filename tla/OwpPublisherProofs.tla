-------------------------- MODULE OwpPublisherProofs --------------------------
(***************************************************************************)
(* What the OWP publisher promises of the order, the schedule and the      *)
(* backoff of its reports, for any number of platforms, any queue, periods *)
(* and delays, and runs of any length.                                     *)
(***************************************************************************)
EXTENDS OwpPublisher, TLAPS

(* An update of time x that platform p has handed over when it is k's turn in *)
(* tick n, and one that is taken: nothing of p that is in queue q is as old.  *)
Handed(p, x, n, k) == x < n \/ (x = n /\ p < k)
Taken(p, x, q, n, k) ==
  /\ Handed(p, x, n, k)
  /\ \A i \in 1..Len(q) : q[i].platform = p => x < q[i].time
StillToPublish(p, topic) ==
  pc = "publish" /\ p = current.platform /\ \E i \in 1..Len(batch) : batch[i] = topic
Distinct(s) == \A i, j \in 1..Len(s) : i # j => s[i] # s[j]

(* Updates leave in the order they were handed over; what was reported or     *)
(* scheduled is of updates taken, and a batch of one that is not reported yet. *)
OrderInv ==
  /\ turn <= NumPlatforms => tick > 0
  /\ \A i \in 1..Len(queue) :
       queue[i].time > 0 /\ Handed(queue[i].platform, queue[i].time, tick, turn)
  /\ \A i, j \in 1..Len(queue) :
       i < j /\ queue[i].platform = queue[j].platform => queue[i].time < queue[j].time
  /\ \A p \in Platform : Taken(p, schedules[p].last, queue, tick, turn)
  /\ \A p \in Platform, t \in Topic : Taken(p, sent[p][t], queue, tick, turn)
  /\ pc = "publish" =>
       /\ Taken(current.platform, current.time, queue, tick, turn)
       /\ Distinct(batch)
       /\ \A i \in 1..Len(batch) : sent[current.platform][batch[i]] < current.time

(* A schedule is empty, or its deadlines are the next ones after its last     *)
(* update.                                                                    *)
ScheduleOK(s) ==
  \/ s = FreshSchedule
  \/ /\ s.last # None
     /\ s.last < s.position /\ s.position <= s.last + PositionPeriod
     /\ s.last < s.periodic /\ s.periodic <= s.last + PeriodicPeriod

ScheduleInv == \A p \in Platform : ScheduleOK(schedules[p])

(* A period whose update was taken is reported, or its report is in the batch. *)
Reported(p, topic, since) ==
  \/ sent[p][topic] >= since
  \/ StillToPublish(p, topic) /\ current.time >= since

ReportInv ==
  ~limited /\ pc \in {"drain", "select", "publish"} =>
    \A p \in Platform :
      schedules[p].last # None =>
        /\ Reported(p, "position", schedules[p].position - PositionPeriod)
        /\ p = Ownship =>
             \A t \in {"status", "navigation"} :
               Reported(p, t, schedules[p].periodic - PeriodicPeriod)

(* The delay follows the count of waits wherever the manager is.              *)
BackoffInv == delay = Capped((waits + 1) * InitialDelay, MaxDelay)

Inv == TypeOK /\ OrderInv /\ ScheduleInv /\ ReportInv /\ BackoffInv

-------------------------------------------------------------------------------
(* Arithmetic of deadlines.                                                   *)
LEMMA DivisionBounds ==
  ASSUME NEW a \in Nat, NEW d \in Nat \ {0}
  PROVE  /\ a \div d \in Nat
         /\ d * (a \div d) <= a
         /\ a < d * (a \div d) + d
  BY Z3

LEMMA MultiplesLeaveNothing ==
  ASSUME NEW d \in Nat \ {0}, NEW m \in Nat
  PROVE  (d * m) % d = 0
  BY Z3

(* advance_deadline_past: the first point of the deadline's grid after t.     *)
LEMMA PastBounds ==
  ASSUME NEW deadline \in Nat, NEW period \in Nat \ {0}, NEW t \in Nat
  PROVE  /\ Past(deadline, period, t) \in Nat /\ Past(deadline, period, t) > t
         /\ deadline > t => Past(deadline, period, t) = deadline
         /\ deadline <= t => Past(deadline, period, t) <= t + period
         /\ (Past(deadline, period, t) - deadline) % period = 0
<1> DEFINE q == (t - deadline) \div period
           m == Missed(deadline, period, t)
<1>1. CASE deadline > t
  <2>1. m = 0  BY <1>1 DEF Missed
  <2>2. Past(deadline, period, t) = deadline  BY <2>1 DEF Past
  <2>3. deadline - deadline = period * 0  OBVIOUS
  <2>4. (period * 0) % period = 0  BY MultiplesLeaveNothing
  <2> QED  BY <1>1, <2>2, <2>3, <2>4
<1>2. CASE deadline <= t
  <2>1. m = q + 1  BY <1>2 DEF Missed
  <2>2. q \in Nat /\ period * q <= t - deadline /\ t - deadline < period * q + period
    BY <1>2, DivisionBounds
  <2> HIDE DEF q
  <2>3. Past(deadline, period, t) = deadline + period * (q + 1)  BY <2>1 DEF Past
  <2>4. period * (q + 1) = period * q + period  BY <2>2
  <2>5. period * q \in Nat  BY <2>2
  <2>6. (deadline + period * (q + 1)) - deadline = period * (q + 1)  BY <2>4, <2>5
  <2>7. (period * (q + 1)) % period = 0  BY <2>2, MultiplesLeaveNothing
  <2> QED  BY <1>2, <2>2, <2>3, <2>4, <2>5, <2>6, <2>7
<1> QED  BY <1>1, <1>2

Schedule == [position : 0..Forever, periodic : 0..Forever, last : Time]

(* The deadlines after an update that is later than the last one: the next    *)
(* ones after it, on the grid of the old ones when there are any; a deadline  *)
(* that has not come stays.                                                   *)
LEMMA UpdatedSchedule ==
  ASSUME NEW s \in Schedule, NEW t \in Time
  PROVE  /\ Updated(s, t) \in Schedule /\ Updated(s, t).last = t
         /\ s.last < t /\ ScheduleOK(s) =>
              /\ ScheduleOK(Updated(s, t))
              /\ Updated(s, t).position <= t + PositionPeriod
              /\ Updated(s, t).periodic <= t + PeriodicPeriod
              /\ ~DuePosition(s, t) => s.last # None /\ Updated(s, t).position = s.position
              /\ ~DuePeriodic(s, t) => s.last # None /\ Updated(s, t).periodic = s.periodic
              /\ s.last # None =>
                   /\ (Updated(s, t).position - s.position) % PositionPeriod = 0
                   /\ (Updated(s, t).periodic - s.periodic) % PeriodicPeriod = 0
<1> DEFINE dp == Deadline(s, "position", t)
           dr == Deadline(s, "periodic", t)
           np == Past(dp, PositionPeriod, t)
           nr == Past(dr, PeriodicPeriod, t)
<1>0. /\ MaxTick \in Nat /\ PositionPeriod \in Nat \ {0} /\ PeriodicPeriod \in Nat \ {0}
      /\ t \in Nat /\ t <= MaxTick
  BY OwpPublisherAssumption DEF Time
<1>1. Forever \in Nat /\ t + PositionPeriod <= Forever /\ t + PeriodicPeriod <= Forever
  BY <1>0 DEF Forever
<1>2. /\ s.position \in Nat /\ s.position <= Forever
      /\ s.periodic \in Nat /\ s.periodic <= Forever /\ s.last \in Nat
  BY <1>0, <1>1 DEF Schedule, Time
<1>3. /\ dp = t \/ dp = s.position
      /\ dr = t \/ dr = s.periodic
      /\ s.last < t /\ s.position # None => dp = s.position
      /\ s.last < t /\ s.periodic # None => dr = s.periodic
      /\ s.position = None => dp = t
      /\ s.periodic = None => dr = t
  BY <1>0, <1>2 DEF Deadline
<1>4. Updated(s, t) = [position |-> np, periodic |-> nr, last |-> t]
  BY DEF Updated
<1>5. /\ DuePosition(s, t) <=> dp <= t
      /\ DuePeriodic(s, t) <=> dr <= t
  BY DEF DuePosition, DuePeriodic
<1> HIDE DEF dp, dr
<1>6. dp \in Nat /\ dr \in Nat /\ dp <= Forever /\ dr <= Forever
  BY <1>0, <1>1, <1>2, <1>3
<1>7. /\ np \in Nat /\ np > t
      /\ dp > t => np = dp
      /\ dp <= t => np <= t + PositionPeriod
      /\ (np - dp) % PositionPeriod = 0
  BY <1>0, <1>6, PastBounds
<1>8. /\ nr \in Nat /\ nr > t
      /\ dr > t => nr = dr
      /\ dr <= t => nr <= t + PeriodicPeriod
      /\ (nr - dr) % PeriodicPeriod = 0
  BY <1>0, <1>6, PastBounds
<1> HIDE DEF np, nr
<1>9. Updated(s, t) \in Schedule
  BY <1>0, <1>1, <1>4, <1>6, <1>7, <1>8 DEF Schedule
<1>10. ASSUME s.last < t, ScheduleOK(s)
       PROVE  /\ ScheduleOK(Updated(s, t))
              /\ np <= t + PositionPeriod /\ nr <= t + PeriodicPeriod
              /\ ~(dp <= t) => s.last # None /\ np = s.position
              /\ ~(dr <= t) => s.last # None /\ nr = s.periodic
              /\ s.last # None => dp = s.position /\ dr = s.periodic
  <2>1. \/ s.position = None /\ s.periodic = None /\ s.last = None
        \/ /\ s.last # None /\ s.position # None /\ s.periodic # None
           /\ s.position <= s.last + PositionPeriod /\ s.periodic <= s.last + PeriodicPeriod
    BY <1>0, <1>2, <1>10 DEF ScheduleOK, FreshSchedule, None
  <2>2. np <= t + PositionPeriod /\ nr <= t + PeriodicPeriod
    BY <1>0, <1>2, <1>3, <1>6, <1>7, <1>8, <1>10, <2>1
  <2>3. t # None  BY <1>0, <1>2, <1>10 DEF None
  <2>4. ScheduleOK(Updated(s, t))
    BY <1>4, <1>7, <1>8, <2>2, <2>3 DEF ScheduleOK
  <2> QED  BY <1>0, <1>3, <1>6, <1>7, <1>8, <1>10, <2>1, <2>2, <2>4
<1> QED  BY <1>4, <1>5, <1>7, <1>8, <1>9, <1>10

-------------------------------------------------------------------------------
(* Sequences by their elements, and the batch of an update.                   *)
LEMMA TailOf ==
  ASSUME NEW S, NEW s \in Seq(S), s # <<>>
  PROVE  /\ Len(s) \in Nat /\ 1 \in 1..Len(s) /\ Head(s) = s[1] /\ Head(s) \in S
         /\ Tail(s) \in Seq(S) /\ Len(Tail(s)) = Len(s) - 1
         /\ \A i \in 1..Len(Tail(s)) : i + 1 \in 1..Len(s) /\ Tail(s)[i] = s[i + 1]
         /\ \A i \in 1..Len(s) : i = 1 \/ (i - 1 \in 1..Len(Tail(s)) /\ Tail(s)[i - 1] = s[i])
  OBVIOUS

LEMMA AppendOf ==
  ASSUME NEW S, NEW s \in Seq(S), NEW x \in S
  PROVE  /\ Append(s, x) \in Seq(S) /\ Len(Append(s, x)) = Len(s) + 1 /\ Len(s) \in Nat
         /\ \A i \in 1..Len(s) : Append(s, x)[i] = s[i]
         /\ Append(s, x)[Len(s) + 1] = x
         /\ \A i \in 1..Len(Append(s, x)) : i \in 1..Len(s) \/ i = Len(s) + 1
  OBVIOUS

LEMMA ConcatOf ==
  ASSUME NEW S, NEW a \in Seq(S), NEW b \in Seq(S)
  PROVE  /\ a \o b \in Seq(S) /\ Len(a \o b) = Len(a) + Len(b)
         /\ \A i \in 1..Len(a) : (a \o b)[i] = a[i]
         /\ \A i \in 1..Len(b) : (a \o b)[Len(a) + i] = b[i]
         /\ \A i \in 1..Len(a \o b) :
              i \in 1..Len(a) \/ (i - Len(a) \in 1..Len(b) /\ (a \o b)[i] = b[i - Len(a)])
  OBVIOUS

(* A batch holds each topic once, and the topics of what is due.              *)
LEMMA BatchTopics ==
  ASSUME NEW s, NEW p, NEW t
  PROVE  /\ Reports(s, p, t) \in Seq(Topic)
         /\ Distinct(Reports(s, p, t))
         /\ DuePosition(s, t) =>
              \E i \in 1..Len(Reports(s, p, t)) : Reports(s, p, t)[i] = "position"
         /\ DuePeriodic(s, t) /\ p = Ownship =>
              \A topic \in {"status", "navigation"} :
                \E i \in 1..Len(Reports(s, p, t)) : Reports(s, p, t)[i] = topic
<1> DEFINE a == IF DuePosition(s, t) THEN <<"position">> ELSE <<>>
           b == IF DuePeriodic(s, t) /\ p = Ownship THEN PeriodicTopics ELSE <<>>
           r == Reports(s, p, t)
<1>1. r = a \o b  BY DEF Reports
<1>2. /\ a \in Seq(Topic) /\ Distinct(a) /\ Len(a) \in Nat
      /\ \A i \in 1..Len(a) : a[i] = "position"
      /\ DuePosition(s, t) => 1 \in 1..Len(a)
  <2>1. CASE DuePosition(s, t)
    <3>1. a = <<"position">>  BY <2>1
    <3> HIDE DEF a
    <3>2. Len(a) = 1 /\ a[1] = "position" /\ a \in Seq(Topic)  BY <3>1 DEF Topic
    <3> QED  BY <3>2 DEF Distinct
  <2>2. CASE ~DuePosition(s, t)
    <3>1. a = <<>>  BY <2>2
    <3> HIDE DEF a
    <3> QED  BY <2>2, <3>1 DEF Distinct
  <2> QED  BY <2>1, <2>2
<1>3. /\ b \in Seq(Topic) /\ Distinct(b) /\ Len(b) \in Nat
      /\ \A i \in 1..Len(b) : b[i] # "position"
      /\ DuePeriodic(s, t) /\ p = Ownship =>
           \A topic \in {"status", "navigation"} : \E i \in 1..Len(b) : b[i] = topic
  <2>1. CASE DuePeriodic(s, t) /\ p = Ownship /\ HasRoute
    <3>1. b = <<"status", "route", "navigation">>  BY <2>1 DEF PeriodicTopics
    <3> HIDE DEF b
    <3>2. /\ Len(b) = 3 /\ b[1] = "status" /\ b[2] = "route" /\ b[3] = "navigation"
          /\ b \in Seq(Topic)
      BY <3>1 DEF Topic
    <3> QED  BY <3>2 DEF Distinct
  <2>2. CASE DuePeriodic(s, t) /\ p = Ownship /\ ~HasRoute
    <3>1. b = <<"status", "navigation">>  BY <2>2 DEF PeriodicTopics
    <3> HIDE DEF b
    <3>2. Len(b) = 2 /\ b[1] = "status" /\ b[2] = "navigation" /\ b \in Seq(Topic)
      BY <3>1 DEF Topic
    <3> QED  BY <3>2 DEF Distinct
  <2>3. CASE ~(DuePeriodic(s, t) /\ p = Ownship)
    <3>1. b = <<>>  BY <2>3
    <3> HIDE DEF b
    <3> QED  BY <2>3, <3>1 DEF Distinct
  <2> QED  BY <2>1, <2>2, <2>3
<1> HIDE DEF a, b, r
<1>4. /\ r \in Seq(Topic) /\ Len(r) = Len(a) + Len(b)
      /\ \A i \in 1..Len(a) : r[i] = a[i]
      /\ \A i \in 1..Len(b) : r[Len(a) + i] = b[i]
      /\ \A i \in 1..Len(r) : \/ i \in 1..Len(a)
                              \/ i - Len(a) \in 1..Len(b) /\ r[i] = b[i - Len(a)]
  BY <1>1, <1>2, <1>3, ConcatOf
<1>5. Distinct(r)
  <2> SUFFICES ASSUME NEW i \in 1..Len(r), NEW j \in 1..Len(r), i # j PROVE r[i] # r[j]
    BY DEF Distinct
  <2>1. CASE i \in 1..Len(a) /\ j \in 1..Len(a)
    <3>1. a[i] # a[j]  BY <1>2, <2>1 DEF Distinct
    <3> QED  BY <1>4, <2>1, <3>1
  <2>2. CASE i \in 1..Len(a) /\ j \notin 1..Len(a)
    <3>1. r[i] = "position"  BY <1>2, <1>4, <2>2
    <3>2. r[j] # "position"  BY <1>3, <1>4, <2>2
    <3> QED  BY <3>1, <3>2
  <2>3. CASE i \notin 1..Len(a) /\ j \in 1..Len(a)
    <3>1. r[j] = "position"  BY <1>2, <1>4, <2>3
    <3>2. r[i] # "position"  BY <1>3, <1>4, <2>3
    <3> QED  BY <3>1, <3>2
  <2>4. CASE i \notin 1..Len(a) /\ j \notin 1..Len(a)
    <3>1. i - Len(a) # j - Len(a)  BY <1>2
    <3>2. /\ i - Len(a) \in 1..Len(b) /\ r[i] = b[i - Len(a)]
          /\ j - Len(a) \in 1..Len(b) /\ r[j] = b[j - Len(a)]
      BY <1>4, <2>4
    <3>3. b[i - Len(a)] # b[j - Len(a)]  BY <1>3, <3>1, <3>2 DEF Distinct
    <3> QED  BY <3>2, <3>3
  <2> QED  BY <2>1, <2>2, <2>3, <2>4
<1>6. DuePosition(s, t) => \E i \in 1..Len(r) : r[i] = "position"
  <2>1. DuePosition(s, t) => 1 \in 1..Len(r) /\ r[1] = "position"
    BY SMTT(30), <1>2, <1>3, <1>4
  <2> QED  BY <2>1
<1>7. ASSUME DuePeriodic(s, t) /\ p = Ownship, NEW topic \in {"status", "navigation"}
      PROVE  \E i \in 1..Len(r) : r[i] = topic
  <2>1. PICK i \in 1..Len(b) : b[i] = topic  BY <1>3, <1>7
  <2>2. Len(a) + i \in 1..Len(r) /\ r[Len(a) + i] = topic  BY <1>2, <1>3, <1>4, <2>1
  <2> QED  BY <2>2
<1> QED  BY <1>4, <1>5, <1>6, <1>7 DEF r

(* The constants: a first wait is within the longest.                         *)
LEMMA Constants ==
  /\ NumPlatforms \in Nat \ {0} /\ Capacity \in Nat \ {0} /\ MinInterval \in Nat
  /\ PositionPeriod \in Nat \ {0} /\ PeriodicPeriod \in Nat \ {0} /\ MaxTick \in Nat
  /\ InitialDelay \in Nat \ {0} /\ MaxDelay \in Nat /\ InitialDelay <= MaxDelay
  /\ Forever \in Nat /\ Ownship \in Platform
  /\ MaxWaits \in Nat /\ InitialDelay * MaxWaits <= MaxDelay
  /\ MaxDelay < InitialDelay * MaxWaits + InitialDelay
<1>1. /\ NumPlatforms \in Nat \ {0} /\ Capacity \in Nat \ {0} /\ MinInterval \in Nat
      /\ PositionPeriod \in Nat \ {0} /\ PeriodicPeriod \in Nat \ {0} /\ MaxTick \in Nat
      /\ InitialDelay \in Nat \ {0} /\ MaxDelay \in Nat /\ InitialDelay <= MaxDelay
  BY OwpPublisherAssumption
<1>2. /\ MaxWaits \in Nat /\ InitialDelay * MaxWaits <= MaxDelay
      /\ MaxDelay < InitialDelay * MaxWaits + InitialDelay
  BY <1>1, DivisionBounds DEF MaxWaits
<1> QED  BY <1>1, <1>2 DEF Forever, Ownship, Platform

-------------------------------------------------------------------------------
LEMMA InitInv == Init => Inv
<1> SUFFICES ASSUME Init PROVE Inv
  OBVIOUS
<1> USE DEF Init
<1>1. FreshSchedule \in Schedule /\ FreshSchedule.last = None
  BY Constants DEF FreshSchedule, Schedule, Time, None
<1>2. TypeOK
  <2>1. NoUpdate \in Update  BY Constants DEF NoUpdate, Update, Time, None
  <2>2. turn \in 1..(NumPlatforms + 1) /\ tick \in Time  BY Constants DEF Time
  <2>3. schedules \in [Platform -> Schedule]  BY <1>1
  <2>4. sent \in [Platform -> [Topic -> Time]]  BY Constants DEF Time, None
  <2>5. delay \in InitialDelay..MaxDelay /\ waits \in 0..MaxWaits  BY Constants
  <2>6. idle \in [Platform -> 0..MinInterval]  BY Constants
  <2> QED  BY <2>1, <2>2, <2>3, <2>4, <2>5, <2>6, Constants DEF TypeOK, Schedule
<1>3. OrderInv
  <2>1. \A p \in Platform : Taken(p, None, queue, tick, turn)
    BY Constants DEF Taken, Handed, Platform, None
  <2>2. ~(turn <= NumPlatforms)  BY Constants
  <2> QED  BY <1>1, <2>1, <2>2 DEF OrderInv, Distinct
<1>4. ScheduleInv /\ ReportInv
  BY <1>1 DEF ScheduleInv, ScheduleOK, ReportInv
<1>5. BackoffInv
  <2>1. (0 + 1) * InitialDelay = InitialDelay  BY Constants
  <2> QED  BY <2>1, Constants DEF BackoffInv, Capped
<1> QED  BY <1>2, <1>3, <1>4, <1>5 DEF Inv

(* The delay is the count of waits times the first one, up to the longest.    *)
LEMMA RetryBackoff ==
  ASSUME TypeOK, BackoffInv, Retry
  PROVE  /\ delay' \in InitialDelay..MaxDelay /\ waits' \in 0..MaxWaits
         /\ BackoffInv'
<1> DEFINE w == waits * InitialDelay
<1>1. /\ delay \in InitialDelay..MaxDelay /\ waits \in 0..MaxWaits
      /\ delay' = Capped(delay + InitialDelay, MaxDelay)
      /\ waits' = Capped(waits + 1, MaxWaits)
  BY DEF TypeOK, Retry
<1>2. /\ waits \in Nat /\ waits <= MaxWaits /\ delay \in Nat /\ InitialDelay <= delay
      /\ delay <= MaxDelay /\ w \in Nat
  BY <1>1, Constants
<1>3. (waits + 1) * InitialDelay = w + InitialDelay
  BY <1>2, Constants
<1>4. ((waits + 1) + 1) * InitialDelay = w + InitialDelay + InitialDelay
  BY <1>2, Constants
<1>5. waits = MaxWaits => w = InitialDelay * MaxWaits
  BY <1>2, Constants
<1> HIDE DEF w
<1>6. delay = IF w + InitialDelay > MaxDelay THEN MaxDelay ELSE w + InitialDelay
  BY <1>3 DEF BackoffInv, Capped
<1>7. delay' = IF delay + InitialDelay > MaxDelay THEN MaxDelay ELSE delay + InitialDelay
  BY <1>1 DEF Capped
<1>8. waits' = IF waits + 1 > MaxWaits THEN MaxWaits ELSE waits + 1
  BY <1>1 DEF Capped
<1>9. CASE waits < MaxWaits
  <2>1. waits' = waits + 1  BY <1>2, <1>8, <1>9, Constants
  <2>2. delay' = IF w + InitialDelay + InitialDelay > MaxDelay
                 THEN MaxDelay ELSE w + InitialDelay + InitialDelay
    BY <1>2, <1>6, <1>7, Constants
  <2>3. BackoffInv'  BY <1>4, <2>1, <2>2 DEF BackoffInv, Capped
  <2> QED  BY <1>2, <1>7, <1>9, <2>1, <2>3, Constants
<1>10. CASE waits = MaxWaits
  <2>1. waits' = waits  BY <1>2, <1>8, <1>10, Constants
  <2>2. w + InitialDelay > MaxDelay
    <3> DEFINE iw == InitialDelay * MaxWaits
    <3>1. w = iw /\ iw \in Nat /\ MaxDelay < iw + InitialDelay  BY <1>2, <1>5, <1>10, Constants
    <3> HIDE DEF iw
    <3> QED  BY <3>1, Constants
  <2>3. delay = MaxDelay /\ delay' = MaxDelay
    BY <1>2, <1>6, <1>7, <2>2, Constants
  <2>4. BackoffInv'  BY <1>3, <2>1, <2>2, <2>3 DEF BackoffInv, Capped
  <2> QED  BY <1>2, <2>1, <2>3, <2>4, Constants
<1> QED  BY <1>2, <1>9, <1>10, Constants

-------------------------------------------------------------------------------
(* A step keeps every variable in its type.                                   *)
LEMMA TypeStep == TypeOK /\ BackoffInv /\ [Next]_vars => TypeOK'
<1> SUFFICES ASSUME TypeOK, BackoffInv, [Next]_vars PROVE TypeOK'
  OBVIOUS
<1> USE DEF TypeOK, simVars, drainVars
<1>1. CASE NextTick
  <2>1. tick' \in Time /\ turn' \in 1..(NumPlatforms + 1)
    BY <1>1, Constants DEF NextTick, Time
  <2> QED  BY <1>1, <2>1 DEF NextTick
<1>2. CASE UpdateTimedEntityState
  <2>1. turn \in Platform /\ turn' \in 1..(NumPlatforms + 1)
    BY <1>2, Constants DEF UpdateTimedEntityState, Platform
  <2>2. queue' \in Seq(Update) /\ Len(queue') <= Capacity
    <3>1. CASE queue' = queue  BY <3>1
    <3>2. CASE queue' # queue
      <4>1. queue' = Append(queue, [platform |-> turn, time |-> tick]) /\ Len(queue) < Capacity
        BY <1>2, <3>2 DEF UpdateTimedEntityState
      <4>2. [platform |-> turn, time |-> tick] \in Update  BY <2>1 DEF Update
      <4>3. Append(queue, [platform |-> turn, time |-> tick]) \in Seq(Update)
            /\ Len(queue') = Len(queue) + 1 /\ Len(queue) \in Nat
        BY <4>1, <4>2, AppendOf
      <4> QED  BY <4>1, <4>3, Constants
    <3> QED  BY <3>1, <3>2
  <2> QED  BY <1>2, <2>1, <2>2 DEF UpdateTimedEntityState
<1>3. CASE DropHandle \/ Join
  BY <1>3 DEF DropHandle, Join
<1>4. CASE WallClock
  <2>1. idle' \in [Platform -> 0..MinInterval]  BY <1>4, Constants DEF WallClock
  <2> QED  BY <1>4, <2>1 DEF WallClock
<1>5. CASE LoopTop \/ ConnectInterrupted \/ WaitEnds
  <2>1. CASE LoopTop  BY <2>1 DEF LoopTop
  <2>2. CASE ConnectInterrupted  BY <2>2 DEF ConnectInterrupted, Stop
  <2>3. CASE WaitEnds  BY <2>3 DEF WaitEnds
  <2> QED  BY <1>5, <2>1, <2>2, <2>3
<1>6. CASE Connected
  <2>1. /\ schedules' \in
             [Platform -> [position : 0..Forever, periodic : 0..Forever, last : Time]]
        /\ idle' \in [Platform -> 0..MinInterval]
    BY <1>6, Constants DEF Connected, FreshSchedule, None, Time
  <2>2. delay' \in InitialDelay..MaxDelay /\ waits' \in 0..MaxWaits
    BY <1>6, Constants DEF Connected
  <2> QED  BY <1>6, <2>1, <2>2 DEF Connected
<1>7. CASE ConnectFails \/ SelectClientError \/ PublishFails
  <2>1. Retry /\ current' \in Update /\ batch' \in Seq(Topic)
    <3>1. NoUpdate \in Update  BY Constants DEF NoUpdate, Update, Time, None
    <3>2. CASE ConnectFails  BY <3>2 DEF ConnectFails
    <3>3. CASE SelectClientError  BY <3>3 DEF SelectClientError
    <3>4. CASE PublishFails  BY <3>1, <3>4 DEF PublishFails
    <3> QED  BY <1>7, <3>2, <3>3, <3>4
  <2>2. delay' \in InitialDelay..MaxDelay /\ waits' \in 0..MaxWaits
    BY <2>1, RetryBackoff
  <2> QED  BY <2>1, <2>2 DEF Retry
<1>8. CASE DrainTop \/ SelectShutdown \/ SelectIncoming
  <2>1. CASE DrainTop  BY <2>1 DEF DrainTop
  <2>2. CASE SelectShutdown  BY <2>2 DEF SelectShutdown, Stop
  <2>3. CASE SelectIncoming  BY <2>3 DEF SelectIncoming
  <2> QED  BY <1>8, <2>1, <2>2, <2>3
<1>9. CASE SelectUpdate
  <2> DEFINE u == Head(queue)
             s == schedules[u.platform]
  <2>1. u \in Update /\ queue' \in Seq(Update) /\ Len(queue') <= Capacity
    <3>1. queue # <<>> /\ queue' = Tail(queue)  BY <1>9 DEF SelectUpdate
    <3>2. /\ u \in Update /\ queue' \in Seq(Update)
          /\ Len(queue') = Len(queue) - 1 /\ Len(queue) \in Nat
      BY <3>1, TailOf
    <3> QED  BY <3>2, Constants
  <2>2. u.platform \in Platform /\ u.time \in Time  BY <2>1 DEF Update
  <2>3. s \in Schedule  BY <2>2 DEF Schedule
  <2>4. Updated(s, u.time) \in Schedule  BY <2>2, <2>3, UpdatedSchedule
  <2>5. schedules' = [schedules EXCEPT ![u.platform] = Updated(s, u.time)]
    BY <1>9 DEF SelectUpdate
  <2>6. Reports(s, u.platform, u.time) \in Seq(Topic)  BY BatchTopics
  <2>7. /\ idle' = idle \/ idle' = [idle EXCEPT ![u.platform] = 0]
        /\ current' \in {current, u} /\ batch' \in {batch, Reports(s, u.platform, u.time)}
        /\ pc' \in {"publish", "drain"}
        /\ UNCHANGED <<simVars, limited, delay, waits, sent>>
    BY <1>9 DEF SelectUpdate
  <2> HIDE DEF u, s
  <2>8. schedules' \in
          [Platform -> [position : 0..Forever, periodic : 0..Forever, last : Time]]
    BY <2>2, <2>4, <2>5 DEF Schedule
  <2>9. idle' \in [Platform -> 0..MinInterval]
    <3>1. 0 \in 0..MinInterval  BY Constants
    <3>2. CASE idle' = idle  BY <3>2
    <3>3. CASE idle' = [idle EXCEPT ![u.platform] = 0]  BY <2>2, <3>1, <3>3
    <3> QED  BY <2>7, <3>2, <3>3
  <2> QED  BY <2>1, <2>6, <2>7, <2>8, <2>9
<1>10. CASE Publish
  <2>1. /\ Head(batch) \in Topic /\ batch' \in Seq(Topic)
        /\ current.platform \in Platform /\ current.time \in Time
    BY <1>10, TailOf DEF Publish, Update
  <2>2. sent' \in [Platform -> [Topic -> Time]]
    BY <1>10, <2>1 DEF Publish
  <2> QED  BY <1>10, <2>1, <2>2 DEF Publish
<1>11. CASE BatchDone
  <2>1. NoUpdate \in Update  BY Constants DEF NoUpdate, Update, Time, None
  <2> QED  BY <1>11, <2>1 DEF BatchDone
<1>12. CASE UNCHANGED vars
  BY <1>12 DEF vars
<1> QED
  BY <1>1, <1>2, <1>3, <1>4, <1>5, <1>6, <1>7, <1>8, <1>9, <1>10, <1>11, <1>12
     DEF Next, Feed, Manager, SelectReady, PublishReady

(* The delay is reset with the count, or both grow.                           *)
LEMMA BackoffStep == TypeOK /\ BackoffInv /\ [Next]_vars => BackoffInv'
<1> SUFFICES ASSUME TypeOK, BackoffInv, [Next]_vars PROVE BackoffInv'
  OBVIOUS
<1>1. CASE Connected
  <2>1. (0 + 1) * InitialDelay = InitialDelay  BY Constants
  <2> QED  BY <1>1, <2>1, Constants DEF Connected, BackoffInv, Capped
<1>2. CASE Retry
  BY <1>2, RetryBackoff
<1>3. CASE UNCHANGED <<delay, waits>>
  BY <1>3 DEF BackoffInv
<1> QED
  BY <1>1, <1>2, <1>3
     DEF Next, Feed, Manager, SelectReady, PublishReady, NextTick, UpdateTimedEntityState,
         DropHandle, Join, WallClock, LoopTop, ConnectInterrupted, ConnectFails, WaitEnds,
         DrainTop, SelectShutdown, SelectUpdate, SelectIncoming, SelectClientError, Publish,
         PublishFails, BatchDone, vars

(* What a step that takes an update does to the queue and the schedules.      *)
LEMMA TakenUpdate ==
  ASSUME TypeOK, OrderInv, SelectUpdate
  PROVE  LET u == Head(queue)
             s == schedules[u.platform]
         IN /\ u \in Update /\ u.platform \in Platform /\ u.time \in Time /\ u.time > 0
            /\ s \in Schedule /\ s.last < u.time
            /\ \A t \in Topic : sent[u.platform][t] < u.time
            /\ Handed(u.platform, u.time, tick, turn)
            /\ \A i \in 1..Len(queue') :
                 queue'[i].platform = u.platform => u.time < queue'[i].time
            /\ Len(queue') = Len(queue) - 1
            /\ \A i \in 1..Len(queue') :
                 i + 1 \in 1..Len(queue) /\ queue'[i] = queue[i + 1]
            /\ schedules' = [schedules EXCEPT ![u.platform] = Updated(s, u.time)]
            /\ Updated(s, u.time) \in Schedule /\ Updated(s, u.time).last = u.time
<1> DEFINE u == Head(queue)
           s == schedules[u.platform]
<1>1. queue # <<>> /\ queue' = Tail(queue)
      /\ schedules' = [schedules EXCEPT ![u.platform] = Updated(s, u.time)]
  BY DEF SelectUpdate
<1>2. /\ u = queue[1] /\ 1 \in 1..Len(queue) /\ u \in Update
      /\ Len(queue') = Len(queue) - 1
      /\ \A i \in 1..Len(queue') : i + 1 \in 1..Len(queue) /\ queue'[i] = queue[i + 1]
  BY <1>1, TailOf DEF TypeOK
<1>3. u.platform \in Platform /\ u.time \in Time  BY <1>2 DEF Update
<1>4. s \in Schedule  BY <1>3 DEF TypeOK, Schedule
<1>5. u.time > 0 /\ Handed(u.platform, u.time, tick, turn)  BY <1>2 DEF OrderInv
<1>6. s.last < u.time  BY <1>2, <1>3 DEF OrderInv, Taken
<1>7. \A t \in Topic : sent[u.platform][t] < u.time  BY <1>2, <1>3 DEF OrderInv, Taken
<1>8. ASSUME NEW i \in 1..Len(queue'), queue'[i].platform = u.platform
      PROVE  u.time < queue'[i].time
  <2>1. i + 1 \in 1..Len(queue) /\ queue'[i] = queue[i + 1] /\ 1 < i + 1  BY <1>2
  <2> QED  BY <1>2, <1>8, <2>1 DEF OrderInv
<1>9. Updated(s, u.time) \in Schedule /\ Updated(s, u.time).last = u.time
  BY <1>3, <1>4, UpdatedSchedule
<1> QED  BY <1>1, <1>2, <1>3, <1>4, <1>5, <1>6, <1>7, <1>8, <1>9

(* The clock of the loop only moves on, so what was handed over stays so.     *)
LEMMA HandedStays ==
  ASSUME TypeOK, NEW p \in Platform, NEW x \in Time, Handed(p, x, tick, turn),
         NextTick \/ UpdateTimedEntityState \/ UNCHANGED <<tick, turn>>
  PROVE  Handed(p, x, tick', turn')
<1>1. x \in Nat /\ p \in Nat /\ tick \in Nat /\ turn \in Nat
  BY Constants DEF TypeOK, Time, Platform
<1> QED
  BY <1>1 DEF Handed, NextTick, UpdateTimedEntityState

LEMMA OrderStep == TypeOK /\ OrderInv /\ [Next]_vars => OrderInv'
<1> SUFFICES ASSUME TypeOK, OrderInv, [Next]_vars PROVE OrderInv'
  OBVIOUS
<1>0. /\ \A i \in 1..Len(queue) : /\ queue[i] \in Update /\ queue[i].platform \in Platform
                                 /\ queue[i].time \in Time
      /\ \A p \in Platform : schedules[p].last \in Time
      /\ \A p \in Platform, t \in Topic : sent[p][t] \in Time
      /\ current.platform \in Platform /\ current.time \in Time
  <2>1. schedules \in [Platform -> Schedule]  BY DEF TypeOK, Schedule
  <2>2. \A p \in Platform : schedules[p].last \in Time  BY <2>1 DEF Schedule
  <2>3. \A i \in 1..Len(queue) : queue[i] \in Update  BY DEF TypeOK
  <2>4. \A p \in Platform, t \in Topic : sent[p][t] \in Time  BY DEF TypeOK
  <2>5. current \in Update  BY DEF TypeOK
  <2> QED  BY <2>2, <2>3, <2>4, <2>5 DEF Update
<1>1. CASE NextTick
  <2>1. UNCHANGED <<queue, pc, schedules, sent, current, batch>> /\ tick' > 0
    BY <1>1, Constants DEF NextTick, drainVars, TypeOK, Time
  <2>2. \A p \in Platform, x \in Time :
          Taken(p, x, queue, tick, turn) => Taken(p, x, queue', tick', turn')
    BY <1>1, <2>1, HandedStays DEF Taken
  <2>3. \A i \in 1..Len(queue) : Handed(queue[i].platform, queue[i].time, tick', turn')
    BY <1>0, <1>1, <2>1, HandedStays DEF OrderInv
  <2> HIDE DEF Taken
  <2> QED  BY <1>0, <2>1, <2>2, <2>3 DEF OrderInv
<1>2. CASE UpdateTimedEntityState
  <2>1. /\ UNCHANGED <<pc, schedules, sent, current, batch, tick>> /\ turn' = turn + 1
        /\ turn <= NumPlatforms /\ turn \in Platform /\ tick \in Time /\ tick > 0
    BY <1>2, Constants DEF UpdateTimedEntityState, drainVars, TypeOK, Platform, OrderInv
  <2>2. CASE queue' = queue
    <3>1. \A p \in Platform, x \in Time :
            Taken(p, x, queue, tick, turn) => Taken(p, x, queue', tick', turn')
      BY <1>2, <2>2, HandedStays DEF Taken
    <3>2. \A i \in 1..Len(queue) : Handed(queue[i].platform, queue[i].time, tick', turn')
      BY <1>0, <1>2, <2>2, HandedStays DEF OrderInv
    <3> QED  BY <1>0, <2>1, <2>2, <3>1, <3>2 DEF OrderInv
  <2>3. CASE queue' # queue
    <3> DEFINE new == [platform |-> turn, time |-> tick]
    <3>1. queue' = Append(queue, new) /\ new \in Update
      BY <1>2, <2>1, <2>3 DEF UpdateTimedEntityState, Update
    <3>2. /\ Len(queue') = Len(queue) + 1 /\ Len(queue) \in Nat
          /\ \A i \in 1..Len(queue) : queue'[i] = queue[i]
          /\ queue'[Len(queue) + 1] = new
          /\ \A i \in 1..Len(queue') : i \in 1..Len(queue) \/ i = Len(queue) + 1
      BY <3>1, AppendOf DEF TypeOK
    <3>3. new.platform = turn /\ new.time = tick  OBVIOUS
    <3> HIDE DEF new
    <3>4. \A x \in Time : Handed(turn, x, tick, turn) => x < tick
      BY <2>1, Constants DEF Handed, Platform, Time
    <3>5. ASSUME NEW p \in Platform, NEW x \in Time, Taken(p, x, queue, tick, turn)
          PROVE  Taken(p, x, queue', tick', turn')
      <4>1. Handed(p, x, tick', turn')  BY <1>2, <3>5, HandedStays DEF Taken
      <4>2. ASSUME NEW i \in 1..Len(queue'), queue'[i].platform = p PROVE x < queue'[i].time
        <5>1. CASE i \in 1..Len(queue)  BY <3>2, <3>5, <4>2, <5>1 DEF Taken
        <5>2. CASE i = Len(queue) + 1  BY <3>2, <3>3, <3>4, <3>5, <4>2, <5>2 DEF Taken
        <5> QED  BY <3>2, <5>1, <5>2
      <4> QED  BY <4>1, <4>2 DEF Taken
    <3>6. ASSUME NEW i \in 1..Len(queue')
          PROVE  queue'[i].time > 0 /\ Handed(queue'[i].platform, queue'[i].time, tick', turn')
      <4>1. CASE i \in 1..Len(queue)
        <5>1. Handed(queue[i].platform, queue[i].time, tick', turn')
          BY <1>0, <1>2, <4>1, HandedStays DEF OrderInv
        <5> QED  BY <3>2, <4>1, <5>1 DEF OrderInv, Handed
      <4>2. CASE i = Len(queue) + 1
        BY <2>1, <3>2, <3>3, <4>2, Constants DEF Handed, Platform
      <4> QED  BY <3>2, <4>1, <4>2
    <3>7. ASSUME NEW i \in 1..Len(queue'), NEW j \in 1..Len(queue'), i < j,
                 queue'[i].platform = queue'[j].platform
          PROVE  queue'[i].time < queue'[j].time
      <4>1. i \in 1..Len(queue) /\ queue'[i] = queue[i]  BY <3>2, <3>7
      <4>2. CASE j \in 1..Len(queue)  BY <3>2, <3>7, <4>1, <4>2 DEF OrderInv
      <4>3. CASE j = Len(queue) + 1
        <5>1. queue[i].platform = turn  BY <3>2, <3>3, <3>7, <4>1, <4>3
        <5>2. queue[i].time < tick  BY <1>0, <3>4, <4>1, <5>1 DEF OrderInv
        <5> QED  BY <3>2, <3>3, <4>1, <4>3, <5>2
      <4> QED  BY <3>2, <4>2, <4>3
    <3> QED  BY <1>0, <2>1, <3>5, <3>6, <3>7 DEF OrderInv
  <2> QED  BY <2>2, <2>3
<1>3. CASE SelectUpdate
  <2> DEFINE u == Head(queue)
             s == schedules[u.platform]
  <2>1. /\ u.platform \in Platform /\ u.time \in Time
        /\ \A t \in Topic : sent[u.platform][t] < u.time
        /\ Handed(u.platform, u.time, tick, turn)
        /\ \A i \in 1..Len(queue') :
             queue'[i].platform = u.platform => u.time < queue'[i].time
        /\ \A i \in 1..Len(queue') : i + 1 \in 1..Len(queue) /\ queue'[i] = queue[i + 1]
        /\ schedules' = [schedules EXCEPT ![u.platform] = Updated(s, u.time)]
        /\ Updated(s, u.time).last = u.time
    BY <1>3, TakenUpdate
  <2>2. /\ UNCHANGED <<tick, turn, sent>>
        /\ pc' = "publish" => current' = u /\ batch' = Reports(s, u.platform, u.time)
    BY <1>3 DEF SelectUpdate, simVars
  <2>3. Reports(s, u.platform, u.time) \in Seq(Topic) /\ Distinct(Reports(s, u.platform, u.time))
    BY BatchTopics
  <2> HIDE DEF u, s
  <2>4. \A p, x : Taken(p, x, queue, tick, turn) => Taken(p, x, queue', tick', turn')
    BY <2>1, <2>2 DEF Taken, Handed
  <2>5. Taken(u.platform, u.time, queue', tick', turn')
    BY <2>1, <2>2 DEF Taken, Handed
  <2>6. \A p \in Platform : Taken(p, schedules'[p].last, queue', tick', turn')
    <3> SUFFICES ASSUME NEW p \in Platform PROVE Taken(p, schedules'[p].last, queue', tick', turn')
      OBVIOUS
    <3>1. CASE p = u.platform
      <4>1. schedules'[p].last = u.time  BY <2>1, <3>1 DEF TypeOK
      <4> QED  BY <2>5, <3>1, <4>1 DEF Taken, Handed
    <3>2. CASE p # u.platform
      <4>1. schedules'[p] = schedules[p]  BY <2>1, <3>2 DEF TypeOK
      <4>2. Taken(p, schedules[p].last, queue, tick, turn)  BY DEF OrderInv
      <4> QED  BY <2>1, <2>2, <4>1, <4>2 DEF Taken, Handed
    <3> QED  BY <3>1, <3>2
  <2>7. \A p \in Platform, t \in Topic : Taken(p, sent'[p][t], queue', tick', turn')
    <3> SUFFICES ASSUME NEW p \in Platform, NEW t \in Topic
                 PROVE  Taken(p, sent'[p][t], queue', tick', turn')
      OBVIOUS
    <3>1. Taken(p, sent[p][t], queue, tick, turn)  BY DEF OrderInv
    <3> QED  BY <2>1, <2>2, <3>1 DEF Taken, Handed
  <2>8. \A i \in 1..Len(queue') :
          queue'[i].time > 0 /\ Handed(queue'[i].platform, queue'[i].time, tick', turn')
    BY <2>1, <2>2 DEF OrderInv, Handed
  <2>9. ASSUME NEW i \in 1..Len(queue'), NEW j \in 1..Len(queue'), i < j,
               queue'[i].platform = queue'[j].platform
        PROVE  queue'[i].time < queue'[j].time
    <3>1. i + 1 \in 1..Len(queue) /\ j + 1 \in 1..Len(queue) /\ i + 1 < j + 1  BY <2>1, <2>9
    <3> QED  BY <2>1, <2>9, <3>1 DEF OrderInv
  <2>10. pc' = "publish" =>
           /\ Taken(current'.platform, current'.time, queue', tick', turn')
           /\ Distinct(batch')
           /\ \A i \in 1..Len(batch') : sent'[current'.platform][batch'[i]] < current'.time
    <3> SUFFICES ASSUME pc' = "publish"
                 PROVE  /\ Taken(current'.platform, current'.time, queue', tick', turn')
                        /\ Distinct(batch')
                        /\ \A i \in 1..Len(batch') :
                             sent'[current'.platform][batch'[i]] < current'.time
      OBVIOUS
    <3>1. current' = u /\ batch' = Reports(s, u.platform, u.time)  BY <2>2
    <3>2. Taken(current'.platform, current'.time, queue', tick', turn')
      BY <2>5, <3>1 DEF Taken, Handed
    <3>3. \A i \in 1..Len(batch') : batch'[i] \in Topic  BY <2>3, <3>1
    <3> QED  BY <2>1, <2>2, <2>3, <3>1, <3>2, <3>3
  <2>11. turn' <= NumPlatforms => tick' > 0  BY <2>2 DEF OrderInv
  <2> QED  BY <2>6, <2>7, <2>8, <2>9, <2>10, <2>11 DEF OrderInv
<1>4. CASE Connected
  <2>1. /\ UNCHANGED <<tick, turn, queue, sent>> /\ pc' = "drain"
        /\ \A p \in Platform : schedules'[p].last = None
    BY <1>4 DEF Connected, simVars, FreshSchedule
  <2>2. ASSUME NEW p \in Platform PROVE Taken(p, None, queue, tick, turn)
    <3>1. tick \in Nat /\ turn \in Nat /\ p <= NumPlatforms /\ p \in Nat
      BY Constants DEF TypeOK, Time, Platform
    <3>2. Handed(p, None, tick, turn)  BY <3>1, Constants DEF Handed, OrderInv, None
    <3> QED  BY <3>2 DEF Taken, OrderInv, None
  <2> QED  BY <2>1, <2>2 DEF OrderInv, Taken, Handed
<1>5. CASE Publish
  <2>1. /\ pc = "publish" /\ batch # <<>> /\ batch' = Tail(batch)
        /\ sent' = [sent EXCEPT ![current.platform][Head(batch)] = current.time]
        /\ UNCHANGED <<tick, turn, queue, pc, current, schedules>>
    BY <1>5 DEF Publish, simVars
  <2>2. /\ Head(batch) = batch[1] /\ 1 \in 1..Len(batch) /\ Head(batch) \in Topic
        /\ \A i \in 1..Len(batch') : i + 1 \in 1..Len(batch) /\ batch'[i] = batch[i + 1]
    BY <2>1, TailOf DEF TypeOK
  <2>3. \A p \in Platform, t \in Topic :
          sent'[p][t] = IF p = current.platform /\ t = Head(batch) THEN current.time ELSE sent[p][t]
    BY <1>0, <2>1, <2>2 DEF TypeOK
  <2>4. \A p, x : Taken(p, x, queue, tick, turn) <=> Taken(p, x, queue', tick', turn')
    BY <2>1 DEF Taken, Handed
  <2>5. Taken(current.platform, current.time, queue, tick, turn)  BY <2>1 DEF OrderInv
  <2>6. \A p \in Platform, t \in Topic : Taken(p, sent'[p][t], queue, tick, turn)
    BY <2>3, <2>5 DEF OrderInv
  <2>7. Distinct(batch')
    <3> SUFFICES ASSUME NEW i \in 1..Len(batch'), NEW j \in 1..Len(batch'), i # j
                 PROVE  batch'[i] # batch'[j]
      BY DEF Distinct
    <3>1. i + 1 # j + 1  OBVIOUS
    <3> QED  BY <2>1, <2>2, <3>1 DEF OrderInv, Distinct
  <2>8. ASSUME NEW i \in 1..Len(batch') PROVE sent'[current.platform][batch'[i]] < current.time
    <3>1. i + 1 \in 1..Len(batch) /\ batch'[i] = batch[i + 1] /\ i + 1 # 1  BY <2>2
    <3>2. batch[i + 1] # batch[1]  BY <2>1, <2>2, <3>1 DEF OrderInv, Distinct
    <3>3. sent[current.platform][batch[i + 1]] < current.time  BY <2>1, <3>1 DEF OrderInv
    <3>4. batch[i + 1] \in Topic  BY <3>1 DEF TypeOK
    <3> QED  BY <1>0, <2>2, <2>3, <3>1, <3>2, <3>3, <3>4
  <2> QED  BY <2>1, <2>4, <2>5, <2>6, <2>7, <2>8 DEF OrderInv, Taken, Handed
<1>6. CASE /\ UNCHANGED <<tick, turn, queue, schedules, sent>>
           /\ pc' # "publish" \/ UNCHANGED <<pc, current, batch>>
  BY <1>6 DEF OrderInv, Taken, Handed
<1> QED
  BY <1>1, <1>2, <1>3, <1>4, <1>5, <1>6
     DEF Next, Feed, Manager, SelectReady, PublishReady, DropHandle, Join, WallClock,
         LoopTop, ConnectInterrupted, ConnectFails, WaitEnds, Retry, Stop, DrainTop,
         SelectShutdown, SelectIncoming, SelectClientError, PublishFails, BatchDone, vars,
         simVars, drainVars

(* A schedule changes with an update later than its last, or starts afresh.   *)
LEMMA ScheduleStep ==
  TypeOK /\ OrderInv /\ ScheduleInv /\ [Next]_vars => ScheduleInv'
<1> SUFFICES ASSUME TypeOK, OrderInv, ScheduleInv, [Next]_vars PROVE ScheduleInv'
  OBVIOUS
<1>1. CASE SelectUpdate
  <2> DEFINE u == Head(queue)
             s == schedules[u.platform]
  <2>1. /\ u.platform \in Platform /\ u.time \in Time
        /\ s \in Schedule /\ s.last < u.time
        /\ schedules' = [schedules EXCEPT ![u.platform] = Updated(s, u.time)]
    BY <1>1, TakenUpdate
  <2>2. ScheduleOK(s)  BY <2>1 DEF ScheduleInv
  <2>3. ScheduleOK(Updated(s, u.time))  BY <2>1, <2>2, UpdatedSchedule
  <2> HIDE DEF u, s
  <2>4. \A p \in Platform :
          schedules'[p] = IF p = u.platform THEN Updated(s, u.time) ELSE schedules[p]
    BY <2>1 DEF TypeOK
  <2> QED  BY <2>3, <2>4 DEF ScheduleInv
<1>2. CASE Connected
  BY <1>2 DEF Connected, ScheduleInv, ScheduleOK
<1>3. CASE UNCHANGED schedules
  BY <1>3 DEF ScheduleInv
<1> QED
  BY <1>1, <1>2, <1>3
     DEF Next, Feed, Manager, SelectReady, PublishReady, NextTick, UpdateTimedEntityState,
         DropHandle, Join, WallClock, LoopTop, ConnectInterrupted, ConnectFails, WaitEnds,
         Retry, DrainTop, SelectShutdown, SelectIncoming, SelectClientError, Publish,
         PublishFails, BatchDone, vars, drainVars

(* A period that becomes due goes into the batch, and a batch that is         *)
(* published in full leaves no topic behind.                                  *)
LEMMA ReportStep ==
  TypeOK /\ OrderInv /\ ScheduleInv /\ ReportInv /\ [Next]_vars => ReportInv'
<1> SUFFICES ASSUME TypeOK, OrderInv, ScheduleInv, ReportInv, [Next]_vars,
                    ~limited', pc' \in {"drain", "select", "publish"},
                    NEW p \in Platform, schedules'[p].last # None
             PROVE  /\ Reported(p, "position", schedules[p].position - PositionPeriod)'
                    /\ p = Ownship =>
                         \A t \in {"status", "navigation"} :
                           Reported(p, t, schedules[p].periodic - PeriodicPeriod)'
  BY DEF ReportInv
<1> USE DEF Reported, StillToPublish
<1>1. CASE SelectUpdate
  <2> DEFINE u == Head(queue)
             s == schedules[u.platform]
             n == Updated(s, u.time)
  <2>1. /\ u.platform \in Platform /\ u.time \in Time
        /\ s \in Schedule /\ s.last < u.time
        /\ schedules' = [schedules EXCEPT ![u.platform] = n]
        /\ n \in Schedule
    BY <1>1, TakenUpdate
  <2>2. ScheduleOK(s)  BY <2>1 DEF ScheduleInv
  <2>3. /\ n.position <= u.time + PositionPeriod /\ n.periodic <= u.time + PeriodicPeriod
        /\ ~DuePosition(s, u.time) => s.last # None /\ n.position = s.position
        /\ ~DuePeriodic(s, u.time) => s.last # None /\ n.periodic = s.periodic
    BY <2>1, <2>2, UpdatedSchedule
  <2>4. /\ pc = "select" /\ sent' = sent /\ ~limited
        /\ DuePosition(s, u.time) \/ DuePeriodic(s, u.time) =>
             pc' = "publish" /\ current' = u /\ batch' = Reports(s, u.platform, u.time)
    BY <1>1 DEF SelectUpdate, Allows
  <2>5. /\ DuePosition(s, u.time) =>
             \E i \in 1..Len(Reports(s, u.platform, u.time)) :
               Reports(s, u.platform, u.time)[i] = "position"
        /\ DuePeriodic(s, u.time) /\ u.platform = Ownship =>
             \A topic \in {"status", "navigation"} :
               \E i \in 1..Len(Reports(s, u.platform, u.time)) :
                 Reports(s, u.platform, u.time)[i] = topic
    BY BatchTopics
  <2>6. /\ n.position \in Nat /\ n.periodic \in Nat /\ u.time \in Nat
        /\ PositionPeriod \in Nat /\ PeriodicPeriod \in Nat
    BY <2>1, Constants DEF Schedule, Time
  <2>7. /\ u.time >= n.position - PositionPeriod
        /\ u.time >= n.periodic - PeriodicPeriod
    BY <2>3, <2>6
  <2>8. \A q \in Platform : schedules[q].last # None =>
          /\ sent[q]["position"] >= schedules[q].position - PositionPeriod
          /\ q = Ownship => \A t \in {"status", "navigation"} :
               sent[q][t] >= schedules[q].periodic - PeriodicPeriod
    BY <2>4 DEF ReportInv
  <2> HIDE DEF u, s, n
  <2>9. CASE p # u.platform
    <3>1. schedules'[p] = schedules[p]  BY <2>1, <2>9 DEF TypeOK
    <3> QED  BY <2>4, <2>8, <3>1
  <2>10. CASE p = u.platform
    <3>1. schedules'[p] = n  BY <2>1, <2>10 DEF TypeOK
    <3>2. s = schedules[p]  BY <2>10 DEF s
    <3>3. Reported(p, "position", schedules[p].position - PositionPeriod)'
      <4>1. CASE DuePosition(s, u.time)  BY <2>4, <2>5, <2>7, <2>10, <3>1, <4>1
      <4>2. CASE ~DuePosition(s, u.time)  BY <2>3, <2>4, <2>8, <3>1, <3>2, <4>2
      <4> QED  BY <4>1, <4>2
    <3>4. ASSUME p = Ownship, NEW t \in {"status", "navigation"}
          PROVE  Reported(p, t, schedules[p].periodic - PeriodicPeriod)'
      <4>1. CASE DuePeriodic(s, u.time)  BY <2>4, <2>5, <2>7, <2>10, <3>1, <3>4, <4>1
      <4>2. CASE ~DuePeriodic(s, u.time)  BY <2>3, <2>4, <2>8, <3>1, <3>2, <3>4, <4>2
      <4> QED  BY <4>1, <4>2
    <3> QED  BY <3>3, <3>4
  <2> QED  BY <2>9, <2>10
<1>2. CASE Publish
  <2>1. /\ pc = "publish" /\ batch # <<>> /\ batch' = Tail(batch)
        /\ sent' = [sent EXCEPT ![current.platform][Head(batch)] = current.time]
        /\ UNCHANGED <<pc, current, schedules, limited>>
    BY <1>2 DEF Publish
  <2>2. /\ Head(batch) = batch[1] /\ 1 \in 1..Len(batch) /\ Head(batch) \in Topic
        /\ \A i \in 1..Len(batch) :
             i = 1 \/ (i - 1 \in 1..Len(batch') /\ batch'[i - 1] = batch[i])
    BY <2>1, TailOf DEF TypeOK
  <2>3. sent[current.platform][Head(batch)] < current.time
    BY <2>1, <2>2 DEF OrderInv
  <2>4. current.platform \in Platform /\ current.time \in Nat
    BY Constants DEF TypeOK, Update, Time
  <2>5. \A t \in Topic :
          sent'[p][t] = IF p = current.platform /\ t = Head(batch) THEN current.time ELSE sent[p][t]
    BY <2>1, <2>2, <2>4 DEF TypeOK
  <2>6. \A t \in Topic : sent[p][t] \in Nat  BY Constants DEF TypeOK, Time
  <2>7. ASSUME NEW t \in Topic, NEW since \in Int, Reported(p, t, since)
        PROVE  sent'[p][t] >= since
                 \/ (p = current.platform /\ current.time >= since
                       /\ \E i \in 1..Len(batch') : batch'[i] = t)
    <3>1. CASE sent[p][t] >= since  BY <2>3, <2>4, <2>5, <2>6, <3>1
    <3>2. CASE StillToPublish(p, t) /\ current.time >= since
      <4>1. PICK i \in 1..Len(batch) : batch[i] = t  BY <3>2
      <4>2. CASE i = 1  BY <2>2, <2>5, <3>2, <4>1, <4>2
      <4>3. CASE i # 1  BY <2>2, <3>2, <4>1, <4>3
      <4> QED  BY <4>2, <4>3
    <3> QED  BY <2>7, <3>1, <3>2
  <2>8. schedules[p].position \in Nat /\ schedules[p].periodic \in Nat
    <3>1. schedules[p] \in Schedule  BY DEF TypeOK, Schedule
    <3> QED  BY <3>1, Constants DEF Schedule
  <2>9. /\ schedules[p].position - PositionPeriod \in Int
        /\ schedules[p].periodic - PeriodicPeriod \in Int
    BY <2>8, Constants
  <2>10. /\ Reported(p, "position", schedules[p].position - PositionPeriod)
         /\ p = Ownship => \A t \in {"status", "navigation"} :
              Reported(p, t, schedules[p].periodic - PeriodicPeriod)
    BY <2>1 DEF ReportInv
  <2> HIDE DEF Reported
  <2>11. /\ sent'[p]["position"] >= schedules[p].position - PositionPeriod
              \/ (p = current.platform /\ current.time >= schedules[p].position - PositionPeriod
                    /\ \E i \in 1..Len(batch') : batch'[i] = "position")
         /\ p = Ownship => \A t \in {"status", "navigation"} :
              sent'[p][t] >= schedules[p].periodic - PeriodicPeriod
                \/ (p = current.platform /\ current.time >= schedules[p].periodic - PeriodicPeriod
                      /\ \E i \in 1..Len(batch') : batch'[i] = t)
    BY <2>7, <2>9, <2>10 DEF Topic
  <2> QED  BY <2>1, <2>11 DEF Reported
<1>3. CASE BatchDone
  BY <1>3 DEF BatchDone, ReportInv
<1>4. CASE Connected
  BY <1>4 DEF Connected, FreshSchedule
<1>5. CASE UNCHANGED <<schedules, sent, limited>> /\ UNCHANGED <<pc, current, batch>>
  BY <1>5 DEF ReportInv
<1>6. CASE UNCHANGED <<schedules, sent, limited>> /\ pc \in {"drain", "select"}
  BY <1>6 DEF ReportInv
<1> QED
  BY <1>1, <1>2, <1>3, <1>4, <1>5, <1>6
     DEF Next, Feed, Manager, SelectReady, PublishReady, NextTick, UpdateTimedEntityState,
         DropHandle, Join, WallClock, LoopTop, ConnectInterrupted, ConnectFails, WaitEnds, Stop,
         Retry, DrainTop, SelectShutdown, SelectIncoming, SelectClientError,
         PublishFails, vars, drainVars

-------------------------------------------------------------------------------
(* Invariance of Inv under every step of the loop and of the manager.         *)
THEOREM Invariance == Spec => []Inv
<1>1. Inv /\ [Next]_vars => Inv'
  BY TypeStep, OrderStep, ScheduleStep, ReportStep, BackoffStep DEF Inv
<1> QED  BY InitInv, <1>1, PTL DEF Spec

(* Type correctness of the handle and the manager, the queue's bound with it. *)
THEOREM TypeCorrect == Spec => []TypeOK
<1>1. Inv => TypeOK  BY DEF Inv
<1> QED  BY Invariance, <1>1, PTL

(* drain_connection reports every period it has taken an update of, unless a  *)
(* wall-rate limit holds a batch back.                                        *)
THEOREM EveryPeriodIsReportedHolds == Spec => []EveryPeriodIsReported
<1>1. Inv => EveryPeriodIsReported
  BY DEF Inv, ReportInv, Reported, StillToPublish, EveryPeriodIsReported
<1> QED  BY Invariance, <1>1, PTL

(* RetryBackoff: the delay is linear in the waits in a row up to its maximum. *)
THEOREM BackoffIsLinearHolds == Spec => []BackoffIsLinear
<1>1. Inv => BackoffIsLinear  BY DEF Inv, BackoffInv, BackoffIsLinear
<1> QED  BY Invariance, <1>1, PTL

(* Through the queue, the batches and the reconnects, a platform's reports on *)
(* a topic are stamped with later and later scenario times.                   *)
THEOREM ReportsMoveForwardHolds == Spec => ReportsMoveForward
<1>1. Inv /\ [Next]_vars =>
        [\A p \in Platform, t \in Topic :
           sent'[p][t] # sent[p][t] => sent'[p][t] > sent[p][t]]_vars
  <2> SUFFICES ASSUME Inv, [Next]_vars, NEW p \in Platform, NEW t \in Topic,
                      sent'[p][t] # sent[p][t]
               PROVE  sent'[p][t] > sent[p][t]
    OBVIOUS
  <2>1. CASE Publish
    <3>1. /\ batch # <<>> /\ pc = "publish"
          /\ sent' = [sent EXCEPT ![current.platform][Head(batch)] = current.time]
      BY <2>1 DEF Publish
    <3>2. Head(batch) = batch[1] /\ 1 \in 1..Len(batch) /\ Head(batch) \in Topic
      BY <3>1, TailOf DEF Inv, TypeOK
    <3>3. p = current.platform /\ t = Head(batch) /\ sent'[p][t] = current.time
      BY <3>1, <3>2 DEF Inv, TypeOK, Update
    <3>4. sent[p][t] < current.time  BY <3>1, <3>2, <3>3 DEF Inv, OrderInv
    <3>5. sent[p][t] \in Nat /\ current.time \in Nat  BY Constants DEF Inv, TypeOK, Update, Time
    <3> QED  BY <3>3, <3>4, <3>5
  <2>2. CASE UNCHANGED sent
    BY <2>2
  <2> QED
    BY <2>1, <2>2
       DEF Next, Feed, Manager, SelectReady, PublishReady, NextTick, UpdateTimedEntityState,
           DropHandle, Join, WallClock, LoopTop, ConnectInterrupted, Connected, ConnectFails,
           WaitEnds, Retry, DrainTop, SelectShutdown, SelectUpdate, SelectIncoming,
           SelectClientError, PublishFails, BatchDone, vars
<1> QED  BY Invariance, <1>1, PTL DEF Spec, ReportsMoveForward

(* PublicationSchedule: a late update moves a deadline by whole periods, to   *)
(* the next one after the update.                                             *)
THEOREM DeadlinesDoNotDriftHolds == Spec => DeadlinesDoNotDrift
<1> DEFINE OnGrid ==
      \A p \in Platform :
        LET old == schedules[p]
            new == schedules'[p]
        IN new # old /\ old.last # None /\ new.last # None =>
             /\ (new.position - old.position) % PositionPeriod = 0
             /\ (new.periodic - old.periodic) % PeriodicPeriod = 0
             /\ new.last < new.position /\ new.position <= new.last + PositionPeriod
             /\ new.last < new.periodic /\ new.periodic <= new.last + PeriodicPeriod
<1>1. Inv /\ [Next]_vars => [OnGrid]_vars
  <2> SUFFICES ASSUME Inv, [Next]_vars PROVE OnGrid
    OBVIOUS
  <2>1. CASE SelectUpdate
    <3> DEFINE u == Head(queue)
               s == schedules[u.platform]
               n == Updated(s, u.time)
    <3>1. /\ u.platform \in Platform /\ u.time \in Time
          /\ s \in Schedule /\ s.last < u.time
          /\ schedules' = [schedules EXCEPT ![u.platform] = n]
      BY <2>1, TakenUpdate DEF Inv
    <3>2. ScheduleOK(s)  BY <3>1 DEF Inv, ScheduleInv
    <3>3. /\ ScheduleOK(n)
          /\ s.last # None =>
               /\ (n.position - s.position) % PositionPeriod = 0
               /\ (n.periodic - s.periodic) % PeriodicPeriod = 0
      BY <3>1, <3>2, UpdatedSchedule
    <3> HIDE DEF u, n
    <3>4. ASSUME NEW p \in Platform, schedules'[p] # schedules[p]
          PROVE  p = u.platform /\ schedules'[p] = n
      BY <3>1, <3>4 DEF Inv, TypeOK
    <3>5. n.last # None =>
            /\ n.last < n.position /\ n.position <= n.last + PositionPeriod
            /\ n.last < n.periodic /\ n.periodic <= n.last + PeriodicPeriod
      BY <3>3 DEF ScheduleOK, FreshSchedule
    <3> QED  BY <3>3, <3>4, <3>5
  <2>2. CASE Connected
    BY <2>2 DEF Connected, FreshSchedule
  <2>3. CASE UNCHANGED schedules
    BY <2>3
  <2> QED
    BY <2>1, <2>2, <2>3
       DEF Next, Feed, Manager, SelectReady, PublishReady, NextTick, UpdateTimedEntityState,
           DropHandle, Join, WallClock, LoopTop, ConnectInterrupted, ConnectFails,
           WaitEnds, Retry, DrainTop, SelectShutdown, SelectIncoming, SelectClientError,
           Publish, PublishFails, BatchDone, vars, drainVars
<1> QED  BY Invariance, <1>1, PTL DEF Spec, DeadlinesDoNotDrift, OnGrid
================================================================================
