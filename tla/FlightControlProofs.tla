-------------------------- MODULE FlightControlProofs --------------------------
(***************************************************************************)
(* What the steering of one entity promises, for every flight plan, circle *)
(* of headings, tolerance, lead, timeout and stream of control packets.    *)
(***************************************************************************)
EXTENDS FlightControl, TLAPS, WellFoundedInduction

(* The heading, the offset and the setpoints of an entity that is not dead    *)
(* depend on each other only: together the invariants are inductive.          *)
Inv == TypeOK /\ SuppressionIsSound /\ AutopilotTracks /\ NoOffsetOutsideManual

-------------------------------------------------------------------------------
(* Arithmetic on headings.                                                    *)
LEMMA Constants ==
  /\ Packets \subseteq [throttle : {"below", "at", "above"},
                        aileron : Sign, elevator : Sign, trim : Sign]
  /\ Malformed \notin Packets
  /\ NumWaypoints \in Nat /\ Circle \in Nat \ {0}
  /\ BearingTo \in [Positions -> [Waypoint -> Heading]]
  /\ HdgTolerance \in Nat /\ MaxHdgLead \in Nat /\ MaxAltLead \in Nat
  /\ 2 * MaxHdgLead <= Circle
  /\ SettleTicks \in Nat /\ Timeout \in Nat /\ MaxQueue \in Nat
  /\ Unset \notin Heading
  BY FlightControlAssumption

(* Less than three turns, reduced to one.                                     *)
LEMMA Turns ==
  ASSUME NEW c \in Nat \ {0}, NEW v \in Nat, v < 3 * c
  PROVE  /\ v % c \in 0..(c - 1)
         /\ v < c => v % c = v
         /\ c <= v /\ v < 2 * c => v % c = v - c
         /\ 2 * c <= v => v % c = v - 2 * c
<1>1. v % c \in 0..(c - 1)  OBVIOUS
<1>2. v < c => v % c = v  BY Z3
<1>3. c <= v /\ v < 2 * c => v % c = v - c  BY Z3
<1>4. 2 * c <= v => v % c = v - 2 * c  BY Z3
<1> QED  BY <1>1, <1>2, <1>3, <1>4

LEMMA Turned ==
  ASSUME NEW h \in Heading, NEW delta \in Int, -Circle <= delta, delta <= Circle
  PROVE  /\ (h + delta + Circle) % Circle \in Heading
         /\ h + delta < 0 => (h + delta + Circle) % Circle = h + delta + Circle
         /\ 0 <= h + delta /\ h + delta < Circle => (h + delta + Circle) % Circle = h + delta
         /\ Circle <= h + delta => (h + delta + Circle) % Circle = h + delta - Circle
<1> DEFINE v == h + delta + Circle
<1>1. h \in Nat /\ h < Circle /\ Circle \in Nat \ {0}  BY Constants DEF Heading
<1>2. v \in Nat /\ v < 3 * Circle  BY <1>1
<1>3. /\ v % Circle \in 0..(Circle - 1)
      /\ v < Circle => v % Circle = v
      /\ Circle <= v /\ v < 2 * Circle => v % Circle = v - Circle
      /\ 2 * Circle <= v => v % Circle = v - 2 * Circle
  BY <1>1, <1>2, Turns
<1> QED  BY <1>1, <1>3 DEF Heading

(* Of the headings within the lead of the actual one, the lead is the nearest *)
(* to what is asked for, whichever side of north either lies.                 *)
LEMMA LeadIsNearest ==
  ASSUME NEW y \in Heading, NEW x \in Heading, NEW lead \in Int, NEW h \in Heading,
         LET diff == x - y
             wrapped == IF 2 * diff > Circle THEN diff - Circle
                        ELSE IF 2 * diff < -Circle THEN diff + Circle ELSE diff
         IN lead = Clamp(wrapped, MaxHdgLead),
         h = (y + lead + Circle) % Circle
  PROVE  /\ Apart(h, y) <= MaxHdgLead
         /\ \A g \in Heading : Apart(g, y) <= MaxHdgLead => Apart(h, x) <= Apart(g, x)
<1>1. /\ y \in Nat /\ y < Circle /\ x \in Nat /\ x < Circle /\ Circle \in Nat \ {0}
      /\ MaxHdgLead \in Nat /\ 2 * MaxHdgLead <= Circle
  BY Constants DEF Heading
<1>2. -MaxHdgLead <= lead /\ lead <= MaxHdgLead  BY <1>1 DEF Clamp
<1>3. /\ y + lead < 0 => h = y + lead + Circle
      /\ 0 <= y + lead /\ y + lead < Circle => h = y + lead
      /\ Circle <= y + lead => h = y + lead - Circle
  BY SMTT(30), <1>1, <1>2, Turned
<1>4. Apart(h, y) <= MaxHdgLead
  BY <1>1, <1>2, <1>3 DEF Apart
<1>5. ASSUME NEW g \in Heading, Apart(g, y) <= MaxHdgLead PROVE Apart(h, x) <= Apart(g, x)
  <2>1. g \in Nat /\ g < Circle  BY <1>1 DEF Heading
  <2> QED  BY <1>1, <1>2, <1>3, <1>5, <2>1 DEF Apart, Clamp
<1> QED  BY <1>4, <1>5

-------------------------------------------------------------------------------
(* The datagrams a receive takes.                                             *)
LEMMA LeastOf ==
  ASSUME NEW T, T \subseteq Nat, T # {}
  PROVE  \E m \in T : \A j \in T : m <= j
<1>1. PICK m \in T : \A j \in T : ~(<<j, m>> \in OpToRel(<, Nat))
  BY NatLessThanWellFounded, WFMin, Zenon
<1>2. \A j \in T : m <= j
  <2> SUFFICES ASSUME NEW j \in T PROVE m <= j
    OBVIOUS
  <2>1. <<j, m>> \in Nat \X Nat  OBVIOUS
  <2>2. ~(j < m)  BY <1>1, <2>1 DEF OpToRel
  <2> QED  BY <2>2
<1> QED  BY <1>2

(* The drain stops at the first malformed datagram or behind the last one:    *)
(* what it takes as the latest input is a valid packet.                       *)
LEMMA Received ==
  ASSUME TypeOK
  PROVE  /\ StopAt \in 1..(Len(socket) + 1)
         /\ Fresh => Latest \in Packets
         /\ Latest \in Packets \cup {NoInput}
         /\ Undrained \in Seq(Datagram) /\ Len(Undrained) <= MaxQueue
<1>1. socket \in Seq(Datagram) /\ Len(socket) \in Nat /\ Len(socket) <= MaxQueue
      /\ DOMAIN socket = 1..Len(socket) /\ MaxQueue \in Nat
  BY Constants DEF TypeOK
<1>2. /\ StopAt \in 1..(Len(socket) + 1)
      /\ \A i \in 1..Len(socket) : i < StopAt => socket[i] # Malformed
  <2>1. CASE Malformeds = {}
    BY <1>1, <2>1 DEF StopAt, Malformeds
  <2>2. CASE Malformeds # {}
    <3>1. Malformeds \subseteq 1..Len(socket)  BY <1>1 DEF Malformeds
    <3>2. \E i \in Malformeds : \A j \in Malformeds : i <= j
      <4>1. Malformeds \subseteq Nat  BY <3>1
      <4> QED  BY <2>2, <4>1, LeastOf
    <3>3. StopAt \in Malformeds /\ \A j \in Malformeds : StopAt <= j
      BY <2>2, <3>2 DEF StopAt
    <3>4. \A i \in 1..Len(socket) : i < StopAt => i \notin Malformeds
      BY <1>1, <3>1, <3>3
    <3> QED  BY <1>1, <3>1, <3>3, <3>4 DEF Malformeds
  <2> QED  BY <2>1, <2>2
<1>3. Fresh => Latest \in Packets
  <2> SUFFICES ASSUME Fresh PROVE socket[StopAt - 1] \in Packets
    BY DEF Latest
  <2>1. StopAt - 1 \in 1..Len(socket) /\ StopAt - 1 < StopAt  BY <1>1, <1>2 DEF Fresh
  <2>2. socket[StopAt - 1] \in Datagram  BY <1>1, <2>1
  <2> QED  BY <1>2, <2>1, <2>2 DEF Datagram
<1>4. Latest \in Packets \cup {NoInput}  BY <1>3 DEF Latest, TypeOK
<1>5. Undrained \in Seq(Datagram) /\ Len(Undrained) <= MaxQueue
  <2> DEFINE m == StopAt + 1
  <2>1. m \in 2..(Len(socket) + 2)  BY <1>1, <1>2
  <2> HIDE DEF m
  <2>2. /\ SubSeq(socket, m, Len(socket)) \in Seq(Datagram)
        /\ Len(SubSeq(socket, m, Len(socket))) <= Len(socket)
    <3>1. m \in Int /\ 1 <= m /\ \A i \in m..Len(socket) : socket[i] \in Datagram
      BY <1>1, <2>1
    <3> QED  BY <1>1, <3>1
  <2> QED  BY <1>1, <2>2 DEF Undrained, m
<1> QED  BY <1>2, <1>3, <1>4, <1>5

-------------------------------------------------------------------------------
(* The writes to the autopilot.                                               *)
Values ==
  Heading \cup BOOLEAN \cup {"below", "at", "above"} \cup ({"lead", "waypoint"} \X Int)

(* A property that is written once has the value written, one that is not     *)
(* written the one it had.                                                    *)
LEMMA AppliedOnce ==
  ASSUME NEW w, NEW p \in Property, NEW i \in DOMAIN w, w[i].prop = p,
         \A j \in DOMAIN w : w[j].prop = p => j = i
  PROVE  Applied(w)[p] = w[i].value
<1> DEFINE hits == {j \in DOMAIN w : w[j].prop = p}
<1>1. hits = {i}  OBVIOUS
<1>2. (CHOOSE j \in hits : TRUE) = i  BY <1>1
<1> QED  BY <1>1, <1>2 DEF Applied

LEMMA AppliedNowhere ==
  ASSUME NEW w, NEW p \in Property, \A j \in DOMAIN w : w[j].prop # p
  PROVE  Applied(w)[p] = ap[p]
<1> DEFINE hits == {j \in DOMAIN w : w[j].prop = p}
<1>1. hits = {}  OBVIOUS
<1> QED  BY <1>1 DEF Applied

LEMMA AppliedValue ==
  ASSUME NEW w, NEW p \in Property, NEW S, ap[p] \in S,
         \A j \in DOMAIN w : w[j].prop = p => w[j].value \in S
  PROVE  Applied(w)[p] \in S
<1> DEFINE hits == {j \in DOMAIN w : w[j].prop = p}
<1>1. CASE hits = {}  BY <1>1 DEF Applied
<1>2. CASE hits # {}
  <2>1. (CHOOSE j \in hits : TRUE) \in hits  BY <1>2
  <2> QED  BY <1>2, <2>1 DEF Applied
<1> QED  BY <1>1, <1>2

(* The inputs to the heading and the offset of a tick are of their types.     *)
LEMMA SetpointTypes ==
  ASSUME TypeOK
  PROVE  /\ ManualHdg \in Heading /\ HdgAtStart \in Heading \cup {Unset}
         /\ OffsetAtStart \in (-MaxAltLead)..MaxAltLead
         /\ ManualOffset \in (-MaxAltLead)..MaxAltLead
         /\ NumWaypoints > 0 => Desired \in Heading
         /\ HdgNext \in Heading \cup {Unset} /\ OffsetNext \in (-MaxAltLead)..MaxAltLead
<1>1. Latest.aileron \in Sign /\ Latest.elevator \in Sign /\ Latest.trim \in Sign
  BY Received, Constants DEF NoInput, Sign
<1>2. HdgAtStart \in Heading \cup {Unset}  BY DEF HdgAtStart, TypeOK
<1>3. OffsetAtStart \in (-MaxAltLead)..MaxAltLead
  BY Constants DEF OffsetAtStart, TypeOK
<1>4. ManualHdg \in Heading
  <2>1. yaw \in Heading  BY DEF TypeOK
  <2>2. ASSUME NEW from \in Heading, NEW delta \in Sign PROVE Lead(from, delta) \in Heading
    <3> DEFINE x == (from + delta + Circle) % Circle
               diff == x - yaw
               wrapped == IF 2 * diff > Circle THEN diff - Circle
                          ELSE IF 2 * diff < -Circle THEN diff + Circle ELSE diff
               lead == Clamp(wrapped, MaxHdgLead)
    <3>1. delta \in Int /\ -Circle <= delta /\ delta <= Circle  BY Constants DEF Sign
    <3>2. x \in Heading  BY <3>1, Turned
    <3> HIDE DEF x
    <3>3. wrapped \in Int  BY <2>1, <3>2, Constants DEF Heading
    <3> HIDE DEF wrapped
    <3>4. lead \in Int /\ -Circle <= lead /\ lead <= Circle
      BY <3>3, Constants DEF Clamp
    <3> HIDE DEF lead
    <3>5. (yaw + lead + Circle) % Circle \in Heading  BY <2>1, <3>4, Turned
    <3> QED  BY <3>5 DEF Lead, lead, wrapped, x
  <2> QED  BY <1>1, <1>2, <2>1, <2>2 DEF ManualHdg
<1>5. ManualOffset \in (-MaxAltLead)..MaxAltLead
  <2>1. OffsetAtStart \in Int  BY <1>3, Constants
  <2> QED  BY <1>1, <2>1, Constants DEF ManualOffset, Clamp, Sign
<1>6. NumWaypoints > 0 => Desired \in Heading
  BY Constants DEF Desired, TypeOK
<1>7. HdgNext \in Heading \cup {Unset}  BY <1>2, <1>4, <1>6 DEF HdgNext
<1>8. OffsetNext \in (-MaxAltLead)..MaxAltLead  BY <1>3, <1>5 DEF OffsetNext
<1> QED  BY <1>2, <1>3, <1>4, <1>5, <1>6, <1>7, <1>8

LEMMA ConcatOf ==
  ASSUME NEW S, NEW a \in Seq(S), NEW b \in Seq(S)
  PROVE  /\ a \o b \in Seq(S) /\ Len(a \o b) = Len(a) + Len(b)
         /\ \A i \in 1..Len(a) : (a \o b)[i] = a[i]
         /\ \A i \in 1..Len(b) : (a \o b)[Len(a) + i] = b[i]
  OBVIOUS

LEMMA Joined ==
  ASSUME NEW S, NEW a \in Seq(S), NEW b \in Seq(S), NEW c \in Seq(S)
  PROVE  Len(a) = 2 /\ Len(b) \in {0, 1} /\ Len(c) = 2 =>
           /\ (a \o b) \o c \in Seq(S) /\ Len((a \o b) \o c) = 4 + Len(b)
           /\ ((a \o b) \o c)[1] = a[1] /\ ((a \o b) \o c)[2] = a[2]
           /\ Len(b) = 1 => ((a \o b) \o c)[3] = b[1]
           /\ ((a \o b) \o c)[3 + Len(b)] = c[1] /\ ((a \o b) \o c)[4 + Len(b)] = c[2]
<1>k. PICK k : k = Len(b)  OBVIOUS
<1>d. PICK d : d = a \o b  OBVIOUS
<1>w. PICK w : w = d \o c  OBVIOUS
<1>1. /\ d \in Seq(S) /\ Len(d) = Len(a) + Len(b)
      /\ \A i \in 1..Len(a) : d[i] = a[i]
      /\ \A i \in 1..Len(b) : d[Len(a) + i] = b[i]
  <2>1. d \in Seq(S) /\ Len(d) = Len(a) + Len(b)  BY <1>d, ConcatOf
  <2>2. \A i \in 1..Len(a) : d[i] = a[i]  BY <1>d, ConcatOf
  <2>3. \A i \in 1..Len(b) : d[Len(a) + i] = b[i]  BY <1>d, ConcatOf
  <2> QED  BY <2>1, <2>2, <2>3
<1>2. /\ w \in Seq(S) /\ Len(w) = Len(d) + Len(c)
      /\ \A i \in 1..Len(d) : w[i] = d[i]
      /\ \A i \in 1..Len(c) : w[Len(d) + i] = c[i]
  <2>1. d \in Seq(S)  BY <1>1
  <2>2. w \in Seq(S) /\ Len(w) = Len(d) + Len(c)  BY <1>w, <2>1, ConcatOf
  <2>3. \A i \in 1..Len(d) : w[i] = d[i]  BY <1>w, <2>1, ConcatOf
  <2>4. \A i \in 1..Len(c) : w[Len(d) + i] = c[i]  BY <1>w, <2>1, ConcatOf
  <2> QED  BY <2>2, <2>3, <2>4
<1>3. ASSUME k \in {0, 1}, Len(a) = 2, Len(b) = k, Len(c) = 2
      PROVE  /\ w \in Seq(S) /\ Len(w) = 4 + k
             /\ w[1] = a[1] /\ w[2] = a[2] /\ (k = 1 => w[3] = b[1])
             /\ w[3 + k] = c[1] /\ w[4 + k] = c[2]
  <2>1. Len(d) = 2 + k /\ Len(w) = 4 + k  BY <1>1, <1>2, <1>3
  <2>2. d[1] = a[1] /\ d[2] = a[2]  BY <1>1, <1>3
  <2>3. k = 1 => d[3] = b[1]
    <3>1. k = 1 => d[Len(a) + 1] = b[1]  BY <1>1, <1>3
    <3> QED  BY <1>3, <3>1
  <2>4. w[1] = d[1] /\ w[2] = d[2] /\ (k = 1 => w[3] = d[3])  BY <1>2, <1>3, <2>1
  <2>5. w[Len(d) + 1] = c[1] /\ w[Len(d) + 2] = c[2]  BY <1>2, <1>3
  <2>6. Len(d) + 1 = 3 + k /\ Len(d) + 2 = 4 + k  BY <1>3, <2>1
  <2>7. w[3 + k] = c[1] /\ w[4 + k] = c[2]  BY <2>5, <2>6
  <2> QED  BY <1>2, <2>1, <2>2, <2>3, <2>4, <2>7
<1> QED  BY <1>3, <1>d, <1>k, <1>w, Zenon

LEMMA Literals ==
  ASSUME NEW S, NEW x1 \in S, NEW x2 \in S, NEW x3 \in S, NEW x4 \in S, NEW x5 \in S,
         NEW x6 \in S
  PROVE  /\ <<x1>> \in Seq(S) /\ <<x1, x2>> \in Seq(S)
         /\ <<x1, x2, x3, x4, x5, x6>> \in Seq(S)
  OBVIOUS

WriteRecord == [prop : Property, value : Values]

(* What each of the two ways of steering writes, in the order it writes it.   *)
LEMMA ManualWritesAre ==
  ASSUME TypeOK
  PROVE  LET w == ManualWrites IN
           /\ w \in Seq(WriteRecord) /\ DOMAIN w = 1..6
           /\ w[1] = Write("hdgSet", ManualHdg)
           /\ \A i \in 1..6 : w[i].prop = "hdgSet" => i = 1
<1> DEFINE w == ManualWrites
<1>1. /\ ManualHdg \in Values /\ TRUE \in Values /\ <<"lead", ManualOffset>> \in Values
      /\ Latest.throttle \in Values
  BY SetpointTypes, Received, Constants DEF Values, NoInput
<1>2. /\ Write("hdgSet", ManualHdg) \in WriteRecord /\ Write("hdgHold", TRUE) \in WriteRecord
      /\ Write("attHold", TRUE) \in WriteRecord /\ Write("altHold", TRUE) \in WriteRecord
      /\ Write("altSet", <<"lead", ManualOffset>>) \in WriteRecord
      /\ Write("throttle", Latest.throttle) \in WriteRecord
  BY <1>1 DEF Write, WriteRecord, Property
<1>3. w \in Seq(WriteRecord)  BY <1>2, Literals, Zenon DEF ManualWrites
<1>4. /\ Len(w) = 6 /\ w[1] = Write("hdgSet", ManualHdg) /\ w[2] = Write("hdgHold", TRUE)
      /\ w[3] = Write("attHold", TRUE) /\ w[4] = Write("altHold", TRUE)
      /\ w[5] = Write("altSet", <<"lead", ManualOffset>>)
      /\ w[6] = Write("throttle", Latest.throttle)
  BY DEF ManualWrites
<1> HIDE DEF w
<1>5. DOMAIN w = 1..6  BY <1>3, <1>4
<1>6. /\ w[1].prop = "hdgSet" /\ w[2].prop = "hdgHold" /\ w[3].prop = "attHold"
      /\ w[4].prop = "altHold" /\ w[5].prop = "altSet" /\ w[6].prop = "throttle"
  BY <1>4 DEF Write
<1>7. \A i \in 1..6 : w[i].prop = "hdgSet" => i = 1  BY <1>6
<1> QED  BY <1>3, <1>4, <1>5, <1>7 DEF w

(* The autopilot writes each hold and the altitude once, and the heading once *)
(* or, when it is suppressed, not at all.                                     *)
LEMMA AutopilotWritesAre ==
  ASSUME TypeOK, NumWaypoints > 0
  PROVE  LET w == AutopilotWrites IN
           /\ w \in Seq(WriteRecord)
           /\ \A i \in DOMAIN w : w[i].prop = "hdgSet" => w[i].value = Desired
           /\ Applied(w)["altHold"] = TRUE /\ Applied(w)["hdgHold"] = TRUE
           /\ Applied(w)["attHold"] = TRUE
           /\ Applied(w)["altSet"] = <<"waypoint", activeWp>>
           /\ Applied(w)["hdgSet"] = IF NeedUpdate THEN Desired ELSE ap["hdgSet"]
<1> DEFINE w == AutopilotWrites
<1>1. activeWp \in Int /\ Desired \in Heading
  BY SetpointTypes, Constants DEF TypeOK, Waypoint
<1>2. /\ TRUE \in Values /\ <<"waypoint", activeWp>> \in Values /\ Desired \in Values
  BY <1>1 DEF Values
<1>3. /\ Write("hdgSet", Desired) \in WriteRecord /\ Write("hdgHold", TRUE) \in WriteRecord
      /\ Write("attHold", TRUE) \in WriteRecord /\ Write("altHold", TRUE) \in WriteRecord
      /\ Write("altSet", <<"waypoint", activeWp>>) \in WriteRecord
  BY <1>2 DEF Write, WriteRecord, Property
<1> DEFINE a == << Write("altHold", TRUE), Write("altSet", <<"waypoint", activeWp>>) >>
           b == IF NeedUpdate THEN << Write("hdgSet", Desired) >> ELSE <<>>
           c == << Write("hdgHold", TRUE), Write("attHold", TRUE) >>
           k == IF NeedUpdate THEN 1 ELSE 0
<1>4. /\ a \in Seq(WriteRecord) /\ Len(a) = 2 /\ a[1] = Write("altHold", TRUE)
      /\ a[2] = Write("altSet", <<"waypoint", activeWp>>)
      /\ c \in Seq(WriteRecord) /\ Len(c) = 2 /\ c[1] = Write("hdgHold", TRUE)
      /\ c[2] = Write("attHold", TRUE)
  <2>1. a \in Seq(WriteRecord) /\ c \in Seq(WriteRecord)  BY <1>3, Literals, Zenon
  <2>2. /\ Len(a) = 2 /\ a[1] = Write("altHold", TRUE)
        /\ a[2] = Write("altSet", <<"waypoint", activeWp>>)
        /\ Len(c) = 2 /\ c[1] = Write("hdgHold", TRUE) /\ c[2] = Write("attHold", TRUE)
    OBVIOUS
  <2> QED  BY <2>1, <2>2
<1>5. b \in Seq(WriteRecord) /\ Len(b) = k /\ (NeedUpdate => b[1] = Write("hdgSet", Desired))
  <2>1. CASE NeedUpdate
    <3>1. b = << Write("hdgSet", Desired) >>  BY <2>1
    <3> HIDE DEF b
    <3> QED  BY <1>3, <2>1, <3>1
  <2>2. CASE ~NeedUpdate
    <3>1. b = <<>>  BY <2>2
    <3> HIDE DEF b
    <3> QED  BY <2>2, <3>1
  <2> QED  BY <2>1, <2>2
<1>6. w = (a \o b) \o c  BY DEF AutopilotWrites
<1>7. k \in {0, 1} /\ (k = 1 <=> NeedUpdate)  OBVIOUS
<1> HIDE DEF a, b, c, k, w
<1>9. /\ w \in Seq(WriteRecord) /\ Len(w) = 4 + k
      /\ w[1] = a[1] /\ w[2] = a[2] /\ (k = 1 => w[3] = b[1])
      /\ w[3 + k] = c[1] /\ w[4 + k] = c[2]
  <2>1. a \in Seq(WriteRecord) /\ b \in Seq(WriteRecord) /\ c \in Seq(WriteRecord)
    BY <1>4, <1>5
  <2>2. Len(a) = 2 /\ Len(b) \in {0, 1} /\ Len(c) = 2 =>
          /\ (a \o b) \o c \in Seq(WriteRecord) /\ Len((a \o b) \o c) = 4 + Len(b)
          /\ ((a \o b) \o c)[1] = a[1] /\ ((a \o b) \o c)[2] = a[2]
          /\ Len(b) = 1 => ((a \o b) \o c)[3] = b[1]
          /\ ((a \o b) \o c)[3 + Len(b)] = c[1] /\ ((a \o b) \o c)[4 + Len(b)] = c[2]
    BY <2>1, Joined
  <2> QED  BY <1>4, <1>5, <1>6, <1>7, <2>2, Zenon
<1>10. DOMAIN w = 1..(4 + k)  BY <1>7, <1>9
<1>11. /\ w[1].prop = "altHold" /\ w[1].value = TRUE
       /\ w[2].prop = "altSet" /\ w[2].value = <<"waypoint", activeWp>>
       /\ k = 1 => w[3].prop = "hdgSet" /\ w[3].value = Desired
       /\ w[3 + k].prop = "hdgHold" /\ w[3 + k].value = TRUE
       /\ w[4 + k].prop = "attHold" /\ w[4 + k].value = TRUE
  BY <1>4, <1>5, <1>7, <1>9 DEF Write
<1>12. \A i \in DOMAIN w : i = 1 \/ i = 2 \/ (k = 1 /\ i = 3) \/ i = 3 + k \/ i = 4 + k
  BY <1>7, <1>10
<1>13. \A i \in DOMAIN w :
         /\ w[i].prop = "altHold" => i = 1
         /\ w[i].prop = "altSet" => i = 2
         /\ w[i].prop = "hdgSet" => k = 1 /\ i = 3
         /\ w[i].prop = "hdgHold" => i = 3 + k
         /\ w[i].prop = "attHold" => i = 4 + k
  BY <1>11, <1>12
<1>14. /\ 1 \in DOMAIN w /\ 2 \in DOMAIN w /\ 3 + k \in DOMAIN w /\ 4 + k \in DOMAIN w
       /\ k = 1 => 3 \in DOMAIN w
  BY <1>7, <1>10
<1>15. /\ "altHold" \in Property /\ "altSet" \in Property /\ "hdgSet" \in Property
       /\ "hdgHold" \in Property /\ "attHold" \in Property
  BY DEF Property
<1>16. Applied(w)["altHold"] = TRUE  BY <1>11, <1>13, <1>14, <1>15, AppliedOnce
<1>17. Applied(w)["hdgHold"] = TRUE  BY <1>11, <1>13, <1>14, <1>15, AppliedOnce
<1>18. Applied(w)["attHold"] = TRUE  BY <1>11, <1>13, <1>14, <1>15, AppliedOnce
<1>19. Applied(w)["altSet"] = <<"waypoint", activeWp>>
  BY <1>11, <1>13, <1>14, <1>15, AppliedOnce
<1>20. Applied(w)["hdgSet"] = IF NeedUpdate THEN Desired ELSE ap["hdgSet"]
  <2>1. CASE NeedUpdate
    BY <1>7, <1>11, <1>13, <1>14, <1>15, <2>1, AppliedOnce
  <2>2. CASE ~NeedUpdate
    BY <1>7, <1>13, <1>15, <2>2, AppliedNowhere
  <2> QED  BY <2>1, <2>2
<1>21. \A i \in DOMAIN w : w[i].prop = "hdgSet" => w[i].value = Desired
  BY <1>11, <1>13
<1> QED  BY <1>9, <1>16, <1>17, <1>18, <1>19, <1>20, <1>21 DEF w

(* Of a tick's writes, the only ones to the heading setpoint are headings.    *)
LEMMA WritesAre ==
  ASSUME TypeOK
  PROVE  /\ Writes \in Seq(WriteRecord)
         /\ \A i \in DOMAIN Writes : Writes[i].prop = "hdgSet" => Writes[i].value \in Heading
<1>1. CASE InSettlePhase \/ (~ManualNext /\ ~(NumWaypoints > 0))
  <2>1. Writes = <<>>  BY <1>1 DEF Writes
  <2> QED  BY <2>1
<1>2. CASE ~InSettlePhase /\ ManualNext
  <2>1. Writes = ManualWrites  BY <1>2 DEF Writes
  <2>2. /\ ManualWrites \in Seq(WriteRecord) /\ DOMAIN ManualWrites = 1..6
        /\ ManualWrites[1] = Write("hdgSet", ManualHdg)
        /\ \A i \in 1..6 : ManualWrites[i].prop = "hdgSet" => i = 1
    BY ManualWritesAre, Zenon
  <2>3. Write("hdgSet", ManualHdg).value = ManualHdg  BY DEF Write
  <2>4. ManualHdg \in Heading  BY SetpointTypes
  <2> QED  BY <2>1, <2>2, <2>3, <2>4, Zenon
<1>3. CASE ~InSettlePhase /\ ~ManualNext /\ NumWaypoints > 0
  <2>1. Writes = AutopilotWrites  BY <1>3 DEF Writes
  <2>2. /\ AutopilotWrites \in Seq(WriteRecord)
        /\ \A i \in DOMAIN AutopilotWrites :
             AutopilotWrites[i].prop = "hdgSet" => AutopilotWrites[i].value = Desired
    BY <1>3, AutopilotWritesAre, Zenon
  <2>3. Desired \in Heading  BY <1>3, SetpointTypes
  <2> QED  BY <2>1, <2>2, <2>3, Zenon
<1> QED  BY <1>1, <1>2, <1>3

(* After the writes JSBSim has the heading that is remembered.                *)
LEMMA SetpointFollows ==
  ASSUME TypeOK, SuppressionIsSound, pc = "controls"
  PROVE  /\ HdgNext # Unset => Applied(Writes)["hdgSet"] = HdgNext
         /\ HdgAtStart # Unset => ap["hdgSet"] = HdgAtStart
         /\ ~InSettlePhase /\ ManualNext => Applied(Writes)["hdgSet"] = ManualHdg
<1>1. HdgAtStart # Unset => ap["hdgSet"] = HdgAtStart
  BY DEF HdgAtStart, SuppressionIsSound
<1>2. "hdgSet" \in Property  BY DEF Property
<1>3. CASE InSettlePhase \/ (~ManualNext /\ ~(NumWaypoints > 0))
  <2>1. Writes = <<>> /\ HdgNext = HdgAtStart  BY <1>3 DEF Writes, HdgNext
  <2>2. \A j \in DOMAIN Writes : Writes[j].prop # "hdgSet"  BY <2>1
  <2>3. Applied(Writes)["hdgSet"] = ap["hdgSet"]  BY <1>2, <2>2, AppliedNowhere
  <2> QED  BY <1>1, <1>3, <2>1, <2>3
<1>4. CASE ~InSettlePhase /\ ManualNext
  <2>1. Writes = ManualWrites /\ HdgNext = ManualHdg  BY <1>4 DEF Writes, HdgNext
  <2>2. /\ DOMAIN ManualWrites = 1..6 /\ ManualWrites[1] = Write("hdgSet", ManualHdg)
        /\ \A i \in 1..6 : ManualWrites[i].prop = "hdgSet" => i = 1
    BY ManualWritesAre, Zenon
  <2>3. ManualWrites[1].prop = "hdgSet" /\ ManualWrites[1].value = ManualHdg
    BY <2>2 DEF Write
  <2>4. 1 \in DOMAIN ManualWrites  BY <2>2
  <2>5. \A j \in DOMAIN ManualWrites : ManualWrites[j].prop = "hdgSet" => j = 1
    BY <2>2, Zenon
  <2>6. Applied(ManualWrites)["hdgSet"] = ManualHdg
    BY <1>2, <2>3, <2>4, <2>5, AppliedOnce
  <2> QED  BY <1>1, <2>1, <2>6
<1>5. CASE ~InSettlePhase /\ ~ManualNext /\ NumWaypoints > 0
  <2>1. Writes = AutopilotWrites  BY <1>5 DEF Writes
  <2>2. Applied(AutopilotWrites)["hdgSet"] = IF NeedUpdate THEN Desired ELSE ap["hdgSet"]
    BY <1>5, AutopilotWritesAre, Zenon
  <2>3. HdgNext = IF NeedUpdate THEN Desired ELSE HdgAtStart  BY <1>5 DEF HdgNext
  <2> QED  BY <1>1, <1>5, <2>1, <2>2, <2>3
<1> QED  BY <1>3, <1>4, <1>5

-------------------------------------------------------------------------------
(* The invariant.                                                             *)
LEMMA InitInv == Init => Inv
<1> SUFFICES ASSUME Init PROVE Inv
  OBVIOUS
<1>1. TypeOK
  <2>1. 0 \in (-MaxAltLead)..MaxAltLead /\ Timeout + 1 \in 0..(Timeout + 1)
        /\ SettleTicks \in 0..SettleTicks
    BY Constants
  <2>2. <<>> \in Seq(Datagram) /\ Len(<<>>) <= MaxQueue  BY Constants
  <2>3. NumWaypoints > 0 => 0 \in Waypoint  BY Constants DEF Waypoint
  <2>4. DOMAIN ap = Property /\ ap["hdgSet"] = Unset  BY DEF Init, Property
  <2> QED  BY <2>1, <2>2, <2>3, <2>4 DEF Init, TypeOK
<1>2. SuppressionIsSound  BY DEF Init, SuppressionIsSound
<1>3. AutopilotTracks  BY DEF Init, AutopilotTracks
<1>4. NoOffsetOutsideManual  BY DEF Init, NoOffsetOutsideManual
<1> QED  BY <1>1, <1>2, <1>3, <1>4 DEF Inv

LEMMA ReceiveTypes ==
  ASSUME TypeOK, Receive
  PROVE  /\ socket' \in Seq(Datagram) /\ Len(socket') <= MaxQueue
         /\ age' \in 0..(Timeout + 1) /\ input' \in Packets \cup {NoInput}
         /\ manual' \in BOOLEAN
<1>1. socket' \in Seq(Datagram) /\ Len(socket') <= MaxQueue
  BY Received DEF Receive
<1>2. age' \in 0..(Timeout + 1)
  BY Constants DEF Receive, AgeAfterReceive, TypeOK
<1>3. input' \in Packets \cup {NoInput}  BY Received DEF Receive
<1>4. manual' \in BOOLEAN
  BY DEF Receive, ManualNext, TypeOK, Engages, Disengages, Fresh
<1> QED  BY <1>1, <1>2, <1>3, <1>4

LEMMA TypeStep == TypeOK /\ [Next]_vars => TypeOK'
<1> SUFFICES ASSUME TypeOK, [Next]_vars PROVE TypeOK'
  OBVIOUS
<1>0. NumWaypoints > 0 => activeWp \in Waypoint  BY DEF TypeOK
<1>1. ASSUME NEW d \in Datagram, Arrive(d) PROVE TypeOK'
  <2>1. socket' \in Seq(Datagram) /\ Len(socket') = Len(socket) + 1
    BY <1>1 DEF Arrive, TypeOK
  <2>2. Len(socket') <= MaxQueue
    <3>1. Len(socket) \in Nat /\ MaxQueue \in Nat /\ Len(socket) < MaxQueue
      BY <1>1, Constants DEF Arrive, TypeOK
    <3> QED  BY <2>1, <3>1
  <2> QED  BY <1>1, <2>1, <2>2 DEF Arrive, TypeOK, linkVars, stateVars
<1>2. CASE LoseLink
  BY <1>2 DEF LoseLink, TypeOK, stateVars
<1>3. CASE WallClock
  <2>1. age' \in 0..(Timeout + 1)  BY <1>3, Constants DEF WallClock, TypeOK
  <2> QED  BY <1>3, <2>1 DEF WallClock, TypeOK, linkVars, stateVars
<1>4. CASE Control
  <2>1. /\ socket' \in Seq(Datagram) /\ Len(socket') <= MaxQueue
        /\ age' \in 0..(Timeout + 1) /\ input' \in Packets \cup {NoInput}
        /\ manual' \in BOOLEAN
    BY <1>4, ReceiveTypes DEF Control
  <2>2. lastHdg' \in Heading \cup {Unset} /\ altOffset' \in (-MaxAltLead)..MaxAltLead
    BY <1>4, SetpointTypes DEF Control
  <2>3. ap' = Applied(Writes)  BY <1>4 DEF Control
  <2>4. DOMAIN ap' = Property  BY <2>3 DEF Applied
  <2>5. ap'["hdgSet"] \in Heading \cup {Unset}
    <3>1. ap["hdgSet"] \in Heading \cup {Unset} /\ "hdgSet" \in Property
      BY DEF TypeOK, Property
    <3>2. \A j \in DOMAIN Writes :
            Writes[j].prop = "hdgSet" => Writes[j].value \in Heading \cup {Unset}
      BY WritesAre
    <3> QED  BY <2>3, <3>1, <3>2, AppliedValue
  <2> QED  BY <1>4, <2>1, <2>2, <2>4, <2>5 DEF Control, TypeOK, linkVars, stateVars
<1>5. CASE ControlFails
  <2>1. /\ socket' \in Seq(Datagram) /\ Len(socket') <= MaxQueue
        /\ age' \in 0..(Timeout + 1) /\ input' \in Packets \cup {NoInput}
        /\ manual' \in BOOLEAN
    BY <1>5, ReceiveTypes DEF ControlFails
  <2>2. lastHdg' \in Heading \cup {Unset} /\ altOffset' \in (-MaxAltLead)..MaxAltLead
    BY <1>5, SetpointTypes DEF ControlFails
  <2>3. PICK n \in 0..(Len(Writes) - 1), taken \in {0, 1} :
          ap' = Applied(SubSeq(Writes, 1, n + taken))
    BY <1>5 DEF ControlFails
  <2> DEFINE w == SubSeq(Writes, 1, n + taken)
  <2>4. DOMAIN ap' = Property  BY <2>3 DEF Applied
  <2>5. \A j \in DOMAIN w : j \in DOMAIN Writes /\ w[j] = Writes[j]
    <3>1. Writes \in Seq(WriteRecord)  BY WritesAre
    <3>2. n + taken \in 0..Len(Writes)  BY <3>1
    <3> QED  BY <3>1, <3>2
  <2>6. ap'["hdgSet"] \in Heading \cup {Unset}
    <3>1. ap["hdgSet"] \in Heading \cup {Unset} /\ "hdgSet" \in Property
      BY DEF TypeOK, Property
    <3>2. \A j \in DOMAIN Writes : Writes[j].prop = "hdgSet" => Writes[j].value \in Heading
      BY WritesAre
    <3> HIDE DEF w
    <3>3. \A j \in DOMAIN w : w[j].prop = "hdgSet" => w[j].value \in Heading \cup {Unset}
      BY <2>5, <3>2
    <3>4. ap' = Applied(w)  BY <2>3 DEF w
    <3> QED  BY <3>1, <3>3, <3>4, AppliedValue
  <2> QED  BY <1>5, <2>1, <2>2, <2>4, <2>6 DEF ControlFails, TypeOK, linkVars, stateVars
<1>6. CASE StepAndRead
  <2>1. yaw' \in Heading
    <3>1. PICK turn \in Sign : yaw' = (yaw + turn + Circle) % Circle
      BY <1>6 DEF StepAndRead
    <3>2. turn \in Int /\ -Circle <= turn /\ turn <= Circle  BY Constants DEF Sign
    <3>3. yaw \in Heading  BY DEF TypeOK
    <3> QED  BY <3>1, <3>2, <3>3, Turned
  <2>2. NumWaypoints > 0 => activeWp' \in Waypoint
    BY <1>0, <1>6, Constants DEF StepAndRead, Waypoint
  <2>3. settleLeft' \in 0..SettleTicks
    BY <1>6, Constants DEF StepAndRead, InSettlePhase, TypeOK
  <2> QED  BY <1>6, <2>1, <2>2, <2>3 DEF StepAndRead, TypeOK, linkVars
<1>7. CASE StepOrReadFails
  BY <1>7 DEF StepOrReadFails, TypeOK, linkVars, stateVars
<1>8. CASE UNCHANGED vars
  BY <1>8 DEF vars, TypeOK, linkVars, stateVars
<1> QED  BY <1>1, <1>2, <1>3, <1>4, <1>5, <1>6, <1>7, <1>8 DEF Next, Tick

LEMMA SuppressionStep ==
  TypeOK /\ SuppressionIsSound /\ [Next]_vars => SuppressionIsSound'
<1> SUFFICES ASSUME TypeOK, SuppressionIsSound, [Next]_vars PROVE SuppressionIsSound'
  OBVIOUS
<1>1. CASE Control
  <2>1. pc = "controls" /\ lastHdg' = HdgNext /\ ap' = Applied(Writes)
    BY <1>1 DEF Control
  <2>2. HdgNext # Unset => Applied(Writes)["hdgSet"] = HdgNext  BY <2>1, SetpointFollows
  <2> QED  BY <2>1, <2>2 DEF SuppressionIsSound
<1>2. CASE ControlFails \/ StepOrReadFails
  BY <1>2 DEF ControlFails, StepOrReadFails, SuppressionIsSound
<1>3. CASE (\E d \in Datagram : Arrive(d)) \/ LoseLink \/ WallClock \/ UNCHANGED vars
  BY <1>3 DEF Arrive, LoseLink, WallClock, vars, SuppressionIsSound
<1>4. CASE StepAndRead
  BY <1>4 DEF StepAndRead, SuppressionIsSound
<1> QED  BY <1>1, <1>2, <1>3, <1>4 DEF Next, Tick

LEMMA NoArcToItself == \A h \in Heading : Apart(h, h) = 0
<1> SUFFICES ASSUME NEW h \in Heading PROVE Apart(h, h) = 0
  OBVIOUS
<1>1. h \in Nat /\ Circle \in Nat  BY Constants DEF Heading
<1> QED  BY <1>1 DEF Apart

LEMMA TracksStep ==
  TypeOK /\ SuppressionIsSound /\ AutopilotTracks /\ [Next]_vars => AutopilotTracks'
<1> SUFFICES ASSUME TypeOK, SuppressionIsSound, AutopilotTracks, [Next]_vars
             PROVE AutopilotTracks'
  OBVIOUS
<1>1. CASE Control
  <2> SUFFICES ASSUME ~manual', ~InSettlePhase', NumWaypoints > 0
               PROVE  /\ ap'["hdgHold"] = TRUE /\ ap'["attHold"] = TRUE
                      /\ ap'["altHold"] = TRUE
                      /\ ap'["altSet"] = <<"waypoint", activeWp'>>
                      /\ Apart(Desired', ap'["hdgSet"]) <= HdgTolerance
    BY DEF AutopilotTracks
  <2>1. /\ pc = "controls" /\ ap' = Applied(Writes) /\ manual' = ManualNext
        /\ activeWp' = activeWp /\ pos' = pos /\ settleLeft' = settleLeft
    BY <1>1 DEF Control, Receive, stateVars
  <2>2. ~InSettlePhase /\ ~ManualNext /\ Desired' = Desired
    BY <2>1 DEF InSettlePhase, Desired
  <2>3. ap' = Applied(AutopilotWrites)  BY <2>1, <2>2 DEF Writes
  <2>4. /\ Applied(AutopilotWrites)["altHold"] = TRUE
        /\ Applied(AutopilotWrites)["hdgHold"] = TRUE
        /\ Applied(AutopilotWrites)["attHold"] = TRUE
        /\ Applied(AutopilotWrites)["altSet"] = <<"waypoint", activeWp>>
        /\ Applied(AutopilotWrites)["hdgSet"] = IF NeedUpdate THEN Desired ELSE ap["hdgSet"]
    BY AutopilotWritesAre, Zenon
  <2>5. Apart(Desired, ap'["hdgSet"]) <= HdgTolerance
    <3>1. CASE NeedUpdate
      <4>1. ap'["hdgSet"] = Desired  BY <2>3, <2>4, <3>1
      <4>2. Apart(Desired, Desired) = 0  BY SetpointTypes, NoArcToItself
      <4>3. Apart(Desired, ap'["hdgSet"]) = 0  BY <4>1, <4>2
      <4> QED  BY <4>3, Constants
    <3>2. CASE ~NeedUpdate
      <4>1. HdgAtStart # Unset /\ ~(Apart(Desired, HdgAtStart) > HdgTolerance)
        BY <3>2 DEF NeedUpdate
      <4>2. ap'["hdgSet"] = HdgAtStart  BY <2>1, <2>3, <2>4, <3>2, <4>1, SetpointFollows
      <4>3. Apart(Desired, HdgAtStart) \in Int
        <5>1. /\ Desired \in Int /\ HdgAtStart \in Int /\ Circle \in Int
          BY <4>1, SetpointTypes, Constants DEF Heading
        <5> QED  BY <5>1 DEF Apart
      <4>4. Apart(Desired, HdgAtStart) <= HdgTolerance  BY <4>1, <4>3, Constants
      <4> QED  BY <4>2, <4>4
    <3> QED  BY <3>1, <3>2
  <2> QED  BY <2>1, <2>2, <2>3, <2>4, <2>5
<1>2. CASE ControlFails \/ StepAndRead \/ StepOrReadFails
  BY <1>2 DEF ControlFails, StepAndRead, StepOrReadFails, AutopilotTracks
<1>3. CASE (\E d \in Datagram : Arrive(d)) \/ LoseLink
  BY <1>3 DEF Arrive, LoseLink, AutopilotTracks
<1>4. CASE WallClock \/ UNCHANGED vars
  <2>1. UNCHANGED <<pc, manual, stateVars, ap>>
    BY <1>4 DEF WallClock, vars
  <2> QED  BY <2>1 DEF AutopilotTracks, stateVars, InSettlePhase, Desired
<1> QED  BY <1>1, <1>2, <1>3, <1>4 DEF Next, Tick

LEMMA OffsetStep ==
  NoOffsetOutsideManual /\ [Next]_vars => NoOffsetOutsideManual'
<1> SUFFICES ASSUME NoOffsetOutsideManual, [Next]_vars PROVE NoOffsetOutsideManual'
  OBVIOUS
<1>1. CASE Control
  <2> SUFFICES ASSUME ~manual' PROVE altOffset' = 0
    BY DEF NoOffsetOutsideManual
  <2>1. pc = "controls" /\ ~ManualNext /\ altOffset' = OffsetAtStart
    BY <1>1 DEF Control, Receive, OffsetNext
  <2>2. CASE Disengages
    BY <2>1, <2>2 DEF OffsetAtStart
  <2>3. CASE ~Disengages
    <3>1. ~manual  BY <2>1, <2>3 DEF ManualNext
    <3> QED  BY <2>1, <2>3, <3>1 DEF OffsetAtStart, NoOffsetOutsideManual
  <2> QED  BY <2>2, <2>3
<1>2. CASE ControlFails \/ StepOrReadFails
  BY <1>2 DEF ControlFails, StepOrReadFails, NoOffsetOutsideManual
<1>3. CASE (\E d \in Datagram : Arrive(d)) \/ LoseLink \/ WallClock \/ UNCHANGED vars
  BY <1>3 DEF Arrive, LoseLink, WallClock, vars, NoOffsetOutsideManual
<1>4. CASE StepAndRead
  BY <1>4 DEF StepAndRead, NoOffsetOutsideManual
<1> QED  BY <1>1, <1>2, <1>3, <1>4 DEF Next, Tick

(* The invariant holds in every state.                                        *)
THEOREM Invariance == Spec => []Inv
<1>1. Inv /\ [Next]_vars => Inv'
  BY TypeStep, SuppressionStep, TracksStep, OffsetStep DEF Inv
<1> QED  BY <1>1, InitInv, PTL DEF Spec

(* Whatever FlightGear sends, what is remembered and what JSBSim is told stay *)
(* on the circle and within the bounds of the leads (the closure's variables  *)
(* and state.fg_* in run_internal).                                           *)
THEOREM TypeCorrect == Spec => []TypeOK
<1>1. Inv => TypeOK  BY DEF Inv
<1> QED  BY <1>1, Invariance, PTL

(* A heading update is only suppressed against the setpoint JSBSim really     *)
(* has (last_hdg_setpoint in run_internal).                                   *)
THEOREM SuppressionIsSoundHolds == Spec => []SuppressionIsSound
<1>1. Inv => SuppressionIsSound  BY DEF Inv
<1> QED  BY <1>1, Invariance, PTL

(* With the autopilot in charge, JSBSim holds the active waypoint's altitude  *)
(* and a heading within the tolerance of its bearing (the autopilot branch of *)
(* run_internal).                                                             *)
THEOREM AutopilotTracksHolds == Spec => []AutopilotTracks
<1>1. Inv => AutopilotTracks  BY DEF Inv
<1> QED  BY <1>1, Invariance, PTL

(* No altitude offset survives a manual session (manual_alt_offset_m in       *)
(* run_internal).                                                             *)
THEOREM NoOffsetOutsideManualHolds == Spec => []NoOffsetOutsideManual
<1>1. Inv => NoOffsetOutsideManual  BY DEF Inv
<1> QED  BY <1>1, Invariance, PTL

LEMMA NearestStep ==
  ASSUME Inv, Control, ManualNext, ~InSettlePhase
  PROVE  LET from == IF HdgAtStart = Unset THEN yaw ELSE HdgAtStart
             asked == IF Latest.aileron = 0 THEN yaw
                      ELSE (from + Latest.aileron + Circle) % Circle
             allowed == {h \in Heading : Apart(h, yaw) <= MaxHdgLead}
         IN /\ ap'["hdgSet"] \in allowed
            /\ \A h \in allowed : Apart(ap'["hdgSet"], asked) <= Apart(h, asked)
<1> DEFINE from == IF HdgAtStart = Unset THEN yaw ELSE HdgAtStart
           turned == (from + Latest.aileron + Circle) % Circle
           asked == IF Latest.aileron = 0 THEN yaw ELSE turned
           h == ap'["hdgSet"]
<1>1. TypeOK /\ SuppressionIsSound  BY DEF Inv
<1>2. h = ManualHdg
  <2>1. pc = "controls" /\ ap' = Applied(Writes)  BY DEF Control
  <2> QED  BY <1>1, <2>1, SetpointFollows
<1>3. /\ yaw \in Heading /\ from \in Heading /\ ManualHdg \in Heading
  BY <1>1, SetpointTypes DEF TypeOK
<1>4. Latest.aileron \in Sign
  BY <1>1, Received, Constants DEF NoInput, Sign
<1>5. CASE Latest.aileron = 0
  <2>1. h = yaw /\ asked = yaw  BY <1>2, <1>5 DEF ManualHdg
  <2>2. Apart(yaw, yaw) = 0  BY <1>3, NoArcToItself
  <2>3. \A g \in Heading : 0 <= Apart(g, yaw)
    <3>1. ASSUME NEW g \in Heading PROVE 0 <= Apart(g, yaw)
      <4>1. /\ g \in Nat /\ yaw \in Nat /\ Circle \in Nat /\ g < Circle /\ yaw < Circle
        BY <1>3, Constants DEF Heading
      <4> QED  BY <4>1 DEF Apart
    <3> QED  BY <3>1
  <2>4. 0 <= MaxHdgLead  BY Constants
  <2> HIDE DEF asked, h
  <2>5. h \in Heading /\ Apart(h, yaw) <= MaxHdgLead
    BY <1>3, <2>1, <2>2, <2>4
  <2>6. \A g \in Heading : Apart(h, asked) <= Apart(g, asked)
    BY <2>1, <2>2, <2>3
  <2> QED  BY <2>5, <2>6 DEF asked, h
<1>6. CASE Latest.aileron # 0
  <2> DEFINE diff == turned - yaw
             wrapped == IF 2 * diff > Circle THEN diff - Circle
                        ELSE IF 2 * diff < -Circle THEN diff + Circle ELSE diff
             lead == Clamp(wrapped, MaxHdgLead)
  <2>1. h = (yaw + lead + Circle) % Circle
    BY <1>2, <1>6 DEF ManualHdg, Lead
  <2>2. turned \in Heading
    <3>1. Latest.aileron \in Int /\ -Circle <= Latest.aileron /\ Latest.aileron <= Circle
      BY <1>4, Constants DEF Sign
    <3> HIDE DEF from
    <3> QED  BY <1>3, <3>1, Turned
  <2>3. h \in Heading  BY <1>2, <1>3
  <2>4. asked = turned  BY <1>6
  <2> HIDE DEF turned, from, h, asked
  <2>5. lead \in Int
    <3>1. diff \in Int  BY <1>3, <2>2, Constants DEF Heading
    <3> HIDE DEF diff
    <3>2. wrapped \in Int  BY <3>1, Constants
    <3> HIDE DEF wrapped
    <3> QED  BY <3>2, Constants DEF Clamp
  <2>6. lead = Clamp(wrapped, MaxHdgLead)  OBVIOUS
  <2>7. /\ Apart(h, yaw) <= MaxHdgLead
        /\ \A g \in Heading : Apart(g, yaw) <= MaxHdgLead => Apart(h, turned) <= Apart(g, turned)
    BY <1>3, <2>1, <2>2, <2>3, <2>5, LeadIsNearest
  <2> QED  BY <2>3, <2>4, <2>7 DEF h, asked, turned, from
<1> QED  BY <1>5, <1>6

(* In manual flight the setpoint is, of the headings within max_lead of the   *)
(* actual one, the nearest to what the stick asks for, across north as well   *)
(* (the manual branch of run_internal).                                       *)
THEOREM ManualHeadingIsNearestHolds == Spec => ManualHeadingIsNearest
<1> DEFINE Nearest ==
      pc = "controls" /\ pc' = "step" /\ manual' /\ ~InSettlePhase =>
       LET from == IF HdgAtStart = Unset THEN yaw ELSE HdgAtStart
           asked == IF Latest.aileron = 0 THEN yaw
                    ELSE (from + Latest.aileron + Circle) % Circle
           allowed == {h \in Heading : Apart(h, yaw) <= MaxHdgLead}
       IN /\ ap'["hdgSet"] \in allowed
          /\ \A h \in allowed : Apart(ap'["hdgSet"], asked) <= Apart(h, asked)
<1>1. Inv /\ [Next]_vars => [Nearest]_vars
  <2> SUFFICES ASSUME Inv, Next, pc = "controls", pc' = "step", manual', ~InSettlePhase
               PROVE  Nearest
    OBVIOUS
  <2>1. Control
    BY DEF Next, Tick, Arrive, LoseLink, WallClock, ControlFails, StepAndRead, StepOrReadFails
  <2>2. ManualNext  BY <2>1 DEF Control, Receive
  <2> QED  BY <2>1, <2>2, NearestStep, Zenon
<1> QED  BY <1>1, Invariance, PTL DEF Spec, ManualHeadingIsNearest
================================================================================
