--------------------------- MODULE ExternalStepProofs ---------------------------
(***************************************************************************)
(* What externally stepped execution promises, for every set of commands,  *)
(* every dt and its rounding, and any number of requests.                  *)
(***************************************************************************)
EXTENDS ExternalStep, TLAPS

Increasing(s) == \A i, j \in 1..Len(s) : i < j => s[i] < s[j]
Below(r, s) == \A i \in 1..Len(s) : r < s[i]
AllBelow(s, t) == \A i \in 1..Len(s) : Below(s[i], t)
Posted(r) == r \in 1..Len(posted)
Executed(r) == \E i \in DOMAIN executed : executed[i] = r
InHand == mainPc \in {"handle", "reply"}

(* A request passes through the backlog, the channel and the main thread's    *)
(* hand in the order of its number: whoever is further on has a lower one.    *)
OrderInv ==
  /\ Increasing(backlog) /\ Increasing(channel) /\ Increasing(executed)
  /\ \A i \in 1..Len(backlog) : Posted(backlog[i])
  /\ \A i \in 1..Len(channel) : Posted(channel[i])
  /\ \A i \in 1..Len(executed) : Posted(executed[i])
  /\ AllBelow(channel, backlog)
  /\ AllBelow(executed, channel) /\ AllBelow(executed, backlog)
  /\ InHand => Posted(current) /\ Below(current, channel) /\ Below(current, backlog)
  /\ mainPc = "handle" => \A i \in 1..Len(executed) : executed[i] < current
  /\ adminPc = "await" => Posted(awaited) /\ Below(awaited, backlog)

(* Only what was parsed goes down the channel.                                *)
ParsedInv ==
  /\ \A i \in 1..Len(channel) : posted[channel[i]] \in Commands
  /\ InHand => posted[current] \in Commands

(* What each executed request was validated against.                          *)
StampAt(i) == ((i - 1) * DtNs) \div NsPerUs + DtUs

ExecutedInv ==
  /\ Len(executed) = localTick
  /\ elapsedNs = localTick * DtNs
  /\ localTick > 0 => timeline # NoLine
  /\ \A i \in 1..Len(executed) :
       /\ posted[executed[i]] \in Commands
       /\ posted[executed[i]].tick = i
       /\ posted[executed[i]].line = timeline
       /\ posted[executed[i]].t = StampAt(i)

(* What is known of a request by where it is: nothing has been said to or of  *)
(* one that was not forwarded yet, nothing definite to one not handled yet.   *)
AnswerInv ==
  /\ \A r \in Request : r > Len(posted) => answer[r] = 0 /\ completion[r] = "empty"
  /\ \A i \in 1..Len(backlog) :
       answer[backlog[i]] = 0 /\ completion[backlog[i]] = "empty"
  /\ \A i \in 1..Len(channel) :
       answer[channel[i]] \in {0, 504} /\ completion[channel[i]] = "empty"
  /\ InHand => completion[current] = "empty"
  /\ mainPc = "handle" => answer[current] \in {0, 504}
  /\ mainPc = "reply" => (verdict = "ok" <=> Executed(current))
  /\ \A r \in Request :
       /\ completion[r] = "ok" => Executed(r)
       /\ completion[r] = "err" => ~Executed(r)
  /\ adminPc = "await" => answer[awaited] = 0

Inv == TypeOK /\ OrderInv /\ ParsedInv /\ ExecutedInv /\ AnswerInv

-------------------------------------------------------------------------------
(* Sequences by their elements.                                               *)
LEMMA TailOf ==
  ASSUME NEW S, NEW s \in Seq(S), s # <<>>
  PROVE  /\ Len(s) \in Nat /\ Len(s) >= 1 /\ 1 \in 1..Len(s)
         /\ Head(s) = s[1] /\ Head(s) \in S
         /\ Tail(s) \in Seq(S) /\ Len(Tail(s)) = Len(s) - 1
         /\ \A i \in 1..Len(Tail(s)) : i + 1 \in 1..Len(s) /\ Tail(s)[i] = s[i + 1]
  OBVIOUS

LEMMA AppendOf ==
  ASSUME NEW S, NEW s \in Seq(S), NEW x \in S
  PROVE  /\ Append(s, x) \in Seq(S) /\ Len(Append(s, x)) = Len(s) + 1 /\ Len(s) \in Nat
         /\ \A i \in 1..Len(s) : Append(s, x)[i] = s[i]
         /\ Append(s, x)[Len(s) + 1] = x
         /\ \A i \in 1..Len(Append(s, x)) : i \in 1..Len(s) \/ i = Len(s) + 1
  OBVIOUS

(* An increasing sequence stays so without its head, which is below the rest, *)
(* and with one more element that is above it.                                *)
LEMMA IncreasingTail ==
  ASSUME NEW s \in Seq(Request), s # <<>>, Increasing(s)
  PROVE  Increasing(Tail(s)) /\ Below(Head(s), Tail(s))
<1>1. \A i \in 1..Len(Tail(s)) : i + 1 \in 1..Len(s) /\ Tail(s)[i] = s[i + 1]  BY TailOf
<1>2. Len(s) \in Nat /\ 1 \in 1..Len(s) /\ Head(s) = s[1]  BY TailOf
<1>3. Increasing(Tail(s))
  <2> SUFFICES ASSUME NEW i \in 1..Len(Tail(s)), NEW j \in 1..Len(Tail(s)), i < j
               PROVE  Tail(s)[i] < Tail(s)[j]
    BY DEF Increasing
  <2>1. i + 1 < j + 1  OBVIOUS
  <2> QED  BY <1>1, <2>1 DEF Increasing
<1>4. Below(Head(s), Tail(s))
  <2> SUFFICES ASSUME NEW i \in 1..Len(Tail(s)) PROVE s[1] < Tail(s)[i]
    BY <1>2 DEF Below
  <2>1. 1 < i + 1  OBVIOUS
  <2> QED  BY <1>1, <1>2, <2>1 DEF Increasing
<1> QED  BY <1>3, <1>4

LEMMA IncreasingAppend ==
  ASSUME NEW s \in Seq(Request), NEW r \in Request, Increasing(s),
         \A i \in 1..Len(s) : s[i] < r
  PROVE  Increasing(Append(s, r))
<1>1. Append(s, r) \in Seq(Request) /\ Len(Append(s, r)) = Len(s) + 1 /\ Len(s) \in Nat
      /\ (\A i \in 1..Len(s) : Append(s, r)[i] = s[i]) /\ Append(s, r)[Len(s) + 1] = r
  BY AppendOf
<1> SUFFICES ASSUME NEW i \in 1..Len(Append(s, r)), NEW j \in 1..Len(Append(s, r)), i < j
             PROVE  Append(s, r)[i] < Append(s, r)[j]
  BY DEF Increasing
<1>2. i \in 1..Len(s)  BY <1>1
<1>3. CASE j \in 1..Len(s)  BY <1>1, <1>2, <1>3 DEF Increasing
<1>4. CASE j = Len(s) + 1  BY <1>1, <1>2, <1>4
<1> QED  BY <1>1, <1>3, <1>4

-------------------------------------------------------------------------------
(* The constants, without what relates dt to its rounding.                    *)
LEMMA Constants ==
  /\ Commands \subseteq [line : Lines, tick : Nat, t : Nat, dt : Nat, epochOk : BOOLEAN]
  /\ Garbage \notin Commands /\ NoLine \notin Lines
  /\ MaxRequests \in Nat /\ DtNs \in Nat /\ DtUs \in Nat
  BY ExternalStepAssumption

LEMMA InitInv == Init => Inv
<1> SUFFICES ASSUME Init PROVE Inv
  OBVIOUS
<1> USE Constants DEF Init
<1>1. TypeOK
  BY DEF TypeOK, Request
<1>2. OrderInv /\ ParsedInv
  BY DEF OrderInv, ParsedInv, Increasing, Below, AllBelow, InHand
<1>3. ExecutedInv /\ AnswerInv
  BY DEF ExecutedInv, AnswerInv, InHand
<1> QED  BY <1>1, <1>2, <1>3 DEF Inv

(* The request the main thread or the admin thread has in hand is one.        *)
LEMMA InHandIsRequest ==
  ASSUME TypeOK, OrderInv
  PROVE  /\ InHand => current \in Request
         /\ adminPc = "await" => awaited \in Request
         /\ \A r \in Nat : Posted(r) => r \in Request
         /\ \A r : Posted(r) => r \in Request
  BY Constants DEF TypeOK, OrderInv, Posted, Request

LEMMA TypeStep == TypeOK /\ OrderInv /\ ParsedInv /\ [Next]_vars => TypeOK'
<1> SUFFICES ASSUME TypeOK, OrderInv, ParsedInv, [Next]_vars PROVE TypeOK'
  OBVIOUS
<1> USE Constants DEF TypeOK, adminVars, mainVars, simVars
<1>0. /\ InHand => current \in Request
      /\ adminPc = "await" => awaited \in Request
  BY InHandIsRequest
<1>1. ASSUME NEW body \in Commands \cup {Garbage}, Post(body) PROVE TypeOK'
  <2>1. Len(posted) + 1 \in Request  BY <1>1 DEF Post, Request
  <2>2. posted' \in Seq(Commands \cup {Garbage}) /\ Len(posted') <= MaxRequests
    BY <1>1, AppendOf DEF Post
  <2>3. backlog' \in Seq(Request)  BY <1>1, <2>1, AppendOf DEF Post
  <2> QED  BY <1>1, <2>2, <2>3 DEF Post
<1>2. CASE CtrlC \/ Bind \/ ProcessEnds \/ RecvNothing
  <2>1. CASE CtrlC  BY ZenonT(30), <2>1 DEF CtrlC
  <2>2. CASE Bind  BY <2>2 DEF Bind
  <2>3. CASE ProcessEnds  BY <2>3 DEF ProcessEnds
  <2>4. CASE RecvNothing  BY <2>4 DEF RecvNothing
  <2> QED  BY <1>2, <2>1, <2>2, <2>3, <2>4
<1>3. CASE RefuseRequest
  <2>1. Head(backlog) \in Request /\ backlog' \in Seq(Request)
    BY <1>3, TailOf DEF RefuseRequest, Accepting
  <2>2. answer' \in [Request -> {0, 200, 400, 409, 503, 504}]
    BY <1>3, <2>1 DEF RefuseRequest, Reply
  <2> QED  BY <1>3, <2>1, <2>2 DEF RefuseRequest
<1>4. CASE ForwardRequest
  <2>1. Head(backlog) \in Request /\ backlog' \in Seq(Request)
    BY <1>4, TailOf DEF ForwardRequest, Accepting
  <2>2. channel' \in Seq(Request) /\ awaited' \in 0..MaxRequests
    BY <1>4, <2>1, AppendOf DEF ForwardRequest, Request
  <2> QED  BY <1>4, <2>1, <2>2 DEF ForwardRequest
<1>5. CASE AwaitCompletion \/ AwaitTimeout
  <2>1. answer' \in [Request -> {0, 200, 400, 409, 503, 504}]
    BY SMTT(30), <1>0, <1>5 DEF AwaitCompletion, AwaitTimeout, Reply
  <2>2. CASE AwaitCompletion  BY <2>1, <2>2 DEF AwaitCompletion
  <2>3. CASE AwaitTimeout  BY <2>1, <2>3 DEF AwaitTimeout
  <2> QED  BY <1>5, <2>2, <2>3
<1>6. CASE CheckRunning
  BY <1>6 DEF CheckRunning
<1>7. CASE Recv
  <2>1. Head(channel) \in Request /\ channel' \in Seq(Request)
    BY <1>7, TailOf DEF Recv
  <2> QED  BY <1>7, <2>1 DEF Recv, Request
<1>8. CASE Execute
  <2>1. current \in Request /\ posted[current] \in Commands
    BY <1>0, <1>8 DEF Execute, InHand, ParsedInv
  <2>2. posted[current].line \in Lines  BY <2>1 DEF Lines
  <2>3. executed' \in Seq(Request)  BY <1>8, <2>1, AppendOf DEF Execute
  <2> QED  BY <1>8, <2>1, <2>2, <2>3 DEF Execute
<1>9. CASE Reject \/ SendCompletion
  <2>1. CASE Reject  BY <2>1 DEF Reject
  <2>2. CASE SendCompletion  BY <1>0, <2>2 DEF SendCompletion, InHand
  <2> QED  BY <1>9, <2>1, <2>2
<1>10. CASE UNCHANGED vars
  BY <1>10 DEF vars
<1> QED
  BY <1>1, <1>2, <1>3, <1>4, <1>5, <1>6, <1>7, <1>8, <1>9, <1>10
     DEF Next, AdminStep, MainStep

(* Requests keep their order on the way: the backlog is entered with a higher *)
(* number than any so far, and a request leaves each place from its front.    *)
LEMMA OrderStep == TypeOK /\ OrderInv /\ [Next]_vars => OrderInv'
<1> SUFFICES ASSUME TypeOK, OrderInv, [Next]_vars PROVE OrderInv'
  OBVIOUS
<1> USE DEF TypeOK, OrderInv, Posted, Below, AllBelow, InHand, adminVars, mainVars, simVars
<1>1. ASSUME NEW body \in Commands \cup {Garbage}, Post(body) PROVE OrderInv'
  <2> DEFINE n == Len(posted) + 1
  <2>1. n \in Request /\ Len(posted') = n /\ n \in Nat \ {0} /\ Len(posted) \in Nat
    BY <1>1, Constants, AppendOf DEF Post, Request
  <2>2. /\ backlog' \in Seq(Request) /\ Len(backlog') = Len(backlog) + 1 /\ Len(backlog) \in Nat
        /\ \A i \in 1..Len(backlog) : backlog'[i] = backlog[i]
        /\ backlog'[Len(backlog) + 1] = n
        /\ \A i \in 1..Len(backlog') : i \in 1..Len(backlog) \/ i = Len(backlog) + 1
    BY <1>1, <2>1, AppendOf DEF Post
  <2>3. Increasing(backlog')
    <3>1. \A i \in 1..Len(backlog) : backlog[i] < n  BY <2>1
    <3>2. backlog' = Append(backlog, n)  BY <1>1 DEF Post
    <3> HIDE DEF n
    <3> QED  BY <2>1, <3>1, <3>2, IncreasingAppend
  <2> HIDE DEF n
  <2>4. \A r : r \in 1..Len(posted) => r < n /\ r \in 1..Len(posted')
    BY <2>1 DEF n
  <2>5. UNCHANGED <<adminPc, awaited, channel, mainPc, current, executed>>
    BY <1>1 DEF Post
  <2>6. ASSUME NEW i \in 1..Len(backlog') PROVE backlog'[i] \in 1..Len(posted')
    <3>1. CASE i \in 1..Len(backlog)  BY <2>2, <2>4, <3>1
    <3>2. CASE i = Len(backlog) + 1  BY <2>1, <2>2, <3>2
    <3> QED  BY <2>2, <3>1, <3>2
  <2>7. ASSUME NEW r \in 1..Len(posted), Below(r, backlog) PROVE Below(r, backlog')
    <3> SUFFICES ASSUME NEW i \in 1..Len(backlog') PROVE r < backlog'[i]
      OBVIOUS
    <3> QED  BY <2>2, <2>4, <2>7
  <2> QED  BY ZenonT(30), <2>3, <2>4, <2>5, <2>6, <2>7
<1>2. CASE CtrlC \/ Bind \/ ProcessEnds \/ RecvNothing
  <2>1. CASE CtrlC  BY <2>1 DEF CtrlC
  <2>2. CASE Bind  BY <2>2 DEF Bind
  <2>3. CASE ProcessEnds  BY <2>3 DEF ProcessEnds
  <2>4. CASE RecvNothing  BY <2>4 DEF RecvNothing
  <2> QED  BY <1>2, <2>1, <2>2, <2>3, <2>4
<1>3. CASE RefuseRequest \/ ForwardRequest
  <2>1. backlog # <<>> /\ backlog' = Tail(backlog)
    BY ZenonT(30), <1>3 DEF RefuseRequest, ForwardRequest, Accepting
  <2>2. /\ Len(backlog) >= 1 /\ Head(backlog) = backlog[1] /\ 1 \in 1..Len(backlog)
        /\ Head(backlog) \in Request
        /\ Len(backlog') = Len(backlog) - 1
        /\ \A i \in 1..Len(backlog') : i + 1 \in 1..Len(backlog) /\ backlog'[i] = backlog[i + 1]
    BY <2>1, TailOf
  <2>3. Increasing(backlog') /\ Below(Head(backlog), backlog')
    BY <2>1, IncreasingTail
  <2>4. \A r : Below(r, backlog) => Below(r, backlog')
    BY ZenonT(30), <2>2
  <2>5. \A i \in 1..Len(backlog') : backlog'[i] \in 1..Len(posted)
    BY <2>2
  <2>6. CASE RefuseRequest
    BY <2>3, <2>4, <2>5, <2>6 DEF RefuseRequest, Accepting
  <2>7. CASE ForwardRequest
    <3>1. UNCHANGED <<posted, mainPc, current, executed>>  BY <2>7 DEF ForwardRequest, Accepting
    <3>2. channel' = Append(channel, Head(backlog)) /\ awaited' = Head(backlog)
      BY <2>7 DEF ForwardRequest
    <3>3. /\ Len(channel') = Len(channel) + 1 /\ Len(channel) \in Nat
          /\ \A i \in 1..Len(channel) : channel'[i] = channel[i]
          /\ channel'[Len(channel) + 1] = Head(backlog)
          /\ \A i \in 1..Len(channel') : i \in 1..Len(channel) \/ i = Len(channel) + 1
      BY <3>2, <2>2, AppendOf
    <3>4. \A i \in 1..Len(channel) : channel[i] < Head(backlog)
      BY <2>2
    <3>5. Increasing(channel')  BY <2>2, <3>2, <3>4, IncreasingAppend
    <3>6. \A r : Below(r, channel) /\ Below(r, backlog) => Below(r, channel')
      BY ZenonT(30), <2>2, <3>3
    <3>7. \A i \in 1..Len(channel') : channel'[i] \in 1..Len(posted) /\ Below(channel'[i], backlog')
      BY SMTT(30), <2>2, <2>3, <2>4, <3>3
    <3> QED  BY SMTT(30), <2>2, <2>3, <2>4, <2>5, <3>1, <3>2, <3>5, <3>6, <3>7
  <2> QED  BY <1>3, <2>6, <2>7
<1>5. CASE AwaitCompletion \/ AwaitTimeout
  <2>1. CASE AwaitCompletion  BY <2>1 DEF AwaitCompletion
  <2>2. CASE AwaitTimeout  BY <2>2 DEF AwaitTimeout
  <2> QED  BY <1>5, <2>1, <2>2
<1>6. CASE CheckRunning
  <2>1. CASE running  BY <1>6, <2>1 DEF CheckRunning
  <2>2. CASE ~running
    <3>1. channel' = <<>>  BY <1>6, <2>2 DEF CheckRunning
    <3> QED  BY <1>6, <2>2, <3>1 DEF CheckRunning, Increasing
  <2> QED  BY <2>1, <2>2
<1>7. CASE Recv
  <2>1. channel # <<>> /\ channel' = Tail(channel) /\ current' = Head(channel)
        /\ UNCHANGED <<posted, backlog, adminPc, awaited, executed>>
    BY <1>7 DEF Recv
  <2>2. /\ Head(channel) = channel[1] /\ 1 \in 1..Len(channel)
        /\ \A i \in 1..Len(channel') : i + 1 \in 1..Len(channel) /\ channel'[i] = channel[i + 1]
    BY <2>1, TailOf
  <2>3. Increasing(channel') /\ Below(current', channel')
    BY <2>1, IncreasingTail
  <2>4. \A r : Below(r, channel) => Below(r, channel') /\ r < current'
    BY <2>1, <2>2
  <2>5. \A i \in 1..Len(channel') : channel'[i] \in 1..Len(posted) /\ Below(channel'[i], backlog)
    BY SMTT(30), <2>2
  <2>6. current' \in 1..Len(posted) /\ Below(current', backlog)
    BY <2>1, <2>2
  <2> QED  BY <2>1, <2>3, <2>4, <2>5, <2>6
<1>8. CASE Execute
  <2>1. /\ executed' = Append(executed, current) /\ current \in Request
        /\ UNCHANGED <<posted, backlog, adminPc, awaited, channel, current>>
        /\ mainPc = "handle" /\ mainPc' = "reply"
    BY <1>8, InHandIsRequest DEF Execute
  <2>2. /\ \A i \in 1..Len(executed) : executed'[i] = executed[i]
        /\ executed'[Len(executed) + 1] = current
        /\ \A i \in 1..Len(executed') : i \in 1..Len(executed) \/ i = Len(executed) + 1
    BY <2>1, AppendOf
  <2>3. Increasing(executed')  BY <2>1, IncreasingAppend
  <2>4. \A i \in 1..Len(executed') :
          /\ executed'[i] \in 1..Len(posted)
          /\ Below(executed'[i], channel) /\ Below(executed'[i], backlog)
    BY <2>1, <2>2
  <2> QED  BY <2>1, <2>3, <2>4
<1>9. CASE Reject \/ SendCompletion
  <2>1. CASE Reject  BY <2>1 DEF Reject
  <2>2. CASE SendCompletion  BY <2>2 DEF SendCompletion
  <2> QED  BY <1>9, <2>1, <2>2
<1>10. CASE UNCHANGED vars
  BY <1>10 DEF vars
<1> QED
  BY <1>1, <1>2, <1>3, <1>5, <1>6, <1>7, <1>8, <1>9, <1>10 DEF Next, AdminStep, MainStep

(* Only the admin thread puts a request in the channel, once it is parsed, and *)
(* what was posted is not changed.                                            *)
LEMMA ParsedStep == TypeOK /\ OrderInv /\ ParsedInv /\ [Next]_vars => ParsedInv'
<1> SUFFICES ASSUME TypeOK, OrderInv, ParsedInv, [Next]_vars PROVE ParsedInv'
  OBVIOUS
<1> USE DEF TypeOK, ParsedInv, InHand, adminVars, mainVars, simVars
<1>1. ASSUME NEW body \in Commands \cup {Garbage}, Post(body) PROVE ParsedInv'
  <2>1. \A r : Posted(r) => posted'[r] = posted[r]
    BY <1>1, AppendOf DEF Post, Posted
  <2> QED  BY ZenonT(30), <1>1, <2>1 DEF Post, OrderInv
<1>2. CASE CtrlC \/ Bind \/ ProcessEnds \/ RecvNothing
  BY <1>2 DEF CtrlC, Bind, ProcessEnds, RecvNothing
<1>3. CASE RefuseRequest
  BY <1>3 DEF RefuseRequest
<1>4. CASE ForwardRequest
  <2>1. /\ backlog # <<>> /\ posted[Head(backlog)] # Garbage
        /\ channel' = Append(channel, Head(backlog))
        /\ UNCHANGED <<posted, mainPc, current>>
    BY <1>4 DEF ForwardRequest, Accepting
  <2>2. Head(backlog) \in Request /\ Head(backlog) \in 1..Len(posted)
    BY <2>1, TailOf DEF OrderInv, Posted
  <2>3. posted[Head(backlog)] \in Commands  BY <2>1, <2>2
  <2>4. /\ \A i \in 1..Len(channel) : channel'[i] = channel[i]
        /\ channel'[Len(channel) + 1] = Head(backlog)
        /\ \A i \in 1..Len(channel') : i \in 1..Len(channel) \/ i = Len(channel) + 1
    BY <2>1, <2>2, AppendOf
  <2> QED  BY <2>1, <2>3, <2>4
<1>5. CASE AwaitCompletion \/ AwaitTimeout
  BY <1>5 DEF AwaitCompletion, AwaitTimeout
<1>6. CASE CheckRunning
  BY <1>6 DEF CheckRunning
<1>7. CASE Recv
  <2>1. /\ channel # <<>> /\ channel' = Tail(channel) /\ current' = Head(channel)
        /\ UNCHANGED posted
    BY <1>7 DEF Recv
  <2>2. /\ Head(channel) = channel[1] /\ 1 \in 1..Len(channel)
        /\ \A i \in 1..Len(channel') : i + 1 \in 1..Len(channel) /\ channel'[i] = channel[i + 1]
    BY <2>1, TailOf
  <2> QED  BY <2>1, <2>2
<1>8. CASE Execute \/ Reject \/ SendCompletion
  BY <1>8 DEF Execute, Reject, SendCompletion
<1>9. CASE UNCHANGED vars
  BY <1>9 DEF vars
<1> QED
  BY <1>1, <1>2, <1>3, <1>4, <1>5, <1>6, <1>7, <1>8, <1>9 DEF Next, AdminStep, MainStep

(* A tick is executed by a command that was validated against the state it    *)
(* found, and nothing else moves the simulation.                              *)
LEMMA ExecutedStep ==
  TypeOK /\ OrderInv /\ ParsedInv /\ ExecutedInv /\ [Next]_vars => ExecutedInv'
<1> SUFFICES ASSUME TypeOK, OrderInv, ParsedInv, ExecutedInv, [Next]_vars PROVE ExecutedInv'
  OBVIOUS
<1>1. ASSUME NEW body \in Commands \cup {Garbage}, Post(body) PROVE ExecutedInv'
  <2>1. \A r : Posted(r) => posted'[r] = posted[r]
    BY <1>1, AppendOf DEF Post, Posted, TypeOK
  <2>2. UNCHANGED simVars  BY <1>1 DEF Post
  <2> QED  BY <2>1, <2>2 DEF ExecutedInv, OrderInv, simVars
<1>2. CASE Execute
  <2>1. /\ current \in Request /\ posted[current] \in Commands
        /\ Acceptable(posted[current])
        /\ executed' = Append(executed, current)
        /\ localTick' = localTick + 1 /\ elapsedNs' = elapsedNs + DtNs
        /\ timeline' = posted[current].line
        /\ UNCHANGED posted
    BY <1>2, InHandIsRequest DEF Execute, InHand, ParsedInv
  <2>2. /\ Len(executed') = Len(executed) + 1 /\ Len(executed) \in Nat
        /\ \A i \in 1..Len(executed) : executed'[i] = executed[i]
        /\ executed'[Len(executed) + 1] = current
        /\ \A i \in 1..Len(executed') : i \in 1..Len(executed) \/ i = Len(executed) + 1
    BY <2>1, AppendOf DEF TypeOK
  <2>3. /\ posted[current].tick = localTick + 1
        /\ posted[current].t = elapsedNs \div NsPerUs + DtUs
        /\ timeline # NoLine => posted[current].line = timeline
    BY <2>1 DEF Acceptable, Validates, ExpectedTUs
  <2>4. posted[current].line \in Lines /\ posted[current].line # NoLine
    BY <2>1, Constants DEF Lines
  <2>5. elapsedNs' = localTick' * DtNs
    BY <2>1, Constants DEF ExecutedInv, TypeOK
  <2>6. posted[current].t = StampAt(localTick + 1)
    <3>1. (localTick + 1) - 1 = localTick  BY DEF TypeOK
    <3> QED  BY <2>3, <3>1 DEF StampAt, ExecutedInv
  <2>7. \A i \in 1..Len(executed) : posted[executed[i]].line = timeline'
    <3>1. CASE localTick = 0  BY <3>1 DEF ExecutedInv
    <3>2. CASE localTick > 0  BY <2>1, <2>3, <3>2 DEF ExecutedInv
    <3> QED  BY <3>1, <3>2 DEF TypeOK
  <2>8. Len(executed') = localTick'  BY <2>1, <2>2 DEF ExecutedInv
  <2>9. ASSUME NEW i \in 1..Len(executed')
        PROVE  /\ posted'[executed'[i]] \in Commands
               /\ posted'[executed'[i]].tick = i
               /\ posted'[executed'[i]].line = timeline'
               /\ posted'[executed'[i]].t = StampAt(i)
    <3>1. CASE i \in 1..Len(executed)  BY <2>1, <2>2, <2>7, <3>1 DEF ExecutedInv
    <3>2. CASE i = Len(executed) + 1
      <4>1. executed'[i] = current /\ i = localTick + 1  BY <2>2, <3>2 DEF ExecutedInv
      <4> QED  BY <2>1, <2>3, <2>6, <4>1
    <3> QED  BY <2>2, <3>1, <3>2
  <2> QED  BY <2>1, <2>4, <2>5, <2>8, <2>9 DEF ExecutedInv, StampAt
<1>3. CASE UNCHANGED <<posted, simVars>>
  BY <1>3 DEF ExecutedInv, simVars, StampAt
<1> QED
  BY <1>1, <1>2, <1>3
     DEF Next, AdminStep, MainStep, CtrlC, Bind, RefuseRequest, ForwardRequest, AwaitCompletion,
         AwaitTimeout, CheckRunning, RecvNothing, Recv, Reject, SendCompletion, ProcessEnds,
         vars

(* A request is answered while the admin thread has it, and completed while   *)
(* the main thread has it: requests elsewhere keep what was said of them.     *)
LEMMA AnswerStep ==
  TypeOK /\ OrderInv /\ AnswerInv /\ [Next]_vars => AnswerInv'
<1> SUFFICES ASSUME TypeOK, OrderInv, AnswerInv, [Next]_vars PROVE AnswerInv'
  OBVIOUS
<1>0. /\ InHand => current \in Request
      /\ adminPc = "await" => awaited \in Request
      /\ \A r : Posted(r) => r \in Request
  BY InHandIsRequest
<1>1. ASSUME NEW body \in Commands \cup {Garbage}, Post(body) PROVE AnswerInv'
  <2> DEFINE n == Len(posted) + 1
  <2>1. n \in Request /\ Len(posted') = n /\ Len(posted) \in Nat
    BY <1>1, Constants, AppendOf DEF Post, Request, TypeOK
  <2>2. /\ \A i \in 1..Len(backlog) : backlog'[i] = backlog[i]
        /\ backlog'[Len(backlog) + 1] = n
        /\ \A i \in 1..Len(backlog') : i \in 1..Len(backlog) \/ i = Len(backlog) + 1
    BY <1>1, <2>1, AppendOf DEF Post, TypeOK
  <2>3. answer[n] = 0 /\ completion[n] = "empty"
    BY <2>1 DEF AnswerInv
  <2>4. \A r \in Request : r > n => answer[r] = 0 /\ completion[r] = "empty"
    BY <2>1, Constants DEF AnswerInv, Request
  <2>5. UNCHANGED <<adminPc, awaited, answer, channel, completion, mainPc, current, verdict,
                    executed>>
    BY <1>1 DEF Post, adminVars, mainVars, simVars
  <2> HIDE DEF n
  <2> QED  BY <2>1, <2>2, <2>3, <2>4, <2>5 DEF AnswerInv, InHand, Executed
<1>2. CASE CtrlC \/ Bind \/ ProcessEnds \/ RecvNothing
  <2>1. CASE CtrlC
    BY <2>1 DEF CtrlC, AnswerInv, InHand, Executed, adminVars, mainVars, simVars
  <2>2. CASE Bind
    BY <2>2 DEF Bind, AnswerInv, InHand, Executed, mainVars, simVars
  <2>3. CASE ProcessEnds
    BY <2>3 DEF ProcessEnds, AnswerInv, InHand, Executed, adminVars, simVars
  <2>4. CASE RecvNothing
    BY <2>4 DEF RecvNothing, AnswerInv, InHand, Executed, adminVars, simVars
  <2> QED  BY <1>2, <2>1, <2>2, <2>3, <2>4
<1>3. CASE RefuseRequest \/ ForwardRequest
  <2> DEFINE h == Head(backlog)
  <2>1. backlog # <<>> /\ backlog' = Tail(backlog) /\ adminPc = "accept"
    BY <1>3 DEF RefuseRequest, ForwardRequest, Accepting
  <2>2. /\ h = backlog[1] /\ 1 \in 1..Len(backlog) /\ h \in Request /\ h <= Len(posted)
        /\ \A i \in 1..Len(backlog') : i + 1 \in 1..Len(backlog) /\ backlog'[i] = backlog[i + 1]
    BY <2>1, TailOf DEF TypeOK, OrderInv, Posted
  <2>3. \A i \in 1..Len(backlog') : h < backlog'[i] /\ backlog'[i] \in Request
    BY <2>1, <2>2, IncreasingTail DEF Below, TypeOK, OrderInv
  <2>4. answer[h] = 0 /\ completion[h] = "empty"  BY <2>2 DEF AnswerInv
  <2>5. \A i \in 1..Len(channel) : channel[i] < h /\ channel[i] \in Request
    BY <2>2 DEF OrderInv, AllBelow, Below, TypeOK
  <2>6. InHand => current < h
    BY <2>2 DEF OrderInv, AllBelow, Below, TypeOK
  <2>7. UNCHANGED <<posted, completion, mainPc, current, verdict, executed>>
    BY <1>3 DEF RefuseRequest, ForwardRequest, mainVars, simVars
  <2> HIDE DEF h
  <2>8. CASE RefuseRequest
    <3>1. PICK code \in {400, 409, 503} : answer' = [answer EXCEPT ![h] = code]
      BY <2>8 DEF RefuseRequest, Reply, h
    <3>2. channel' = channel /\ adminPc' = adminPc  BY <2>8 DEF RefuseRequest
    <3>3. \A r \in Request : r # h => answer'[r] = answer[r]
      BY <3>1 DEF TypeOK
    <3>4. \A r \in Request : r > Len(posted) => r # h
      BY <2>2 DEF Request, TypeOK
    <3>5. ASSUME NEW i \in 1..Len(backlog')
          PROVE  answer'[backlog'[i]] = 0 /\ completion[backlog'[i]] = "empty"
      <4>1. backlog'[i] # h  BY <2>2, <2>3, Constants DEF Request
      <4>2. answer[backlog'[i]] = 0 /\ completion[backlog'[i]] = "empty"
        BY <2>2 DEF AnswerInv
      <4> QED  BY <2>3, <3>3, <4>1, <4>2
    <3>6. ASSUME NEW i \in 1..Len(channel) PROVE answer'[channel[i]] = answer[channel[i]]
      <4>1. channel[i] # h  BY <2>2, <2>5, Constants DEF Request
      <4> QED  BY <2>5, <3>3, <4>1
    <3>7. InHand => answer'[current] = answer[current]
      BY <1>0, <2>2, <2>6, <3>3 DEF Request
    <3> QED
      BY <2>1, <2>7, <3>2, <3>3, <3>4, <3>5, <3>6, <3>7 DEF AnswerInv, InHand, Executed
  <2>9. CASE ForwardRequest
    <3>1. channel' = Append(channel, h) /\ awaited' = h /\ answer' = answer
      BY <2>9 DEF ForwardRequest, h
    <3>2. /\ \A i \in 1..Len(channel) : channel'[i] = channel[i]
          /\ channel'[Len(channel) + 1] = h
          /\ \A i \in 1..Len(channel') : i \in 1..Len(channel) \/ i = Len(channel) + 1
      BY <2>2, <3>1, AppendOf DEF TypeOK
    <3>3. \A i \in 1..Len(backlog') : answer[backlog'[i]] = 0 /\ completion[backlog'[i]] = "empty"
      BY <2>2 DEF AnswerInv
    <3> QED  BY <2>4, <2>7, <3>1, <3>2, <3>3 DEF AnswerInv, InHand, Executed
  <2> QED  BY <1>3, <2>8, <2>9
<1>5. CASE AwaitCompletion \/ AwaitTimeout
  <2>1. /\ adminPc = "await" /\ adminPc' = "accept" /\ awaited \in Request
        /\ UNCHANGED <<posted, backlog, channel, completion, mainPc, current, verdict, executed>>
    BY <1>0, <1>5 DEF AwaitCompletion, AwaitTimeout, mainVars, simVars
  <2>2. PICK code \in {200, 409, 504} :
          /\ answer' = [answer EXCEPT ![awaited] = code]
          /\ completion[awaited] = "empty" => code = 504
    BY <1>5 DEF AwaitCompletion, AwaitTimeout, Reply
  <2>3. \A r \in Request : answer'[r] = IF r = awaited THEN code ELSE answer[r]
    BY <2>2 DEF TypeOK
  <2>4. \A r \in Request : r > Len(posted) => r # awaited
    BY <2>1 DEF Request, TypeOK, OrderInv, Posted
  <2>5. \A i \in 1..Len(backlog) : backlog[i] # awaited /\ backlog[i] \in Request
    BY <2>1, Constants DEF Request, TypeOK, OrderInv, Below
  <2>6. \A i \in 1..Len(channel) : answer'[channel[i]] \in {0, 504}
    BY <2>2, <2>3 DEF AnswerInv, TypeOK
  <2>7. mainPc = "handle" => answer'[current] \in {0, 504}
    BY <1>0, <2>2, <2>3 DEF AnswerInv, InHand
  <2>8. \A i \in 1..Len(backlog) : answer'[backlog[i]] = 0
    BY <2>3, <2>5 DEF AnswerInv
  <2>9. \A r \in Request : r > Len(posted) => answer'[r] = 0
    BY <2>3, <2>4 DEF AnswerInv
  <2> QED  BY <2>1, <2>6, <2>7, <2>8, <2>9 DEF AnswerInv, InHand, Executed
<1>6. CASE CheckRunning
  <2>1. CASE running
    BY <1>6, <2>1 DEF CheckRunning, AnswerInv, InHand, Executed, adminVars, simVars
  <2>2. CASE ~running
    <3>1. channel' = <<>>  BY <1>6, <2>2 DEF CheckRunning
    <3> QED
      BY <1>6, <2>2, <3>1 DEF CheckRunning, AnswerInv, InHand, Executed, adminVars, simVars
  <2> QED  BY <2>1, <2>2
<1>7. CASE Recv
  <2>1. /\ channel # <<>> /\ channel' = Tail(channel) /\ current' = Head(channel)
        /\ mainPc' = "handle"
        /\ UNCHANGED <<posted, backlog, adminPc, awaited, answer, completion, verdict, executed>>
    BY <1>7 DEF Recv, adminVars, simVars
  <2>2. /\ Head(channel) = channel[1] /\ 1 \in 1..Len(channel)
        /\ \A i \in 1..Len(channel') : i + 1 \in 1..Len(channel) /\ channel'[i] = channel[i + 1]
    BY <2>1, TailOf DEF TypeOK
  <2> QED  BY <2>1, <2>2 DEF AnswerInv, InHand, Executed
<1>8. CASE Execute
  <2>1. /\ mainPc = "handle" /\ mainPc' = "reply" /\ verdict' = "ok" /\ current \in Request
        /\ executed' = Append(executed, current)
        /\ UNCHANGED <<posted, backlog, adminPc, awaited, answer, channel, completion, current>>
    BY <1>0, <1>8 DEF Execute, InHand, adminVars
  <2>2. /\ Len(executed') = Len(executed) + 1 /\ Len(executed) \in Nat
        /\ \A i \in 1..Len(executed) : executed'[i] = executed[i]
        /\ executed'[Len(executed) + 1] = current
        /\ \A i \in 1..Len(executed') : i \in 1..Len(executed) \/ i = Len(executed) + 1
        /\ DOMAIN executed = 1..Len(executed) /\ DOMAIN executed' = 1..Len(executed')
    BY <2>1, AppendOf DEF TypeOK
  <2>3. \A r : Executed(r)' <=> Executed(r) \/ r = current
    BY <2>2 DEF Executed
  <2>4. completion[current] = "empty"  BY <2>1 DEF AnswerInv, InHand
  <2> HIDE DEF Executed
  <2> QED  BY <2>1, <2>3, <2>4 DEF AnswerInv, InHand
<1>9. CASE Reject
  <2>1. ~Executed(current)
    BY <1>0, <1>9 DEF Reject, Executed, OrderInv, TypeOK, InHand, Request
  <2>2. \A r : Executed(r)' <=> Executed(r)
    BY <1>9 DEF Reject, Executed, simVars
  <2> QED  BY <1>9, <2>1, <2>2 DEF Reject, AnswerInv, InHand, adminVars, simVars, Executed
<1>10. CASE SendCompletion
  <2>1. /\ mainPc = "reply" /\ mainPc' = "check" /\ current \in Request
        /\ completion' = [completion EXCEPT ![current] = verdict]
        /\ UNCHANGED <<posted, backlog, adminPc, awaited, answer, channel, current, verdict,
                       executed>>
    BY <1>0, <1>10 DEF SendCompletion, InHand, adminVars, simVars
  <2>2. \A r \in Request : completion'[r] = IF r = current THEN verdict ELSE completion[r]
    BY <2>1 DEF TypeOK
  <2>3. \A r \in Request : r > Len(posted) => r # current
    BY <2>1 DEF Request, TypeOK, OrderInv, Posted, InHand
  <2>4. \A i \in 1..Len(backlog) : backlog[i] # current /\ backlog[i] \in Request
    BY <2>1, Constants DEF Request, TypeOK, OrderInv, Below, InHand
  <2>5. \A i \in 1..Len(channel) : channel[i] # current /\ channel[i] \in Request
    BY <2>1, Constants DEF Request, TypeOK, OrderInv, Below, InHand
  <2>6. \A r \in Request : /\ completion'[r] = "ok" => Executed(r)
                           /\ completion'[r] = "err" => ~Executed(r)
    BY <2>1, <2>2 DEF AnswerInv, TypeOK
  <2>7. \A r : Executed(r)' <=> Executed(r)  BY <2>1 DEF Executed
  <2>8. \A r \in Request : r > Len(posted) => completion'[r] = "empty"
    BY <2>2, <2>3 DEF AnswerInv
  <2>9. /\ \A i \in 1..Len(backlog) : completion'[backlog[i]] = "empty"
        /\ \A i \in 1..Len(channel) : completion'[channel[i]] = "empty"
    BY <2>2, <2>4, <2>5 DEF AnswerInv
  <2> QED  BY <2>1, <2>6, <2>7, <2>8, <2>9 DEF AnswerInv, InHand
<1>11. CASE UNCHANGED vars
  BY <1>11 DEF vars, AnswerInv, InHand, Executed, adminVars, mainVars, simVars
<1> QED
  BY <1>1, <1>2, <1>3, <1>5, <1>6, <1>7, <1>8, <1>9, <1>10, <1>11
     DEF Next, AdminStep, MainStep

-------------------------------------------------------------------------------
(* Invariance of Inv under every step of the admin server, its clients and    *)
(* the main thread's loop.                                                    *)
THEOREM Invariance == Spec => []Inv
<1>1. Init => Inv  BY InitInv
<1>2. Inv /\ [Next]_vars => Inv'
  BY TypeStep, OrderStep, ParsedStep, ExecutedStep, AnswerStep DEF Inv
<1> QED  BY <1>1, <1>2, PTL DEF Spec

(* Type correctness of the admin server, its queues and run_external_steps.   *)
THEOREM TypeCorrect == Spec => []TypeOK
<1>1. Inv => TypeOK  BY DEF Inv
<1> QED  BY Invariance, <1>1, PTL

(* run_external_steps executes tick i for exactly one request, that asked for *)
(* tick i of the first one's timeline, and requests in the order they came.   *)
THEOREM ExecutedInOrderHolds == Spec => []ExecutedInOrder
<1>1. Inv => ExecutedInOrder
  <2> SUFFICES ASSUME Inv PROVE ExecutedInOrder
    OBVIOUS
  <2>1. Len(executed) = localTick /\ DOMAIN executed = 1..Len(executed) /\ Len(executed) \in Nat
    BY DEF Inv, ExecutedInv, TypeOK
  <2>2. ASSUME NEW i \in 1..Len(executed)
        PROVE  /\ posted[executed[i]].tick = i
               /\ posted[executed[i]].line = timeline
    BY DEF Inv, ExecutedInv
  <2>3. ASSUME NEW i \in 1..Len(executed), NEW j \in 1..(i - 1)
        PROVE  executed[j] < executed[i]
    <3>1. j \in 1..Len(executed) /\ j < i  BY <2>1
    <3> QED  BY <3>1 DEF Inv, OrderInv, Increasing
  <2> QED  BY <2>1, <2>2, <2>3 DEF ExecutedInOrder
<1> QED  BY Invariance, <1>1, PTL

(* Dividing by the nanoseconds of a microsecond, by quotient and remainder.   *)
LEMMA DivisionBounds ==
  ASSUME NEW a \in Nat, NEW d \in Nat \ {0}
  PROVE  /\ a \div d \in Nat
         /\ d * (a \div d) <= a
         /\ a < d * (a \div d) + d
  BY Z3

(* The stamp wanted for tick i is as far from i times dt as one rounding of   *)
(* dt and one truncation to microseconds are, whatever i.                     *)
LEMMA StampBounds ==
  ASSUME NEW i \in Nat \ {0}
  PROVE  /\ StampAt(i) \in Nat
         /\ 2 * StampAt(i) * NsPerUs <= 2 * i * DtNs + NsPerUs
         /\ 2 * i * DtNs <= 2 * StampAt(i) * NsPerUs + 3 * NsPerUs
<1> DEFINE k == i - 1
           a == k * DtNs
           q == a \div NsPerUs
<1>1. /\ DtNs \in Nat /\ DtUs \in Nat /\ NsPerUs \in Nat \ {0}
      /\ 2 * DtUs * NsPerUs <= 2 * DtNs + NsPerUs
      /\ 2 * DtNs <= 2 * DtUs * NsPerUs + NsPerUs
  BY ExternalStepAssumption
<1>2. k \in Nat /\ i = k + 1  OBVIOUS
<1> HIDE DEF k
<1>3. a \in Nat  BY <1>1, <1>2
<1>4. i * DtNs = a + DtNs  BY <1>1, <1>2
<1> HIDE DEF a
<1>5. q \in Nat /\ NsPerUs * q <= a /\ a < NsPerUs * q + NsPerUs
  BY <1>1, <1>3, DivisionBounds
<1> HIDE DEF q
<1>6. (q + DtUs) * NsPerUs = NsPerUs * q + DtUs * NsPerUs  BY <1>1, <1>5
<1>7. /\ NsPerUs * q \in Nat /\ DtUs * NsPerUs \in Nat /\ i * DtNs \in Nat
      /\ 2 * DtUs * NsPerUs = 2 * (DtUs * NsPerUs)
      /\ 2 * i * DtNs = 2 * (i * DtNs)
      /\ 2 * (q + DtUs) * NsPerUs = 2 * ((q + DtUs) * NsPerUs)
  BY <1>1, <1>5
<1>8. StampAt(i) = q + DtUs  BY DEF StampAt, q, a, k
<1>9. /\ 2 * ((q + DtUs) * NsPerUs) <= 2 * (i * DtNs) + NsPerUs
      /\ 2 * (i * DtNs) <= 2 * ((q + DtUs) * NsPerUs) + 3 * NsPerUs
  <2> DEFINE qN == NsPerUs * q
             uN == DtUs * NsPerUs
  <2>1. /\ qN \in Nat /\ uN \in Nat /\ qN <= a /\ a < qN + NsPerUs
        /\ 2 * uN <= 2 * DtNs + NsPerUs /\ 2 * DtNs <= 2 * uN + NsPerUs
    BY <1>1, <1>5, <1>7
  <2>2. (q + DtUs) * NsPerUs = qN + uN  BY <1>6
  <2> HIDE DEF qN, uN
  <2> QED  BY <1>1, <1>3, <1>4, <2>1, <2>2
<1>10. q + DtUs \in Nat  BY <1>1, <1>5
<1> QED  BY <1>7, <1>8, <1>9, <1>10

(* A stamp that validate_external_step accepts stays within a microsecond and *)
(* a half of the scenario time it stands for, however long the run.           *)
THEOREM StampsDoNotDriftHolds == Spec => []StampsDoNotDrift
<1>1. Inv => StampsDoNotDrift
  <2> SUFFICES ASSUME Inv, NEW i \in DOMAIN executed
               PROVE  LET t == posted[executed[i]].t IN
                        /\ 2 * t * NsPerUs <= 2 * i * DtNs + NsPerUs
                        /\ 2 * i * DtNs <= 2 * t * NsPerUs + 3 * NsPerUs
    BY DEF StampsDoNotDrift
  <2>1. i \in 1..Len(executed) /\ i \in Nat \ {0}  BY DEF Inv, TypeOK
  <2>2. posted[executed[i]].t = StampAt(i)  BY <2>1 DEF Inv, ExecutedInv
  <2> QED  BY <2>1, <2>2, StampBounds
<1> QED  BY Invariance, <1>1, PTL

-------------------------------------------------------------------------------
(* The refinement.  A step of the service is told by what it changes of each  *)
(* request's outcome and answer.                                              *)
SameOutcomes == \A r \in Request : OutcomeOf(r)' = OutcomeOf(r)
SameAnswers == \A r \in Request : AnswerOf(r)' = AnswerOf(r)
OutcomeBecomes(c, o) ==
  \A r \in Request : OutcomeOf(r)' = IF r = c THEN o ELSE OutcomeOf(r)
AnswerBecomes(c, a) ==
  \A r \in Request : AnswerOf(r)' = IF r = c THEN a ELSE AnswerOf(r)

LEMMA ServiceSteps ==
  ASSUME NEW c \in Request
  PROVE  /\ /\ OutcomeOf(c) = "open" /\ OutcomeBecomes(c, "applied") /\ SameAnswers
            /\ localTick' = localTick + 1
            => Service!Apply(c)
         /\ /\ OutcomeOf(c) = "open" /\ OutcomeBecomes(c, "refused") /\ SameAnswers
            /\ localTick' = localTick
            => Service!Refuse(c)
         /\ /\ AnswerOf(c) = "none" /\ SameOutcomes /\ localTick' = localTick
            /\ \/ OutcomeOf(c) = "applied" /\ AnswerBecomes(c, "completed")
               \/ OutcomeOf(c) = "refused" /\ AnswerBecomes(c, "refused")
               \/ AnswerBecomes(c, "unknown")
            => Service!Answer(c)
         /\ /\ OutcomeOf(c) = "open" /\ OutcomeBecomes(c, "refused") /\ localTick' = localTick
            /\ AnswerOf(c) = "none" /\ AnswerBecomes(c, "refused")
            => Service!RefuseAtOnce(c)
         /\ SameOutcomes /\ SameAnswers /\ localTick' = localTick
            => UNCHANGED Service!serviceVars
<1> DEFINE O == [r \in Request |-> OutcomeOf(r)]
           A == [r \in Request |-> AnswerOf(r)]
<1>1. /\ O[c] = OutcomeOf(c) /\ A[c] = AnswerOf(c)
      /\ \A o : OutcomeBecomes(c, o) => O' = [O EXCEPT ![c] = o]
      /\ \A a : AnswerBecomes(c, a) => A' = [A EXCEPT ![c] = a]
      /\ SameOutcomes => O' = O
      /\ SameAnswers => A' = A
  BY DEF OutcomeBecomes, AnswerBecomes, SameOutcomes, SameAnswers
<1> HIDE DEF O, A
<1> QED
  BY <1>1
     DEF O, A, Service!Apply, Service!Refuse, Service!Answer, Service!RefuseAtOnce,
         Service!serviceVars

(* What is known of a request that waits in the backlog or is handled.        *)
LEMMA OpenRequests ==
  ASSUME Inv
  PROVE  /\ backlog # <<>> =>
              /\ Head(backlog) \in Request
              /\ ~Executed(Head(backlog)) /\ ~(InHand /\ current = Head(backlog))
              /\ answer[Head(backlog)] = 0 /\ completion[Head(backlog)] = "empty"
         /\ mainPc = "handle" =>
              /\ current \in Request /\ ~Executed(current)
              /\ answer[current] \in {0, 504} /\ completion[current] = "empty"
<1> USE DEF Inv, TypeOK
<1>1. ASSUME backlog # <<>>
      PROVE  /\ Head(backlog) \in Request
             /\ ~Executed(Head(backlog)) /\ ~(InHand /\ current = Head(backlog))
             /\ answer[Head(backlog)] = 0 /\ completion[Head(backlog)] = "empty"
  <2>1. Head(backlog) = backlog[1] /\ 1 \in 1..Len(backlog) /\ Head(backlog) \in Request
    BY <1>1, TailOf
  <2>2. \A i \in 1..Len(executed) : executed[i] < Head(backlog) /\ executed[i] \in Request
    BY <2>1 DEF OrderInv, AllBelow, Below
  <2>3. ~Executed(Head(backlog))
    <3>1. ASSUME NEW i \in 1..Len(executed) PROVE executed[i] # Head(backlog)
      BY <2>1, <2>2, Constants DEF Request
    <3>2. DOMAIN executed = 1..Len(executed)  OBVIOUS
    <3> QED  BY <3>1, <3>2 DEF Executed
  <2>4. InHand => current < Head(backlog)
    BY <2>1 DEF OrderInv, Below
  <2> QED  BY <2>1, <2>3, <2>4, Constants DEF AnswerInv, Request
<1>2. ASSUME mainPc = "handle"
      PROVE  /\ current \in Request /\ ~Executed(current)
             /\ answer[current] \in {0, 504} /\ completion[current] = "empty"
  <2>1. \A i \in 1..Len(executed) : executed[i] < current /\ executed[i] \in Request
    BY <1>2 DEF OrderInv
  <2>2. current \in Request  BY <1>2, InHandIsRequest DEF InHand
  <2>3. ~Executed(current)
    <3>1. ASSUME NEW i \in 1..Len(executed) PROVE executed[i] # current
      BY <2>1, <2>2, Constants DEF Request
    <3>2. DOMAIN executed = 1..Len(executed)  OBVIOUS
    <3> QED  BY <3>1, <3>2 DEF Executed
  <2> QED  BY <1>2, <2>2, <2>3 DEF AnswerInv, InHand
<1> QED  BY <1>1, <1>2

(* Every step is one of the service or changes nothing it sees: executing and *)
(* rejecting are its Apply and Refuse, the two ends of the wait its Answer.   *)
LEMMA RefinementStep == Inv /\ [Next]_vars => [Service!ServiceNext]_(Service!serviceVars)
<1> SUFFICES ASSUME Inv, [Next]_vars
             PROVE  Service!ServiceNext \/ UNCHANGED Service!serviceVars
  OBVIOUS
<1>0. TypeOK /\ OrderInv /\ AnswerInv  BY DEF Inv
<1>q. ASSUME UNCHANGED <<localTick, executed, answer, completion>>,
             \/ mainPc # "reply" /\ mainPc' # "reply"
             \/ UNCHANGED <<mainPc, current>>
      PROVE  UNCHANGED Service!serviceVars
  <2>1. SameOutcomes /\ SameAnswers
    BY <1>q DEF SameOutcomes, SameAnswers, OutcomeOf, AnswerOf
  <2>2. Request # {} \/ Request = {}  OBVIOUS
  <2>3. CASE Request # {}  BY <1>q, <2>1, <2>3, ServiceSteps
  <2>4. CASE Request = {}  BY <1>q, <2>4 DEF Service!serviceVars
  <2> QED  BY <2>2, <2>3, <2>4
<1>1. ASSUME NEW body \in Commands \cup {Garbage}, Post(body)
      PROVE  UNCHANGED Service!serviceVars
  BY <1>1, <1>q DEF Post, adminVars, mainVars, simVars
<1>2. CASE CtrlC \/ Bind \/ ForwardRequest
  BY <1>2, <1>q DEF CtrlC, Bind, ForwardRequest, adminVars, mainVars, simVars
<1>3. CASE CheckRunning \/ RecvNothing \/ Recv \/ ProcessEnds
  BY <1>3, <1>q DEF CheckRunning, RecvNothing, Recv, ProcessEnds, adminVars, simVars
<1>4. CASE RefuseRequest
  <2> DEFINE h == Head(backlog)
  <2>1. /\ h \in Request /\ ~Executed(h) /\ ~(InHand /\ current = h)
        /\ answer[h] = 0 /\ completion[h] = "empty"
    BY <1>4, OpenRequests DEF RefuseRequest, Accepting
  <2>2. PICK code \in {400, 409, 503} : answer' = [answer EXCEPT ![h] = code]
    BY <1>4 DEF RefuseRequest, Reply
  <2>3. UNCHANGED <<executed, completion, mainPc, current, localTick>>
    BY <1>4 DEF RefuseRequest, mainVars, simVars
  <2> HIDE DEF h
  <2>4. \A r \in Request : answer'[r] = IF r = h THEN code ELSE answer[r]
    BY <1>0, <2>2 DEF TypeOK
  <2>5. OutcomeOf(h) = "open" /\ AnswerOf(h) = "none"
    BY <2>1 DEF OutcomeOf, AnswerOf, InHand, Executed
  <2>6. OutcomeBecomes(h, "refused")
    BY <2>1, <2>2, <2>3, <2>4 DEF OutcomeBecomes, OutcomeOf, Executed
  <2>7. AnswerBecomes(h, "refused")
    BY <2>1, <2>2, <2>4 DEF AnswerBecomes, AnswerOf
  <2>8. Service!RefuseAtOnce(h)
    BY <2>1, <2>3, <2>5, <2>6, <2>7, ServiceSteps
  <2> QED  BY <2>1, <2>8 DEF Service!ServiceNext
<1>5. CASE AwaitCompletion \/ AwaitTimeout
  <2>1. /\ awaited \in Request /\ adminPc = "await"
        /\ UNCHANGED <<localTick, executed, completion, mainPc, current>>
    BY <1>0, <1>5, InHandIsRequest DEF AwaitCompletion, AwaitTimeout, mainVars, simVars
  <2>2. PICK code \in {200, 409, 504} :
          /\ answer' = [answer EXCEPT ![awaited] = code]
          /\ code = 200 => completion[awaited] = "ok"
          /\ code = 409 => completion[awaited] = "err"
    <3>1. CASE AwaitCompletion /\ completion[awaited] = "ok"
      BY <3>1 DEF AwaitCompletion, Reply
    <3>2. CASE AwaitCompletion /\ completion[awaited] = "err"
      BY <3>2 DEF AwaitCompletion, Reply
    <3>3. CASE AwaitTimeout  BY <3>3 DEF AwaitTimeout, Reply
    <3>4. completion[awaited] \in {"empty", "ok", "err"}  BY <1>0, <2>1 DEF TypeOK
    <3> QED  BY <1>5, <3>1, <3>2, <3>3, <3>4 DEF AwaitCompletion
  <2>3. \A r \in Request : answer'[r] = IF r = awaited THEN code ELSE answer[r]
    BY <1>0, <2>2 DEF TypeOK
  <2>4. answer[awaited] = 0 /\ AnswerOf(awaited) = "none"
    BY <1>0, <2>1 DEF AnswerInv, AnswerOf
  <2>5. /\ code = 200 => OutcomeOf(awaited) = "applied"
        /\ code = 409 => OutcomeOf(awaited) = "refused"
    BY <1>0, <2>1, <2>2 DEF OutcomeOf, AnswerInv, Executed
  <2>6. SameOutcomes
    <3> SUFFICES ASSUME NEW r \in Request PROVE OutcomeOf(r)' = OutcomeOf(r)
      BY DEF SameOutcomes
    <3>1. CASE r # awaited  BY <2>1, <2>3, <3>1 DEF OutcomeOf
    <3>2. CASE r = awaited /\ code = 409
      BY <2>1, <2>3, <2>5, <3>2 DEF OutcomeOf
    <3>3. CASE r = awaited /\ code # 409
      BY <2>1, <2>2, <2>3, <2>4, <3>3 DEF OutcomeOf
    <3> QED  BY <3>1, <3>2, <3>3
  <2>7. /\ code = 200 => AnswerBecomes(awaited, "completed")
        /\ code = 409 => AnswerBecomes(awaited, "refused")
        /\ code = 504 => AnswerBecomes(awaited, "unknown")
    BY <2>1, <2>3 DEF AnswerBecomes, AnswerOf
  <2>8. Service!Answer(awaited)
    BY <2>1, <2>2, <2>4, <2>5, <2>6, <2>7, ServiceSteps
  <2> QED  BY <2>1, <2>8 DEF Service!ServiceNext
<1>6. CASE Execute
  <2>1. /\ current \in Request /\ ~Executed(current)
        /\ answer[current] \in {0, 504} /\ completion[current] = "empty"
    BY <1>6, OpenRequests DEF Execute
  <2>2. /\ mainPc = "handle" /\ mainPc' = "reply" /\ localTick' = localTick + 1
        /\ executed' = Append(executed, current)
        /\ UNCHANGED <<answer, completion, current>>
    BY <1>6 DEF Execute, adminVars
  <2>3. /\ Len(executed') = Len(executed) + 1 /\ Len(executed) \in Nat
        /\ \A i \in 1..Len(executed) : executed'[i] = executed[i]
        /\ executed'[Len(executed) + 1] = current
        /\ \A i \in 1..Len(executed') : i \in 1..Len(executed) \/ i = Len(executed) + 1
        /\ DOMAIN executed = 1..Len(executed) /\ DOMAIN executed' = 1..Len(executed')
    BY <1>0, <2>1, <2>2, AppendOf DEF TypeOK
  <2>4. \A r : Executed(r)' <=> Executed(r) \/ r = current
    BY <2>3 DEF Executed
  <2>5. OutcomeOf(current) = "open"
    BY <2>1, <2>2 DEF OutcomeOf, Executed
  <2>6. OutcomeBecomes(current, "applied")
    <3> SUFFICES ASSUME NEW r \in Request
                 PROVE  OutcomeOf(r)' = IF r = current THEN "applied" ELSE OutcomeOf(r)
      BY DEF OutcomeBecomes
    <3>1. OutcomeOf(r) =
            IF Executed(r) THEN "applied"
            ELSE IF \/ answer[r] \in {400, 409, 503}
                    \/ completion[r] = "err"
                    \/ mainPc = "reply" /\ current = r
            THEN "refused" ELSE "open"
      BY DEF OutcomeOf, Executed
    <3>2. OutcomeOf(r)' =
            IF Executed(r)' THEN "applied"
            ELSE IF \/ answer'[r] \in {400, 409, 503}
                    \/ completion'[r] = "err"
                    \/ mainPc' = "reply" /\ current' = r
            THEN "refused" ELSE "open"
      BY DEF OutcomeOf, Executed
    <3> QED  BY <2>2, <2>4, <3>1, <3>2
  <2>7. SameAnswers  BY <2>2 DEF SameAnswers, AnswerOf
  <2>8. Service!Apply(current)  BY <2>1, <2>2, <2>5, <2>6, <2>7, ServiceSteps
  <2> QED  BY <2>1, <2>8 DEF Service!ServiceNext
<1>7. CASE Reject
  <2>1. /\ current \in Request /\ ~Executed(current)
        /\ answer[current] \in {0, 504} /\ completion[current] = "empty"
    BY <1>7, OpenRequests DEF Reject
  <2>2. /\ mainPc = "handle" /\ mainPc' = "reply"
        /\ UNCHANGED <<executed, localTick, answer, completion, current>>
    BY <1>7 DEF Reject, adminVars, simVars
  <2>3. OutcomeOf(current) = "open"
    BY <2>1, <2>2 DEF OutcomeOf, Executed
  <2>4. OutcomeBecomes(current, "refused")
    BY <2>1, <2>2 DEF OutcomeBecomes, OutcomeOf, Executed
  <2>5. SameAnswers  BY <2>2 DEF SameAnswers, AnswerOf
  <2>6. Service!Refuse(current)  BY <2>1, <2>2, <2>3, <2>4, <2>5, ServiceSteps
  <2> QED  BY <2>1, <2>6 DEF Service!ServiceNext
<1>8. CASE SendCompletion
  <2>1. /\ mainPc = "reply" /\ mainPc' = "check" /\ current \in Request
        /\ completion' = [completion EXCEPT ![current] = verdict]
        /\ UNCHANGED <<localTick, executed, answer, current>>
    BY <1>0, <1>8, InHandIsRequest DEF SendCompletion, InHand, adminVars, simVars
  <2>2. \A r \in Request : completion'[r] = IF r = current THEN verdict ELSE completion[r]
    BY <1>0, <2>1 DEF TypeOK
  <2>3. verdict = "err" <=> ~Executed(current)
    BY <1>0, <2>1 DEF AnswerInv, TypeOK
  <2>4. SameOutcomes
    <3> SUFFICES ASSUME NEW r \in Request PROVE OutcomeOf(r)' = OutcomeOf(r)
      BY DEF SameOutcomes
    <3>1. CASE r = current  BY <2>1, <2>2, <2>3, <3>1 DEF OutcomeOf, Executed
    <3>2. CASE r # current  BY <2>1, <2>2, <3>2 DEF OutcomeOf
    <3> QED  BY <3>1, <3>2
  <2>5. SameAnswers  BY <2>1 DEF SameAnswers, AnswerOf
  <2> QED  BY <2>1, <2>4, <2>5, ServiceSteps
<1>9. CASE UNCHANGED vars
  BY <1>9, <1>q DEF vars, adminVars, mainVars, simVars
<1> QED
  BY <1>1, <1>2, <1>3, <1>4, <1>5, <1>6, <1>7, <1>8, <1>9 DEF Next, AdminStep, MainStep

(* POST /control/step is the step service: a definite answer is the truth of  *)
(* its request, and only a 504 leaves open what became of it.                 *)
THEOREM Refinement == Spec => ImplementsStepService
<1>1. Init => Service!ServiceInit
  BY DEF Init, Service!ServiceInit, OutcomeOf, AnswerOf
<1> QED
  BY Invariance, <1>1, RefinementStep, PTL DEF Spec, ImplementsStepService, Service!ServiceSpec
================================================================================
