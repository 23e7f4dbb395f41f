---------------------------- MODULE SensorProofs ----------------------------
(***************************************************************************)
(* What a sensor's sequence numbers are good for: proofs that the bridge   *)
(* executes no command twice and that a confirmed command is in force, for *)
(* any functions, sessions, queue lengths and sequence numbers modulo any  *)
(* number above two.                                                       *)
(*                                                                         *)
(* Numbers go round, so they are only ordered along the trail of commands: *)
(* the last one executed (or remembered), the one espnow_rx_task is at,    *)
(* those in its queue, and the sensor's next.  Along a trail the commands  *)
(* of a session are together, and each number is at most half the sequence *)
(* space past the ones before it.  Everything the devices do moves the     *)
(* places of a trail without changing their order, except that the sensor  *)
(* counts on; that is where the commands must come often.                  *)
(***************************************************************************)
EXTENDS SensorLink, SequenceTheorems, TLAPS

Half == (SeqMod - 1) \div 2

\* The number of b is that of a or one of the Half numbers after it.
Follows(b, a) == (b - a) % SeqMod \in 0..Half

LEMMA Difference ==
  ASSUME NEW a \in Seq16, NEW b \in Seq16
  PROVE  (b - a) % SeqMod = IF b >= a THEN b - a ELSE b - a + SeqMod
BY SensorLinkAssumption DEF Seq16

LEMMA HalfIsNat == Half \in Nat /\ 2 * Half <= SeqMod - 1
BY SensorLinkAssumption DEF Half

\* The next number is a number.
LEMMA NextIs ==
  ASSUME NEW n \in Seq16
  PROVE  (n + 1) % SeqMod = IF n + 1 = SeqMod THEN 0 ELSE n + 1
BY SensorLinkAssumption DEF Seq16

LEMMA NextTyped == sequence \in Seq16 => NextSeq \in Seq16
BY NextIs, SensorLinkAssumption DEF Seq16, NextSeq

LEMMA ZeroTyped == 0 \in Seq16
BY SensorLinkAssumption DEF Seq16

\* A number newer than one that follows a third is not the third.
LEMMA NewerIsAnother ==
  ASSUME NEW a \in Seq16, NEW b \in Seq16, NEW c \in Seq16,
         Follows(b, a), Newer(c, b)
  PROVE  c # a
BY Difference, HalfIsNat, SensorLinkAssumption DEF Follows, Newer, Half, Seq16

\* A number that follows another and is not newer is the same.
LEMMA NotNewerIsSame ==
  ASSUME NEW a \in Seq16, NEW b \in Seq16, Follows(b, a), ~Newer(b, a)
  PROVE  a = b
BY Difference, HalfIsNat, SensorLinkAssumption DEF Follows, Newer, Half, Seq16

LEMMA FollowsBoth ==
  ASSUME NEW a \in Seq16, NEW b \in Seq16, Follows(b, a), Follows(a, b)
  PROVE  a = b
<1> DEFINE d == (b - a) % SeqMod
           e == (a - b) % SeqMod
<1>1. /\ d = IF b >= a THEN b - a ELSE b - a + SeqMod
      /\ e = IF a >= b THEN a - b ELSE a - b + SeqMod
  BY Difference
<1>2. d \in 0..Half /\ e \in 0..Half
  BY DEF Follows
<1>3. a \in Int /\ b \in Int /\ SeqMod \in Int
  BY SensorLinkAssumption DEF Seq16
<1> HIDE DEF d, e
<1> QED
  BY <1>1, <1>2, <1>3, HalfIsNat

LEMMA FollowsItself == ASSUME NEW a \in Seq16 PROVE Follows(a, a)
BY Difference, HalfIsNat DEF Follows, Seq16

LEMMA NewerFollows ==
  ASSUME NEW a \in Seq16, NEW b \in Seq16, Newer(b, a)
  PROVE  Follows(b, a) /\ a # b
BY Difference, HalfIsNat DEF Follows, Newer, Half, Seq16

LEMMA NextIsNewer ==
  ASSUME SeqMod > 2, NEW n \in Seq16
  PROVE  Newer((n + 1) % SeqMod, n)
<1>1. (n + 1) % SeqMod \in Seq16
  BY NextIs, SensorLinkAssumption DEF Seq16
<1>2. Half >= 1
  BY SensorLinkAssumption DEF Half
<1>3. (((n + 1) % SeqMod) - n) % SeqMod = 1
  <2>1. CASE n + 1 = SeqMod
    <3>1. (n + 1) % SeqMod = 0 /\ n > 0
      BY <2>1, NextIs, SensorLinkAssumption DEF Seq16
    <3>2. ~(0 >= n) /\ 0 - n + SeqMod = 1
      BY <2>1, <3>1, SensorLinkAssumption DEF Seq16
    <3>3. (0 - n) % SeqMod = 0 - n + SeqMod
      BY <3>2, ZeroTyped, Difference
    <3> QED
      BY <3>1, <3>2, <3>3
  <2>2. CASE n + 1 # SeqMod
    <3>1. (n + 1) % SeqMod = n + 1
      BY <2>2, NextIs
    <3>2. n + 1 \in Seq16 /\ n \in Int
      BY <1>1, <3>1 DEF Seq16
    <3> QED
      BY <3>1, <3>2, Difference
  <2> QED
    BY <2>1, <2>2
<1> QED
  BY <1>2, <1>3 DEF Newer, Half

-----------------------------------------------------------------------------
(* Types                                                                   *)

SensorType ==
  /\ paired \in BOOLEAN /\ session \in Session /\ sequence \in Seq16
  /\ sensorFunction \in FunctionOrNone
  /\ pairAck \in FunctionOrNone \cup {None}
  /\ failures \in 0..(RepairAfter - 1)
  /\ waiting \in {"nothing", "heartbeat", "status", "gpio"}
  /\ answer \in Result \cup {None}
  /\ command \in [function : FunctionOrNone, state : BOOLEAN,
                  outcome : {"none", "open", "confirmed"}]

PeerType == [session : Session, seq : Seq16, valid : BOOLEAN, result : Result]

LinkType ==
  /\ peer \in PeerType \cup {None}
  /\ radio \in BOOLEAN /\ doomed \in BOOLEAN
  /\ lastDriven \in Command \cup {None}

QueueType ==
  /\ rxQueue \in Seq(Frame) /\ Len(rxQueue) <= RxQueueSize
  /\ rx \in Handled \cup {None}
  /\ outputs \in [Function -> BOOLEAN]
  /\ binding \in FunctionOrNone

LEMMA Types ==
  /\ TypeOK <=> SensorType /\ LinkType /\ QueueType
  /\ TypeOK' <=> SensorType' /\ LinkType' /\ QueueType'
BY DEF TypeOK, SensorType, LinkType, QueueType, PeerType

LEMMA PairTyped ==
  ASSUME LinkType, QueueType, NEW s \in Session, Pair(s)
  PROVE  LinkType' /\ pairAck' \in FunctionOrNone \cup {None}
<1>1. Reset(s) \in PeerType
  BY ZeroTyped DEF Reset, PeerType, Result
<1>2. CASE UNCHANGED linkVars /\ pairAck' = None
  BY <1>2 DEF LinkType, linkVars
<1>3. CASE /\ peer' = Reset(s) /\ radio' = TRUE /\ lastDriven' = None
           /\ UNCHANGED doomed /\ pairAck' \in {None, binding}
  BY <1>1, <1>3 DEF LinkType, QueueType
<1> QED
  BY <1>2, <1>3 DEF Pair

LEMMA StartOverTyped ==
  ASSUME TypeOK, StartOver
  PROVE  TypeOK'
<1>1. PICK s \in Fresh : session' = s /\ Pair(s)
  BY DEF StartOver
<1>2. s \in Session
  BY DEF Fresh
<1>3. LinkType' /\ pairAck' \in FunctionOrNone \cup {None}
  BY <1>1, <1>2, PairTyped, Types
<1>4. 0 \in 0..(RepairAfter - 1)
  BY SensorLinkAssumption
<1>5. paired' \in BOOLEAN
  BY DEF StartOver
<1>6. SensorType'
  BY <1>1, <1>2, <1>3, <1>4, <1>5, ZeroTyped, Types
  DEF StartOver, SensorType, FunctionOrNone
<1>7. QueueType'
  BY Types DEF StartOver, QueueType
<1> QED
  BY <1>3, <1>6, <1>7, Types

LEMMA SendTyped ==
  ASSUME TypeOK, NEW type \in {"heartbeat", "status", "gpio"},
         NEW function \in FunctionOrNone, NEW state \in BOOLEAN,
         Send(type, function, state)
  PROVE  /\ rxQueue' \in Seq(Frame) /\ Len(rxQueue') <= RxQueueSize
         /\ waiting' \in {"nothing", "heartbeat", "status", "gpio"}
         /\ answer' \in Result \cup {None}
<1> DEFINE frame == [type |-> type, session |-> session, seq |-> sequence,
                     function |-> function, state |-> state]
<1>1. frame \in Frame
  BY DEF TypeOK, Frame
<1>2. rxQueue' = rxQueue \/ (Len(rxQueue) < RxQueueSize /\ rxQueue' = Append(rxQueue, frame))
  BY SensorLinkAssumption DEF Send, Arrived, TypeOK
<1> HIDE DEF frame
<1>3. rxQueue' \in Seq(Frame) /\ Len(rxQueue') <= RxQueueSize
  BY <1>1, <1>2, SensorLinkAssumption DEF TypeOK
<1> QED
  BY <1>3 DEF Send

LEMMA SendAllTyped ==
  ASSUME TypeOK,
         SendHeartbeat \/ AskStatus \/ \E state \in BOOLEAN : SendCommand(state)
  PROVE  TypeOK'
<1>1. CASE SendHeartbeat \/ AskStatus
  <2>1. PICK t \in {"heartbeat", "status"} : Send(t, Unassigned, FALSE)
    BY <1>1 DEF SendHeartbeat, AskStatus
  <2>2. command' = command
    BY <1>1 DEF SendHeartbeat, AskStatus
  <2>3. Unassigned \in FunctionOrNone
    BY DEF FunctionOrNone
  <2> QED
    BY <2>1, <2>2, <2>3, SendTyped DEF Send, TypeOK, linkVars
<1>2. ASSUME NEW state \in BOOLEAN, SendCommand(state) PROVE TypeOK'
  <2>1. Send("gpio", sensorFunction, state)
    BY <1>2 DEF SendCommand
  <2>2. command' \in [function : FunctionOrNone, state : BOOLEAN,
                      outcome : {"none", "open", "confirmed"}]
    BY <1>2 DEF SendCommand, TypeOK
  <2>3. sensorFunction \in FunctionOrNone
    BY DEF TypeOK
  <2> QED
    BY <2>1, <2>2, <2>3, SendTyped DEF Send, TypeOK, linkVars
<1> QED
  BY <1>1, <1>2

LEMMA WaitEndsTyped ==
  ASSUME TypeOK,
         \/ HeartbeatAnswered \/ HeartbeatTimeout \/ StatusDone
         \/ CommandAnswered \/ CommandTimeout
  PROVE  TypeOK'
<1>1. CASE HeartbeatAnswered \/ StatusDone
  <2>1. sequence' \in Seq16 /\ failures' \in 0..(RepairAfter - 1)
    BY <1>1, NextTyped, SensorLinkAssumption DEF HeartbeatAnswered, StatusDone, TypeOK
  <2> QED
    BY <1>1, <2>1 DEF HeartbeatAnswered, StatusDone, TypeOK, bridgeVars, linkVars
<1>2. CASE HeartbeatTimeout
  <2>1. CASE failures + 1 >= RepairAfter
    BY <1>2, <2>1, StartOverTyped DEF HeartbeatTimeout
  <2>2. CASE ~(failures + 1 >= RepairAfter)
    <3>1. failures' = failures + 1
      BY <1>2, <2>2 DEF HeartbeatTimeout
    <3>2. failures' \in 0..(RepairAfter - 1)
      BY <2>2, <3>1, SensorLinkAssumption DEF TypeOK
    <3> QED
      BY <1>2, <2>2, <3>2 DEF HeartbeatTimeout, TypeOK, bridgeVars, linkVars
  <2> QED
    BY <2>1, <2>2
<1>3. CASE CommandAnswered
  <2>1. sequence' \in Seq16
    BY <1>3, NextTyped DEF CommandAnswered, TypeOK
  <2>2. command' \in [function : FunctionOrNone, state : BOOLEAN,
                      outcome : {"none", "open", "confirmed"}]
    BY <1>3 DEF CommandAnswered, TypeOK
  <2> QED
    BY <1>3, <2>1, <2>2 DEF CommandAnswered, TypeOK, bridgeVars, linkVars
<1>4. CASE CommandTimeout
  BY <1>4 DEF CommandTimeout, TypeOK, bridgeVars, linkVars
<1> QED
  BY <1>1, <1>2, <1>3, <1>4

LEMMA ReplyTyped ==
  ASSUME SensorType, NEW type, NEW frame, NEW a \in Result, Reply(type, frame, a)
  PROVE  SensorType'
BY DEF Reply, Answered, SensorType

\* The queue after its head is gone.
LEMMA Popped ==
  ASSUME NEW q \in Seq(Frame), q # <<>>
  PROVE  /\ Len(q) \in Nat /\ Len(q) > 0 /\ Head(q) = q[1] /\ Head(q) \in Frame
         /\ Tail(q) \in Seq(Frame) /\ Len(Tail(q)) = Len(q) - 1
         /\ \A i \in 1..Len(Tail(q)) : Tail(q)[i] = q[i + 1]
BY HeadTailProperties, EmptySeq

LEMMA RxTyped ==
  ASSUME TypeOK, RxTask
  PROVE  TypeOK'
<1>1. CASE RxTake
  <2>1. /\ rxQueue' = Tail(rxQueue) /\ rxQueue # <<>> /\ rx = None
        /\ UNCHANGED <<linkVars, outputs, binding>>
    BY <1>1 DEF RxTake
  <2>2. rxQueue' \in Seq(Frame) /\ Len(rxQueue') <= RxQueueSize /\ Head(rxQueue) \in Frame
    BY <2>1, Popped, SensorLinkAssumption DEF TypeOK
  <2>3. LinkType'
    BY <2>1, Types DEF LinkType, linkVars
  <2>4. SensorType' /\ rx' \in Handled \cup {None}
    <3>1. CASE UNCHANGED <<sensorVars, rx>>
      BY <2>1, <3>1, Types DEF SensorType, sensorVars
    <3>2. CASE Reply("heartbeat", Head(rxQueue), "ok") /\ UNCHANGED rx
      BY <2>1, <3>2, Types, ReplyTyped DEF Result
    <3>3. CASE /\ Duplicate(Head(rxQueue)) /\ Reply("gpio", Head(rxQueue), peer.result)
               /\ UNCHANGED rx
      <4>1. peer.result \in Result
        BY <3>3 DEF Duplicate, TypeOK
      <4> QED
        BY <2>1, <3>3, <4>1, Types, ReplyTyped
    <3>4. CASE /\ rx' = [frame |-> Head(rxQueue), stage |-> "bound", result |-> "error"]
               /\ UNCHANGED sensorVars
      <4>1. rx' \in Handled
        BY <2>2, <3>4 DEF Handled, Result
      <4> QED
        BY <3>4, <4>1, Types DEF SensorType, sensorVars
    <3> QED
      BY <1>1, <3>1, <3>2, <3>3, <3>4 DEF RxTake
  <2> QED
    BY <2>1, <2>2, <2>3, <2>4, Types DEF QueueType
<1>2. CASE RxCheckBinding
  <2>1. rx' \in Handled
    BY <1>2 DEF RxCheckBinding, TypeOK, Handled
  <2> QED
    BY <1>2, <2>1 DEF RxCheckBinding, TypeOK, sensorVars, linkVars, Handled
<1>3. CASE RxDrive
  <2>1. rx \in Handled /\ rx.frame \in Frame
    BY <1>3 DEF RxDrive, TypeOK, Handled
  <2>2. rx' = [rx EXCEPT !.stage = "remember", !.result = "ok"]
    BY <1>3 DEF RxDrive
  <2>3. rx' \in Handled
    BY <2>1, <2>2 DEF Handled, Result
  <2>4. lastDriven' \in Command
    BY <1>3, <2>1 DEF RxDrive, Frame, Command
  <2>5. outputs' \in [Function -> BOOLEAN]
    BY <1>3, <2>1 DEF RxDrive, TypeOK, Frame
  <2>6. SensorType'
    BY <1>3, Types DEF RxDrive, SensorType, sensorVars
  <2>7. LinkType' /\ QueueType'
    BY <1>3, <2>3, <2>4, <2>5, Types DEF RxDrive, LinkType, QueueType
  <2> QED
    BY <2>6, <2>7, Types
<1>4. CASE RxRemember
  <2>1. rx \in Handled /\ rx.frame \in Frame /\ rx.result \in Result
    BY <1>4 DEF RxRemember, TypeOK, Handled
  <2>2. peer' \in PeerType \cup {None}
    BY <1>4, <2>1 DEF RxRemember, PeerType, Frame
  <2>3. SensorType'
    BY <1>4, <2>1, ReplyTyped, Types DEF RxRemember
  <2>4. LinkType' /\ QueueType'
    BY <1>4, <2>2, Types DEF RxRemember, LinkType, QueueType
  <2> QED
    BY <2>3, <2>4, Types
<1> QED
  BY <1>1, <1>2, <1>3, <1>4 DEF RxTask

LEMMA OthersTyped ==
  ASSUME TypeOK,
         \/ Evict \/ DeleteRadioPeer \/ BridgeRestart
         \/ (\E f \in Function : Assign(f)) \/ Unassign
  PROVE  TypeOK'
<1>1. CASE Evict \/ DeleteRadioPeer
  BY <1>1 DEF Evict, DeleteRadioPeer, TypeOK, sensorVars
<1>2. CASE BridgeRestart
  <2>1. rxQueue' \in Seq(Frame) /\ Len(rxQueue') <= RxQueueSize
    BY <1>2, EmptySeq, SensorLinkAssumption DEF BridgeRestart
  <2>2. command' \in [function : FunctionOrNone, state : BOOLEAN,
                      outcome : {"none", "open", "confirmed"}]
    BY <1>2 DEF BridgeRestart, TypeOK
  <2>3. SensorType'
    BY <1>2, <2>2, Types DEF BridgeRestart, SensorType
  <2>4. LinkType'
    BY <1>2 DEF BridgeRestart, LinkType
  <2>5. outputs' \in [Function -> BOOLEAN]
    BY <1>2 DEF BridgeRestart
  <2>6. QueueType'
    BY <1>2, <2>1, <2>5, Types DEF BridgeRestart, QueueType
  <2> QED
    BY <2>3, <2>4, <2>6, Types
<1>3. ASSUME NEW f \in FunctionOrNone, Notify(f), binding' = f,
             UNCHANGED <<linkVars, rxQueue, rx, outputs>>
      PROVE  TypeOK'
  <2>1. sensorFunction' \in FunctionOrNone
    BY <1>3 DEF Notify, TypeOK
  <2> QED
    BY <1>3, <2>1 DEF Notify, TypeOK, linkVars
<1> QED
  BY <1>1, <1>2, <1>3 DEF Assign, Unassign, FunctionOrNone

LEMMA TypedInductive ==
  /\ Init => TypeOK
  /\ TypeOK /\ [Next]_vars => TypeOK'
<1>1. Init => TypeOK
  <2> SUFFICES ASSUME Init PROVE TypeOK
    OBVIOUS
  <2>1. paired \in BOOLEAN /\ radio \in BOOLEAN /\ doomed \in BOOLEAN
    BY DEF Init
  <2>2. rxQueue \in Seq(Frame) /\ Len(rxQueue) <= RxQueueSize
    BY EmptySeq, SensorLinkAssumption DEF Init
  <2>3. 0 \in 0..(RepairAfter - 1)
    BY SensorLinkAssumption
  <2>4. command \in [function : FunctionOrNone, state : BOOLEAN,
                     outcome : {"none", "open", "confirmed"}]
    BY DEF Init, FunctionOrNone
  <2> QED
    BY <2>1, <2>2, <2>3, <2>4, ZeroTyped DEF Init, TypeOK, FunctionOrNone
<1>2. ASSUME TypeOK, [Next]_vars PROVE TypeOK'
  <2> USE <1>2
  <2>1. CASE UNCHANGED vars
    BY <2>1 DEF TypeOK, vars, sensorVars, bridgeVars, linkVars
  <2>2. CASE SendPair
    <3>1. Pair(session) /\ session \in Session
      BY <2>2 DEF SendPair, TypeOK
    <3>2. LinkType' /\ pairAck' \in FunctionOrNone \cup {None}
      BY <3>1, PairTyped, Types
    <3> QED
      BY <2>2, <3>2, Types DEF SendPair, SensorType, QueueType
  <2>3. CASE TakePairAck
    <3>1. paired' \in BOOLEAN /\ failures' \in 0..(RepairAfter - 1)
      BY <2>3, SensorLinkAssumption DEF TakePairAck
    <3> QED
      BY <2>3, <3>1, ZeroTyped DEF TakePairAck, TypeOK, bridgeVars, linkVars
  <2> QED
    BY <2>1, <2>2, <2>3, StartOverTyped, SendAllTyped, WaitEndsTyped, RxTyped, OthersTyped
    DEF Next, SensorLoop, SensorRestart
<1> QED
  BY <1>1, <1>2

\* The variables of sensor and bridge keep their types: numbers stay below SeqMod, the
\* receive queue within its size, the failures below the number that starts over.
THEOREM TypeCorrect == Spec => []TypeOK
BY TypedInductive, PTL DEF Spec

-----------------------------------------------------------------------------
(* Trails of commands                                                      *)

\* Whether a trail has a first command, or the sensor's next.
Bit == {0, 1}

Id(f) == [session |-> f.session, seq |-> f.seq]

\* The places of commands in a queue q and in the hands r of espnow_rx_task: the
\* latter is place 0.
Places(q, r) ==
  {k \in 0..Len(q) : (k = 0 /\ r # None) \/ (k > 0 /\ q[k].type = "gpio")}

FrameAt(q, r, k) == IF k = 0 THEN r.frame ELSE q[k]

\* The places of a trail: with the first command in place -1 if a is 1, and the
\* sensor's next behind the queue if b is 1.
Trail(q, r, a, b) ==
  {k \in (-a)..(Len(q) + b) : k = -1 \/ k \in Places(q, r) \/ k = Len(q) + 1}

\* What is in place k, for the first command f and the sensor's next one x.
On(q, r, f, x, k) ==
  IF k = -1 THEN Id(f) ELSE IF k > Len(q) THEN x ELSE Id(FrameAt(q, r, k))

\* The places D hold S, in the order of the places.
Ordered(D, S) ==
  /\ \A j, k \in D : j <= k /\ S[j].session = S[k].session => Follows(S[k].seq, S[j].seq)
  /\ \A i, j, k \in D :
       i <= j /\ j <= k /\ S[i].session = S[k].session => S[j].session = S[i].session

\* A trail with everything on it in order.
InOrder(q, r, a, b, f, x) ==
  Ordered(Trail(q, r, a, b), [k \in -1..(Len(q) + 1) |-> On(q, r, f, x, k)])

\* Moving places without changing their order keeps a trail in order.
LEMMA Moved ==
  ASSUME NEW D, NEW S, NEW E, NEW T, Ordered(D, S),
         NEW g, \A k \in E : g[k] \in D /\ T[k] = S[g[k]],
         \A j, k \in E : j <= k => g[j] <= g[k]
  PROVE  Ordered(E, T)
<1>1. ASSUME NEW j \in E, NEW k \in E, j <= k, T[j].session = T[k].session
      PROVE  Follows(T[k].seq, T[j].seq)
  <2>1. g[j] \in D /\ g[k] \in D /\ g[j] <= g[k] /\ T[j] = S[g[j]] /\ T[k] = S[g[k]]
    BY <1>1
  <2> QED
    BY <1>1, <2>1 DEF Ordered
<1>2. ASSUME NEW i \in E, NEW j \in E, NEW k \in E, i <= j, j <= k,
             T[i].session = T[k].session
      PROVE  T[j].session = T[i].session
  <2>1. /\ g[i] \in D /\ g[j] \in D /\ g[k] \in D /\ g[i] <= g[j] /\ g[j] <= g[k]
        /\ T[i] = S[g[i]] /\ T[j] = S[g[j]] /\ T[k] = S[g[k]]
    BY <1>2
  <2> QED
    BY <1>2, <2>1 DEF Ordered
<1> QED
  BY <1>1, <1>2 DEF Ordered

LEMMA TrailPlaces ==
  ASSUME NEW q, Len(q) \in Nat, NEW r, NEW a \in Bit, NEW b \in Bit
  PROVE  \A k : k \in Trail(q, r, a, b) <=>
           \/ k = -1 /\ a = 1
           \/ k \in Places(q, r)
           \/ k = Len(q) + 1 /\ b = 1
BY DEF Trail, Places, Bit

LEMMA TrailRange ==
  ASSUME NEW q, Len(q) \in Nat, NEW r, NEW a \in Bit, NEW b \in Bit
  PROVE  \A k \in Trail(q, r, a, b) : k \in -1..(Len(q) + 1)
BY DEF Trail, Bit

\* Losing places keeps a trail in order.
LEMMA SubInOrder ==
  ASSUME NEW q, Len(q) \in Nat, NEW r, NEW a \in Bit, NEW b \in Bit, NEW f, NEW x,
         InOrder(q, r, a, b, f, x),
         NEW s, \A k \in Places(q, s) :
                  k \in Places(q, r) /\ FrameAt(q, s, k) = FrameAt(q, r, k),
         NEW c \in Bit, NEW d \in Bit, NEW e, NEW y,
         c = 1 => (a = 1 /\ e = f), d = 1 => (b = 1 /\ y = x)
  PROVE  InOrder(q, s, c, d, e, y)
<1> DEFINE S == [k \in -1..(Len(q) + 1) |-> On(q, r, f, x, k)]
           T == [k \in -1..(Len(q) + 1) |-> On(q, s, e, y, k)]
<1>1. \A k \in Trail(q, s, c, d) : k \in Trail(q, r, a, b)
  BY TrailPlaces
<1>2. \A k \in Places(q, s) : k \in 0..Len(q)
  BY DEF Places
<1>3. \A k \in Trail(q, s, c, d) : On(q, s, e, y, k) = On(q, r, f, x, k)
  BY <1>2, TrailPlaces DEF On
<1>4. \A k \in Trail(q, s, c, d) : T[k] = S[k]
  BY <1>3, TrailRange
<1>5. Ordered(Trail(q, r, a, b), S)
  BY DEF InOrder
<1> HIDE DEF S, T
<1>6. Ordered(Trail(q, s, c, d), T)
  BY <1>1, <1>4, <1>5 DEF Ordered
<1> QED
  BY <1>6 DEF InOrder, T

LEMMA SubPlaces ==
  ASSUME NEW q, NEW r, NEW s, s = None \/ (r # None /\ s.frame = r.frame)
  PROVE  \A k \in Places(q, s) :
           k \in Places(q, r) /\ FrameAt(q, s, k) = FrameAt(q, r, k)
BY DEF Places, FrameAt

\* A trail without a queue, without anybody at a command and without a first command
\* is in order.
LEMMA EmptyInOrder ==
  ASSUME NEW b \in Bit, NEW f, NEW x, x.seq \in Seq16
  PROVE  InOrder(<<>>, None, 0, b, f, x)
<1> DEFINE S == [k \in -1..1 |-> On(<<>>, None, f, x, k)]
<1>1. Len(<<>>) = 0
  OBVIOUS
<1>2. \A k \in Trail(<<>>, None, 0, b) : k = 1
  BY <1>1 DEF Trail, Places
<1>3. S[1] = x
  BY <1>1 DEF On
<1>4. Follows(x.seq, x.seq)
  BY FollowsItself
<1> HIDE DEF S
<1>5. Ordered(Trail(<<>>, None, 0, b), S)
  BY <1>2, <1>3, <1>4 DEF Ordered
<1> QED
  BY <1>1, <1>5 DEF InOrder, S

\* espnow_rx_task takes the head of the queue, and either drops it or is at it.
LEMMA TakenInOrder ==
  ASSUME NEW q \in Seq(Frame), q # <<>>,
         NEW a \in Bit, NEW b \in Bit, NEW f, NEW x,
         InOrder(q, None, a, b, f, x),
         NEW r, r = None \/ (Head(q).type = "gpio" /\ r.frame = Head(q))
  PROVE  InOrder(Tail(q), r, a, b, f, x)
<1> DEFINE n == Len(q)
           S == [k \in -1..(n + 1) |-> On(q, None, f, x, k)]
           T == [k \in -1..n |-> On(Tail(q), r, f, x, k)]
           g == [k \in -1..n |-> IF k = -1 THEN -1 ELSE k + 1]
<1>1. /\ n \in Nat /\ n > 0 /\ Len(Tail(q)) = n - 1 /\ Head(q) = q[1]
      /\ \A i \in 1..(n - 1) : Tail(q)[i] = q[i + 1]
  BY Popped
<1>2. Len(Tail(q)) \in Nat /\ (n - 1) + 1 = n
  BY <1>1
<1>3. \A k \in Trail(Tail(q), r, a, b) :
        k \in -1..n /\ g[k] \in Trail(q, None, a, b) /\ T[k] = S[g[k]]
  <2> SUFFICES ASSUME NEW k \in Trail(Tail(q), r, a, b)
               PROVE  k \in -1..n /\ g[k] \in Trail(q, None, a, b) /\ T[k] = S[g[k]]
    OBVIOUS
  <2>1. k \in -1..n
    BY <1>1, <1>2, TrailRange
  <2>0. \/ k = -1 /\ a = 1
        \/ k \in Places(Tail(q), r)
        \/ k = n /\ b = 1
    BY <1>1, <1>2, TrailPlaces
  <2>00. g[k] = IF k = -1 THEN -1 ELSE k + 1
    BY <2>1
  <2> HIDE DEF g
  <2>2. CASE k = -1
    <3>1. a = 1 /\ g[k] = -1
      BY <1>1, <2>0, <2>00, <2>2 DEF Places
    <3>2. T[k] = Id(f) /\ S[-1] = Id(f)
      BY <1>1, <2>1, <2>2 DEF On
    <3> QED
      BY <1>1, <2>1, <3>1, <3>2, TrailPlaces
  <2>3. CASE k = 0
    <3>1. r # None /\ g[k] = 1
      BY <1>1, <2>0, <2>00, <2>3 DEF Places
    <3>2. 1 \in Places(q, None)
      BY <1>1, <3>1 DEF Places
    <3>3. T[k] = Id(r.frame) /\ S[1] = Id(q[1])
      BY <1>1, <2>1, <2>3 DEF On, FrameAt
    <3> QED
      BY <1>1, <2>1, <3>1, <3>2, <3>3, TrailPlaces
  <2>4. CASE k \in 1..(n - 1)
    <3>1. Tail(q)[k].type = "gpio" /\ g[k] = k + 1
      BY <1>1, <2>0, <2>00, <2>4 DEF Places
    <3>2. k + 1 \in Places(q, None)
      BY <1>1, <2>4, <3>1 DEF Places
    <3>3. T[k] = Id(Tail(q)[k]) /\ S[k + 1] = Id(q[k + 1])
      BY <1>1, <2>1, <2>4 DEF On, FrameAt
    <3> QED
      BY <1>1, <2>1, <2>4, <3>1, <3>2, <3>3, TrailPlaces
  <2>5. CASE k = n
    <3>1. b = 1 /\ g[k] = n + 1
      BY <1>1, <2>0, <2>00, <2>5 DEF Places
    <3>2. T[k] = x /\ S[n + 1] = x
      BY <1>1, <2>1, <2>5 DEF On
    <3> QED
      BY <1>1, <2>1, <3>1, <3>2, TrailPlaces
  <2>6. k = -1 \/ k = 0 \/ k \in 1..(n - 1) \/ k = n
    <3>1. n \in Nat
      BY <1>1
    <3> HIDE DEF n, S, T
    <3> QED
      BY <2>1, <3>1
  <2> QED
    BY <2>1, <2>2, <2>3, <2>4, <2>5, <2>6
<1>4. \A j, k \in Trail(Tail(q), r, a, b) : j <= k => g[j] <= g[k]
  <2>1. \A k \in Trail(Tail(q), r, a, b) : k \in -1..n
    BY <1>3
  <2>2. \A j, k \in -1..n : j <= k => g[j] <= g[k]
    BY <1>1
  <2> QED
    BY <2>1, <2>2
<1>5. Ordered(Trail(q, None, a, b), S)
  BY DEF InOrder
<1> HIDE DEF S, g, T
<1>6. Ordered(Trail(Tail(q), r, a, b), T)
  BY <1>3, <1>4, <1>5, Moved
<1> QED
  BY <1>1, <1>2, <1>6 DEF InOrder, T

\* The sensor sends its next command.
LEMMA SentInOrder ==
  ASSUME NEW q \in Seq(Frame), NEW r, NEW a \in Bit, NEW f, NEW x,
         InOrder(q, r, a, 1, f, x), NEW frame \in Frame, Id(frame) = x
  PROVE  InOrder(Append(q, frame), r, a, 1, f, x)
<1> DEFINE n == Len(q)
           p == Append(q, frame)
           S == [k \in -1..(n + 1) |-> On(q, r, f, x, k)]
           T == [k \in -1..(n + 2) |-> On(p, r, f, x, k)]
           g == [k \in -1..(n + 2) |-> IF k = n + 2 THEN n + 1 ELSE k]
<1>1. /\ n \in Nat /\ Len(p) = n + 1 /\ p[n + 1] = frame
      /\ \A i \in 1..n : p[i] = q[i]
  OBVIOUS
<1>2. Len(p) \in Nat /\ (n + 1) + 1 = n + 2
  BY <1>1
<1>3. \A k \in Trail(p, r, a, 1) : k \in -1..(n + 2)
                                   /\ g[k] \in Trail(q, r, a, 1) /\ T[k] = S[g[k]]
  <2> SUFFICES ASSUME NEW k \in Trail(p, r, a, 1)
               PROVE  k \in -1..(n + 2) /\ g[k] \in Trail(q, r, a, 1) /\ T[k] = S[g[k]]
    OBVIOUS
  <2>1. k \in -1..(n + 2)
    BY <1>1, <1>2, TrailRange DEF Bit
  <2>2. (k = -1 /\ a = 1) \/ k \in Places(p, r) \/ k = n + 2
    BY <1>1, <1>2, TrailPlaces DEF Bit
  <2>3. g[k] = IF k = n + 2 THEN n + 1 ELSE k
    BY <2>1
  <2>4. n + 1 \in Trail(q, r, a, 1) /\ S[n + 1] = x
    BY <1>1, TrailPlaces DEF On
  <2> HIDE DEF g
  <2>5. CASE k = n + 2
    <3>1. T[k] = x
      BY <1>1, <2>1, <2>5 DEF On
    <3> QED
      BY <2>1, <2>3, <2>4, <2>5, <3>1
  <2>6. CASE k = n + 1
    <3>1. T[k] = Id(frame) /\ g[k] = n + 1
      BY <1>1, <2>1, <2>3, <2>6 DEF On, FrameAt
    <3> QED
      BY <2>1, <2>4, <3>1
  <2>7. CASE k \in -1..n
    <3>1. g[k] = k
      BY <1>1, <2>3, <2>7
    <3>2. k \in Trail(q, r, a, 1)
      <4>1. (k = -1 /\ a = 1) \/ k \in Places(q, r)
        BY <1>1, <2>2, <2>7 DEF Places
      <4> QED
        BY <1>1, <4>1, TrailPlaces DEF Bit
    <3>3. On(p, r, f, x, k) = On(q, r, f, x, k)
      BY <1>1, <2>7 DEF On, FrameAt
    <3>4. T[k] = S[k]
      BY <1>1, <2>7, <3>3
    <3> QED
      BY <2>1, <3>1, <3>2, <3>4
  <2>8. k = n + 2 \/ k = n + 1 \/ k \in -1..n
    <3>1. n \in Nat
      BY <1>1
    <3> HIDE DEF n, p, S, T
    <3> QED
      BY <2>1, <3>1
  <2> QED
    BY <2>5, <2>6, <2>7, <2>8
<1>4. \A j, k \in Trail(p, r, a, 1) : j <= k => g[j] <= g[k]
  <2>1. \A k \in Trail(p, r, a, 1) : k \in -1..(n + 2)
    BY <1>3
  <2>2. \A j, k \in -1..(n + 2) : j <= k => g[j] <= g[k]
    BY <1>1
  <2> QED
    BY <2>1, <2>2
<1>5. Ordered(Trail(q, r, a, 1), S)
  BY DEF InOrder
<1>6. T = [k \in -1..(Len(p) + 1) |-> On(p, r, f, x, k)]
  BY <1>1, <1>2
<1> HIDE DEF S, g, T, p
<1>7. Ordered(Trail(p, r, a, 1), T)
  BY <1>3, <1>4, <1>5, Moved
<1> QED
  BY <1>6, <1>7 DEF InOrder, p

\* The command espnow_rx_task is at becomes the first one.
LEMMA HandedInOrder ==
  ASSUME NEW q \in Seq(Frame), NEW r, r # None,
         NEW a \in Bit, NEW b \in Bit, NEW f, NEW x, InOrder(q, r, a, b, f, x),
         NEW s, s = None \/ s.frame = r.frame,
         NEW c \in Bit, NEW e, c = 1 => Id(e) = Id(r.frame)
  PROVE  InOrder(q, s, c, b, e, x)
<1> DEFINE n == Len(q)
           S == [k \in -1..(n + 1) |-> On(q, r, f, x, k)]
           T == [k \in -1..(n + 1) |-> On(q, s, e, x, k)]
           g == [k \in -1..(n + 1) |-> IF k = -1 THEN 0 ELSE k]
<1>1. n \in Nat
  OBVIOUS
<1>2. \A k \in Trail(q, s, c, b) : k \in -1..(n + 1)
                                   /\ g[k] \in Trail(q, r, a, b) /\ T[k] = S[g[k]]
  <2> SUFFICES ASSUME NEW k \in Trail(q, s, c, b)
               PROVE  k \in -1..(n + 1) /\ g[k] \in Trail(q, r, a, b) /\ T[k] = S[g[k]]
    OBVIOUS
  <2>1. k \in -1..(n + 1)
    BY <1>1, TrailRange
  <2>2. (k = -1 /\ c = 1) \/ k \in Places(q, s) \/ (k = n + 1 /\ b = 1)
    BY <1>1, TrailPlaces
  <2>3. g[k] = IF k = -1 THEN 0 ELSE k
    BY <2>1
  <2> HIDE DEF g
  <2>4. CASE k = -1
    <3>1. c = 1 /\ g[k] = 0
      BY <1>1, <2>2, <2>3, <2>4 DEF Places
    <3>2. 0 \in Places(q, r)
      BY <1>1 DEF Places
    <3>3. T[k] = Id(e) /\ S[0] = Id(r.frame)
      BY <1>1, <2>1, <2>4 DEF On, FrameAt
    <3> QED
      BY <1>1, <2>1, <3>1, <3>2, <3>3, TrailPlaces
  <2>5. CASE k # -1
    <3>1. g[k] = k
      BY <2>3, <2>5
    <3>2. k \in Trail(q, r, a, b)
      <4>1. k \in Places(q, r) \/ (k = n + 1 /\ b = 1)
        BY <2>2, <2>5 DEF Places
      <4> QED
        BY <1>1, <4>1, TrailPlaces
    <3>3. On(q, s, e, x, k) = On(q, r, f, x, k)
      BY <1>1, <2>2, <2>5 DEF On, FrameAt, Places
    <3>4. T[k] = S[k]
      BY <2>1, <3>3
    <3> QED
      BY <2>1, <3>1, <3>2, <3>4
  <2> QED
    BY <2>4, <2>5
<1>3. \A j, k \in Trail(q, s, c, b) : j <= k => g[j] <= g[k]
  <2>1. \A k \in Trail(q, s, c, b) : k \in -1..(n + 1)
    BY <1>2
  <2>2. \A j, k \in -1..(n + 1) : j <= k => g[j] <= g[k]
    BY <1>1
  <2> QED
    BY <2>1, <2>2
<1>4. Ordered(Trail(q, r, a, b), S)
  BY DEF InOrder
<1> HIDE DEF S, g, T
<1>5. Ordered(Trail(q, s, c, b), T)
  BY <1>2, <1>3, <1>4, Moved
<1> QED
  BY <1>5 DEF InOrder, T

\* The commands on a trail that have been sent.
Commands(q, r, a, f) ==
  {Id(FrameAt(q, r, k)) : k \in Places(q, r)} \cup (IF a = 1 THEN {Id(f)} ELSE {})

\* The sensor counts on, or is the first time on the trail.
LEMMA CountedInOrder ==
  ASSUME NEW q \in Seq(Frame), NEW r, NEW a \in Bit, NEW b \in Bit, NEW f, NEW x,
         InOrder(q, r, a, b, f, x), NEW y, y.seq \in Seq16,
         \A c \in Commands(q, r, a, f) : c.session = y.session => Follows(y.seq, c.seq),
         \/ b = 1 /\ x.session = y.session
         \/ \A c \in Commands(q, r, a, f) : c.session # y.session
  PROVE  InOrder(q, r, a, 1, f, y)
<1> DEFINE n == Len(q)
           S == [k \in -1..(n + 1) |-> On(q, r, f, x, k)]
           T == [k \in -1..(n + 1) |-> On(q, r, f, y, k)]
           D == Trail(q, r, a, b)
           E == Trail(q, r, a, 1)
<1>1. n \in Nat
  OBVIOUS
<1>2. T[n + 1] = y /\ S[n + 1] = x
  BY <1>1 DEF On
<1>3. \A k \in E : k = n + 1 \/ (k < n + 1 /\ k \in D /\ T[k] = S[k]
                                 /\ T[k] \in Commands(q, r, a, f))
  <2> SUFFICES ASSUME NEW k \in E, k # n + 1
               PROVE  k < n + 1 /\ k \in D /\ T[k] = S[k] /\ T[k] \in Commands(q, r, a, f)
    OBVIOUS
  <2>1. k \in -1..(n + 1) /\ k < n + 1
    <3>1. k \in -1..(n + 1)
      BY <1>1, TrailRange DEF Bit
    <3> HIDE DEF n, E
    <3> QED
      BY <1>1, <3>1
  <2>2. (k = -1 /\ a = 1) \/ k \in Places(q, r)
    BY <1>1, TrailPlaces DEF Bit
  <2>3. k \in D
    BY <1>1, <2>2, TrailPlaces
  <2>4. On(q, r, f, y, k) = On(q, r, f, x, k)
    BY <1>1, <2>1 DEF On
  <2>5. T[k] = On(q, r, f, y, k) /\ T[k] = S[k]
    BY <2>1, <2>4
  <2>6. T[k] \in Commands(q, r, a, f)
    <3>1. CASE k = -1 /\ a = 1
      BY <2>5, <3>1 DEF On, Commands
    <3>2. CASE k \in Places(q, r)
      <4>1. k # -1 /\ ~(k > Len(q))
        BY <1>1, <3>2 DEF Places
      <4>2. T[k] = Id(FrameAt(q, r, k))
        BY <2>5, <4>1 DEF On
      <4> QED
        BY <3>2, <4>2 DEF Commands
    <3> QED
      BY <2>2, <3>1, <3>2
  <2> QED
    BY <2>1, <2>3, <2>5, <2>6
<1>4. b = 1 => n + 1 \in D
  BY <1>1, TrailPlaces
<1>5. Ordered(D, S)
  BY DEF InOrder
<1>6. Follows(y.seq, y.seq)
  BY FollowsItself
<1>7. \A k \in E : k \in Int
  BY <1>1, TrailRange DEF Bit
<1> HIDE DEF n, S, T, D, E
<1>8. ASSUME NEW j \in E, NEW k \in E, j <= k, T[j].session = T[k].session
      PROVE  Follows(T[k].seq, T[j].seq)
  <2>1. CASE k = n + 1 /\ j = n + 1
    BY <1>2, <1>6, <2>1
  <2>2. CASE k = n + 1 /\ j # n + 1
    BY <1>2, <1>3, <1>8, <2>2
  <2>3. CASE k # n + 1
    <3>1. j # n + 1
      BY <1>1, <1>3, <1>7, <1>8, <2>3
    <3> QED
      BY <1>3, <1>5, <1>8, <2>3, <3>1 DEF Ordered
  <2> QED
    BY <2>1, <2>2, <2>3
<1>9. ASSUME NEW i \in E, NEW j \in E, NEW k \in E, i <= j, j <= k,
             T[i].session = T[k].session
      PROVE  T[j].session = T[i].session
  <2>1. CASE k # n + 1
    <3>1. j # n + 1
      BY <1>1, <1>3, <1>7, <1>9, <2>1
    <3>2. i # n + 1
      BY <1>1, <1>3, <1>7, <1>9, <3>1
    <3> QED
      BY <1>3, <1>5, <1>9, <2>1, <3>1, <3>2 DEF Ordered
  <2>2. CASE k = n + 1 /\ j = n + 1
    BY <1>9, <2>2
  <2>3. CASE k = n + 1 /\ j # n + 1
    <3>1. i # n + 1
      BY <1>1, <1>3, <1>7, <1>9, <2>3
    <3>2. b = 1 /\ x.session = y.session
      BY <1>2, <1>3, <1>9, <2>3, <3>1
    <3>3. i \in D /\ j \in D /\ n + 1 \in D /\ j <= n + 1
      BY <1>3, <1>4, <1>9, <2>3, <3>1, <3>2
    <3>4. S[i].session = S[n + 1].session
      BY <1>2, <1>3, <1>9, <2>3, <3>1, <3>2
    <3>5. S[j].session = S[i].session
      BY <1>5, <1>9, <3>3, <3>4 DEF Ordered
    <3> QED
      BY <1>3, <2>3, <3>1, <3>5
  <2> QED
    BY <2>1, <2>2, <2>3
<1>10. Ordered(E, T)
  BY <1>8, <1>9 DEF Ordered
<1> QED
  BY <1>10 DEF InOrder, E, T, n

\* What the order of a trail says of its first command.
LEMMA FirstInOrder ==
  ASSUME NEW q \in Seq(Frame), NEW r, NEW b \in Bit, NEW f, NEW x,
         InOrder(q, r, 1, b, f, x)
  PROVE  /\ r # None /\ r.frame.session = f.session => Follows(r.frame.seq, f.seq)
         /\ b = 1 /\ x.session = f.session => Follows(x.seq, f.seq)
         /\ r # None /\ r.frame.session # f.session =>
              /\ \A k \in Places(q, r) : FrameAt(q, r, k).session # f.session
              /\ b = 1 => x.session # f.session
<1> DEFINE n == Len(q)
           S == [k \in -1..(n + 1) |-> On(q, r, f, x, k)]
           D == Trail(q, r, 1, b)
<1>1. n \in Nat
  OBVIOUS
<1>2. Ordered(D, S)
  BY DEF InOrder
<1>3. /\ -1 \in D /\ S[-1] = Id(f)
      /\ S[n + 1] = x
      /\ b = 1 => n + 1 \in D
  BY <1>1, TrailPlaces DEF On
<1>4. \A k \in Places(q, r) : /\ k \in D /\ k \in 0..n
                              /\ S[k] = Id(FrameAt(q, r, k))
  BY <1>1, TrailPlaces DEF Places, On
<1>5. r # None => 0 \in Places(q, r) /\ FrameAt(q, r, 0) = r.frame
  BY <1>1 DEF Places, FrameAt
<1>6. \A g : Id(g).session = g.session /\ Id(g).seq = g.seq
  BY DEF Id
<1> HIDE DEF n, S, D
<1>7. r # None /\ r.frame.session = f.session => Follows(r.frame.seq, f.seq)
  BY <1>2, <1>3, <1>4, <1>5, <1>6 DEF Ordered
<1>8. b = 1 /\ x.session = f.session => Follows(x.seq, f.seq)
  BY <1>1, <1>2, <1>3, <1>6 DEF Ordered
<1>9. ASSUME r # None, r.frame.session # f.session, NEW k \in Places(q, r)
      PROVE  FrameAt(q, r, k).session # f.session
  <2>1. -1 <= 0 /\ 0 <= k /\ 0 \in D /\ k \in D
    BY <1>4, <1>5, <1>9
  <2> QED
    BY <1>2, <1>3, <1>4, <1>5, <1>6, <1>9, <2>1 DEF Ordered
<1>10. ASSUME r # None, r.frame.session # f.session, b = 1
       PROVE  x.session # f.session
  <2>1. -1 <= 0 /\ 0 <= n + 1 /\ 0 \in D /\ n + 1 \in D
    BY <1>1, <1>3, <1>4, <1>5, <1>10
  <2> QED
    BY <1>2, <1>3, <1>4, <1>5, <1>6, <1>10, <2>1 DEF Ordered
<1> QED
  BY <1>7, <1>8, <1>9, <1>10

LEMMA CommandsLess ==
  ASSUME NEW q, NEW r, NEW a \in Bit, NEW f,
         NEW s, s = None \/ (r # None /\ s.frame = r.frame),
         NEW c \in Bit, NEW e, c = 1 => (a = 1 /\ e = f)
  PROVE  Commands(q, s, c, e) \subseteq Commands(q, r, a, f)
<1>1. \A k \in Places(q, s) : k \in Places(q, r) /\ FrameAt(q, s, k) = FrameAt(q, r, k)
  BY DEF Places, FrameAt
<1> QED
  BY <1>1 DEF Commands

\* The places of a queue that loses its head, or gets another frame.
LEMMA PlacesTaken ==
  ASSUME NEW q \in Seq(Frame), q # <<>>,
         NEW r, r = None \/ (Head(q).type = "gpio" /\ r.frame = Head(q))
  PROVE  \A k \in Places(Tail(q), r) :
           k + 1 \in Places(q, None) /\ FrameAt(Tail(q), r, k) = FrameAt(q, None, k + 1)
<1>1. /\ Len(q) \in Nat /\ Len(q) > 0 /\ Len(Tail(q)) = Len(q) - 1 /\ Head(q) = q[1]
      /\ \A i \in 1..(Len(q) - 1) : Tail(q)[i] = q[i + 1]
  BY Popped
<1> SUFFICES ASSUME NEW k \in Places(Tail(q), r)
             PROVE  /\ k + 1 \in Places(q, None)
                    /\ FrameAt(Tail(q), r, k) = FrameAt(q, None, k + 1)
  OBVIOUS
<1>2. CASE k = 0
  BY <1>1, <1>2 DEF Places, FrameAt
<1>3. CASE k # 0
  <2>1. k \in 1..(Len(q) - 1) /\ Tail(q)[k].type = "gpio"
    BY <1>1, <1>3 DEF Places
  <2>2. k + 1 \in 0..Len(q) /\ k + 1 > 0 /\ k + 1 # 0
    BY <1>1, <2>1
  <2> QED
    BY <1>1, <1>3, <2>1, <2>2 DEF Places, FrameAt
<1> QED
  BY <1>2, <1>3

LEMMA PlacesSent ==
  ASSUME NEW q \in Seq(Frame), NEW r, NEW frame \in Frame
  PROVE  \A k \in Places(Append(q, frame), r) :
           \/ /\ k \in Places(q, r) /\ k <= Len(q)
              /\ FrameAt(Append(q, frame), r, k) = FrameAt(q, r, k)
           \/ /\ frame.type = "gpio" /\ k = Len(q) + 1
              /\ FrameAt(Append(q, frame), r, k) = frame
<1> DEFINE p == Append(q, frame)
<1>1. /\ Len(q) \in Nat /\ Len(p) = Len(q) + 1 /\ p[Len(q) + 1] = frame
      /\ \A i \in 1..Len(q) : p[i] = q[i]
  OBVIOUS
<1> HIDE DEF p
<1> SUFFICES ASSUME NEW k \in Places(p, r)
             PROVE  \/ /\ k \in Places(q, r) /\ k <= Len(q)
                       /\ FrameAt(p, r, k) = FrameAt(q, r, k)
                    \/ /\ frame.type = "gpio" /\ k = Len(q) + 1
                       /\ FrameAt(p, r, k) = frame
  BY DEF p
<1>2. CASE k = 0
  BY <1>1, <1>2 DEF Places, FrameAt
<1>3. CASE k = Len(q) + 1
  BY <1>1, <1>3 DEF Places, FrameAt
<1>4. CASE k # 0 /\ k # Len(q) + 1
  <2>1. k \in 1..Len(q)
    BY <1>1, <1>4 DEF Places
  <2> QED
    BY <1>1, <1>4, <2>1 DEF Places, FrameAt
<1> QED
  BY <1>2, <1>3, <1>4

LEMMA CommandsTaken ==
  ASSUME NEW q \in Seq(Frame), q # <<>>, NEW a \in Bit, NEW f,
         NEW r, r = None \/ (Head(q).type = "gpio" /\ r.frame = Head(q))
  PROVE  /\ Commands(Tail(q), r, a, f) \subseteq Commands(q, None, a, f)
         /\ Head(q).type = "gpio" => Id(Head(q)) \in Commands(q, None, a, f)
<1>1. Len(q) \in Nat /\ Len(q) > 0 /\ Head(q) = q[1]
  BY Popped
<1>2. Head(q).type = "gpio" => 1 \in Places(q, None) /\ FrameAt(q, None, 1) = Head(q)
  BY <1>1 DEF Places, FrameAt
<1> QED
  BY <1>2, PlacesTaken DEF Commands

LEMMA CommandsSent ==
  ASSUME NEW q \in Seq(Frame), NEW r, NEW a \in Bit, NEW f, NEW frame \in Frame
  PROVE  /\ Commands(Append(q, frame), r, a, f)
              \subseteq Commands(q, r, a, f) \cup {Id(frame)}
         /\ frame.type # "gpio" =>
              Commands(Append(q, frame), r, a, f) \subseteq Commands(q, r, a, f)
BY PlacesSent DEF Commands

LEMMA CommandsHanded ==
  ASSUME NEW q \in Seq(Frame), NEW r, r # None, NEW a \in Bit, NEW f,
         NEW s, s = None \/ s.frame = r.frame,
         NEW c \in Bit, NEW e, c = 1 => Id(e) = Id(r.frame)
  PROVE  /\ Commands(q, s, c, e) \subseteq Commands(q, r, a, f)
         /\ Id(r.frame) \in Commands(q, r, a, f)
<1>1. \A k \in Places(q, s) : k \in Places(q, r) /\ FrameAt(q, s, k) = FrameAt(q, r, k)
  BY DEF Places, FrameAt
<1>2. 0 \in Places(q, r) /\ FrameAt(q, r, 0) = r.frame
  BY DEF Places, FrameAt
<1> QED
  BY <1>1, <1>2 DEF Commands

-----------------------------------------------------------------------------
(* The two trails: behind the last command executed, and behind the last   *)
(* one remembered                                                          *)

DrivenFirst == IF lastDriven # None THEN 1 ELSE 0
KnownFirst == IF peer # None /\ peer.valid THEN 1 ELSE 0
Joined == IF paired THEN 1 ELSE 0

\* The number the sensor uses for its next command, or for the one it repeats.
Cursor == [session |-> session, seq |-> sequence]

DrivenInOrder == InOrder(rxQueue, rx, DrivenFirst, Joined, lastDriven, Cursor)
KnownInOrder == InOrder(rxQueue, rx, KnownFirst, Joined, peer, Cursor)

Pending == Commands(rxQueue, rx, 0, None)
SentDriven == Commands(rxQueue, rx, DrivenFirst, lastDriven)
SentKnown == Commands(rxQueue, rx, KnownFirst, peer)
Sent == SentDriven \cup SentKnown

Engaged ==
  /\ waiting # "nothing" => paired
  /\ pairAck # None => ~paired

\* Nothing is on its way in the session of a sensor that is not paired, and once the
\* bridge has answered its PAIR nothing of that session is executed or remembered.
Unheard ==
  /\ ~paired => \A c \in Pending : c.session # session
  /\ pairAck # None => \A c \in Sent : c.session # session

\* The sensor is about to use up its number.
Counting == waiting \in {"heartbeat", "status"} \/ (waiting = "gpio" /\ answer = "ok")

\* When it does, its next number is newer than every one around.
Window == Counting => \A c \in Sent : c.session = session => Newer(NextSeq, c.seq)

TrailInv == DrivenInOrder /\ KnownInOrder /\ Engaged /\ Unheard /\ Window

Moving == DrivenInOrder' /\ KnownInOrder' /\ Sent' \subseteq Sent /\ Pending' \subseteq Pending

LEMMA FirstsAre ==
  /\ DrivenFirst \in Bit /\ KnownFirst \in Bit /\ Joined \in Bit
  /\ DrivenFirst' \in Bit /\ KnownFirst' \in Bit /\ Joined' \in Bit
  /\ DrivenFirst = 1 <=> lastDriven # None
  /\ DrivenFirst' = 1 <=> lastDriven' # None
  /\ KnownFirst = 1 <=> peer # None /\ peer.valid
  /\ KnownFirst' = 1 <=> peer' # None /\ peer'.valid
  /\ Joined = 1 <=> paired
  /\ Joined' = 1 <=> paired'
BY DEF DrivenFirst, KnownFirst, Joined, Bit

LEMMA PendingIsSent == Pending \subseteq Sent
BY DEF Pending, Sent, SentDriven, SentKnown, Commands

\* A step that only forgets the first commands or the sensor's place.
LEMMA Forgetting ==
  ASSUME TypeOK, DrivenInOrder, KnownInOrder,
         rxQueue' = rxQueue, rx' = None \/ (rx # None /\ rx'.frame = rx.frame),
         lastDriven' # None => lastDriven' = lastDriven,
         peer' # None /\ peer'.valid => peer' = peer,
         paired' => paired /\ Cursor' = Cursor
  PROVE  Moving
<1>1. Len(rxQueue) \in Nat
  BY DEF TypeOK
<1>2. /\ DrivenFirst' = 1 => (DrivenFirst = 1 /\ lastDriven' = lastDriven)
      /\ KnownFirst' = 1 => (KnownFirst = 1 /\ peer' = peer)
      /\ Joined' = 1 => (Joined = 1 /\ Cursor' = Cursor)
  BY FirstsAre
<1>a. /\ DrivenFirst \in Bit /\ KnownFirst \in Bit /\ Joined \in Bit
      /\ DrivenFirst' \in Bit /\ KnownFirst' \in Bit /\ Joined' \in Bit
  BY FirstsAre
<1>b. \A k \in Places(rxQueue, rx') :
        k \in Places(rxQueue, rx) /\ FrameAt(rxQueue, rx', k) = FrameAt(rxQueue, rx, k)
  BY SubPlaces
<1>3. InOrder(rxQueue, rx', DrivenFirst', Joined', lastDriven', Cursor')
  <2>1. InOrder(rxQueue, rx, DrivenFirst, Joined, lastDriven, Cursor)
    BY DEF DrivenInOrder
  <2>2. /\ DrivenFirst' = 1 => (DrivenFirst = 1 /\ lastDriven' = lastDriven)
        /\ Joined' = 1 => (Joined = 1 /\ Cursor' = Cursor)
    BY <1>2
  <2> QED
    BY <1>1, <1>a, <1>b, <2>1, <2>2, SubInOrder
<1>4. InOrder(rxQueue, rx', KnownFirst', Joined', peer', Cursor')
  <2>1. InOrder(rxQueue, rx, KnownFirst, Joined, peer, Cursor)
    BY DEF KnownInOrder
  <2>2. /\ KnownFirst' = 1 => (KnownFirst = 1 /\ peer' = peer)
        /\ Joined' = 1 => (Joined = 1 /\ Cursor' = Cursor)
    BY <1>2
  <2> QED
    BY <1>1, <1>a, <1>b, <2>1, <2>2, SubInOrder
<1>5. SentDriven' \subseteq SentDriven
  BY <1>2, FirstsAre, CommandsLess DEF SentDriven
<1>6. SentKnown' \subseteq SentKnown
  BY <1>2, FirstsAre, CommandsLess DEF SentKnown
<1>7. Pending' \subseteq Pending
  BY CommandsLess DEF Pending, Bit
<1> QED
  BY <1>3, <1>4, <1>5, <1>6, <1>7
  DEF Moving, DrivenInOrder, KnownInOrder, Sent

\* What is left to show of a step in which trails only move and no number is used up.
LEMMA MovingKeeps ==
  ASSUME TrailInv, Moving, UNCHANGED <<paired, session, sequence>>,
         pairAck' # None => pairAck' = pairAck,
         waiting' \in {waiting, "nothing"}, answer' \in {answer, None}
  PROVE  TrailInv'
<1>1. Engaged'
  BY DEF TrailInv, Engaged
<1>2. Unheard'
  BY DEF TrailInv, Unheard, Moving
<1>3. Window'
  BY SensorLinkAssumption DEF TrailInv, Window, Counting, Moving, NextSeq
<1> QED
  BY <1>1, <1>2, <1>3 DEF TrailInv, Moving

\* rx stays as it is.
LEMMA SameRx == TypeOK /\ rx' = rx => rx' = None \/ (rx # None /\ rx'.frame = rx.frame)
OBVIOUS

LEMMA QuietTrails ==
  ASSUME TypeOK, TrailInv,
         \/ DeleteRadioPeer \/ Evict \/ CommandTimeout
         \/ (\E f \in Function : Assign(f)) \/ Unassign
         \/ UNCHANGED vars
         \/ HeartbeatTimeout /\ ~(failures + 1 >= RepairAfter)
  PROVE  Moving /\ TrailInv'
<1>1. /\ UNCHANGED <<paired, session, sequence, pairAck, rxQueue, rx>>
      /\ lastDriven' # None => lastDriven' = lastDriven
      /\ peer' # None => peer' = peer
      /\ waiting' \in {waiting, "nothing"} /\ answer' = answer
  BY DEF DeleteRadioPeer, Evict, CommandTimeout, Assign, Unassign, Notify,
         HeartbeatTimeout, vars, sensorVars, bridgeVars, linkVars
<1>2. Cursor' = Cursor
  BY <1>1 DEF Cursor
<1>3. Moving
  BY <1>1, <1>2, SameRx, Forgetting DEF TrailInv
<1> QED
  BY <1>1, <1>3, MovingKeeps

LEMMA PairTrails ==
  ASSUME NEW s, Pair(s), rxQueue' = rxQueue, rx' = rx,
         TypeOK, DrivenInOrder, KnownInOrder,
         ~paired', \A c \in Pending : c.session # session',
         waiting' = "nothing"
  PROVE  Moving /\ TrailInv'
<1>1. peer' # None /\ peer'.valid => peer' = peer
  BY DEF Pair, Reset, linkVars
<1>2. lastDriven' # None => lastDriven' = lastDriven
  BY DEF Pair, linkVars
<1>3. Moving
  BY <1>1, <1>2, SameRx, Forgetting
<1>4. Engaged' /\ Window'
  BY DEF Engaged, Window, Counting
<1>5. pairAck' # None => DrivenFirst' = 0 /\ KnownFirst' = 0
  BY FirstsAre DEF Pair, Reset, Bit
<1>6. pairAck' # None => Sent' \subseteq Pending
  BY <1>5 DEF Sent, SentDriven, SentKnown, Commands, Pending
<1>7. Unheard'
  BY <1>3, <1>6 DEF Unheard, Moving
<1> QED
  BY <1>3, <1>4, <1>7 DEF TrailInv, Moving

LEMMA StartTrails ==
  ASSUME TypeOK, TrailInv, StartOver \/ SendPair
  PROVE  Moving /\ TrailInv'
<1>1. CASE SendPair
  <2>1. ~paired' /\ session' = session /\ ~paired /\ waiting' = "nothing"
    BY <1>1 DEF SendPair
  <2>2. Pair(session) /\ rxQueue' = rxQueue /\ rx' = rx
    BY <1>1 DEF SendPair
  <2>3. \A c \in Pending : c.session # session'
    BY <2>1 DEF TrailInv, Unheard
  <2> QED
    BY <2>1, <2>2, <2>3, PairTrails DEF TrailInv
<1>2. CASE StartOver
  <2>1. PICK s \in Fresh : session' = s /\ Pair(s)
    BY <1>2 DEF StartOver
  <2>2. ~paired' /\ waiting' = "nothing" /\ rxQueue' = rxQueue /\ rx' = rx
    BY <1>2 DEF StartOver
  <2>3. \A k \in Places(rxQueue, rx) : FrameAt(rxQueue, rx, k).session # s
    BY <2>1 DEF Fresh, Places, FrameAt
  <2>4. \A c \in Pending : c.session # session'
    BY <2>1, <2>3 DEF Pending, Commands, Id
  <2> QED
    BY <2>1, <2>2, <2>4, PairTrails DEF TrailInv
<1> QED
  BY <1>1, <1>2

LEMMA SentTyped ==
  ASSUME TypeOK
  PROVE  \A c \in Sent : c.seq \in Seq16
<1>1. \A k \in Places(rxQueue, rx) : FrameAt(rxQueue, rx, k).seq \in Seq16
  <2> SUFFICES ASSUME NEW k \in Places(rxQueue, rx)
               PROVE  FrameAt(rxQueue, rx, k) \in Frame
    BY DEF Frame
  <2>1. CASE k = 0
    BY <2>1 DEF TypeOK, Places, FrameAt, Handled
  <2>2. CASE k # 0
    <3>1. k \in 1..Len(rxQueue) /\ rxQueue \in Seq(Frame)
      BY <2>2 DEF TypeOK, Places
    <3> QED
      BY <2>2, <3>1 DEF FrameAt
  <2> QED
    BY <2>1, <2>2
<1>2. DrivenFirst = 1 => lastDriven.seq \in Seq16
  BY FirstsAre DEF TypeOK, Command
<1>3. KnownFirst = 1 => peer.seq \in Seq16
  BY FirstsAre DEF TypeOK, Command, Handled
<1> QED
  BY <1>1, <1>2, <1>3 DEF Sent, SentDriven, SentKnown, Commands, Id

\* Every number of the session that is around is one WithinWindow looks at.
LEMMA SentAreLandmarks ==
  ASSUME TypeOK
  PROVE  \A c \in Sent : c.session = session => c.seq \in Landmarks
<1>1. ASSUME NEW k \in Places(rxQueue, rx), FrameAt(rxQueue, rx, k).session = session
      PROVE  FrameAt(rxQueue, rx, k).seq \in Landmarks
  <2>1. CASE k = 0
    BY <1>1, <2>1 DEF Places, FrameAt, Landmarks
  <2>2. CASE k # 0
    <3>1. k \in 1..Len(rxQueue) /\ rxQueue[k].type = "gpio"
      BY <2>2 DEF TypeOK, Places
    <3> QED
      BY <1>1, <2>2, <3>1 DEF FrameAt, Landmarks
  <2> QED
    BY <2>1, <2>2
<1>2. DrivenFirst = 1 /\ lastDriven.session = session => lastDriven.seq \in Landmarks
  BY FirstsAre DEF Landmarks
<1>3. KnownFirst = 1 /\ peer.session = session => peer.seq \in Landmarks
  BY FirstsAre DEF Landmarks
<1> QED
  BY <1>1, <1>2, <1>3 DEF Sent, SentDriven, SentKnown, Commands, Id

LEMMA JoinTrails ==
  ASSUME TypeOK, TrailInv, TakePairAck
  PROVE  TrailInv' /\ Sent' = Sent /\ Pending' = Pending
<1>1. /\ pairAck # None /\ ~paired /\ paired' /\ pairAck' = None
      /\ UNCHANGED <<rxQueue, rx, peer, lastDriven, session, waiting>>
      /\ sequence' = 0 /\ waiting = "nothing"
  BY DEF TakePairAck, TrailInv, Engaged, bridgeVars, linkVars
<1>2. \A c \in Sent : c.session # session
  BY <1>1 DEF TrailInv, Unheard
<1>3. DrivenFirst' = DrivenFirst /\ KnownFirst' = KnownFirst /\ Joined' = 1
  BY <1>1 DEF DrivenFirst, KnownFirst, Joined
<1>4. SentDriven' = SentDriven /\ SentKnown' = SentKnown /\ Pending' = Pending
  BY <1>1, <1>3 DEF SentDriven, SentKnown, Pending
<1>5. Cursor'.seq \in Seq16 /\ Cursor'.session = session
  BY <1>1, ZeroTyped DEF Cursor
<1>6. rxQueue \in Seq(Frame)
  BY DEF TypeOK
<1>7. DrivenInOrder'
  <2>1. \A c \in SentDriven : c.session # session
    BY <1>2 DEF Sent
  <2>2. InOrder(rxQueue, rx, DrivenFirst, 1, lastDriven, Cursor')
    BY <1>5, <1>6, <2>1, FirstsAre, CountedInOrder DEF TrailInv, DrivenInOrder, SentDriven
  <2> QED
    BY <1>1, <1>3, <2>2 DEF DrivenInOrder
<1>8. KnownInOrder'
  <2>1. \A c \in SentKnown : c.session # session
    BY <1>2 DEF Sent
  <2>2. InOrder(rxQueue, rx, KnownFirst, 1, peer, Cursor')
    BY <1>5, <1>6, <2>1, FirstsAre, CountedInOrder DEF TrailInv, KnownInOrder, SentKnown
  <2> QED
    BY <1>1, <1>3, <2>2 DEF KnownInOrder
<1> QED
  BY <1>1, <1>4, <1>7, <1>8 DEF TrailInv, Sent, Engaged, Unheard, Window, Counting

LEMMA CountTrails ==
  ASSUME TypeOK, TrailInv, waiting # "nothing", waiting' = "nothing",
         sequence' = sequence \/ (Counting /\ sequence' = NextSeq),
         UNCHANGED <<paired, session, pairAck, bridgeVars>>
  PROVE  /\ TrailInv' /\ Sent' = Sent /\ Pending' = Pending
         /\ sequence' # sequence => \A c \in Sent : c # Cursor'
<1>1. UNCHANGED <<rxQueue, rx, peer, lastDriven>> /\ paired
  BY DEF bridgeVars, linkVars, TrailInv, Engaged
<1>2. DrivenFirst' = DrivenFirst /\ KnownFirst' = KnownFirst /\ Joined' = 1 /\ Joined = 1
  BY <1>1 DEF DrivenFirst, KnownFirst, Joined
<1>3. SentDriven' = SentDriven /\ SentKnown' = SentKnown /\ Pending' = Pending
  BY <1>1, <1>2 DEF SentDriven, SentKnown, Pending
<1>4. Engaged' /\ Unheard' /\ Window'
  BY <1>1, <1>3 DEF TrailInv, Engaged, Unheard, Window, Counting, Sent
<1>5. CASE Counting /\ sequence' = NextSeq
  <2>1. \A c \in Sent : c.session = session =>
          Newer(NextSeq, c.seq) /\ Follows(NextSeq, c.seq) /\ c.seq # NextSeq
    BY <1>5, SentTyped, NextTyped, NewerFollows DEF TrailInv, Window, TypeOK
  <2>2. Cursor'.session = session /\ Cursor'.seq = NextSeq /\ Cursor.session = session
    BY <1>5 DEF Cursor
  <2>3. \A c \in Sent : c # Cursor'
    BY <2>1, <2>2
  <2>4. NextSeq \in Seq16 /\ rxQueue \in Seq(Frame)
    BY NextTyped DEF TypeOK
  <2>5. InOrder(rxQueue, rx, DrivenFirst, 1, lastDriven, Cursor')
    <3>1. \A c \in Commands(rxQueue, rx, DrivenFirst, lastDriven) :
            c.session = Cursor'.session => Follows(Cursor'.seq, c.seq)
      BY <2>1, <2>2 DEF Sent, SentDriven
    <3>2. InOrder(rxQueue, rx, DrivenFirst, Joined, lastDriven, Cursor)
      BY DEF TrailInv, DrivenInOrder
    <3>3. DrivenFirst \in Bit /\ Joined \in Bit
      BY FirstsAre
    <3>4. Cursor'.seq \in Seq16 /\ (Joined = 1 /\ Cursor.session = Cursor'.session)
      BY <1>2, <2>2, <2>4
    <3> QED
      BY <2>4, <3>1, <3>2, <3>3, <3>4, CountedInOrder
  <2>6. InOrder(rxQueue, rx, KnownFirst, 1, peer, Cursor')
    <3>1. \A c \in Commands(rxQueue, rx, KnownFirst, peer) :
            c.session = Cursor'.session => Follows(Cursor'.seq, c.seq)
      BY <2>1, <2>2 DEF Sent, SentKnown
    <3>2. InOrder(rxQueue, rx, KnownFirst, Joined, peer, Cursor)
      BY DEF TrailInv, KnownInOrder
    <3>3. KnownFirst \in Bit /\ Joined \in Bit
      BY FirstsAre
    <3>4. Cursor'.seq \in Seq16 /\ (Joined = 1 /\ Cursor.session = Cursor'.session)
      BY <1>2, <2>2, <2>4
    <3> QED
      BY <2>4, <3>1, <3>2, <3>3, <3>4, CountedInOrder
  <2>7. DrivenInOrder' /\ KnownInOrder'
    BY <1>1, <1>2, <2>5, <2>6 DEF DrivenInOrder, KnownInOrder
  <2> QED
    BY <1>3, <1>4, <2>3, <2>7 DEF TrailInv, Sent
<1>6. CASE sequence' = sequence
  <2>1. sequence' = sequence /\ Cursor' = Cursor
    BY <1>6 DEF Cursor
  <2>2. DrivenInOrder' /\ KnownInOrder'
    BY <1>1, <1>2, <2>1 DEF TrailInv, DrivenInOrder, KnownInOrder
  <2> QED
    BY <1>3, <1>4, <1>6, <2>2 DEF TrailInv, Sent
<1> QED
  BY <1>5, <1>6

LEMMA SendTrails ==
  ASSUME CommandsOften, SeqMod > 2, TypeOK, TrailInv,
         NEW type \in {"heartbeat", "status", "gpio"},
         NEW function \in FunctionOrNone, NEW state \in BOOLEAN,
         Send(type, function, state), type # "gpio" => WithinWindow
  PROVE  /\ TrailInv' /\ Pending' \subseteq Pending \cup {Cursor}
         /\ type # "gpio" => Pending' \subseteq Pending
<1> DEFINE frame == [type |-> type, session |-> session, seq |-> sequence,
                     function |-> function, state |-> state]
<1>1. /\ paired /\ paired' = paired /\ pairAck = None
      /\ waiting' = type /\ answer' = None
      /\ UNCHANGED <<session, sequence, pairAck, rx, peer, lastDriven>>
  BY DEF Send, linkVars
<1>2. frame \in Frame /\ Id(frame) = Cursor /\ frame.type = type
  BY DEF TypeOK, Frame, Id, Cursor
<1>3. rxQueue' = rxQueue \/ rxQueue' = Append(rxQueue, frame)
  BY DEF Send, Arrived
<1> HIDE DEF frame
<1>4. /\ DrivenFirst' = DrivenFirst /\ KnownFirst' = KnownFirst
      /\ Joined' = 1 /\ Joined = 1 /\ Cursor' = Cursor
  BY <1>1 DEF DrivenFirst, KnownFirst, Joined, Cursor
<1>5. rxQueue \in Seq(Frame)
  BY DEF TypeOK
<1>6. DrivenInOrder'
  <2>1. InOrder(rxQueue, rx, DrivenFirst, 1, lastDriven, Cursor)
    BY <1>4 DEF TrailInv, DrivenInOrder
  <2>2. InOrder(rxQueue', rx, DrivenFirst, 1, lastDriven, Cursor)
    BY <1>2, <1>3, <1>5, <2>1, FirstsAre, SentInOrder
  <2> QED
    BY <1>1, <1>4, <2>2 DEF DrivenInOrder
<1>7. KnownInOrder'
  <2>1. InOrder(rxQueue, rx, KnownFirst, 1, peer, Cursor)
    BY <1>4 DEF TrailInv, KnownInOrder
  <2>2. InOrder(rxQueue', rx, KnownFirst, 1, peer, Cursor)
    BY <1>2, <1>3, <1>5, <2>1, FirstsAre, SentInOrder
  <2> QED
    BY <1>1, <1>4, <2>2 DEF KnownInOrder
<1>8. /\ SentDriven' \subseteq SentDriven \cup {Cursor}
      /\ SentKnown' \subseteq SentKnown \cup {Cursor}
  BY <1>1, <1>2, <1>3, <1>4, <1>5, FirstsAre, CommandsSent DEF SentDriven, SentKnown
<1>9. /\ Pending' \subseteq Pending \cup {Cursor}
      /\ type # "gpio" => Pending' \subseteq Pending
  <2>1. 0 \in Bit
    BY DEF Bit
  <2> QED
    BY <1>1, <1>2, <1>3, <1>5, <2>1, CommandsSent DEF Pending
<1>10. Window'
  <2> SUFFICES ASSUME type # "gpio" PROVE Window'
    BY <1>1, SensorLinkAssumption DEF Window, Counting
  <2>1. \A c \in Sent : c.session = session => Newer(NextSeq, c.seq)
    BY SentAreLandmarks DEF WithinWindow, Newer
  <2>2. Newer(NextSeq, Cursor.seq)
    BY NextIsNewer DEF Cursor, NextSeq, TypeOK
  <2>3. Sent' \subseteq Sent \cup {Cursor}
    BY <1>8 DEF Sent
  <2>4. NextSeq' = NextSeq
    BY <1>1 DEF NextSeq
  <2> QED
    BY <1>1, <2>1, <2>2, <2>3, <2>4 DEF Window
<1>11. Engaged' /\ Unheard'
  BY <1>1 DEF Engaged, Unheard
<1> QED
  BY <1>6, <1>7, <1>9, <1>10, <1>11 DEF TrailInv

\* espnow_rx_task changes nothing of the sensor but the answer it waits for.
LEMMA RxLeavesSensor ==
  ASSUME RxTask
  PROVE  UNCHANGED <<paired, session, sequence, sensorFunction, pairAck, failures,
                     waiting, command>>
BY DEF RxTask, RxTake, RxCheckBinding, RxDrive, RxRemember, Reply, sensorVars

LEMMA TakeTrails ==
  ASSUME TypeOK, TrailInv, RxTake
  PROVE  Moving
<1>1. /\ rx = None /\ rxQueue # <<>> /\ rxQueue' = Tail(rxQueue)
      /\ UNCHANGED <<peer, lastDriven>> /\ rxQueue \in Seq(Frame)
      /\ rx' = None \/ (Head(rxQueue).type = "gpio" /\ rx'.frame = Head(rxQueue))
  BY DEF RxTake, linkVars, TypeOK
<1>2. UNCHANGED <<paired, session, sequence>>
  BY RxLeavesSensor DEF RxTask
<1>3. /\ DrivenFirst' = DrivenFirst /\ KnownFirst' = KnownFirst
      /\ Joined' = Joined /\ Cursor' = Cursor
  BY <1>1, <1>2 DEF DrivenFirst, KnownFirst, Joined, Cursor
<1>4. DrivenInOrder'
  <2>1. InOrder(rxQueue, None, DrivenFirst, Joined, lastDriven, Cursor)
    BY <1>1 DEF TrailInv, DrivenInOrder
  <2>2. InOrder(Tail(rxQueue), rx', DrivenFirst, Joined, lastDriven, Cursor)
    BY <1>1, <2>1, FirstsAre, TakenInOrder
  <2> QED
    BY <1>1, <1>3, <2>2 DEF DrivenInOrder
<1>5. KnownInOrder'
  <2>1. InOrder(rxQueue, None, KnownFirst, Joined, peer, Cursor)
    BY <1>1 DEF TrailInv, KnownInOrder
  <2>2. InOrder(Tail(rxQueue), rx', KnownFirst, Joined, peer, Cursor)
    BY <1>1, <2>1, FirstsAre, TakenInOrder
  <2> QED
    BY <1>1, <1>3, <2>2 DEF KnownInOrder
<1>6. SentDriven' \subseteq SentDriven /\ SentKnown' \subseteq SentKnown
  BY <1>1, <1>3, FirstsAre, CommandsTaken DEF SentDriven, SentKnown
<1>7. Pending' \subseteq Pending
  <2>1. 0 \in Bit
    BY DEF Bit
  <2> QED
    BY <1>1, <2>1, CommandsTaken DEF Pending
<1> QED
  BY <1>4, <1>5, <1>6, <1>7 DEF Moving, Sent

LEMMA DriveTrails ==
  ASSUME TypeOK, TrailInv, RxDrive
  PROVE  Moving
<1>1. /\ rx # None /\ rx'.frame = rx.frame
      /\ UNCHANGED <<peer, rxQueue>> /\ rxQueue \in Seq(Frame)
      /\ Id(lastDriven') = Id(rx.frame)
  BY DEF RxDrive, TypeOK, Id
<1>2. UNCHANGED <<paired, session, sequence>>
  BY RxLeavesSensor DEF RxTask
<1>3. KnownFirst' = KnownFirst /\ Joined' = Joined /\ Cursor' = Cursor
  BY <1>1, <1>2 DEF KnownFirst, Joined, Cursor
<1>4. DrivenInOrder'
  <2>1. InOrder(rxQueue, rx, DrivenFirst, Joined, lastDriven, Cursor)
    BY DEF TrailInv, DrivenInOrder
  <2>2. InOrder(rxQueue, rx', DrivenFirst', Joined, lastDriven', Cursor)
    BY <1>1, <2>1, FirstsAre, HandedInOrder
  <2> QED
    BY <1>1, <1>3, <2>2 DEF DrivenInOrder
<1>5. KnownInOrder'
  <2>1. InOrder(rxQueue, rx, KnownFirst, Joined, peer, Cursor)
    BY DEF TrailInv, KnownInOrder
  <2>2. \A k \in Places(rxQueue, rx') :
          /\ k \in Places(rxQueue, rx)
          /\ FrameAt(rxQueue, rx', k) = FrameAt(rxQueue, rx, k)
    BY <1>1 DEF Places, FrameAt
  <2>3. InOrder(rxQueue, rx', KnownFirst, Joined, peer, Cursor)
    <3>1. Len(rxQueue) \in Nat
      BY <1>1
    <3>2. KnownFirst \in Bit /\ Joined \in Bit
      BY FirstsAre
    <3>3. /\ KnownFirst = 1 => (KnownFirst = 1 /\ peer = peer)
          /\ Joined = 1 => (Joined = 1 /\ Cursor = Cursor)
      OBVIOUS
    <3> QED
      BY <3>1, <3>2, <3>3, <2>1, <2>2, SubInOrder
  <2> QED
    BY <1>1, <1>3, <2>3 DEF KnownInOrder
<1>6. SentDriven' \subseteq SentDriven
  BY <1>1, FirstsAre, CommandsHanded DEF SentDriven
<1>7. SentKnown' \subseteq SentKnown
  BY <1>1, <1>3, FirstsAre, CommandsLess DEF SentKnown
<1>8. Pending' \subseteq Pending
  BY <1>1, CommandsLess DEF Pending, Bit
<1> QED
  BY <1>4, <1>5, <1>6, <1>7, <1>8 DEF Moving, Sent

LEMMA RememberTrails ==
  ASSUME TypeOK, TrailInv, RxRemember
  PROVE  Moving
<1>1. /\ rx # None /\ rx' = None
      /\ UNCHANGED <<lastDriven, rxQueue>> /\ rxQueue \in Seq(Frame)
      /\ peer' # None => Id(peer') = Id(rx.frame)
  BY DEF RxRemember, TypeOK, Id
<1>2. UNCHANGED <<paired, session, sequence>>
  BY RxLeavesSensor DEF RxTask
<1>3. DrivenFirst' = DrivenFirst /\ Joined' = Joined /\ Cursor' = Cursor
  BY <1>1, <1>2 DEF DrivenFirst, Joined, Cursor
<1>4. DrivenInOrder'
  <2>1. InOrder(rxQueue, rx, DrivenFirst, Joined, lastDriven, Cursor)
    BY DEF TrailInv, DrivenInOrder
  <2>2. \A k \in Places(rxQueue, rx') :
          /\ k \in Places(rxQueue, rx)
          /\ FrameAt(rxQueue, rx', k) = FrameAt(rxQueue, rx, k)
    BY <1>1 DEF Places, FrameAt
  <2>3. InOrder(rxQueue, rx', DrivenFirst, Joined, lastDriven, Cursor)
    <3>1. Len(rxQueue) \in Nat
      BY <1>1
    <3>2. DrivenFirst \in Bit /\ Joined \in Bit
      BY FirstsAre
    <3>3. /\ DrivenFirst = 1 => (DrivenFirst = 1 /\ lastDriven = lastDriven)
          /\ Joined = 1 => (Joined = 1 /\ Cursor = Cursor)
      OBVIOUS
    <3> QED
      BY <3>1, <3>2, <3>3, <2>1, <2>2, SubInOrder
  <2> QED
    BY <1>1, <1>3, <2>3 DEF DrivenInOrder
<1>5. KnownInOrder'
  <2>1. InOrder(rxQueue, rx, KnownFirst, Joined, peer, Cursor)
    BY DEF TrailInv, KnownInOrder
  <2>2. KnownFirst' = 1 => Id(peer') = Id(rx.frame)
    BY <1>1, FirstsAre
  <2>3. InOrder(rxQueue, rx', KnownFirst', Joined, peer', Cursor)
    BY <1>1, <2>1, <2>2, FirstsAre, HandedInOrder
  <2> QED
    BY <1>1, <1>3, <2>3 DEF KnownInOrder
<1>6. SentDriven' \subseteq SentDriven
  BY <1>1, <1>3, FirstsAre, CommandsLess DEF SentDriven
<1>7. SentKnown' \subseteq SentKnown
  <2>1. KnownFirst' = 1 => Id(peer') = Id(rx.frame)
    BY <1>1, FirstsAre
  <2> QED
    BY <1>1, <2>1, FirstsAre, CommandsHanded DEF SentKnown
<1>8. Pending' \subseteq Pending
  BY <1>1, CommandsLess DEF Pending, Bit
<1> QED
  BY <1>4, <1>5, <1>6, <1>7, <1>8 DEF Moving, Sent

\* A command the bridge is at or remembers with OK has driven its output, and if
\* anything has since it is no older one.
OkIsDriven ==
  /\ rx # None /\ rx.result = "ok" /\ lastDriven # None => Id(lastDriven) = Id(rx.frame)
  /\ KnownFirst = 1 /\ peer.result = "ok" /\ lastDriven # None
       /\ lastDriven.session = peer.session =>
     Follows(lastDriven.seq, peer.seq)

\* A command next to the sensor's number on the trail, first of all: nothing else of
\* the session is on it.
LEMMA FirstIsCursor ==
  ASSUME NEW q \in Seq(Frame), NEW r, NEW f, NEW x, InOrder(q, r, 1, 1, f, x),
         Id(f) = x, x.seq \in Seq16,
         \A c \in Commands(q, r, 1, f) : c.seq \in Seq16
  PROVE  \A c \in Commands(q, r, 1, f) : c.session = x.session => c.seq = x.seq
<1> DEFINE n == Len(q)
           S == [k \in -1..(n + 1) |-> On(q, r, f, x, k)]
           D == Trail(q, r, 1, 1)
<1>1. n \in Nat /\ 1 \in Bit
  BY DEF Bit
<1>2. Ordered(D, S)
  BY DEF InOrder
<1>3. -1 \in D /\ S[-1] = x /\ n + 1 \in D /\ S[n + 1] = x
  BY <1>1, TrailPlaces DEF On
<1>4. ASSUME NEW k \in Places(q, r), Id(FrameAt(q, r, k)).session = x.session
      PROVE  Id(FrameAt(q, r, k)).seq = x.seq
  <2>1. k \in D /\ k \in 0..n /\ S[k] = Id(FrameAt(q, r, k))
    BY <1>1, TrailPlaces DEF Places, On
  <2>2. -1 <= k /\ k <= n + 1 /\ -1 <= n + 1
    BY <1>1, <2>1
  <2>3. Id(FrameAt(q, r, k)).seq \in Seq16
    BY <1>4 DEF Commands
  <2> HIDE DEF n, S, D
  <2>4. Follows(S[k].seq, x.seq) /\ Follows(x.seq, S[k].seq)
    BY <1>2, <1>3, <1>4, <2>1, <2>2 DEF Ordered
  <2> QED
    BY <2>1, <2>3, <2>4, FollowsBoth
<1> QED
  BY <1>4 DEF Commands

LEMMA OkStarts == Init => OkIsDriven
BY DEF Init, OkIsDriven, KnownFirst

LEMMA OkIsKept ==
  ASSUME TypeOK, TrailInv, OkIsDriven, [Next]_vars
  PROVE  OkIsDriven'
<1>1. CASE /\ rx' = None \/ rx' = rx
           /\ peer' = peer \/ peer' = None \/ ~peer'.valid
           /\ lastDriven' \in {lastDriven, None}
  BY <1>1 DEF OkIsDriven, KnownFirst
<1>2. CASE RxTake \/ RxCheckBinding
  <2>1. /\ rx' = None \/ rx'.result = "error" \/ (rx # None /\ rx'.frame = rx.frame /\ rx'.result = rx.result)
        /\ UNCHANGED <<peer, lastDriven>>
    BY <1>2 DEF RxTake, RxCheckBinding, linkVars, TypeOK, Handled
  <2> QED
    BY <2>1 DEF OkIsDriven, KnownFirst
<1>3. CASE RxDrive
  <2>1. /\ rx # None /\ rx.frame \in Frame /\ rx'.frame = rx.frame /\ peer' = peer
        /\ lastDriven' = Id(rx.frame) /\ Id(lastDriven') = Id(rx.frame)
    BY <1>3 DEF RxDrive, TypeOK, Id, Command, Handled
  <2>2. ASSUME KnownFirst = 1, lastDriven'.session = peer.session
        PROVE  Follows(lastDriven'.seq, peer.seq)
    <3>1. rx.frame.session = peer.session /\ rx.frame.seq = lastDriven'.seq
      BY <2>1, <2>2 DEF Id
    <3>2. InOrder(rxQueue, rx, 1, Joined, peer, Cursor) /\ rxQueue \in Seq(Frame)
      BY <2>2 DEF TrailInv, KnownInOrder, TypeOK
    <3> QED
      BY <2>1, <3>1, <3>2, FirstsAre, FirstInOrder
  <2> QED
    BY <2>1, <2>2 DEF OkIsDriven, KnownFirst
<1>4. CASE RxRemember
  <2>1. /\ rx # None /\ rx.frame \in Frame /\ rx' = None /\ lastDriven' = lastDriven
        /\ peer' # None => Id(peer') = Id(rx.frame) /\ peer'.result = rx.result
    BY <1>4 DEF RxRemember, TypeOK, Id, Command, Handled
  <2>2. ASSUME peer' # None, peer'.result = "ok", lastDriven # None
        PROVE  lastDriven.seq = rx.frame.seq /\ peer'.seq = rx.frame.seq
    BY <2>1, <2>2 DEF OkIsDriven, Id
  <2>3. Follows(rx.frame.seq, rx.frame.seq)
    BY <2>1, FollowsItself DEF Frame
  <2> QED
    BY <2>1, <2>2, <2>3 DEF OkIsDriven, KnownFirst
<1>5. CASE \/ SensorLoop \/ SensorRestart \/ AskStatus
           \/ \E state \in BOOLEAN : SendCommand(state)
           \/ Evict \/ DeleteRadioPeer \/ BridgeRestart
           \/ (\E f \in Function : Assign(f)) \/ Unassign \/ UNCHANGED vars
  <2>1. /\ rx' = None \/ rx' = rx
        /\ peer' = peer \/ peer' = None \/ ~peer'.valid
        /\ lastDriven' \in {lastDriven, None}
    <3>1. CASE StartOver \/ SendPair
      BY <3>1 DEF StartOver, SendPair, Pair, Reset, linkVars
    <3>2. CASE \/ SendHeartbeat \/ AskStatus \/ TakePairAck
               \/ \E state \in BOOLEAN : SendCommand(state)
      BY <3>2 DEF SendHeartbeat, AskStatus, SendCommand, Send, TakePairAck, linkVars, bridgeVars
    <3>3. CASE \/ HeartbeatAnswered \/ StatusDone \/ CommandAnswered \/ CommandTimeout
               \/ HeartbeatTimeout /\ ~(failures + 1 >= RepairAfter)
      BY <3>3 DEF HeartbeatAnswered, StatusDone, CommandAnswered, CommandTimeout,
                  HeartbeatTimeout, linkVars, bridgeVars
    <3>4. CASE \/ Evict \/ DeleteRadioPeer \/ BridgeRestart
               \/ (\E f \in Function : Assign(f)) \/ Unassign \/ UNCHANGED vars
      BY <3>4 DEF Evict, DeleteRadioPeer, BridgeRestart, Assign, Unassign, linkVars,
                  bridgeVars, vars
    <3>5. HeartbeatTimeout /\ failures + 1 >= RepairAfter => StartOver
      BY DEF HeartbeatTimeout
    <3> QED
      BY <1>5, <3>1, <3>2, <3>3, <3>4, <3>5 DEF SensorLoop, SensorRestart
  <2> QED
    BY <1>1, <2>1
<1> QED
  BY <1>2, <1>3, <1>4, <1>5 DEF Next, RxTask

\* A sensor gets OK for its command: because it is the one the bridge remembers, or the
\* one it has just executed.
LEMMA TakenAnswer ==
  ASSUME TypeOK, TrailInv, RxTake, waiting = "gpio", answer' = "ok", answer # "ok"
  PROVE  /\ paired /\ KnownFirst = 1 /\ peer.result = "ok" /\ peer.seq \in Seq16
         /\ peer.session = session /\ peer.seq = sequence
<1>1. rx = None /\ rxQueue # <<>>
  BY DEF RxTake
<1>2. /\ Head(rxQueue).type = "gpio" /\ Duplicate(Head(rxQueue)) /\ peer.result = "ok"
      /\ paired /\ Head(rxQueue).session = session /\ Head(rxQueue).seq = sequence
  BY <1>1, SensorLinkAssumption DEF RxTake, Reply, Answered, sensorVars
<1>3. KnownFirst = 1 /\ Joined = 1
  BY <1>2 DEF Duplicate, KnownFirst, Joined
<1>4. peer.seq \in Seq16 /\ sequence \in Seq16 /\ rxQueue \in Seq(Frame)
  BY <1>3, FirstsAre DEF TypeOK
<1>5. peer.session = session /\ ~Newer(sequence, peer.seq)
  BY <1>2 DEF Duplicate
<1>6. InOrder(rxQueue, rx, 1, 1, peer, Cursor)
  BY <1>3 DEF TrailInv, KnownInOrder
<1>7. Follows(sequence, peer.seq)
  <2>1. 1 \in Bit /\ Cursor.session = session /\ Cursor.seq = sequence
    BY DEF Bit, Cursor
  <2> QED
    BY <1>4, <1>5, <1>6, <2>1, FirstInOrder
<1> QED
  BY <1>2, <1>3, <1>4, <1>5, <1>7, NotNewerIsSame

LEMMA RememberedAnswer ==
  ASSUME RxRemember, waiting = "gpio", answer' = "ok", answer # "ok"
  PROVE  rx.result = "ok" /\ paired /\ Id(rx.frame) = Cursor
BY SensorLinkAssumption DEF RxRemember, Reply, Answered, Id, Cursor

\* Then nothing newer of the session is around.
LEMMA TakeAnswers ==
  ASSUME SeqMod > 2, TypeOK, TypeOK', TrailInv, OkIsDriven, RxTake
  PROVE  Window'
<1>1. Moving
  BY TakeTrails
<1>2. UNCHANGED <<peer, lastDriven>> /\ rxQueue' \in Seq(Frame) /\ sequence \in Seq16
  BY DEF RxTake, linkVars, TypeOK
<1>3. UNCHANGED <<paired, session, sequence, waiting>>
  BY RxLeavesSensor DEF RxTask
<1>4. NextSeq' = NextSeq /\ Cursor' = Cursor
  BY <1>3 DEF NextSeq, Cursor
<1>5. CASE Counting
  BY <1>1, <1>3, <1>4, <1>5 DEF TrailInv, Window, Moving
<1>6. CASE ~Counting /\ Counting'
  <2>1. waiting = "gpio" /\ answer' = "ok" /\ answer # "ok"
    BY <1>3, <1>6 DEF Counting
  <2>2. /\ paired /\ KnownFirst = 1 /\ peer.result = "ok" /\ Id(peer) = Cursor
        /\ peer.session = session /\ peer.seq = sequence
    BY <2>1, TakenAnswer DEF Id, Cursor
  <2>3. Joined = 1 /\ KnownFirst' = 1 /\ Joined' = 1
    BY <1>2, <1>3, <2>2 DEF KnownFirst, Joined
  <2>4. \A c \in SentKnown' : c.session = session => c.seq = sequence
    <3>1. InOrder(rxQueue', rx', 1, 1, peer, Cursor)
      BY <1>1, <1>2, <1>4, <2>3 DEF Moving, KnownInOrder
    <3>2. SentKnown' = Commands(rxQueue', rx', 1, peer)
      BY <1>2, <2>3 DEF SentKnown
    <3>3. \A c \in SentKnown' : c.seq \in Seq16
      BY <1>1, SentTyped DEF Moving, Sent
    <3> QED
      BY <1>2, <2>2, <3>1, <3>2, <3>3, FirstIsCursor DEF Cursor
  <2>5. lastDriven # None /\ lastDriven.session = session => lastDriven.seq = sequence
    <3> SUFFICES ASSUME lastDriven # None, lastDriven.session = session
                 PROVE  lastDriven.seq = sequence
      OBVIOUS
    <3>1. Follows(lastDriven.seq, sequence)
      BY <2>2 DEF OkIsDriven
    <3>2. InOrder(rxQueue, rx, 1, 1, lastDriven, Cursor) /\ rxQueue \in Seq(Frame)
      BY <2>3 DEF TrailInv, DrivenInOrder, DrivenFirst, TypeOK
    <3>3. Follows(sequence, lastDriven.seq)
      <4>1. 1 \in Bit /\ Cursor.session = session /\ Cursor.seq = sequence
        BY DEF Bit, Cursor
      <4> QED
        BY <3>2, <4>1, FirstInOrder
    <3>4. lastDriven.seq \in Seq16
      BY DEF TypeOK, Command
    <3> QED
      BY <1>2, <3>1, <3>3, <3>4, FollowsBoth
  <2>6. \A c \in Sent' : c \in SentKnown' \/ (lastDriven # None /\ c = Id(lastDriven))
    BY <1>2, FirstsAre DEF Sent, SentDriven, SentKnown, Commands
  <2>7. \A c \in Sent' : c.session = session => c.seq = sequence
    BY <2>4, <2>5, <2>6 DEF Id
  <2> QED
    BY <1>2, <1>3, <1>4, <2>7, NextIsNewer DEF Window, NextSeq
<1> QED
  BY <1>5, <1>6 DEF Window

LEMMA RememberAnswers ==
  ASSUME SeqMod > 2, TypeOK, TypeOK', TrailInv, OkIsDriven, RxRemember
  PROVE  Window'
<1>1. Moving
  BY RememberTrails
<1>2. /\ rx # None /\ rx' = None /\ rxQueue' = rxQueue /\ lastDriven' = lastDriven
      /\ peer' # None => Id(peer') = Id(rx.frame)
  BY DEF RxRemember, TypeOK, Id
<1>3. UNCHANGED <<paired, session, sequence, waiting>>
  BY RxLeavesSensor DEF RxTask
<1>4. NextSeq' = NextSeq /\ Cursor' = Cursor
  BY <1>3 DEF NextSeq, Cursor
<1>5. CASE Counting
  BY <1>1, <1>3, <1>4, <1>5 DEF TrailInv, Window, Moving
<1>6. CASE ~Counting /\ Counting'
  <2>1. /\ waiting = "gpio" /\ answer' = "ok" /\ answer # "ok"
    BY <1>3, <1>6 DEF Counting
  <2>2. rx.result = "ok" /\ paired /\ Id(rx.frame) = Cursor
    BY <2>1, RememberedAnswer
  <2>3. rxQueue \in Seq(Frame) /\ sequence \in Seq16 /\ Id(rx.frame) = Cursor
    BY <2>2 DEF TypeOK
  <2>4. InOrder(rxQueue, None, 1, 1, rx.frame, Cursor)
    <3>1. InOrder(rxQueue, rx, KnownFirst, 1, peer, Cursor)
      BY <2>2 DEF TrailInv, KnownInOrder, Joined
    <3>2. 1 \in Bit
      BY DEF Bit
    <3> QED
      BY <1>2, <2>3, <3>1, <3>2, FirstsAre, HandedInOrder
  <2>5. Commands(rxQueue, None, 1, rx.frame) \subseteq SentKnown
    BY <1>2, <2>3, FirstsAre, CommandsHanded DEF SentKnown, Bit
  <2>6. \A c \in Commands(rxQueue, None, 1, rx.frame) : c.session = session => c.seq = sequence
    <3>1. \A c \in Commands(rxQueue, None, 1, rx.frame) : c.seq \in Seq16
      BY <2>5, SentTyped DEF Sent
    <3> QED
      BY <2>3, <2>4, <3>1, FirstIsCursor DEF Cursor
  <2>7. lastDriven # None => Id(lastDriven) = Cursor
    BY <1>2, <2>2, <2>3 DEF OkIsDriven
  <2>8. \A c \in Sent' : c \in Commands(rxQueue, None, 1, rx.frame) \/ c = Cursor
    BY <1>2, <2>3, <2>7, FirstsAre DEF Sent, SentDriven, SentKnown, Commands
  <2>9. \A c \in Sent' : c.session = session => c.seq = sequence
    BY <2>6, <2>8 DEF Cursor
  <2> QED
    BY <1>3, <1>4, <2>3, <2>9, NextIsNewer DEF Window, NextSeq
<1> QED
  BY <1>5, <1>6 DEF Window

LEMMA RxTrails ==
  ASSUME SeqMod > 2, TypeOK, TypeOK', TrailInv, OkIsDriven, RxTask
  PROVE  Moving /\ TrailInv'
<1>1. UNCHANGED <<paired, session, sequence, pairAck, waiting>>
  BY RxLeavesSensor
<1>2. CASE RxCheckBinding \/ RxDrive
  <2>1. Moving /\ answer' = answer
    <3>1. CASE RxCheckBinding
      <4>1. /\ rx # None /\ rx'.frame = rx.frame /\ answer' = answer
            /\ UNCHANGED <<peer, lastDriven, rxQueue>>
        BY <3>1 DEF RxCheckBinding, linkVars, sensorVars, TypeOK
      <4> QED
        BY <1>1, <4>1, Forgetting DEF TrailInv, Cursor
    <3>2. CASE RxDrive
      BY <3>2, DriveTrails DEF RxDrive, sensorVars
    <3> QED
      BY <1>2, <3>1, <3>2
  <2> QED
    BY <1>1, <2>1, MovingKeeps
<1>3. CASE RxTake \/ RxRemember
  <2>1. Moving /\ Window'
    BY <1>3, TakeTrails, RememberTrails, TakeAnswers, RememberAnswers
  <2> QED
    BY <1>1, <2>1 DEF TrailInv, Engaged, Unheard, Moving
<1> QED
  BY <1>2, <1>3 DEF RxTask

\* Nothing is sent any more when the bridge restarts.
LEMMA NothingSent ==
  ASSUME TypeOK, rxQueue = <<>>, rx = None, lastDriven = None, peer = None
  PROVE  DrivenInOrder /\ KnownInOrder /\ Sent = {} /\ Pending = {}
<1>1. DrivenFirst = 0 /\ KnownFirst = 0
  BY DEF DrivenFirst, KnownFirst
<1>2. Cursor.seq \in Seq16
  BY DEF Cursor, TypeOK
<1>3. DrivenInOrder /\ KnownInOrder
  BY <1>1, <1>2, FirstsAre, EmptyInOrder DEF DrivenInOrder, KnownInOrder
<1>4. Places(<<>>, None) = {}
  BY DEF Places
<1> QED
  BY <1>1, <1>3, <1>4 DEF Sent, SentDriven, SentKnown, Pending, Commands

LEMMA RestartTrails ==
  ASSUME TypeOK', TrailInv, BridgeRestart
  PROVE  TrailInv' /\ Sent' = {} /\ Pending' = {}
<1>1. /\ rxQueue' = <<>> /\ rx' = None /\ lastDriven' = None /\ peer' = None
      /\ UNCHANGED <<paired, pairAck, waiting>>
  BY DEF BridgeRestart
<1>2. DrivenInOrder' /\ KnownInOrder' /\ Sent' = {} /\ Pending' = {}
  <2>1. (TypeOK /\ rxQueue = <<>> /\ rx = None /\ lastDriven = None /\ peer = None
           => DrivenInOrder /\ KnownInOrder /\ Sent = {} /\ Pending = {})'
    BY NothingSent, PTL
  <2> QED
    BY <1>1, <2>1
<1> QED
  BY <1>1, <1>2 DEF TrailInv, Engaged, Unheard, Window

\* The invariant of the two trails.
LEMMA TrailsStart == ASSUME TypeOK, Init PROVE TrailInv
<1>1. /\ rxQueue = <<>> /\ rx = None /\ lastDriven = None /\ peer = None
      /\ pairAck = None /\ waiting = "nothing"
  BY DEF Init
<1> QED
  BY <1>1, NothingSent DEF TrailInv, Engaged, Unheard, Window

LEMMA TrailsKept ==
  ASSUME CommandsOften, SeqMod > 2, TypeOK, TypeOK', TrailInv, OkIsDriven,
         [Next]_vars
  PROVE  TrailInv'
<1>1. CASE SendPair \/ StartOver
  BY <1>1, StartTrails
<1>2. CASE TakePairAck
  BY <1>2, JoinTrails
<1>3. CASE \/ SendHeartbeat \/ AskStatus \/ \E state \in BOOLEAN : SendCommand(state)
  <2>1. \E type \in {"heartbeat", "status", "gpio"},
           function \in FunctionOrNone, state \in BOOLEAN :
             Send(type, function, state) /\ (type # "gpio" => WithinWindow)
    BY <1>3 DEF SendHeartbeat, AskStatus, SendCommand, TypeOK, FunctionOrNone
  <2> QED
    BY <2>1, SendTrails
<1>4. CASE HeartbeatAnswered \/ StatusDone \/ CommandAnswered
  BY <1>4, CountTrails DEF HeartbeatAnswered, StatusDone, CommandAnswered, Counting
<1>5. CASE RxTask
  BY <1>5, RxTrails
<1>6. CASE BridgeRestart
  BY <1>6, RestartTrails
<1>7. CASE \/ DeleteRadioPeer \/ Evict \/ CommandTimeout
           \/ (\E f \in Function : Assign(f)) \/ Unassign \/ UNCHANGED vars
           \/ HeartbeatTimeout /\ ~(failures + 1 >= RepairAfter)
  BY <1>7, QuietTrails
<1>8. HeartbeatTimeout /\ failures + 1 >= RepairAfter => StartOver
  BY DEF HeartbeatTimeout
<1> QED
  BY <1>1, <1>2, <1>3, <1>4, <1>5, <1>6, <1>7, <1>8
  DEF Next, SensorLoop, SensorRestart

-----------------------------------------------------------------------------
(* No command is executed twice                                            *)

\* Whoever remembers the sensor knows what it has executed last: the step that will
\* remember it is to come, or the entry is at that command or past it, or nothing
\* more will come of its session.
Executed ==
  lastDriven # None /\ peer # None =>
    \/ rx # None /\ rx.stage = "remember" /\ Id(rx.frame) = Id(lastDriven)
    \/ peer.valid /\ peer.session = lastDriven.session /\ Follows(peer.seq, lastDriven.seq)
    \/ /\ \A c \in Pending : c.session # lastDriven.session
       /\ paired => session # lastDriven.session

\* A command espnow_rx_task has taken for a new one is one.
NotYet ==
  rx # None /\ rx.stage \in {"bound", "drive"} /\ lastDriven # None =>
    Id(rx.frame) # Id(lastDriven)

OnceInv == TypeOK /\ TrailInv /\ OkIsDriven /\ Executed /\ NotYet

LEMMA OnceQuiet ==
  ASSUME Executed, NotYet, rx' = rx, lastDriven' = lastDriven \/ lastDriven' = None,
         lastDriven' # None => peer' = peer \/ peer' = None,
         Pending' \subseteq Pending, paired' => paired /\ session' = session
  PROVE  Executed' /\ NotYet'
BY DEF Executed, NotYet

LEMMA OnceSends ==
  ASSUME CommandsOften, SeqMod > 2, OnceInv,
         SendHeartbeat \/ AskStatus \/ \E state \in BOOLEAN : SendCommand(state)
  PROVE  Executed' /\ NotYet'
<1>1. \E type \in {"heartbeat", "status", "gpio"},
           function \in FunctionOrNone, state \in BOOLEAN :
             Send(type, function, state) /\ (type # "gpio" => WithinWindow)
  BY DEF OnceInv, SendHeartbeat, AskStatus, SendCommand, TypeOK, FunctionOrNone
<1>2. Pending' \subseteq Pending \cup {Cursor}
  BY <1>1, SendTrails DEF OnceInv
<1>3. paired /\ UNCHANGED <<paired, session, rx, peer, lastDriven>>
  BY <1>1 DEF Send, linkVars
<1> QED
  BY <1>2, <1>3 DEF OnceInv, Executed, NotYet, Cursor

LEMMA OnceTakes ==
  ASSUME OnceInv, RxTake
  PROVE  Executed' /\ NotYet'
<1>1. /\ rx = None /\ rxQueue # <<>> /\ rxQueue \in Seq(Frame)
      /\ UNCHANGED <<peer, lastDriven>>
  BY DEF RxTake, linkVars, OnceInv, TypeOK
<1>2. Moving
  BY TakeTrails DEF OnceInv
<1>3. UNCHANGED <<paired, session>>
  BY RxLeavesSensor DEF RxTask
<1>4. Executed'
  BY <1>1, <1>2, <1>3 DEF OnceInv, Executed, Moving
<1>5. NotYet'
  <2> SUFFICES ASSUME rx' # None, lastDriven # None, Id(rx'.frame) = Id(lastDriven)
               PROVE  FALSE
    BY <1>1 DEF NotYet
  <2>1. /\ peer # None /\ rx'.frame = Head(rxQueue) /\ Head(rxQueue).type = "gpio"
        /\ ~Duplicate(Head(rxQueue))
    BY <1>1 DEF RxTake
  <2>2. /\ Head(rxQueue).session = lastDriven.session
        /\ Head(rxQueue).seq = lastDriven.seq
    BY <2>1 DEF Id
  <2>3. Id(Head(rxQueue)) \in Pending
    <3>1. 0 \in Bit
      BY DEF Bit
    <3> QED
      BY <1>1, <2>1, <3>1, CommandsTaken DEF Pending
  <2>4. peer.valid /\ peer.session = lastDriven.session /\ Follows(peer.seq, lastDriven.seq)
    BY <1>1, <2>1, <2>2, <2>3 DEF OnceInv, Executed, Id
  <2>5. Newer(Head(rxQueue).seq, peer.seq)
    BY <2>1, <2>2, <2>4 DEF Duplicate
  <2>6. /\ peer.seq \in Seq16 /\ lastDriven.seq \in Seq16
        /\ Head(rxQueue).seq \in Seq16
    BY <2>1, <2>2 DEF OnceInv, TypeOK, Command, Handled
  <2> QED
    BY <2>2, <2>4, <2>5, <2>6, NewerIsAnother
<1> QED
  BY <1>4, <1>5

LEMMA OnceRemembers ==
  ASSUME OnceInv, RxRemember
  PROVE  Executed' /\ NotYet'
<1>1. /\ rx # None /\ rx' = None /\ rx.frame.seq \in Seq16
      /\ UNCHANGED <<lastDriven, rxQueue>> /\ rxQueue \in Seq(Frame)
      /\ peer' # None => peer'.valid /\ peer'.session = rx.frame.session
                           /\ peer'.seq = rx.frame.seq
  BY DEF RxRemember, OnceInv, TypeOK, Frame, Handled
<1>2. Moving /\ UNCHANGED <<paired, session>>
  BY RememberTrails, RxLeavesSensor DEF OnceInv, RxTask
<1>3. ASSUME lastDriven # None, rx.frame.session = lastDriven.session
      PROVE  Follows(rx.frame.seq, lastDriven.seq)
  <2>1. InOrder(rxQueue, rx, 1, Joined, lastDriven, Cursor)
    BY <1>3 DEF OnceInv, TrailInv, DrivenInOrder, DrivenFirst
  <2> QED
    BY <1>1, <1>3, <2>1, FirstsAre, FirstInOrder
<1>4. ASSUME lastDriven # None, rx.frame.session # lastDriven.session
      PROVE  /\ \A c \in Pending : c.session # lastDriven.session
             /\ paired => session # lastDriven.session
  <2>1. InOrder(rxQueue, rx, 1, Joined, lastDriven, Cursor)
    BY <1>4 DEF OnceInv, TrailInv, DrivenInOrder, DrivenFirst
  <2>2. /\ \A k \in Places(rxQueue, rx) : FrameAt(rxQueue, rx, k).session # lastDriven.session
        /\ Joined = 1 => Cursor.session # lastDriven.session
    <3>1. Joined \in Bit /\ rx # None /\ rxQueue \in Seq(Frame)
      BY <1>1, FirstsAre
    <3>2. rx # None /\ rx.frame.session # lastDriven.session =>
            /\ \A k \in Places(rxQueue, rx) :
                 FrameAt(rxQueue, rx, k).session # lastDriven.session
            /\ Joined = 1 => Cursor.session # lastDriven.session
      BY <2>1, <3>1, FirstInOrder
    <3> QED
      BY <1>4, <3>1, <3>2
  <2> QED
    BY <2>2, FirstsAre DEF Pending, Commands, Id, Cursor, Bit
<1> QED
  BY <1>1, <1>2, <1>3, <1>4 DEF Executed, NotYet, Moving

LEMMA OnceStarts == ASSUME TypeOK, Init PROVE OnceInv
BY TrailsStart, OkStarts DEF OnceInv, Init, Executed, NotYet

LEMMA OnceKept ==
  ASSUME CommandsOften, SeqMod > 2, OnceInv, [Next]_vars
  PROVE  OnceInv'
<1>1. TypeOK' /\ TrailInv' /\ OkIsDriven'
  <2>1. TypeOK'
    BY TypedInductive DEF OnceInv
  <2> QED
    BY <2>1, TrailsKept, OkIsKept DEF OnceInv
<1>2. CASE SendPair \/ StartOver
  <2>1. ~paired' /\ rx' = rx
    BY <1>2 DEF SendPair, StartOver
  <2>3. Moving
    BY <1>2, StartTrails DEF OnceInv
  <2>2. lastDriven' = None \/ (lastDriven' = lastDriven /\ peer' = peer)
    BY <1>2 DEF SendPair, StartOver, Pair, linkVars
  <2> QED
    BY <1>1, <2>1, <2>2, <2>3, OnceQuiet DEF OnceInv, Moving
<1>3. CASE TakePairAck
  <2>1. /\ pairAck # None /\ UNCHANGED <<session, rx, peer, lastDriven>>
    BY <1>3 DEF TakePairAck, bridgeVars, linkVars
  <2>2. Pending' = Pending
    BY <1>3, JoinTrails DEF OnceInv
  <2>3. lastDriven # None => lastDriven.session # session
    <3>1. \A c \in Sent : c.session # session
      BY <2>1 DEF OnceInv, TrailInv, Unheard
    <3>2. lastDriven # None => Id(lastDriven) \in Sent
      BY FirstsAre DEF Sent, SentDriven, Commands
    <3>3. Id(lastDriven).session = lastDriven.session
      BY DEF Id
    <3> QED
      BY <3>1, <3>2, <3>3
  <2> QED
    BY <1>1, <2>1, <2>2, <2>3 DEF OnceInv, Executed, NotYet
<1>4. CASE \/ SendHeartbeat \/ AskStatus \/ \E state \in BOOLEAN : SendCommand(state)
  BY <1>1, <1>4, OnceSends DEF OnceInv
<1>5. CASE HeartbeatAnswered \/ StatusDone \/ CommandAnswered
  <2>1. Pending' = Pending
    BY <1>5, CountTrails DEF OnceInv, HeartbeatAnswered, StatusDone, CommandAnswered, Counting
  <2>2. UNCHANGED <<paired, session, rx, peer, lastDriven>>
    BY <1>5 DEF HeartbeatAnswered, StatusDone, CommandAnswered, bridgeVars, linkVars
  <2> QED
    BY <1>1, <2>1, <2>2, OnceQuiet DEF OnceInv
<1>6. CASE RxTake \/ RxRemember
  BY <1>1, <1>6, OnceTakes, OnceRemembers DEF OnceInv
<1>7. CASE RxCheckBinding
  <2>1. /\ rx # None /\ rx.stage = "bound" /\ rx'.frame = rx.frame
        /\ UNCHANGED <<paired, session, peer, lastDriven>>
    BY <1>7 DEF RxCheckBinding, sensorVars, linkVars, OnceInv, TypeOK
  <2>2. Moving
    BY <2>1, <1>7, Forgetting DEF RxCheckBinding, sensorVars, OnceInv, TrailInv, Cursor
  <2> QED
    BY <1>1, <2>1, <2>2 DEF OnceInv, Executed, NotYet, Moving
<1>8. CASE RxDrive
  <2>1. /\ rx' # None /\ rx'.stage = "remember" /\ lastDriven' = Id(rx'.frame)
        /\ Id(lastDriven') = lastDriven'
    <3>1. rx \in Handled /\ rx # None
      BY <1>8 DEF RxDrive, OnceInv, TypeOK, Handled
    <3>2. rx' = [rx EXCEPT !.stage = "remember", !.result = "ok"]
          /\ lastDriven' = [session |-> rx.frame.session, seq |-> rx.frame.seq]
      BY <1>8 DEF RxDrive
    <3>3. rx' \in Handled
      BY <3>1, <3>2 DEF Handled, Result
    <3> QED
      BY <3>1, <3>2, <3>3, NoneAssumption DEF Handled, Id
  <2> QED
    BY <1>1, <2>1 DEF OnceInv, Executed, NotYet
<1>9. CASE BridgeRestart
  BY <1>1, <1>9 DEF BridgeRestart, OnceInv, Executed, NotYet
<1>10. CASE \/ DeleteRadioPeer \/ Evict \/ CommandTimeout
            \/ (\E f \in Function : Assign(f)) \/ Unassign \/ UNCHANGED vars
            \/ HeartbeatTimeout /\ ~(failures + 1 >= RepairAfter)
  <2>1. Moving
    BY <1>10, QuietTrails DEF OnceInv
  <2>2. /\ UNCHANGED <<paired, session, rx>>
        /\ lastDriven' = lastDriven \/ lastDriven' = None
        /\ peer' = peer \/ peer' = None
    BY <1>10 DEF DeleteRadioPeer, Evict, CommandTimeout, Assign, Unassign, Notify,
                 HeartbeatTimeout, vars, sensorVars, bridgeVars, linkVars
  <2> QED
    BY <1>1, <2>1, <2>2, OnceQuiet DEF OnceInv, Moving
<1>11. HeartbeatTimeout /\ failures + 1 >= RepairAfter => StartOver
  BY DEF HeartbeatTimeout
<1> QED
  BY <1>2, <1>3, <1>4, <1>5, <1>6, <1>7, <1>8, <1>9, <1>10, <1>11
  DEF Next, SensorLoop, SensorRestart, RxTask

LEMMA OnceHolds ==
  ASSUME CommandsOften, SeqMod > 2
  PROVE  Spec => []OnceInv
<1>1. Init => OnceInv
  BY TypedInductive, OnceStarts
<1>2. OnceInv /\ [Next]_vars => OnceInv'
  BY OnceKept
<1> QED
  BY <1>1, <1>2, PTL DEF Spec

\* A command that arrives again, as a copy or as a retry, does not drive its output
\* again, however many sessions and copies there are: the duplicate filter of
\* peer_accepts_sequence and remember_sequence does its work as long as a sensor does
\* not use up half the sequence numbers between two commands.
THEOREM NoCommandTwice ==
  ASSUME CommandsOften, SeqMod > 2
  PROVE  Spec => AtMostOnce
<1>1. OnceInv /\ [Next]_vars =>
        [RxDrive => lastDriven # [session |-> rx.frame.session, seq |-> rx.frame.seq]]_vars
  <2> SUFFICES ASSUME OnceInv, RxDrive,
                      lastDriven = [session |-> rx.frame.session, seq |-> rx.frame.seq]
               PROVE  FALSE
    OBVIOUS
  <2>1. rx # None /\ rx.stage = "drive" /\ lastDriven # None
    <3>1. rx # None /\ rx.stage = "drive" /\ rx \in Handled
      BY DEF RxDrive, OnceInv, TypeOK
    <3>2. [session |-> rx.frame.session, seq |-> rx.frame.seq] \in Command
      BY <3>1 DEF Handled, Frame, Command
    <3> QED
      BY <3>1, <3>2, NoneAssumption
  <2>2. Id(rx.frame) = Id(lastDriven)
    BY DEF Id
  <2> QED
    BY <2>1, <2>2 DEF OnceInv, NotYet
<1> QED
  BY <1>1, OnceHolds, PTL DEF Spec, AtMostOnce

-----------------------------------------------------------------------------
(* A confirmed command is in force                                         *)

\* The commands a queue q and the hands r of espnow_rx_task hold, and those of them
\* that are at the number x or come after one that is.
Frames(q, r) == {FrameAt(q, r, k) : k \in Places(q, r)}

AtOrBehind(q, r, x) ==
  {k \in Places(q, r) : \E j \in Places(q, r) : j <= k /\ Id(FrameAt(q, r, j)) = x}

Behind(q, r, x) == {FrameAt(q, r, k) : k \in AtOrBehind(q, r, x)}

LEMMA BehindIsIn ==
  ASSUME NEW q, NEW r, NEW x
  PROVE  /\ Behind(q, r, x) \subseteq Frames(q, r)
         /\ x \notin Commands(q, r, 0, None) => Behind(q, r, x) = {}
BY DEF Behind, AtOrBehind, Frames, Commands

LEMMA FramesLess ==
  ASSUME NEW q, NEW r, NEW x, NEW s, s = None \/ (r # None /\ s.frame = r.frame)
  PROVE  /\ Frames(q, s) \subseteq Frames(q, r)
         /\ Behind(q, s, x) \subseteq Behind(q, r, x)
<1>1. \A k \in Places(q, s) :
        k \in Places(q, r) /\ FrameAt(q, s, k) = FrameAt(q, r, k)
  BY SubPlaces
<1>2. \A k \in AtOrBehind(q, s, x) :
        k \in AtOrBehind(q, r, x) /\ FrameAt(q, s, k) = FrameAt(q, r, k)
  BY <1>1 DEF AtOrBehind
<1> QED
  BY <1>1, <1>2 DEF Frames, Behind

LEMMA FramesTaken ==
  ASSUME NEW q \in Seq(Frame), q # <<>>, NEW x,
         NEW r, r = None \/ (Head(q).type = "gpio" /\ r.frame = Head(q))
  PROVE  /\ Frames(Tail(q), r) \subseteq Frames(q, None)
         /\ Behind(Tail(q), r, x) \subseteq Behind(q, None, x)
<1>1. \A k \in Places(Tail(q), r) : k \in Int
  BY DEF Places
<1>2. \A k \in Places(Tail(q), r) :
        k + 1 \in Places(q, None) /\ FrameAt(Tail(q), r, k) = FrameAt(q, None, k + 1)
  BY PlacesTaken
<1>3. \A j, k \in Places(Tail(q), r) : j <= k => j + 1 <= k + 1
  BY <1>1
<1>4. Frames(Tail(q), r) \subseteq Frames(q, None)
  BY <1>2 DEF Frames
<1>5. \A k \in AtOrBehind(Tail(q), r, x) : k + 1 \in AtOrBehind(q, None, x)
  BY <1>2, <1>3 DEF AtOrBehind
<1>6. \A k \in AtOrBehind(Tail(q), r, x) :
        FrameAt(Tail(q), r, k) = FrameAt(q, None, k + 1)
  BY <1>2 DEF AtOrBehind
<1> QED
  BY <1>4, <1>5, <1>6 DEF Behind

LEMMA FramesSent ==
  ASSUME NEW q \in Seq(Frame), NEW r, NEW x, NEW frame \in Frame
  PROVE  /\ Frames(Append(q, frame), r) \subseteq Frames(q, r) \cup {frame}
         /\ Behind(Append(q, frame), r, x) \subseteq Behind(q, r, x) \cup {frame}
         /\ frame.type # "gpio" =>
              /\ Frames(Append(q, frame), r) \subseteq Frames(q, r)
              /\ Behind(Append(q, frame), r, x) \subseteq Behind(q, r, x)
<1> DEFINE p == Append(q, frame)
<1>1. \A k \in Places(p, r) :
        \/ /\ k \in Places(q, r) /\ FrameAt(p, r, k) = FrameAt(q, r, k)
           /\ k <= Len(q)
        \/ frame.type = "gpio" /\ FrameAt(p, r, k) = frame /\ k = Len(q) + 1
  BY PlacesSent
<1>2. Len(q) \in Nat /\ \A k \in Places(p, r) : k \in Int
  BY DEF Places
<1> HIDE DEF p
<1>3. ASSUME NEW k \in AtOrBehind(p, r, x)
      PROVE  \/ k \in AtOrBehind(q, r, x) /\ FrameAt(p, r, k) = FrameAt(q, r, k)
             \/ frame.type = "gpio" /\ FrameAt(p, r, k) = frame
  <2>1. PICK j \in Places(p, r) : j <= k /\ Id(FrameAt(p, r, j)) = x
    BY <1>3 DEF AtOrBehind
  <2>2. k \in Places(p, r)
    BY <1>3 DEF AtOrBehind
  <2>3. k <= Len(q) => j <= Len(q) /\ j # Len(q) + 1
    BY <1>2, <2>1, <2>2
  <2>4. CASE k <= Len(q) /\ k # Len(q) + 1
    <3>1. k \in Places(q, r) /\ FrameAt(p, r, k) = FrameAt(q, r, k)
      BY <1>1, <2>2, <2>4
    <3>2. j \in Places(q, r) /\ FrameAt(p, r, j) = FrameAt(q, r, j)
      BY <1>1, <2>1, <2>3, <2>4
    <3> QED
      BY <2>1, <3>1, <3>2 DEF AtOrBehind
  <2>5. CASE ~(k <= Len(q) /\ k # Len(q) + 1)
    BY <1>1, <1>2, <2>2, <2>5
  <2> QED
    BY <2>4, <2>5
<1>4. /\ Frames(p, r) \subseteq Frames(q, r) \cup {frame}
      /\ frame.type # "gpio" => Frames(p, r) \subseteq Frames(q, r)
  BY <1>1 DEF Frames
<1>5. /\ Behind(p, r, x) \subseteq Behind(q, r, x) \cup {frame}
      /\ frame.type # "gpio" => Behind(p, r, x) \subseteq Behind(q, r, x)
  BY <1>3 DEF Behind
<1> QED
  BY <1>4, <1>5 DEF p

\* Everything else is behind the command espnow_rx_task is at.
LEMMA FramesHanded ==
  ASSUME NEW q \in Seq(Frame), NEW r, r # None
  PROVE  /\ r.frame \in Frames(q, r)
         /\ Frames(q, r) \subseteq Behind(q, r, Id(r.frame))
<1>1. 0 \in Places(q, r) /\ FrameAt(q, r, 0) = r.frame
  BY DEF Places, FrameAt
<1>2. \A k \in Places(q, r) : 0 <= k
  BY DEF Places
<1>3. Places(q, r) \subseteq AtOrBehind(q, r, Id(r.frame))
  BY <1>1, <1>2 DEF AtOrBehind
<1> QED
  BY <1>1, <1>3 DEF Frames, Behind

\* The commands on the bridge all ask for what the sensor has asked for last.
Ours(frame) == frame.function = command.function /\ frame.state = command.state

\* The last command is in force and stays so.
Good ==
  /\ outputs[command.function] = command.state
  /\ \A frame \in Frames(rxQueue, rx) : Ours(frame)

\* A command names an output.
NamesOutput == \A frame \in Frames(rxQueue, rx) : frame.function \in Function

\* The sensor's number is a new one unless it has a command to repeat.
CurrentOpen == paired /\ command.outcome # "open" => Cursor \notin Sent

\* Then the commands that follow any copy of it are copies of it, too.
Later ==
  paired /\ command.outcome = "open" =>
    \A frame \in Behind(rxQueue, rx, Cursor) : Ours(frame)

\* An output driven on behalf of a command has its state as long as the command is in
\* the hands of espnow_rx_task.
DrivenOk == rx # None /\ rx.result = "ok" => outputs[rx.frame.function] = rx.frame.state

\* A command that is answered OK again is still in force, and so is one the sensor
\* has an OK for.
RememberedOk ==
  paired /\ command.outcome = "open" /\ KnownFirst = 1 /\ peer.result = "ok"
    /\ Id(peer) = Cursor => Good

Settled ==
  \/ command.outcome = "confirmed"
  \/ command.outcome = "open" /\ waiting = "gpio" /\ answer = "ok"
  => Good

ForceInv ==
  /\ NamesOutput /\ CurrentOpen /\ Later
  /\ DrivenOk /\ RememberedOk /\ Settled

\* A step that leaves the commands, the outputs and the sensor's number alone.
LEMMA ForceQuiet ==
  ASSUME ForceInv, UNCHANGED <<rxQueue, rx, outputs, command>>,
         paired' => paired /\ Cursor' = Cursor,
         Sent' \subseteq Sent, KnownFirst' = 1 => KnownFirst = 1 /\ peer' = peer,
         waiting' = "gpio" /\ answer' = "ok" => waiting = "gpio" /\ answer = "ok"
  PROVE  ForceInv'
<1>1. NamesOutput' /\ DrivenOk'
  BY DEF ForceInv, NamesOutput, DrivenOk
<1>2. CurrentOpen'
  BY DEF ForceInv, CurrentOpen
<1>3. Later'
  BY DEF ForceInv, Later, Ours
<1>4. Good => Good'
  BY DEF Good, Ours
<1>5. RememberedOk' /\ Settled'
  BY <1>4 DEF ForceInv, RememberedOk, Settled
<1> QED
  BY <1>1, <1>2, <1>3, <1>5 DEF ForceInv

\* The sensor gets a new number.
LEMMA ForceCounts ==
  ASSUME ForceInv, UNCHANGED <<rxQueue, rx, outputs>>,
         Cursor' \notin Sent, Sent' = Sent,
         peer' = peer, waiting' = "nothing",
         \/ command' = command
         \/ /\ command.outcome = "open" /\ waiting = "gpio" /\ answer = "ok"
            /\ command'.function = command.function /\ command'.state = command.state
  PROVE  ForceInv'
<1>1. NamesOutput' /\ DrivenOk'
  BY DEF ForceInv, NamesOutput, DrivenOk
<1>2. CurrentOpen'
  BY DEF CurrentOpen
<1>3. Later'
  <2>1. Cursor' \notin Pending
    BY PendingIsSent
  <2>2. Behind(rxQueue, rx, Cursor') = {}
    BY <2>1, BehindIsIn DEF Pending
  <2> QED
    BY <2>2 DEF Later
<1>4. Good => Good'
  BY DEF Good, Ours
<1>5. RememberedOk'
  <2>1. KnownFirst = 1 => Id(peer) \in Sent
    BY DEF Sent, SentKnown, Commands
  <2> QED
    BY <2>1 DEF RememberedOk, KnownFirst
<1>6. Settled'
  BY <1>4 DEF ForceInv, Settled
<1> QED
  BY <1>1, <1>2, <1>3, <1>5, <1>6 DEF ForceInv

\* The sensor sends.
LEMMA ForceSends ==
  ASSUME TypeOK, ForceInv,
         NEW type \in {"heartbeat", "status", "gpio"},
         NEW function \in FunctionOrNone, NEW state \in BOOLEAN,
         Send(type, function, state),
         type # "gpio" => command' = command,
         type = "gpio" =>
           /\ function \in Function
           /\ command.outcome = "open" => Ours([function |-> function, state |-> state])
           /\ command' = [function |-> function, state |-> state, outcome |-> "open"]
  PROVE  ForceInv'
<1> DEFINE frame == [type |-> type, session |-> session, seq |-> sequence,
                     function |-> function, state |-> state]
<1>1. /\ paired /\ paired' /\ waiting' = type /\ answer' = None
      /\ UNCHANGED <<session, sequence, rx, peer, lastDriven, outputs>>
  BY DEF Send, linkVars
<1>2. frame \in Frame /\ Id(frame) = Cursor /\ frame.type = type
      /\ frame.function = function /\ frame.state = state
  BY DEF TypeOK, Frame, Id, Cursor
<1>3. rxQueue' = rxQueue \/ rxQueue' = Append(rxQueue, frame)
  BY DEF Send, Arrived
<1> HIDE DEF frame
<1>4. Cursor' = Cursor /\ KnownFirst' = KnownFirst /\ DrivenFirst' = DrivenFirst
  BY <1>1 DEF Cursor, KnownFirst, DrivenFirst
<1>5. rxQueue \in Seq(Frame)
  BY DEF TypeOK
<1>6. /\ Frames(rxQueue', rx) \subseteq Frames(rxQueue, rx) \cup {frame}
      /\ Behind(rxQueue', rx, Cursor) \subseteq Behind(rxQueue, rx, Cursor) \cup {frame}
      /\ type # "gpio" =>
           /\ Frames(rxQueue', rx) \subseteq Frames(rxQueue, rx)
           /\ Behind(rxQueue', rx, Cursor) \subseteq Behind(rxQueue, rx, Cursor)
  BY <1>2, <1>3, <1>5, FramesSent
<1>7. type # "gpio" => Sent' \subseteq Sent
  BY <1>1, <1>2, <1>3, <1>4, <1>5, FirstsAre, CommandsSent DEF Sent, SentDriven, SentKnown
<1>8. NamesOutput' /\ DrivenOk'
  BY <1>1, <1>2, <1>6 DEF ForceInv, NamesOutput, DrivenOk
<1>9. CASE type # "gpio"
  <2>1. command' = command
    BY <1>9
  <2>2. CurrentOpen' /\ Later'
    BY <1>1, <1>4, <1>6, <1>7, <1>9, <2>1 DEF ForceInv, CurrentOpen, Later, Ours
  <2>3. Good => Good'
    BY <1>1, <1>6, <1>9, <2>1 DEF Good, Ours
  <2>4. RememberedOk' /\ Settled'
    BY <1>1, <1>4, <1>9, <2>1, <2>3 DEF ForceInv, RememberedOk, Settled
  <2> QED
    BY <1>8, <2>2, <2>4 DEF ForceInv
<1>10. CASE type = "gpio"
  <2>1. /\ command'.function = function /\ command'.state = state
        /\ command'.outcome = "open"
    BY <1>10
  <2>2. Ours(frame)'
    BY <1>2, <2>1 DEF Ours, frame
  <2>3. command.outcome = "open" => UNCHANGED <<command.function, command.state>>
    BY <1>10, <2>1 DEF Ours
  <2>4. command.outcome # "open" => Cursor \notin Sent
    BY <1>1 DEF ForceInv, CurrentOpen
  <2>5. CurrentOpen'
    BY <2>1 DEF CurrentOpen
  <2>6. Later'
    <3>1. command.outcome # "open" => Behind(rxQueue, rx, Cursor) = {}
      BY <2>4, PendingIsSent, BehindIsIn DEF Pending
    <3>2. \A e \in Behind(rxQueue, rx, Cursor) : Ours(e)'
      BY <1>1, <2>3, <3>1 DEF ForceInv, Later, Ours
    <3> QED
      BY <1>1, <1>2, <1>4, <1>6, <2>1, <3>2 DEF Later, Ours
  <2>7. RememberedOk'
    <3>1. KnownFirst = 1 => Id(peer) \in Sent
      BY DEF Sent, SentKnown, Commands
    <3> SUFFICES ASSUME KnownFirst = 1, peer.result = "ok", Id(peer) = Cursor
                 PROVE  Good'
      BY <1>1, <1>4 DEF RememberedOk
    <3>2. command.outcome = "open" /\ Good
      BY <1>1, <2>4, <3>1 DEF ForceInv, RememberedOk
    <3> QED
      BY <1>1, <1>2, <1>6, <2>1, <2>3, <3>2 DEF Good, Ours
  <2>8. Settled'
    BY <1>1, <2>1, SensorLinkAssumption DEF Settled
  <2> QED
    BY <1>8, <2>5, <2>6, <2>7, <2>8 DEF ForceInv
<1> QED
  BY <1>9, <1>10

\* espnow_rx_task answers a command again, or takes it for a new one.
LEMMA ForceTakes ==
  ASSUME TypeOK, TrailInv, ForceInv, RxTake
  PROVE  ForceInv'
<1>1. /\ rx = None /\ rxQueue # <<>> /\ rxQueue' = Tail(rxQueue)
      /\ UNCHANGED <<peer, lastDriven, outputs>> /\ rxQueue \in Seq(Frame)
      /\ rx' = None \/ (Head(rxQueue).type = "gpio" /\ rx'.frame = Head(rxQueue)
                          /\ rx'.result # "ok")
  BY DEF RxTake, linkVars, TypeOK
<1>2. UNCHANGED <<paired, session, sequence, waiting, command>>
  BY RxLeavesSensor DEF RxTask
<1>3. Cursor' = Cursor /\ KnownFirst' = KnownFirst
  BY <1>1, <1>2 DEF Cursor, KnownFirst
<1>4. /\ Frames(rxQueue', rx') \subseteq Frames(rxQueue, rx)
      /\ Behind(rxQueue', rx', Cursor) \subseteq Behind(rxQueue, rx, Cursor)
  BY <1>1, FramesTaken
<1>5. Sent' \subseteq Sent
  BY TakeTrails DEF Moving
<1>6. NamesOutput' /\ CurrentOpen' /\ Later' /\ DrivenOk'
  BY <1>1, <1>2, <1>3, <1>4, <1>5
  DEF ForceInv, NamesOutput, CurrentOpen, Later, Ours, DrivenOk
<1>7. Good => Good'
  BY <1>1, <1>2, <1>4 DEF Good, Ours
<1>8. RememberedOk'
  BY <1>1, <1>2, <1>3, <1>7 DEF ForceInv, RememberedOk
<1>9. Settled'
  <2>1. CASE waiting = "gpio" /\ answer' = "ok" /\ answer # "ok" /\ command.outcome = "open"
    <3>1. /\ paired /\ KnownFirst = 1 /\ peer.result = "ok" /\ Id(peer) = Cursor
      BY <2>1, TakenAnswer DEF Id, Cursor
    <3> QED
      BY <1>7, <2>1, <3>1 DEF ForceInv, RememberedOk, Settled
  <2>2. CASE ~(waiting = "gpio" /\ answer' = "ok" /\ answer # "ok"
               /\ command.outcome = "open")
    BY <1>2, <1>7, <2>2 DEF ForceInv, Settled
  <2> QED
    BY <2>1, <2>2
<1> QED
  BY <1>6, <1>8, <1>9 DEF ForceInv

\* It drives the output the command names.
LEMMA ForceDrives ==
  ASSUME TypeOK, TrailInv, ForceInv, RxDrive
  PROVE  ForceInv'
<1>1. /\ rx # None /\ rx \in Handled /\ rxQueue \in Seq(Frame)
      /\ UNCHANGED <<sensorVars, peer, rxQueue>>
      /\ rx' = [rx EXCEPT !.stage = "remember", !.result = "ok"]
      /\ outputs' = [outputs EXCEPT ![rx.frame.function] = rx.frame.state]
  BY DEF RxDrive, TypeOK
<1>2. rx'.frame = rx.frame
  BY <1>1 DEF Handled
<1>3. UNCHANGED <<paired, session, sequence, waiting, answer, command>>
  BY <1>1 DEF sensorVars
<1>4. Cursor' = Cursor /\ KnownFirst' = KnownFirst
  BY <1>1, <1>3 DEF Cursor, KnownFirst
<1>5. /\ Frames(rxQueue', rx') \subseteq Frames(rxQueue, rx)
      /\ Behind(rxQueue', rx', Cursor) \subseteq Behind(rxQueue, rx, Cursor)
  BY <1>1, <1>2, FramesLess
<1>6. rx.frame \in Frames(rxQueue, rx)
  BY <1>1, FramesHanded
<1>7. /\ outputs'[rx.frame.function] = rx.frame.state
      /\ \A f : f # rx.frame.function => outputs'[f] = outputs[f]
  <2>1. rx.frame.function \in Function /\ outputs \in [Function -> BOOLEAN]
    BY <1>6 DEF ForceInv, NamesOutput, TypeOK
  <2> QED
    BY <1>1, <2>1
<1>8. Sent' \subseteq Sent
  BY DriveTrails DEF Moving
<1>9. NamesOutput' /\ CurrentOpen' /\ Later' /\ DrivenOk'
  BY <1>2, <1>3, <1>4, <1>5, <1>7, <1>8
  DEF ForceInv, NamesOutput, CurrentOpen, Later, Ours, DrivenOk
<1>10. Good => Good'
  BY <1>3, <1>5, <1>6, <1>7 DEF Good, Ours
<1>11. RememberedOk' /\ Settled'
  BY <1>1, <1>3, <1>4, <1>10 DEF ForceInv, RememberedOk, Settled
<1> QED
  BY <1>9, <1>11 DEF ForceInv

\* It remembers the command and answers it.
LEMMA ForceRemembers ==
  ASSUME TypeOK, TrailInv, ForceInv, RxRemember
  PROVE  ForceInv'
<1>1. /\ rx # None /\ rx' = None /\ UNCHANGED <<rxQueue, outputs>>
      /\ rxQueue \in Seq(Frame)
      /\ peer' # None => Id(peer') = Id(rx.frame) /\ peer'.result = rx.result
  BY DEF RxRemember, TypeOK, Id, Handled
<1>2. UNCHANGED <<paired, session, sequence, waiting, command>>
  BY RxLeavesSensor DEF RxTask
<1>3. Cursor' = Cursor
  BY <1>2 DEF Cursor
<1>4. /\ Frames(rxQueue', rx') \subseteq Frames(rxQueue, rx)
      /\ Behind(rxQueue', rx', Cursor) \subseteq Behind(rxQueue, rx, Cursor)
  BY <1>1, FramesLess
<1>5. Sent' \subseteq Sent
  BY RememberTrails DEF Moving
<1>6. NamesOutput' /\ CurrentOpen' /\ Later' /\ DrivenOk'
  BY <1>1, <1>2, <1>3, <1>4, <1>5
  DEF ForceInv, NamesOutput, CurrentOpen, Later, Ours, DrivenOk
<1>7. Good => Good'
  BY <1>1, <1>2, <1>4 DEF Good, Ours
<1>8. paired /\ command.outcome = "open" /\ rx.result = "ok" /\ Id(rx.frame) = Cursor => Good
  <2>1. /\ rx.frame \in Frames(rxQueue, rx)
        /\ Frames(rxQueue, rx) \subseteq Behind(rxQueue, rx, Id(rx.frame))
    BY <1>1, FramesHanded
  <2> QED
    BY <1>1, <2>1 DEF ForceInv, Later, DrivenOk, Good, Ours
<1>9. RememberedOk'
  BY <1>1, <1>2, <1>3, <1>7, <1>8 DEF RememberedOk, KnownFirst
<1>10. Settled'
  BY <1>2, <1>7, <1>8, RememberedAnswer DEF ForceInv, Settled
<1> QED
  BY <1>6, <1>9, <1>10 DEF ForceInv

ConfirmInv == TypeOK /\ TrailInv /\ OkIsDriven /\ ForceInv

LEMMA ForceStarts == ASSUME TypeOK, Init PROVE ConfirmInv
<1>1. /\ rxQueue = <<>> /\ rx = None /\ peer = None /\ ~paired
      /\ command.outcome = "none"
  BY DEF Init
<1>2. Frames(<<>>, None) = {}
  BY DEF Frames, Places
<1>3. KnownFirst = 0
  BY <1>1 DEF KnownFirst
<1>4. ForceInv
  BY <1>1, <1>2, <1>3
  DEF ForceInv, NamesOutput, CurrentOpen, Later, DrivenOk, RememberedOk, Settled
<1> QED
  BY <1>4, TrailsStart, OkStarts DEF ConfirmInv

LEMMA ForceKept ==
  ASSUME StableInput, CommandsOften, SeqMod > 2, ConfirmInv, [Next]_vars
  PROVE  ConfirmInv'
<1>1. TypeOK /\ TrailInv /\ OkIsDriven /\ ForceInv
  BY DEF ConfirmInv
<1>2. TypeOK' /\ TrailInv' /\ OkIsDriven'
  <2>1. TypeOK'
    BY <1>1, TypedInductive
  <2> QED
    BY <1>1, <2>1, TrailsKept, OkIsKept
<1> SUFFICES ForceInv'
  BY <1>2 DEF ConfirmInv
<1>3. CASE SendPair \/ StartOver
  <2>1. /\ ~paired' /\ waiting' = "nothing"
        /\ UNCHANGED <<rxQueue, rx, outputs, command>>
    BY <1>3 DEF SendPair, StartOver
  <2>2. KnownFirst' = 1 => KnownFirst = 1 /\ peer' = peer
    BY <1>3, FirstsAre DEF SendPair, StartOver, Pair, Reset, linkVars
  <2>3. Sent' \subseteq Sent
    BY <1>1, <1>3, StartTrails DEF Moving
  <2> QED
    BY <1>1, <2>1, <2>2, <2>3, ForceQuiet
<1>4. CASE TakePairAck
  <2>1. /\ pairAck # None /\ waiting' = "nothing" /\ session' = session
        /\ UNCHANGED <<rxQueue, rx, outputs, command, peer>>
    BY <1>4 DEF TakePairAck, bridgeVars, linkVars
  <2>2. Sent' = Sent
    BY <1>1, <1>4, JoinTrails
  <2>3. Cursor' \notin Sent
    BY <1>1, <2>1 DEF TrailInv, Unheard, Cursor
  <2> QED
    BY <1>1, <2>1, <2>2, <2>3, ForceCounts
<1>5. CASE SendHeartbeat \/ AskStatus
  <2>1. command' = command /\ Unassigned \in FunctionOrNone /\ FALSE \in BOOLEAN
    BY <1>5 DEF SendHeartbeat, AskStatus, FunctionOrNone
  <2>2. \E type \in {"heartbeat", "status"} : Send(type, Unassigned, FALSE)
    BY <1>5 DEF SendHeartbeat, AskStatus
  <2> QED
    BY <1>1, <2>1, <2>2, ForceSends
<1>6. CASE \E state \in BOOLEAN : SendCommand(state)
  <2>1. PICK state \in BOOLEAN : SendCommand(state)
    BY <1>6
  <2>2. /\ Send("gpio", sensorFunction, state) /\ sensorFunction \in Function
        /\ sensorFunction \in FunctionOrNone
        /\ command' = [function |-> sensorFunction, state |-> state, outcome |-> "open"]
    BY <1>1, <2>1 DEF SendCommand, TypeOK, FunctionOrNone
  <2>3. command.outcome = "open" =>
          Ours([function |-> sensorFunction, state |-> state])
    BY <2>1 DEF SendCommand, Ours
  <2> QED
    BY <1>1, <2>2, <2>3, ForceSends
<1>7. CASE HeartbeatAnswered \/ StatusDone \/ CommandAnswered
  <2>1. /\ waiting # "nothing" /\ waiting' = "nothing"
        /\ UNCHANGED <<paired, session, pairAck, bridgeVars>>
        /\ \/ sequence' = sequence /\ command' = command
           \/ Counting /\ sequence' = NextSeq
        /\ UNCHANGED <<rxQueue, rx, outputs, peer>>
    BY <1>7 DEF HeartbeatAnswered, StatusDone, CommandAnswered, Counting, bridgeVars, linkVars
  <2>2. Sent' = Sent /\ (sequence' # sequence => \A c \in Sent : c # Cursor')
    BY <1>1, <2>1, CountTrails
  <2>3. \/ command' = command
        \/ /\ command.outcome = "open" /\ waiting = "gpio" /\ answer = "ok"
           /\ command'.function = command.function /\ command'.state = command.state
    BY <1>1, <1>7 DEF HeartbeatAnswered, StatusDone, CommandAnswered, TypeOK
  <2>4. CASE sequence' = sequence /\ command' = command
    <3>1. Cursor' = Cursor /\ KnownFirst' = KnownFirst
      BY <2>1, <2>4 DEF Cursor, KnownFirst
    <3> QED
      BY <1>1, <2>1, <2>2, <2>4, <3>1, ForceQuiet
  <2>5. CASE Counting /\ sequence' = NextSeq
    <3>1. sequence' # sequence
      <4>1. sequence \in Seq16
        BY <1>1 DEF TypeOK
      <4>2. NextSeq = IF sequence + 1 = SeqMod THEN 0 ELSE sequence + 1
        BY <4>1, NextIs DEF NextSeq
      <4>3. sequence \in Int /\ (sequence + 1 = SeqMod => sequence # 0)
        BY <4>1, SensorLinkAssumption DEF Seq16
      <4> QED
        BY <2>5, <4>2, <4>3
    <3> QED
      BY <1>1, <2>1, <2>2, <2>3, <3>1, ForceCounts
  <2> QED
    BY <2>1, <2>4, <2>5
<1>8. CASE RxTake \/ RxDrive \/ RxRemember
  BY <1>1, <1>8, ForceTakes, ForceDrives, ForceRemembers
<1>9. CASE RxCheckBinding
  <2>1. /\ rx # None /\ rx \in Handled
        /\ rx' = [rx EXCEPT !.stage = IF peer # None /\ binding = rx.frame.function
                                      THEN "drive" ELSE "remember"]
        /\ UNCHANGED <<sensorVars, linkVars, rxQueue, outputs>>
    BY <1>1, <1>9 DEF RxCheckBinding, TypeOK
  <2>2. rx'.frame = rx.frame /\ rx'.result = rx.result
    BY <2>1 DEF Handled
  <2>3. UNCHANGED <<paired, session, sequence, waiting, answer, command, peer>>
    BY <2>1 DEF sensorVars, linkVars
  <2>4. Cursor' = Cursor /\ KnownFirst' = KnownFirst
    BY <2>3 DEF Cursor, KnownFirst
  <2>5. /\ Frames(rxQueue', rx') \subseteq Frames(rxQueue, rx)
        /\ Behind(rxQueue', rx', Cursor) \subseteq Behind(rxQueue, rx, Cursor)
    BY <2>1, <2>2, FramesLess
  <2>6. Sent' \subseteq Sent
    BY <1>1, <2>1, <2>2, <2>3, <2>4, Forgetting DEF TrailInv, Moving, linkVars
  <2>7. NamesOutput' /\ CurrentOpen' /\ Later' /\ DrivenOk'
    BY <1>1, <2>1, <2>2, <2>3, <2>4, <2>5, <2>6
    DEF ForceInv, NamesOutput, CurrentOpen, Later, Ours, DrivenOk
  <2>8. Good => Good'
    BY <2>1, <2>3, <2>5 DEF Good, Ours
  <2>9. RememberedOk' /\ Settled'
    BY <1>1, <2>3, <2>4, <2>8 DEF ForceInv, RememberedOk, Settled
  <2> QED
    BY <2>7, <2>9 DEF ForceInv
<1>10. CASE BridgeRestart
  <2>1. /\ rxQueue' = <<>> /\ rx' = None /\ peer' = None
        /\ command'.outcome = "none"
    BY <1>1, <1>10 DEF BridgeRestart, TypeOK
  <2>2. Frames(<<>>, None) = {}
    BY DEF Frames, Places
  <2>3. Sent' = {}
    BY <1>1, <1>2, <1>10, RestartTrails
  <2>4. KnownFirst' = 0
    BY <2>1 DEF KnownFirst
  <2> QED
    BY <2>1, <2>2, <2>3, <2>4
    DEF ForceInv, NamesOutput, CurrentOpen, Later, DrivenOk, RememberedOk, Settled
<1>11. CASE \/ DeleteRadioPeer \/ Evict \/ CommandTimeout
            \/ (\E f \in Function : Assign(f)) \/ Unassign \/ UNCHANGED vars
            \/ HeartbeatTimeout /\ ~(failures + 1 >= RepairAfter)
  <2>1. /\ UNCHANGED <<paired, session, sequence, rx, rxQueue, outputs, command>>
        /\ peer' = peer \/ peer' = None
        /\ waiting' \in {waiting, "nothing"} /\ answer' = answer
    BY <1>11 DEF DeleteRadioPeer, Evict, CommandTimeout, Assign, Unassign, Notify,
                 HeartbeatTimeout, vars, sensorVars, bridgeVars, linkVars
  <2>2. Cursor' = Cursor /\ (KnownFirst' = 1 => KnownFirst = 1 /\ peer' = peer)
    BY <2>1, FirstsAre DEF Cursor
  <2>3. Sent' \subseteq Sent
    BY <1>1, <1>11, QuietTrails DEF Moving
  <2> QED
    BY <1>1, <2>1, <2>2, <2>3, ForceQuiet
<1>12. HeartbeatTimeout /\ failures + 1 >= RepairAfter => StartOver
  BY DEF HeartbeatTimeout
<1> QED
  BY <1>3, <1>4, <1>5, <1>6, <1>7, <1>8, <1>9, <1>10, <1>11, <1>12
  DEF Next, SensorLoop, SensorRestart, RxTask

\* When a sensor takes its command for confirmed its output has the state it asked
\* for, and keeps it until the sensor's next command, whatever is lost, repeated,
\* forgotten or restarted in between: no older command is left on the bridge to undo
\* it.  The sensor's user must not change the input, nor the bridge's user the
\* sensor's function, while a command is unanswered; MCSensorRetry shows what happens
\* then.
THEOREM ConfirmedMeansDriven ==
  ASSUME StableInput, CommandsOften, SeqMod > 2
  PROVE  Spec => []ConfirmedIsDriven
<1>1. Init => ConfirmInv
  BY TypedInductive, ForceStarts
<1>2. ConfirmInv /\ [Next]_vars => ConfirmInv'
  BY ForceKept
<1>3. ConfirmInv => ConfirmedIsDriven
  BY DEF ConfirmInv, ForceInv, Settled, Good, ConfirmedIsDriven
<1> QED
  BY <1>1, <1>2, <1>3, PTL DEF Spec
=============================================================================
