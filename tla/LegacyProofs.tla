---------------------------- MODULE LegacyProofs ----------------------------
(***************************************************************************)
(* What a pendant may conclude from an acknowledgement: proofs that the    *)
(* bridge forwards a command once, and that a line the pendant takes for   *)
(* transmitted is on its way to the UART, for any number of commands and   *)
(* any lengths of the queue and of the acknowledgements waiting.           *)
(*                                                                         *)
(* Everything rests on the numbers.  A paired pendant's number is at least *)
(* the bridge's and those of all acknowledgements on their way, and larger *)
(* once the current command is no line waiting to be confirmed: so what is *)
(* filtered or acknowledged under the current number is the current line.  *)
(* Being patient and paced is only needed where an acknowledgement is to   *)
(* mean that the line was taken.                                           *)
(***************************************************************************)
EXTENDS LegacyPendant, SequenceTheorems, TLAPS

Kinds == {"current", "earlier"}
Fate == {"absent", "queued", "lost", "wiped"} \cup SerialSendData
KeptFate == Fate \ {"lost"}

\* A pendant that waits or has a current command is paired, and it waits for a line.
Engaged ==
  /\ waiting => command = "open" /\ sequence < MaxSequence
  /\ command # "none" => paired

\* Only a listed pendant has commands in the queue.
Listed == peer = None => rxQueue = <<>>

\* The number the bridge remembers is not ahead of a paired pendant's.
NumbersPast ==
  paired /\ peer # None /\ peer.valid =>
    /\ peer.seq <= sequence
    /\ command # "open" => peer.seq < sequence

\* No acknowledgement is ahead of the pendant.
AcksPast ==
  /\ \A i \in 1..Len(acks) :
       acks[i] <= sequence /\ (command # "open" => acks[i] < sequence)
  /\ lastAck # None =>
       lastAck <= sequence /\ (command # "open" => lastAck < sequence)

\* The queue has the current command at most once, and only while it is queued.
OneCurrent ==
  /\ \A i, j \in 1..Len(rxQueue) :
       rxQueue[i] = "current" /\ rxQueue[j] = "current" => i = j
  /\ \A i \in 1..Len(rxQueue) : rxQueue[i] = "current" => fate = "queued"

\* A line the bridge has seen is in its filter, as long as it lists the pendant.
Filtered ==
  command = "open" /\ fate # "absent" /\ peer # None =>
    peer.valid /\ peer.seq = sequence

LegacyInv ==
  TypeOK /\ Engaged /\ Listed /\ NumbersPast /\ AcksPast /\ OneCurrent /\ Filtered

\* What an acknowledgement is worth if the pendant is patient and paced: a number in
\* the filter, or acknowledged, is that of a line the bridge has taken.
Honest ==
  /\ fate # "lost"
  /\ command = "open" /\ peer # None /\ peer.valid /\ peer.seq = sequence
       => fate # "absent"
  /\ command = "open" =>
       \A i \in 1..Len(acks) : acks[i] = sequence => fate # "absent"
  /\ command = "open" /\ lastAck = sequence => fate # "absent"
  /\ command = "confirmed" => fate # "absent"

-----------------------------------------------------------------------------
(* Types                                                                   *)

LEMMA PairTyped ==
  ASSUME TypeOK, Pair
  PROVE  /\ paired' \in BOOLEAN /\ radio' \in BOOLEAN /\ doomed' \in BOOLEAN
         /\ peer' \in [seq : Seq16, valid : BOOLEAN] \cup {None}
<1>1. 0 \in Seq16
  BY LegacyPendantAssumption DEF Seq16
<1>2. Reset \in [seq : Seq16, valid : BOOLEAN]
  BY <1>1 DEF Reset
<1> QED
  BY <1>2 DEF Pair, TypeOK, linkVars

LEMMA EarlierTyped ==
  ASSUME TypeOK
  PROVE  /\ Earlier \in Seq(Kinds) /\ Len(Earlier) = Len(rxQueue)
         /\ \A i \in 1..Len(Earlier) : Earlier[i] = "earlier"
<1>1. Len(rxQueue) \in Nat
  BY DEF TypeOK
<1> QED
  BY <1>1 DEF Earlier, Kinds

LEMMA AcknowledgeTyped ==
  ASSUME TypeOK, Acknowledge
  PROVE  acks' \in Seq(Seq16) /\ Len(acks') <= MaxAcks
BY LegacyPendantAssumption DEF TypeOK, Acknowledge, Seq16

LEMMA ArriveTyped ==
  ASSUME TypeOK, NEW q \in Seq(Kinds), Len(q) = Len(rxQueue),
         NEW f \in Fate,
         Arrive(q, f)
  PROVE  /\ acks' \in Seq(Seq16) /\ Len(acks') <= MaxAcks
         /\ peer' \in [seq : Seq16, valid : BOOLEAN] \cup {None}
         /\ rxQueue' \in Seq(Kinds) /\ Len(rxQueue') <= RxQueueSize
         /\ fate' \in Fate
<1>0. Len(q) \in Nat /\ Len(q) <= RxQueueSize /\ RxQueueSize \in Nat
  BY LegacyPendantAssumption DEF TypeOK
<1>1. CASE UNCHANGED <<acks, peer>> /\ rxQueue' = q /\ fate' = f
  BY <1>0, <1>1 DEF TypeOK
<1>2. CASE Acknowledge /\ UNCHANGED peer /\ rxQueue' = q /\ fate' = f
  BY <1>0, <1>2, AcknowledgeTyped DEF TypeOK
<1>3. CASE Acknowledge /\ Take(q)
  <2>1. peer' \in [seq : Seq16, valid : BOOLEAN]
    BY <1>3 DEF Take, TypeOK
  <2>2. rxQueue' \in Seq(Kinds) /\ Len(rxQueue') <= RxQueueSize
    <3>1. CASE rxQueue' = q
      BY <1>0, <3>1
    <3>2. CASE Room /\ rxQueue' = Append(q, "current")
      BY <1>0, <3>2 DEF Room, Kinds
    <3> QED
      BY <1>3, <3>1, <3>2 DEF Take
  <2>3. fate' \in {"queued", "lost"}
    BY <1>3 DEF Take
  <2> QED
    BY <1>3, <2>1, <2>2, <2>3, AcknowledgeTyped DEF Fate
<1> QED
  BY <1>1, <1>2, <1>3 DEF Arrive

LEMMA TypedInductive ==
  /\ Init => TypeOK
  /\ TypeOK /\ Engaged /\ [Next]_vars => TypeOK'
<1>0. /\ 0 \in Seq16 /\ MaxAcks \in Nat /\ RxQueueSize \in Nat
      /\ <<>> \in Seq(Seq16) /\ <<>> \in Seq(Kinds) /\ Len(<<>>) = 0
  BY LegacyPendantAssumption, EmptySeq DEF Seq16
<1>1. Init => TypeOK
  <2> SUFFICES ASSUME Init PROVE TypeOK
    OBVIOUS
  <2>1. paired \in BOOLEAN /\ waiting \in BOOLEAN /\ radio \in BOOLEAN /\ doomed \in BOOLEAN
    BY DEF Init
  <2>2. /\ acks \in Seq(Seq16) /\ Len(acks) <= MaxAcks
        /\ rxQueue \in Seq(Kinds) /\ Len(rxQueue) <= RxQueueSize
    BY <1>0 DEF Init
  <2> QED
    BY <1>0, <2>1, <2>2 DEF Init, TypeOK, Kinds
<1>2. ASSUME TypeOK, Engaged, [Next]_vars PROVE TypeOK'
  <2> USE <1>2
  <2>1. CASE UNCHANGED vars
    BY <2>1 DEF TypeOK, vars, pendantVars, bridgeVars, linkVars
  <2>2. CASE SendPair
    BY <2>2, PairTyped DEF TypeOK, SendPair
  <2>3. CASE StartOver
    <3>1. Pair /\ waiting' \in BOOLEAN /\ sequence' = 0 /\ acks' = <<>>
      BY <2>3 DEF StartOver
    <3>2. acks' \in Seq(Seq16) /\ Len(acks') <= MaxAcks /\ sequence' \in Seq16
      BY <1>0, <3>1
    <3> QED
      BY <2>3, <3>1, <3>2, PairTyped DEF TypeOK, StartOver
  <2>4. CASE SendLine
    <3>1. Arrive(Earlier, "absent")
      BY <2>4 DEF SendLine
    <3> QED
      BY <2>4, <3>1, EarlierTyped, ArriveTyped DEF TypeOK, Fate, SendLine, Kinds
  <2>5. CASE RepeatLine
    <3>1. Arrive(rxQueue, fate) /\ rxQueue \in Seq(Kinds)
      BY <2>5 DEF RepeatLine, TypeOK, Kinds
    <3> QED
      BY <2>5, <3>1, ArriveTyped DEF TypeOK, Fate, RepeatLine, Kinds
  <2>6. CASE SendRealtime
    <3>1. Arrive(Earlier, "absent")
      BY <2>6 DEF SendRealtime
    <3>2. sequence' \in Seq16
      BY <2>6, LegacyPendantAssumption DEF SendRealtime, CanSend, TypeOK, Seq16
    <3> QED
      BY <2>6, <3>1, <3>2, EarlierTyped, ArriveTyped DEF TypeOK, Fate, SendRealtime, Kinds
  <2>7. CASE HearAck
    <3>1. /\ lastAck' \in Seq16 /\ acks' \in Seq(Seq16)
          /\ Len(acks') = Len(acks) - 1 /\ Len(acks) \in Nat
      BY <2>7, HeadTailProperties DEF HearAck, TypeOK
    <3> QED
      BY <1>0, <2>7, <3>1 DEF HearAck, TypeOK, bridgeVars, linkVars
  <2>8. CASE LineConfirmed
    <3>1. sequence' \in Seq16
      BY <2>8, LegacyPendantAssumption DEF LineConfirmed, Engaged, TypeOK, Seq16
    <3> QED
      BY <2>8, <3>1 DEF LineConfirmed, TypeOK, bridgeVars, linkVars
  <2>9. CASE LineTimeout
    BY <2>9 DEF LineTimeout, TypeOK, bridgeVars, linkVars
  <2>10. CASE RxTask
    <3>1. /\ rxQueue' \in Seq(Kinds) /\ Len(rxQueue') = Len(rxQueue) - 1
          /\ Len(rxQueue) \in Nat
      BY <2>10, HeadTailProperties DEF RxTask, TypeOK, Kinds
    <3> QED
      BY <1>0, <2>10, <3>1 DEF RxTask, TypeOK, pendantVars, linkVars, Kinds
  <2>11. CASE Evict \/ DeleteRadioPeer
    BY <2>11 DEF Evict, DeleteRadioPeer, TypeOK, pendantVars
  <2>12. CASE BridgeRestart
    <3>1. radio' \in BOOLEAN /\ doomed' \in BOOLEAN /\ rxQueue' = <<>>
      BY <2>12 DEF BridgeRestart
    <3>2. rxQueue' \in Seq(Kinds) /\ Len(rxQueue') <= RxQueueSize
      BY <1>0, <3>1
    <3> QED
      BY <2>12, <3>1, <3>2 DEF BridgeRestart, TypeOK, pendantVars, Kinds
  <2> QED
    BY <2>1, <2>2, <2>3, <2>4, <2>5, <2>6, <2>7, <2>8, <2>9, <2>10, <2>11, <2>12
    DEF Next, Silence, PendantRestart, Sending
<1> QED
  BY <1>1, <1>2

-----------------------------------------------------------------------------
(* Sending a command                                                       *)

\* What may be sent: a new command, or the open line as it is.
Offered(q, f) ==
  /\ q \in Seq(Kinds) /\ Len(q) = Len(rxQueue)
  /\ \/ f = "absent" /\ \A i \in 1..Len(q) : q[i] = "earlier"
     \/ f = fate /\ q = rxQueue /\ command = "open"

Dropped(q, f) == peer' = peer /\ rxQueue' = q /\ fate' = f

LEMMA ArriveCases ==
  ASSUME NEW q, NEW f, Arrive(q, f)
  PROVE  \/ acks' = acks /\ Dropped(q, f)
         \/ peer # None /\ Acknowledge /\ Duplicate /\ Dropped(q, f)
         \/ peer # None /\ Acknowledge /\ ~Duplicate /\ Take(q)
BY DEF Arrive, Dropped

LEMMA AckAdded ==
  ASSUME TypeOK, acks' = acks \/ Acknowledge
  PROVE  /\ Len(acks) \in Nat
         /\ \A i \in 1..Len(acks') :
              \/ i \in 1..Len(acks) /\ acks'[i] = acks[i]
              \/ acks'[i] = sequence
BY DEF TypeOK, Acknowledge

LEMMA Remembered ==
  ASSUME NEW q, Take(q), TypeOK
  PROVE  peer' # None /\ peer'.valid /\ peer'.seq = sequence
<1>1. peer' = [seq |-> sequence, valid |-> TRUE]
  BY DEF Take
<1>2. peer' \in [seq : 0..MaxSequence, valid : BOOLEAN]
  BY <1>1 DEF TypeOK, Seq16
<1> QED
  BY <1>1, <1>2, LegacyPendantAssumption

\* What every send does to the bridge.
LEMMA SendKeeps ==
  ASSUME LegacyInv, paired, NEW q, NEW f, Offered(q, f), Arrive(q, f)
  PROVE  /\ Listed' /\ OneCurrent'
         /\ peer' # None /\ peer'.valid => peer'.seq <= sequence
         /\ \A i \in 1..Len(acks') : acks'[i] <= sequence
         /\ fate' # "absent" /\ peer' # None => peer'.valid /\ peer'.seq = sequence
<1>1. sequence \in Nat
  BY LegacyPendantAssumption DEF LegacyInv, TypeOK, Seq16
<1>2. Len(q) \in Nat /\ Len(rxQueue) \in Nat
  BY DEF Offered, LegacyInv, TypeOK
<1>3. \A i \in 1..Len(acks') : acks'[i] <= sequence
  <2>1. acks' = acks \/ Acknowledge
    BY ArriveCases
  <2> QED
    BY <1>1, <2>1, AckAdded DEF LegacyInv, AcksPast
<1>4. /\ \A i, j \in 1..Len(q) : q[i] = "current" /\ q[j] = "current" => i = j
      /\ \A i \in 1..Len(q) : q[i] = "current" => f = "queued"
  BY DEF Offered, LegacyInv, OneCurrent
<1>5. peer = None => q = <<>>
  BY <1>2, EmptySeq DEF Offered, LegacyInv, Listed
<1>6. f # "absent" /\ peer # None => peer.valid /\ peer.seq = sequence
  BY DEF Offered, LegacyInv, Filtered
<1>7. CASE Dropped(q, f)
  <2>1. Listed' /\ OneCurrent'
    BY <1>4, <1>5, <1>7 DEF Dropped, Listed, OneCurrent
  <2>2. peer' # None /\ peer'.valid => peer'.seq <= sequence
    BY <1>7 DEF Dropped, LegacyInv, NumbersPast
  <2> QED
    BY <1>3, <1>6, <1>7, <2>1, <2>2 DEF Dropped
<1>8. CASE peer # None /\ ~Duplicate /\ Take(q)
  <2>1. peer' # None /\ peer'.valid /\ peer'.seq = sequence
    BY <1>8, Remembered DEF LegacyInv
  <2>2. f = "absent"
    BY <1>6, <1>8 DEF Duplicate
  <2>3. \A i \in 1..Len(q) : q[i] # "current"
    BY <1>4, <2>2
  <2>4. OneCurrent'
    <3>1. CASE rxQueue' = q
      BY <2>3, <3>1 DEF OneCurrent
    <3>2. CASE rxQueue' = Append(q, "current") /\ fate' = "queued"
      <4>1. /\ Len(rxQueue') = Len(q) + 1
            /\ \A i \in 1..Len(q) : rxQueue'[i] = q[i]
        BY <1>2, <3>2 DEF Offered
      <4> QED
        BY <1>2, <2>3, <3>2, <4>1 DEF OneCurrent
    <3> QED
      BY <1>8, <3>1, <3>2 DEF Take
  <2>5. Listed'
    BY <2>1 DEF Listed
  <2>6. peer'.seq <= sequence
    BY <1>1, <2>1
  <2> QED
    BY <1>3, <2>1, <2>4, <2>5, <2>6
<1> QED
  BY <1>7, <1>8, ArriveCases

\* What is offered by the three sends.
LEMMA Offers ==
  ASSUME TypeOK
  PROVE  /\ Offered(Earlier, "absent")
         /\ command = "open" => Offered(rxQueue, fate)
<1>1. Offered(Earlier, "absent")
  BY EarlierTyped DEF Offered
<1>2. rxQueue \in Seq(Kinds)
  BY DEF TypeOK, Kinds
<1> QED
  BY <1>1, <1>2 DEF Offered

LEMMA SendingInductive == LegacyInv /\ TypeOK' /\ Sending => LegacyInv'
<1> SUFFICES ASSUME LegacyInv, TypeOK', Sending PROVE LegacyInv'
  OBVIOUS
<1>0. sequence \in Nat /\ (lastAck # None => lastAck \in Nat)
  BY LegacyPendantAssumption DEF LegacyInv, TypeOK, Seq16
<1>00. TypeOK /\ paired /\ paired' = paired /\ sequence < MaxSequence
  BY DEF Sending, SendLine, RepeatLine, SendRealtime, CanSend, LegacyInv
<1>1. /\ Listed' /\ OneCurrent'
      /\ peer' # None /\ peer'.valid => peer'.seq <= sequence
      /\ \A i \in 1..Len(acks') : acks'[i] <= sequence
      /\ fate' # "absent" /\ peer' # None => peer'.valid /\ peer'.seq = sequence
  <2>1. PICK q, f : Offered(q, f) /\ Arrive(q, f)
    BY <1>00, Offers DEF Sending, SendLine, RepeatLine, SendRealtime
  <2> QED
    BY <1>00, <2>1, SendKeeps
<1>2. lastAck # None => lastAck <= sequence
  BY DEF LegacyInv, AcksPast
<1>3. CASE SendLine \/ RepeatLine
  <2>1. command' = "open" /\ sequence' = sequence /\ lastAck' = lastAck
    BY <1>3 DEF SendLine, RepeatLine
  <2>2. Engaged'
    BY <1>00, <2>1 DEF Engaged
  <2>3. NumbersPast'
    BY <1>1, <2>1 DEF NumbersPast
  <2>4. AcksPast'
    BY <1>1, <1>2, <2>1 DEF AcksPast
  <2>5. Filtered'
    BY <1>1, <2>1 DEF Filtered
  <2> QED
    BY <1>1, <2>2, <2>3, <2>4, <2>5 DEF LegacyInv
<1>4. CASE SendRealtime
  <2>1. /\ command' = "realtime" /\ sequence' = sequence + 1
        /\ lastAck' = lastAck /\ ~waiting'
    BY <1>4 DEF SendRealtime, CanSend
  <2>2. Engaged'
    BY <1>00, <2>1 DEF Engaged
  <2>3. NumbersPast'
    <3>1. peer' # None => peer' \in [seq : Seq16, valid : BOOLEAN]
      BY DEF TypeOK
    <3>2. peer' # None => peer'.seq \in Nat
      BY <3>1, LegacyPendantAssumption DEF Seq16
    <3>3. peer' # None /\ peer'.seq <= sequence => peer'.seq < sequence'
      BY <1>0, <2>1, <3>2
    <3> QED
      BY <1>0, <1>1, <2>1, <3>2, <3>3 DEF NumbersPast
  <2>4. AcksPast'
    <3>1. \A i \in 1..Len(acks') : acks'[i] \in Nat
      BY LegacyPendantAssumption DEF TypeOK, Seq16
    <3> QED
      BY <1>0, <1>1, <1>2, <2>1, <3>1 DEF AcksPast
  <2>5. Filtered'
    BY <2>1 DEF Filtered
  <2> QED
    BY <1>1, <2>2, <2>3, <2>4, <2>5 DEF LegacyInv
<1> QED
  BY <1>3, <1>4 DEF Sending

-----------------------------------------------------------------------------
(* The other steps                                                         *)

LEMMA PairInductive ==
  ASSUME LegacyInv, Pair, rxQueue' = rxQueue, fate' = fate
  PROVE  Listed' /\ OneCurrent' /\ NumbersPast'
<1>1. Reset # None
  <2>1. Reset \in [seq : 0..MaxSequence, valid : BOOLEAN]
    BY LegacyPendantAssumption DEF Reset
  <2> QED
    BY <2>1, LegacyPendantAssumption
<1>2. OneCurrent'
  BY DEF LegacyInv, OneCurrent
<1>3. CASE paired' = FALSE /\ UNCHANGED linkVars
  BY <1>2, <1>3 DEF LegacyInv, Listed, NumbersPast, linkVars
<1>4. CASE peer' = Reset
  <2>1. ~peer'.valid
    BY <1>4 DEF Reset
  <2> QED
    BY <1>1, <1>2, <1>4, <2>1 DEF Listed, NumbersPast
<1> QED
  BY <1>3, <1>4 DEF Pair

LEMMA PairingInductive ==
  LegacyInv /\ TypeOK' /\ (SendPair \/ StartOver) => LegacyInv'
<1> SUFFICES ASSUME LegacyInv, TypeOK', SendPair \/ StartOver PROVE LegacyInv'
  OBVIOUS
<1>1. Pair /\ rxQueue' = rxQueue /\ fate' = fate
  BY DEF SendPair, StartOver
<1>2. CASE SendPair
  <2>1. /\ command = "none" /\ command' = command /\ waiting' = waiting
        /\ UNCHANGED <<sequence, acks, lastAck>>
    BY <1>2 DEF SendPair, LegacyInv, Engaged
  <2> QED
    BY <1>1, <2>1, PairInductive DEF LegacyInv, Engaged, AcksPast, Filtered
<1>3. CASE StartOver
  <2>1. /\ command' = "none" /\ ~waiting' /\ acks' = <<>> /\ lastAck' = None
    BY <1>3 DEF StartOver
  <2>2. Engaged' /\ Filtered'
    BY <2>1 DEF Engaged, Filtered
  <2>3. AcksPast'
    BY <2>1 DEF AcksPast
  <2> QED
    BY <1>1, <2>2, <2>3, PairInductive DEF LegacyInv
<1> QED
  BY <1>2, <1>3

LEMMA AnswersInductive ==
  LegacyInv /\ TypeOK' /\ (HearAck \/ LineConfirmed \/ LineTimeout) => LegacyInv'
<1> SUFFICES ASSUME LegacyInv, TypeOK', HearAck \/ LineConfirmed \/ LineTimeout
             PROVE  LegacyInv'
  OBVIOUS
<1>0. UNCHANGED <<paired, peer, rxQueue, fate>>
  BY DEF HearAck, LineConfirmed, LineTimeout, bridgeVars, linkVars
<1>1. Listed' /\ OneCurrent'
  BY <1>0 DEF LegacyInv, Listed, OneCurrent
<1>2. /\ sequence \in Nat /\ \A i \in 1..Len(acks) : acks[i] \in Nat
      /\ lastAck # None => lastAck \in Nat
      /\ peer # None => peer.seq \in Nat
  BY LegacyPendantAssumption DEF LegacyInv, TypeOK, Seq16
<1>3. CASE HearAck
  <2>1. UNCHANGED <<sequence, waiting, command>>
    BY <1>3 DEF HearAck
  <2>2. /\ Len(acks) \in Nat /\ Len(acks) > 0 /\ lastAck' = acks[1]
        /\ Len(acks') = Len(acks) - 1
        /\ \A i \in 1..Len(acks') : acks'[i] = acks[i + 1]
    BY <1>3, HeadTailProperties, EmptySeq DEF HearAck, LegacyInv, TypeOK
  <2>3. AcksPast'
    BY <2>1, <2>2 DEF LegacyInv, AcksPast
  <2> QED
    BY <1>0, <1>1, <2>1, <2>3 DEF LegacyInv, Engaged, NumbersPast, Filtered
<1>4. CASE LineConfirmed
  <2>1. /\ command = "open" /\ paired
        /\ sequence' = sequence + 1 /\ command' = "confirmed" /\ ~waiting'
        /\ UNCHANGED <<lastAck, acks>>
    BY <1>4 DEF LineConfirmed, LegacyInv, Engaged
  <2>2. Engaged' /\ Filtered'
    BY <1>0, <2>1 DEF Engaged, Filtered
  <2>3. AcksPast'
    BY <1>2, <2>1 DEF LegacyInv, AcksPast
  <2>4. NumbersPast'
    <3>1. peer # None /\ peer.seq <= sequence => peer.seq < sequence'
      BY <1>2, <2>1
    <3>2. peer # None /\ peer.seq <= sequence => peer.seq <= sequence'
      BY <1>2, <2>1
    <3> QED
      BY <1>0, <2>1, <3>1, <3>2 DEF LegacyInv, NumbersPast
  <2> QED
    BY <1>1, <2>2, <2>3, <2>4 DEF LegacyInv
<1>5. CASE LineTimeout
  <2>1. ~waiting' /\ UNCHANGED <<sequence, lastAck, acks, command>>
    BY <1>5 DEF LineTimeout
  <2> QED
    BY <1>0, <1>1, <2>1 DEF LegacyInv, Engaged, AcksPast, NumbersPast, Filtered
<1> QED
  BY <1>3, <1>4, <1>5

\* The queue after its head is gone.
LEMMA Popped ==
  ASSUME TypeOK, RxTask
  PROVE  /\ Len(rxQueue) \in Nat /\ Len(rxQueue) > 0 /\ Head(rxQueue) = rxQueue[1]
         /\ Len(rxQueue') = Len(rxQueue) - 1
         /\ \A i \in 1..Len(rxQueue') : rxQueue'[i] = rxQueue[i + 1]
BY HeadTailProperties, EmptySeq DEF RxTask, TypeOK

LEMMA BridgeInductive ==
  LegacyInv /\ TypeOK' /\ (RxTask \/ Evict \/ DeleteRadioPeer \/ BridgeRestart)
    => LegacyInv'
<1> SUFFICES ASSUME LegacyInv, TypeOK',
                    RxTask \/ Evict \/ DeleteRadioPeer \/ BridgeRestart
             PROVE  LegacyInv'
  OBVIOUS
<1>1. UNCHANGED pendantVars
  BY DEF RxTask, Evict, DeleteRadioPeer, BridgeRestart
<1>2. Engaged' /\ AcksPast'
  BY <1>1 DEF LegacyInv, Engaged, AcksPast, pendantVars
<1>3. peer' = None \/ peer' = peer
  BY DEF RxTask, Evict, DeleteRadioPeer, BridgeRestart, linkVars
<1>4. NumbersPast'
  BY <1>1, <1>3 DEF LegacyInv, NumbersPast, pendantVars
<1>5. CASE RxTask
  <2>1. peer' = peer
    BY <1>5 DEF RxTask, linkVars
  <2>2. Listed'
    BY <1>5, <2>1 DEF RxTask, LegacyInv, Listed
  <2>3. OneCurrent'
    <3>1. CASE Head(rxQueue) = "current"
      <4>1. \A i \in 1..Len(rxQueue') : rxQueue'[i] # "current"
        BY <1>5, <3>1, Popped DEF LegacyInv, OneCurrent
      <4> QED
        BY <4>1 DEF OneCurrent
    <3>2. CASE Head(rxQueue) # "current"
      <4>1. fate' = fate
        BY <1>5, <3>2 DEF RxTask
      <4>2. \A i \in 1..Len(rxQueue') :
              i + 1 \in 1..Len(rxQueue) /\ rxQueue'[i] = rxQueue[i + 1]
        BY <1>5, Popped DEF LegacyInv
      <4>3. \A i, j \in 1..Len(rxQueue') : i + 1 = j + 1 => i = j
        OBVIOUS
      <4> QED
        BY <4>1, <4>2, <4>3 DEF LegacyInv, OneCurrent
    <3> QED
      BY <3>1, <3>2
  <2>4. fate' # "absent" => fate # "absent"
    BY <1>5, Popped DEF RxTask, LegacyInv, OneCurrent
  <2>5. Filtered'
    BY <1>1, <2>1, <2>4 DEF LegacyInv, Filtered, pendantVars
  <2> QED
    BY <1>2, <1>4, <2>2, <2>3, <2>5 DEF LegacyInv
<1>6. CASE Evict \/ DeleteRadioPeer
  <2>1. UNCHANGED fate /\ rxQueue' = rxQueue
    BY <1>6 DEF Evict, DeleteRadioPeer
  <2>2. Listed'
    BY <1>6 DEF Evict, DeleteRadioPeer, LegacyInv, Listed
  <2>3. OneCurrent'
    BY <2>1 DEF LegacyInv, OneCurrent
  <2> QED
    BY <1>1, <1>2, <1>3, <1>4, <2>1, <2>2, <2>3
    DEF LegacyInv, Filtered, pendantVars
<1>7. CASE BridgeRestart
  <2>1. peer' = None /\ rxQueue' = <<>>
    BY <1>7 DEF BridgeRestart
  <2>2. OneCurrent'
    BY <2>1 DEF OneCurrent
  <2> QED
    BY <1>2, <1>4, <2>1, <2>2 DEF LegacyInv, Listed, Filtered
<1> QED
  BY <1>5, <1>6, <1>7

-----------------------------------------------------------------------------
(* The invariant, and a command that is forwarded once                     *)

LEMMA Inductive ==
  /\ Init => LegacyInv
  /\ LegacyInv /\ [Next]_vars => LegacyInv'
<1>1. Init => LegacyInv
  <2> SUFFICES ASSUME Init PROVE LegacyInv
    OBVIOUS
  <2>1. /\ ~waiting /\ command = "none" /\ peer = None /\ rxQueue = <<>>
        /\ acks = <<>> /\ lastAck = None
    BY DEF Init
  <2>2. OneCurrent /\ AcksPast
    BY <2>1 DEF OneCurrent, AcksPast
  <2> QED
    BY <2>1, <2>2, TypedInductive
    DEF LegacyInv, Engaged, Listed, NumbersPast, Filtered
<1>2. LegacyInv /\ UNCHANGED vars => LegacyInv'
  BY DEF LegacyInv, TypeOK, Engaged, Listed, NumbersPast, AcksPast, OneCurrent,
         Filtered, vars, pendantVars, bridgeVars, linkVars
<1>3. LegacyInv /\ [Next]_vars => TypeOK'
  BY TypedInductive DEF LegacyInv
<1> QED
  BY <1>1, <1>2, <1>3, SendingInductive, PairingInductive, AnswersInductive,
     BridgeInductive
  DEF Next, Silence, PendantRestart

\* The variables of pendant and bridge keep their types; no number is used past
\* the bound, and no queue grows past its size.
THEOREM TypeCorrect == Spec => []TypeOK
<1>1. LegacyInv => TypeOK
  BY DEF LegacyInv
<1> QED
  BY <1>1, Inductive, PTL DEF Spec

\* espnow_legacy_rx_task hands no command to serial_send_data twice, however often
\* the pendant sends it, even one that sends what it likes into a full queue.
THEOREM NothingIsRepeated == Spec => ForwardedOnce
<1>1. LegacyInv /\ [Next]_vars => [RxTask /\ Head(rxQueue) = "current"
                                     => fate \notin SerialSendData]_vars
  <2> SUFFICES ASSUME LegacyInv, RxTask, Head(rxQueue) = "current"
               PROVE  fate = "queued"
    BY DEF SerialSendData
  <2>1. 1 \in 1..Len(rxQueue) /\ rxQueue[1] = "current"
    BY Popped DEF LegacyInv
  <2> QED
    BY <2>1 DEF LegacyInv, OneCurrent
<1> QED
  BY <1>1, Inductive, PTL DEF Spec, ForwardedOnce

-----------------------------------------------------------------------------
(* What an acknowledgement is worth to a patient and paced pendant         *)

LEMMA SendHonest ==
  ASSUME Patient, Paced, LegacyInv, Honest, Sending
  PROVE  Honest' /\ (Len(acks') > Len(acks) => Taken')
<1>0. /\ TypeOK /\ paired /\ Room /\ sequence \in Nat /\ Len(acks) \in Nat
      /\ \A i \in 1..Len(acks) : acks[i] \in Nat
      /\ lastAck # None => lastAck \in Nat
      /\ peer # None => peer.seq \in Nat
  BY LegacyPendantAssumption
  DEF Sending, SendLine, RepeatLine, SendRealtime, CanSend, LegacyInv, TypeOK, Seq16
<1>1. sequence # None
  BY LegacyPendantAssumption DEF LegacyInv, TypeOK, Seq16
<1>2. PICK q, f :
        /\ Arrive(q, f)
        /\ f \in KeptFate
        /\ \/ f = "absent" /\ command # "open"
           \/ f = fate /\ command = "open"
  <2>1. fate \in KeptFate
    BY DEF LegacyInv, TypeOK, Honest, Fate, KeptFate
  <2> QED
    BY <2>1 DEF Sending, SendLine, RepeatLine, SendRealtime, Fate, KeptFate
<1>3. /\ command # "open" \/ f = "absent" => ~(peer # None /\ Duplicate)
      /\ f = "absent" => \A i \in 1..Len(acks) : acks[i] # sequence
      /\ f = "absent" => lastAck # sequence
  <2>1. CASE command # "open"
    <3>1. \A i \in 1..Len(acks) : acks[i] # sequence
      BY <1>0, <2>1 DEF LegacyInv, AcksPast
    <3>2. lastAck # sequence
      BY <1>0, <1>1, <2>1 DEF LegacyInv, AcksPast
    <3>3. peer # None /\ peer.valid => peer.seq # sequence
      <4>1. peer # None /\ peer.valid => peer.seq < sequence
        BY <1>0, <2>1 DEF LegacyInv, NumbersPast
      <4>2. peer # None /\ peer.seq < sequence => peer.seq # sequence
        BY <1>0
      <4> QED
        BY <4>1, <4>2
    <3> QED
      BY <3>1, <3>2, <3>3 DEF Duplicate
  <2>2. CASE command = "open"
    BY <1>2, <2>2 DEF Honest, Duplicate
  <2> QED
    BY <2>1, <2>2
<1>4. /\ fate' \in KeptFate
      /\ fate' = "absent" =>
           acks' = acks /\ f = "absent" /\ peer' = peer
  <2>1. Take(q) => fate' = "queued"
    BY <1>0 DEF Take
  <2>2. \/ acks' = acks /\ Dropped(q, f)
        \/ peer # None /\ Duplicate /\ Dropped(q, f)
        \/ fate' = "queued"
    BY <1>2, <2>1, ArriveCases
  <2> QED
    BY <1>2, <1>3, <2>2 DEF Dropped, Fate, KeptFate
<1>5. fate' = "absent" =>
        /\ \A i \in 1..Len(acks') : acks'[i] # sequence
        /\ ~(peer' # None /\ peer'.valid /\ peer'.seq = sequence)
        /\ lastAck # sequence
        /\ ~(Len(acks') > Len(acks))
  BY <1>0, <1>3, <1>4 DEF Duplicate
<1>6. fate' # "absent" => Taken'
  BY <1>4 DEF Taken, Fate, KeptFate
<1>7. CASE SendLine \/ RepeatLine
  <2>1. command' = "open" /\ sequence' = sequence /\ lastAck' = lastAck
    BY <1>7 DEF SendLine, RepeatLine
  <2> QED
    BY <1>4, <1>5, <1>6, <2>1 DEF Honest, KeptFate
<1>8. CASE SendRealtime
  <2>1. command' = "realtime"
    BY <1>8 DEF SendRealtime
  <2> QED
    BY <1>4, <1>5, <1>6, <2>1 DEF Honest, KeptFate
<1> QED
  BY <1>7, <1>8 DEF Sending

LEMMA OthersHonest ==
  LegacyInv /\ Honest /\ [Next]_vars /\ ~Sending => Honest'
<1> SUFFICES ASSUME LegacyInv, Honest, [Next]_vars, ~Sending PROVE Honest'
  OBVIOUS
<1>1. CASE UNCHANGED vars
  BY <1>1 DEF Honest, vars, pendantVars, bridgeVars, linkVars
<1>2. CASE SendPair \/ StartOver
  <2>1. command' = "none" /\ fate' = fate
    BY <1>2 DEF SendPair, StartOver, LegacyInv, Engaged
  <2> QED
    BY <2>1 DEF Honest
<1>3. CASE HearAck
  <2>1. UNCHANGED <<sequence, command, fate, peer>>
    BY <1>3 DEF HearAck, bridgeVars, linkVars
  <2>2. /\ Len(acks) \in Nat /\ Len(acks) > 0 /\ lastAck' = acks[1]
        /\ Len(acks') = Len(acks) - 1
        /\ \A i \in 1..Len(acks') : acks'[i] = acks[i + 1]
    BY <1>3, HeadTailProperties, EmptySeq DEF HearAck, LegacyInv, TypeOK
  <2>3. \A i \in 1..Len(acks') : i + 1 \in 1..Len(acks) /\ acks'[i] = acks[i + 1]
    BY <2>2
  <2>4. 1 \in 1..Len(acks)
    BY <2>2
  <2> QED
    BY <2>1, <2>2, <2>3, <2>4 DEF Honest
<1>4. CASE LineConfirmed
  <2>1. /\ command = "open" /\ lastAck = sequence
        /\ command' = "confirmed" /\ fate' = fate
    BY <1>4 DEF LineConfirmed, LegacyInv, Engaged, bridgeVars
  <2> QED
    BY <2>1 DEF Honest
<1>5. CASE LineTimeout
  BY <1>5 DEF LineTimeout, Honest, bridgeVars, linkVars
<1>6. CASE RxTask \/ Evict \/ DeleteRadioPeer \/ BridgeRestart
  <2>1. UNCHANGED <<sequence, lastAck, acks, command>> /\ (peer' = None \/ peer' = peer)
    BY <1>6 DEF RxTask, Evict, DeleteRadioPeer, BridgeRestart, pendantVars, linkVars
  <2>2. fate' # "lost" /\ (fate' = "absent" => fate = "absent")
    <3>1. CASE RxTask
      <4>1. peer # None
        BY <3>1 DEF RxTask, LegacyInv, Listed
      <4> QED
        BY <3>1, <4>1 DEF RxTask, Honest, SerialSendData
    <3> QED
      BY <1>6, <3>1 DEF Evict, DeleteRadioPeer, BridgeRestart, Honest
  <2> QED
    BY <2>1, <2>2 DEF Honest
<1> QED
  BY <1>1, <1>2, <1>3, <1>4, <1>5, <1>6 DEF Next, Silence, PendantRestart

LEMMA HonestInductive ==
  ASSUME Patient, Paced
  PROVE  /\ Init => Honest
         /\ LegacyInv /\ Honest /\ [Next]_vars => Honest'
<1>1. Init => Honest
  BY DEF Init, Honest
<1> QED
  BY <1>1, SendHonest, OthersHonest

\* A line sendGcodeLine returned true for has reached the bridge's queue, and goes on
\* to serial_send_data if no restart wipes it, if the pendant sends a line that timed
\* out again before anything else and leaves the queue room; the runs without either
\* show that both are needed.
THEOREM ConfirmedMeansTaken ==
  ASSUME Patient, Paced
  PROVE  Spec => []ConfirmedIsTaken
<1>1. LegacyInv /\ Honest => ConfirmedIsTaken
  BY DEF LegacyInv, TypeOK, Honest, ConfirmedIsTaken, Taken
<1> QED
  BY <1>1, Inductive, HonestInductive, PTL DEF Spec

\* For such a pendant the bridge acknowledges nothing it does not take, although it
\* acknowledges before it looks at its filter and at its queue.
THEOREM AcknowledgedMeansTaken ==
  ASSUME Patient, Paced
  PROVE  Spec => AcknowledgedIsTaken
<1>1. LegacyInv /\ Honest /\ [Next]_vars =>
        [Sending /\ Len(acks') > Len(acks) => Taken']_vars
  BY SendHonest
<1> QED
  BY <1>1, Inductive, HonestInductive, PTL DEF Spec, AcknowledgedIsTaken
=============================================================================
