-------------------------- MODULE SerialRefinement --------------------------
(***************************************************************************)
(* The serial handler implements three FIFOs of chunks (LossyFifo): every  *)
(* step of the tasks is, for each queue and its consumer, a step of the    *)
(* FIFO or no step at all.  The proof rests on the ownership invariant of  *)
(* SerialProofs: the only buffers whose contents change are ones that no   *)
(* queue and no consumer can reach.                                        *)
(***************************************************************************)
EXTENDS SerialProofs, SequenceTheorems

\* What the pointers of s point to.
Reads(f, s) == [i \in 1..Len(s) |-> f[s[i]]]

LEMMA ReadsIsSeq ==
  ASSUME NEW f \in [Buffer -> Chunk], NEW s \in Seq(Buffer)
  PROVE  Reads(f, s) \in Seq(Chunk) /\ Len(Reads(f, s)) = Len(s)
BY DEF Reads

\* Reading after an Append is appending what was read.
LEMMA ReadsAppend ==
  ASSUME NEW f \in [Buffer -> Chunk], NEW s \in Seq(Buffer), NEW b \in Buffer
  PROVE  Reads(f, Append(s, b)) = Append(Reads(f, s), f[b])
<1> DEFINE l == Reads(f, Append(s, b))
           r == Append(Reads(f, s), f[b])
<1>0. Append(s, b) \in Seq(Buffer) /\ Len(Append(s, b)) = Len(s) + 1 /\ Len(s) \in Nat
  OBVIOUS
<1>1. l \in Seq(Chunk) /\ Len(l) = Len(s) + 1
  <2> HIDE DEF r
  <2> QED
    BY <1>0, ReadsIsSeq
<1>2. r \in Seq(Chunk) /\ Len(r) = Len(s) + 1
  BY ReadsIsSeq
<1>3. ASSUME NEW i \in 1..(Len(s) + 1) PROVE l[i] = r[i]
  <2>1. l[i] = f[Append(s, b)[i]]
    BY <1>0 DEF Reads
  <2>2. CASE i = Len(s) + 1
    BY <2>1, <2>2, ReadsIsSeq
  <2>3. CASE i \in 1..Len(s)
    <3>1. r[i] = Reads(f, s)[i]
      BY <2>3, ReadsIsSeq
    <3>2. Reads(f, s)[i] = f[s[i]]
      BY <2>3 DEF Reads
    <3> QED
      BY <2>1, <2>3, <3>1, <3>2
  <2>4. i = Len(s) + 1 \/ i \in 1..Len(s)
    BY <1>0
  <2> HIDE DEF l, r
  <2> QED
    BY <2>2, <2>3, <2>4
<1> HIDE DEF l, r
<1>4. l = r
  BY <1>1, <1>2, <1>3, SeqEqual
<1> QED
  BY <1>4 DEF l, r

\* Reading the tail is taking the tail of what was read, and likewise the head.
LEMMA ReadsTail ==
  ASSUME NEW f \in [Buffer -> Chunk], NEW s \in Seq(Buffer), s # <<>>
  PROVE  /\ Reads(f, s) # <<>>
         /\ Head(Reads(f, s)) = f[Head(s)]
         /\ Reads(f, Tail(s)) = Tail(Reads(f, s))
<1> DEFINE l == Reads(f, Tail(s))
           r == Tail(Reads(f, s))
<1>0. Len(s) \in Nat \ {0} /\ Tail(s) \in Seq(Buffer) /\ Len(Tail(s)) = Len(s) - 1
  OBVIOUS
<1>1. Reads(f, s) \in Seq(Chunk) /\ Len(Reads(f, s)) = Len(s) /\ Reads(f, s) # <<>>
  BY <1>0, ReadsIsSeq
<1>2. l \in Seq(Chunk) /\ Len(l) = Len(s) - 1
  BY <1>0, ReadsIsSeq
<1>3. r \in Seq(Chunk) /\ Len(r) = Len(s) - 1
  BY <1>1
<1>4. Head(Reads(f, s)) = f[Head(s)]
  BY <1>0, <1>1 DEF Reads
<1>5. ASSUME NEW i \in 1..(Len(s) - 1) PROVE l[i] = r[i]
  <2>1. l[i] = f[Tail(s)[i]]
    BY <1>0 DEF Reads
  <2>2. Tail(s)[i] = s[i + 1] /\ r[i] = Reads(f, s)[i + 1]
    BY <1>0, <1>1
  <2>3. Reads(f, s)[i + 1] = f[s[i + 1]]
    BY <1>0 DEF Reads
  <2> QED
    BY <2>1, <2>2, <2>3
<1> HIDE DEF l, r
<1>6. l = r
  BY <1>2, <1>3, <1>5, SeqEqual
<1> QED
  BY <1>1, <1>4, <1>6 DEF l, r

-----------------------------------------------------------------------------
\* A step of the FIFO that queue q and its consumer look like.
FifoAccept(q) ==
  \E c \in Chunk : /\ Len(Pending(q)) < QueueSize
                   /\ Pending(q)' = Append(Pending(q), c)
                   /\ Current(q)' = Current(q)
FifoTake(q) ==
  /\ Current(q) = None /\ Pending(q) # <<>>
  /\ Current(q)' = Head(Pending(q)) /\ Pending(q)' = Tail(Pending(q))
FifoDeliver(q) ==
  Current(q) # None /\ Current(q)' = None /\ Pending(q)' = Pending(q)
FifoStutter(q) == Pending(q)' = Pending(q) /\ Current(q)' = Current(q)

FifoStep(q) == FifoAccept(q) \/ FifoTake(q) \/ FifoDeliver(q) \/ FifoStutter(q)

\* A step that changes neither the pointers of q nor what they point to.
LEMMA SameChannel ==
  ASSUME NEW q \in Queue, queue'[q] = queue[q], held'[q] = held[q],
         \A b \in Buffer : content'[b] = content[b] \/
           (held[q] # b /\ \A i \in At(q) : queue[q][i] # b),
         TypeOK
  PROVE  FifoStutter(q)
<1>1. At(q)' = At(q) /\ queue[q] \in Seq(Buffer) /\ held[q] \in Buffer \cup {None}
  BY HoldersAre DEF At, TypeOK
<1>2. \A i \in At(q) : queue[q][i] \in Buffer
  BY <1>1 DEF At
<1>3. \A i \in At(q) : content'[queue'[q][i]] = content[queue[q][i]]
  BY <1>2
<1>4. Pending(q)' = Pending(q)
  BY <1>1, <1>3 DEF Pending
<1>5. Current(q)' = Current(q)
  BY <1>1 DEF Current
<1> QED
  BY <1>4, <1>5 DEF FifoStutter

\* A fresh buffer is in no queue and with no consumer.
LEMMA FreshIsUnseen ==
  ASSUME Inv, NEW q \in Queue, NEW b \in Available
  PROVE  held[q] # b /\ \A i \in At(q) : queue[q][i] # b
<1>1. b \in Buffer /\ b \notin used
  BY AvailableIsFree
<1>2. ~Reachable(b)
  BY <1>1 DEF Inv, NothingLeaks
<1> QED
  BY <1>2, HoldersAre DEF Reachable

\* Putting a copy in a fresh buffer changes nothing for q.
LEMMA CopySame ==
  ASSUME Inv, NEW h \in Holder, NEW c, AllocateCopy(h, c), UNCHANGED queue,
         NEW q \in Queue, h # q
  PROVE  FifoStutter(q)
<1>1. PICK b \in Available : /\ held' = [held EXCEPT ![h] = b]
                             /\ content' = [content EXCEPT ![b] = c]
  BY DEF AllocateCopy, Allocate
<1>2. held[q] # b /\ \A i \in At(q) : queue[q][i] # b
  BY FreshIsUnseen
<1>3. TypeOK /\ held'[q] = held[q]
  BY <1>1, HoldersAre DEF Inv, TypeOK
<1>4. \A a \in Buffer : a # b => content'[a] = content[a]
  BY <1>1, <1>3 DEF TypeOK
<1> QED
  BY <1>2, <1>3, <1>4, SameChannel

\* Enqueueing is accepting for the queue it is done on, and nothing for others.
LEMMA EnqueueStep ==
  ASSUME Inv, NEW h \in Holder, NEW r \in Queue, held[h] # None, Enqueue(h, r),
         UNCHANGED content, NEW q \in Queue, h # q
  PROVE  FifoStep(q)
<1>1. TypeOK /\ held[h] \in Buffer /\ held'[q] = held[q]
  BY HoldersAre DEF Inv, TypeOK, Enqueue
<1>2. CASE q = r
  <2>1. queue'[q] = Append(queue[q], held[h]) /\ Len(queue[q]) < QueueSize
    BY <1>1, <1>2 DEF Enqueue, Room, TypeOK
  <2>2. queue[q] \in Seq(Buffer) /\ content \in [Buffer -> Chunk]
    BY <1>1 DEF TypeOK
  <2>3. Pending(q) = Reads(content, queue[q])
    BY DEF Pending, Reads, At
  <2>4. Pending(q)' = Reads(content, queue'[q])
    BY DEF Pending, Reads, At
  <2>5. Pending(q)' = Append(Pending(q), content[held[h]])
    BY <1>1, <2>1, <2>2, <2>3, <2>4, ReadsAppend
  <2>6. Len(Pending(q)) < QueueSize
    BY <2>1, <2>2, <2>3, ReadsIsSeq
  <2>7. Current(q)' = Current(q)
    BY <1>1 DEF Current
  <2>8. content[held[h]] \in Chunk
    BY <1>1, <2>2
  <2> QED
    BY <2>5, <2>6, <2>7, <2>8 DEF FifoStep, FifoAccept
<1>3. CASE q # r
  <2>1. queue'[q] = queue[q]
    BY <1>1, <1>3 DEF Enqueue, TypeOK
  <2> QED
    BY <1>1, <2>1, SameChannel DEF FifoStep
<1> QED
  BY <1>2, <1>3

\* Freeing is delivering when a consumer does it, and nothing otherwise.
LEMMA FreeStep ==
  ASSUME Inv, NEW h \in Holder, held[h] # None, Free(h),
         UNCHANGED <<content, queue>>, NEW q \in Queue
  PROVE  FifoStep(q)
<1>1. TypeOK /\ held' = [held EXCEPT ![h] = None]
  BY DEF Inv, Free
<1>2. CASE q = h
  <2>1. held[q] \in Buffer /\ held'[q] = None
    BY <1>1, <1>2 DEF TypeOK
  <2>2. Current(q) # None /\ Current(q)' = None
    <3>1. content[held[q]] \in Chunk
      BY <1>1, <2>1 DEF TypeOK
    <3> QED
      BY <2>1, <3>1, SerialAssumption DEF Current
  <2>3. Pending(q)' = Pending(q)
    BY DEF Pending, At
  <2> QED
    BY <2>2, <2>3 DEF FifoStep, FifoDeliver
<1>3. CASE q # h
  <2>1. held'[q] = held[q]
    BY <1>1, <1>3, HoldersAre DEF TypeOK
  <2> QED
    BY <1>1, <2>1, SameChannel DEF FifoStep
<1> QED
  BY <1>2, <1>3

\* Receiving is taking for the queue it is done on, and nothing for others.
LEMMA ReceiveStep ==
  ASSUME Inv, NEW r \in Queue, Receive(r), NEW q \in Queue
  PROVE  FifoStep(q)
<1>1. /\ TypeOK /\ held[r] = None /\ queue[r] # <<>> /\ content' = content
      /\ held' = [held EXCEPT ![r] = Head(queue[r])]
      /\ queue' = [queue EXCEPT ![r] = Tail(queue[r])]
  BY DEF Inv, Receive, Dequeue
<1>2. CASE q = r
  <2>1. /\ queue[q] \in Seq(Buffer) /\ content \in [Buffer -> Chunk]
        /\ held'[q] = Head(queue[q]) /\ queue'[q] = Tail(queue[q])
    BY <1>1, <1>2, HoldersAre DEF TypeOK
  <2>2. Pending(q) = Reads(content, queue[q]) /\ Pending(q)' = Reads(content, queue'[q])
    BY <1>1 DEF Pending, Reads, At
  <2>3. Head(queue[q]) \in Buffer
    BY <1>1, <1>2, <2>1
  <2>4. Current(q) = None /\ Current(q)' = content[Head(queue[q])]
    BY <1>1, <1>2, <2>1, <2>3, SerialAssumption DEF Current
  <2> QED
    BY <1>1, <1>2, <2>1, <2>2, <2>4, ReadsTail DEF FifoStep, FifoTake
<1>3. CASE q # r
  <2>1. held'[q] = held[q] /\ queue'[q] = queue[q]
    BY <1>1, <1>3, HoldersAre DEF TypeOK
  <2> QED
    BY <1>1, <2>1, SameChannel DEF FifoStep
<1> QED
  BY <1>2, <1>3

\* Every step of the tasks is a step of each FIFO, or none.
LEMMA NextStep == ASSUME Inv, [Next]_vars, NEW q \in Queue PROVE FifoStep(q)
<1>0. TypeOK
  BY DEF Inv
<1>1. ASSUME NEW p \in Producer, NEW c \in Chunk, Send(p, c) PROVE FifoStep(q)
  BY <1>1, CopySame, HoldersAre DEF Send, FifoStep
<1>2. ASSUME NEW p \in Producer, SendEnqueue(p) PROVE FifoStep(q)
  <2>1. "uart" \in Queue
    BY DEF Queue
  <2> QED
    BY <1>2, <2>1, EnqueueStep, HoldersAre DEF SendEnqueue
<1>3. ASSUME NEW p \in Producer, SendDrop(p) PROVE FifoStep(q)
  BY <1>3, FreeStep, HoldersAre DEF SendDrop
<1>4. CASE ReaderAllocate
  <2>1. held'[q] = held[q] /\ queue' = queue /\ content' = content
    BY <1>0, <1>4, HoldersAre DEF ReaderAllocate, Allocate, TypeOK
  <2> QED
    BY <1>0, <2>1, SameChannel DEF FifoStep
<1>5. CASE ReaderGotNothing
  <2>1. held["original"] # None
    BY <1>0, <1>5 DEF ReaderGotNothing, TypeOK
  <2> QED
    BY <1>5, <2>1, FreeStep, HoldersAre DEF ReaderGotNothing
<1>6. ASSUME NEW c \in Chunk, ReaderGot(c) PROVE FifoStep(q)
  <2> DEFINE o == held["original"]
  <2>1. o # None /\ queue' = queue /\ held' = held /\ content' = [content EXCEPT ![o] = c]
    BY <1>0, <1>6 DEF ReaderGot, TypeOK
  <2>2. held[q] # o /\ \A i \in At(q) : queue[q][i] # o
    BY <2>1, HoldersAre DEF Inv, OneOwner
  <2>3. \A b \in Buffer : b # o => content'[b] = content[b]
    BY <1>0, <2>1 DEF TypeOK
  <2> HIDE DEF o
  <2> QED
    BY <1>0, <2>1, <2>2, <2>3, SameChannel DEF FifoStep
<1>7. CASE ReaderCopy
  BY <1>7, CopySame, HoldersAre DEF ReaderCopy, FifoStep
<1>8. CASE ReaderSkip
  BY <1>0, <1>8, SameChannel DEF ReaderSkip, FifoStep
<1>9. CASE ReaderEnqueue
  <2>1. reader \in Queue
    BY <1>9 DEF ReaderEnqueue, Queue
  <2> QED
    BY <1>9, <2>1, EnqueueStep, HoldersAre DEF ReaderEnqueue
<1>10. CASE ReaderDrop
  BY <1>10, FreeStep, HoldersAre DEF ReaderDrop
<1>11. CASE ReaderDone
  <2>1. held["original"] # None
    BY <1>0, <1>11 DEF ReaderDone, TypeOK
  <2> QED
    BY <1>11, <2>1, FreeStep, HoldersAre DEF ReaderDone
<1>12. ASSUME NEW r \in Queue, Receive(r) PROVE FifoStep(q)
  BY <1>12, ReceiveStep
<1>13. ASSUME NEW r \in Queue, Finish(r) PROVE FifoStep(q)
  BY <1>13, FreeStep, HoldersAre DEF Finish
<1>14. CASE UNCHANGED vars
  BY <1>0, <1>14, SameChannel DEF vars, FifoStep
<1> QED
  BY <1>1, <1>2, <1>3, <1>4, <1>5, <1>6, <1>7, <1>8, <1>9, <1>10, <1>11, <1>12,
     <1>13, <1>14 DEF Next, Sending, Reading, Consuming

LEMMA InitStep == ASSUME Init, NEW q \in Queue PROVE Pending(q) = <<>> /\ Current(q) = None
BY HoldersAre DEF Init, Pending, At, Current

-----------------------------------------------------------------------------
\* serial_handler.c implements a FIFO of chunks in each of its three directions,
\* for any number of tasks, buffers and places: what was accepted comes out whole,
\* once and in order, though only pointers to reused buffers are queued.
THEOREM ImplementsFifos == Spec => ChannelsAreFifo
<1>1. Init => UartChannel!Init /\ EspNowChannel!Init /\ TcpChannel!Init
  BY InitStep DEF UartChannel!Init, EspNowChannel!Init, TcpChannel!Init, Queue
<1>2. Inv /\ [Next]_vars => [UartChannel!Next]_(UartChannel!fifoVars)
  BY NextStep DEF Queue, FifoStep, FifoAccept, FifoTake, FifoDeliver, FifoStutter,
     UartChannel!Next, UartChannel!Accept, UartChannel!Take, UartChannel!Deliver,
     UartChannel!fifoVars
<1>3. Inv /\ [Next]_vars => [EspNowChannel!Next]_(EspNowChannel!fifoVars)
  BY NextStep DEF Queue, FifoStep, FifoAccept, FifoTake, FifoDeliver, FifoStutter,
     EspNowChannel!Next, EspNowChannel!Accept, EspNowChannel!Take,
     EspNowChannel!Deliver, EspNowChannel!fifoVars
<1>4. Inv /\ [Next]_vars => [TcpChannel!Next]_(TcpChannel!fifoVars)
  BY NextStep DEF Queue, FifoStep, FifoAccept, FifoTake, FifoDeliver, FifoStutter,
     TcpChannel!Next, TcpChannel!Accept, TcpChannel!Take, TcpChannel!Deliver,
     TcpChannel!fifoVars
<1>5. Inv /\ [Next]_vars => Inv'
  BY NextOwned, NextType DEF Owned, Inv
<1> QED
  BY InitInv, <1>1, <1>2, <1>3, <1>4, <1>5, PTL
  DEF Spec, ChannelsAreFifo, UartChannel!Spec, EspNowChannel!Spec, TcpChannel!Spec

=============================================================================
