---------------------------- MODULE SerialProofs ----------------------------
(***************************************************************************)
(* Who owns which buffer of the serial handler: proofs that no buffer has  *)
(* two owners and that none leaks, for any number of producers, of buffers *)
(* and of places in the queues, and from these that the queues of pointers *)
(* are FIFOs of what the buffers contain.                                  *)
(*                                                                         *)
(* OneOwner and NothingLeaks need each other: a fresh buffer has no owner  *)
(* because what is not used is not reachable, and a freed buffer is not    *)
(* reachable because it had one owner.  The four operations on pointers    *)
(* (allocate, free, enqueue, dequeue) are lemmas, and each action is one   *)
(* of them.                                                                *)
(***************************************************************************)
EXTENDS SerialHandler, TLAPS

Reader == {"idle", "reading", "espnow", "tcp", "done"}

OwnType ==
  /\ used \in SUBSET Buffer
  /\ queue \in [Queue -> Seq(Buffer)]
  /\ held \in [Holder -> Buffer \cup {None}]

\* What every operation on pointers preserves.
Owned == OwnType /\ OneOwner /\ NothingLeaks

\* allocate_buffer returns a buffer that is not in use.
LEMMA AvailableIsFree == Available \subseteq Buffer \ used
BY DEF Available, First, Buffer

LEMMA AllocateOwned ==
  ASSUME Owned, NEW h \in Holder, held[h] = None, NEW b,
         Allocate(h, b), UNCHANGED queue
  PROVE  Owned'
<1>1. b \in Buffer /\ b \notin used
  BY AvailableIsFree DEF Allocate
<1>2. ~Reachable(b)
  BY <1>1 DEF Owned, NothingLeaks
<1>3. held' = [held EXCEPT ![h] = b] /\ used' = used \cup {b} /\ queue' = queue
  BY DEF Allocate
<1>4. b # None
  BY <1>1, SerialAssumption
<1>5. OwnType'
  BY <1>1, <1>3 DEF Owned, OwnType
<1>6. OneOwner'
  BY <1>2, <1>3, <1>4 DEF Owned, OwnType, OneOwner, Reachable, At
<1>7. NothingLeaks'
  <2> SUFFICES ASSUME NEW c \in Buffer PROVE (c \in used <=> Reachable(c))'
    BY DEF NothingLeaks
  <2>1. c # None
    BY SerialAssumption
  <2>2. (\E g \in Holder : held'[g] = c) <=> c = b \/ \E g \in Holder : held[g] = c
    BY <1>3, <2>1 DEF Owned, OwnType
  <2> QED
    BY <1>3, <2>2 DEF Owned, NothingLeaks, Reachable, At
<1> QED
  BY <1>5, <1>6, <1>7 DEF Owned

LEMMA FreeOwned ==
  ASSUME Owned, NEW h \in Holder, held[h] # None, Free(h), UNCHANGED queue
  PROVE  Owned'
<1>1. held' = [held EXCEPT ![h] = None] /\ used' = used \ {held[h]} /\ queue' = queue
  BY DEF Free
<1>2. OwnType'
  BY <1>1 DEF Owned, OwnType
<1>3. OneOwner'
  <2>1. \A g \in Holder : held'[g] # None => held'[g] = held[g]
    BY <1>1 DEF Owned, OwnType
  <2>2. \A q \in Queue : \A i \in At(q) : queue[q][i] \in Buffer
    BY DEF Owned, OwnType, At
  <2>3. \A q \in Queue : \A i \in At(q) : queue[q][i] # None
    BY <2>2, SerialAssumption
  <2> QED
    BY <1>1, <2>1, <2>3 DEF Owned, OneOwner, At
<1>4. NothingLeaks'
  <2> SUFFICES ASSUME NEW c \in Buffer PROVE (c \in used <=> Reachable(c))'
    BY DEF NothingLeaks
  <2>1. c # None
    BY SerialAssumption
  <2>2. (\E g \in Holder : held'[g] = c) <=> c # held[h] /\ \E g \in Holder : held[g] = c
    BY <1>1, <2>1 DEF Owned, OwnType, OneOwner
  <2>3. \A q \in Queue : \A i \in At(q) : queue[q][i] # held[h]
    BY DEF Owned, OneOwner
  <2> QED
    BY <1>1, <2>2, <2>3 DEF Owned, NothingLeaks, Reachable, At
<1> QED
  BY <1>2, <1>3, <1>4 DEF Owned

LEMMA EnqueueOwned ==
  ASSUME Owned, NEW h \in Holder, NEW q \in Queue, held[h] # None,
         Enqueue(h, q), UNCHANGED used
  PROVE  Owned'
<1> DEFINE b == held[h]
           n == Len(queue[q])
<1>1. /\ held' = [held EXCEPT ![h] = None] /\ used' = used
      /\ queue' = [queue EXCEPT ![q] = Append(queue[q], b)]
  BY DEF Enqueue
<1>2. b \in Buffer /\ queue[q] \in Seq(Buffer) /\ n \in Nat
  BY DEF Owned, OwnType
<1>3. OwnType'
  BY <1>1, <1>2 DEF Owned, OwnType
<1>4. \A r \in Queue : /\ At(r)' = IF r = q THEN 1..(n + 1) ELSE At(r)
                       /\ \A i \in At(r) : queue'[r][i] = queue[r][i]
  BY <1>1, <1>2 DEF At, Owned, OwnType
<1>5. queue'[q][n + 1] = b /\ At(q) = 1..n
  BY <1>1, <1>2 DEF At, Owned, OwnType
<1>6. \A r \in Queue : \A i \in At(r)' :
        \/ i \in At(r) /\ queue'[r][i] = queue[r][i]
        \/ r = q /\ i = n + 1 /\ queue'[r][i] = b
  BY <1>2, <1>4, <1>5
<1>7. \A g \in Holder : held'[g] = IF g = h THEN None ELSE held[g]
  BY <1>1 DEF Owned, OwnType
<1>8. \A r \in Queue : \A i \in At(r) : queue[r][i] # b /\ queue[r][i] # None
  <2>1. \A r \in Queue : \A i \in At(r) : queue[r][i] \in Buffer
    BY DEF Owned, OwnType, At
  <2> QED
    BY <2>1, SerialAssumption DEF Owned, OneOwner
<1> HIDE DEF b, n
<1>9. OneOwner'
  <2>1. \A f, g \in Holder : held'[f] # None /\ held'[f] = held'[g] => f = g
    BY <1>7 DEF Owned, OneOwner
  <2>2. \A r, s \in Queue : \A i \in At(r)', j \in At(s)' :
          queue'[r][i] = queue'[s][j] => r = s /\ i = j
    BY <1>6, <1>8 DEF Owned, OneOwner
  <2>3. b # None
    BY <1>2, SerialAssumption
  <2>4. \A g \in Holder, r \in Queue : \A i \in At(r)' : held'[g] # queue'[r][i]
    BY <1>6, <1>7, <1>8, <2>3 DEF Owned, OneOwner, b
  <2> QED
    BY <2>1, <2>2, <2>4 DEF OneOwner
<1>10. NothingLeaks'
  <2> SUFFICES ASSUME NEW c \in Buffer PROVE (c \in used <=> Reachable(c))'
    BY DEF NothingLeaks
  <2>1. c # None
    BY SerialAssumption
  <2>2. Reachable(c) => Reachable(c)'
    <3>1. CASE c = b
      <4>1. n + 1 \in At(q)'
        BY <1>2, <1>4
      <4> QED
        BY <1>5, <3>1, <4>1 DEF Reachable
    <3>2. CASE c # b
      <4>1. \A r \in Queue : At(r) \subseteq At(r)'
        BY <1>2, <1>4, <1>5
      <4> QED
        BY <1>4, <1>7, <3>2, <4>1 DEF Reachable, b
    <3> QED
      BY <3>1, <3>2
  <2>3. Reachable(c)' => Reachable(c)
    BY <1>6, <1>7, <2>1 DEF Reachable, b
  <2> QED
    BY <1>1, <2>2, <2>3 DEF Owned, NothingLeaks
<1> QED
  BY <1>3, <1>9, <1>10 DEF Owned

LEMMA DequeueOwned ==
  ASSUME Owned, NEW q \in Queue, held[q] = None, Dequeue(q), UNCHANGED used
  PROVE  Owned'
<1> DEFINE b == Head(queue[q])
           n == Len(queue[q])
<1>1. /\ held' = [held EXCEPT ![q] = b] /\ used' = used
      /\ queue' = [queue EXCEPT ![q] = Tail(queue[q])]
      /\ queue[q] # <<>>
  BY DEF Dequeue
<1>2. /\ queue[q] \in Seq(Buffer) /\ n \in Nat \ {0} /\ b \in Buffer
      /\ Tail(queue[q]) \in Seq(Buffer) /\ Len(Tail(queue[q])) = n - 1
  BY <1>1 DEF Owned, OwnType
<1>3. q \in Holder
  BY DEF Holder
<1>4. OwnType'
  BY <1>1, <1>2, <1>3 DEF Owned, OwnType
<1>5. At(q) = 1..n /\ 1 \in At(q) /\ queue[q][1] = b
  BY <1>1, <1>2 DEF At
<1>6. \A r \in Queue : r # q => At(r)' = At(r) /\ queue'[r] = queue[r]
  BY <1>1 DEF At, Owned, OwnType
<1>7. At(q)' = 1..(n - 1) /\ \A i \in At(q)' : queue'[q][i] = queue[q][i + 1]
  BY <1>1, <1>2 DEF At, Owned, OwnType
<1>8. \A g \in Holder : held'[g] = IF g = q THEN b ELSE held[g]
  BY <1>1, <1>3 DEF Owned, OwnType
<1>9. b # None
  BY <1>2, SerialAssumption
<1> HIDE DEF b, n
<1>10. \A r \in Queue : \A i \in At(r)' :
         /\ r # q => i \in At(r) /\ queue'[r][i] = queue[r][i]
         /\ r = q => i + 1 \in At(r) /\ i + 1 # 1 /\ queue'[r][i] = queue[r][i + 1]
  BY <1>2, <1>5, <1>6, <1>7
<1>11. OneOwner'
  <2>1. \A g \in Holder, r \in Queue : \A i \in At(r) : held[g] # queue[r][i]
    BY DEF Owned, OneOwner
  <2>2. \A g \in Holder : held[g] # b
    BY <1>5, <2>1
  <2>3. \A r \in Queue : \A k \in At(r) : queue[r][k] = queue[q][1] => r = q /\ k = 1
    <3>1. 1 \in At(q)
      BY <1>5
    <3> QED
      BY <3>1 DEF Owned, OneOwner
  <2>4. \A f, g \in Holder : held[f] # None /\ held[f] = held[g] => f = g
    BY DEF Owned, OneOwner
  <2>5. \A f, g \in Holder : held'[f] # None /\ held'[f] = held'[g] => f = g
    BY <1>8, <2>2, <2>4
  <2>6. \A r, s \in Queue : \A i \in At(r)', j \in At(s)' :
          queue'[r][i] = queue'[s][j] => r = s /\ i = j
    <3> SUFFICES ASSUME NEW r \in Queue, NEW s \in Queue,
                        NEW i \in At(r)', NEW j \in At(s)',
                        queue'[r][i] = queue'[s][j]
                 PROVE  r = s /\ i = j
      OBVIOUS
    <3>1. r = s
      BY <1>10 DEF Owned, OneOwner
    <3>2. CASE r = q
      <4>1. i + 1 = j + 1
        BY <1>10, <3>1, <3>2 DEF Owned, OneOwner
      <4>2. i \in Nat /\ j \in Nat
        BY <1>2, <1>7, <3>1, <3>2
      <4> QED
        BY <3>1, <4>1, <4>2
    <3>3. CASE r # q
      BY <1>10, <3>1, <3>3 DEF Owned, OneOwner
    <3> QED
      BY <3>2, <3>3
  <2>7. \A g \in Holder, r \in Queue : \A i \in At(r)' : held'[g] # queue'[r][i]
    <3> SUFFICES ASSUME NEW r \in Queue, NEW i \in At(r)'
                 PROVE  \A g \in Holder : held'[g] # queue'[r][i]
      OBVIOUS
    <3>1. PICK k \in At(r) : queue'[r][i] = queue[r][k] /\ (r = q => k # 1)
      BY <1>10
    <3>2. queue[r][k] # b
      BY <1>5, <2>3, <3>1
    <3> QED
      BY <1>8, <2>1, <3>1, <3>2
  <2> QED
    BY <2>5, <2>6, <2>7 DEF OneOwner
<1>12. NothingLeaks'
  <2> SUFFICES ASSUME NEW c \in Buffer PROVE (c \in used <=> Reachable(c))'
    BY DEF NothingLeaks
  <2>1. c # None
    BY SerialAssumption
  <2>2. Reachable(c) => Reachable(c)'
    <3>1. CASE \E g \in Holder : held[g] = c
      BY <1>8, <2>1, <3>1 DEF Reachable
    <3>2. CASE c = b
      BY <1>3, <1>8, <3>2 DEF Reachable
    <3>3. ASSUME NEW r \in Queue, NEW i \in At(r), queue[r][i] = c, c # b
          PROVE  Reachable(c)'
      <4>1. CASE r # q
        BY <1>6, <3>3, <4>1 DEF Reachable
      <4>2. CASE r = q
        <5>1. i \in 1..n /\ i # 1
          BY <1>5, <3>3, <4>2
        <5>2. i - 1 \in At(q)' /\ (i - 1) + 1 = i
          BY <1>2, <1>7, <5>1
        <5>3. queue'[q][i - 1] = c
          BY <1>7, <3>3, <4>2, <5>2
        <5> QED
          BY <5>2, <5>3 DEF Reachable
      <4> QED
        BY <4>1, <4>2
    <3> QED
      BY <3>1, <3>2, <3>3 DEF Reachable
  <2>3. Reachable(c)' => Reachable(c)
    <3>1. ASSUME NEW g \in Holder, held'[g] = c PROVE Reachable(c)
      BY <1>5, <1>8, <3>1 DEF Reachable
    <3>2. ASSUME NEW r \in Queue, NEW i \in At(r)', queue'[r][i] = c PROVE Reachable(c)
      BY <1>10, <3>2 DEF Reachable
    <3> QED
      BY <3>1, <3>2 DEF Reachable
  <2> QED
    BY <1>1, <2>2, <2>3 DEF Owned, NothingLeaks
<1> QED
  BY <1>4, <1>11, <1>12 DEF Owned

-----------------------------------------------------------------------------
Inv == TypeOK /\ OneOwner /\ NothingLeaks

LEMMA InvIsOwned == Inv <=> TypeOK /\ Owned
BY DEF Inv, Owned, OwnType, TypeOK

LEMMA HoldersAre ==
  /\ Producer \subseteq Holder /\ Queue \subseteq Holder
  /\ "original" \in Holder /\ "copy" \in Holder
  /\ \A p \in Producer : p \notin Queue /\ p # "original" /\ p # "copy"
  /\ \A q \in Queue : q # "original" /\ q # "copy"
BY SerialAssumption DEF Holder, Queue

LEMMA InitInv == Init => Inv
<1> SUFFICES ASSUME Init PROVE Inv
  OBVIOUS
<1>1. TypeOK
  BY HoldersAre, SerialAssumption DEF Init, TypeOK
<1>2. OneOwner
  BY DEF Init, OneOwner, At
<1>3. NothingLeaks
  BY SerialAssumption DEF Init, NothingLeaks, Reachable, At
<1> QED
  BY <1>1, <1>2, <1>3 DEF Inv

\* Ownership through every action.
LEMMA NextOwned == Inv /\ [Next]_vars => Owned'
<1> SUFFICES ASSUME Inv, [Next]_vars PROVE Owned'
  OBVIOUS
<1>0. Owned /\ TypeOK
  BY InvIsOwned
<1>1. ASSUME NEW p \in Producer, NEW c \in Chunk, Send(p, c) PROVE Owned'
  BY <1>0, <1>1, AllocateOwned, HoldersAre DEF Send, AllocateCopy
<1>2. ASSUME NEW p \in Producer, SendEnqueue(p) PROVE Owned'
  <2>1. "uart" \in Queue
    BY DEF Queue
  <2> QED
    BY <1>0, <1>2, <2>1, EnqueueOwned, HoldersAre DEF SendEnqueue
<1>3. ASSUME NEW p \in Producer, SendDrop(p) PROVE Owned'
  BY <1>0, <1>3, FreeOwned, HoldersAre DEF SendDrop
<1>4. CASE ReaderAllocate
  BY <1>0, <1>4, AllocateOwned, HoldersAre DEF ReaderAllocate, TypeOK
<1>5. CASE ReaderGotNothing
  <2>1. held["original"] # None
    BY <1>0, <1>5 DEF ReaderGotNothing, TypeOK
  <2> QED
    BY <1>0, <1>5, <2>1, FreeOwned, HoldersAre DEF ReaderGotNothing
<1>6. ASSUME NEW c \in Chunk, ReaderGot(c) PROVE Owned'
  BY <1>0, <1>6 DEF ReaderGot, Owned, OwnType, OneOwner, NothingLeaks, Reachable, At
<1>7. CASE ReaderCopy
  BY <1>0, <1>7, AllocateOwned, HoldersAre DEF ReaderCopy, AllocateCopy
<1>8. CASE ReaderSkip
  BY <1>0, <1>8 DEF ReaderSkip, Owned, OwnType, OneOwner, NothingLeaks, Reachable, At
<1>9. CASE ReaderEnqueue
  <2>1. reader \in Queue
    BY <1>9 DEF ReaderEnqueue, Queue
  <2> QED
    BY <1>0, <1>9, <2>1, EnqueueOwned, HoldersAre DEF ReaderEnqueue
<1>10. CASE ReaderDrop
  BY <1>0, <1>10, FreeOwned, HoldersAre DEF ReaderDrop
<1>11. CASE ReaderDone
  <2>1. held["original"] # None
    BY <1>0, <1>11 DEF ReaderDone, TypeOK
  <2> QED
    BY <1>0, <1>11, <2>1, FreeOwned, HoldersAre DEF ReaderDone
<1>12. ASSUME NEW q \in Queue, Receive(q) PROVE Owned'
  BY <1>0, <1>12, DequeueOwned DEF Receive
<1>13. ASSUME NEW q \in Queue, Finish(q) PROVE Owned'
  BY <1>0, <1>13, FreeOwned, HoldersAre DEF Finish
<1>14. CASE UNCHANGED vars
  BY <1>0, <1>14 DEF vars, Owned, OwnType, OneOwner, NothingLeaks, Reachable, At
<1> QED
  BY <1>1, <1>2, <1>3, <1>4, <1>5, <1>6, <1>7, <1>8, <1>9, <1>10, <1>11, <1>12,
     <1>13, <1>14 DEF Next, Sending, Reading, Consuming

\* What TypeOK says beyond ownership, through every action.
LEMMA NextType == Inv /\ [Next]_vars /\ Owned' => TypeOK'
<1> SUFFICES ASSUME Inv, [Next]_vars, Owned' PROVE TypeOK'
  OBVIOUS
<1> DEFINE OriginalHeld == reader = "idle" <=> held["original"] = None
           Short == \A q \in Queue : Len(queue[q]) <= QueueSize
           Rest == content \in [Buffer -> Chunk] /\ Short /\ reader \in Reader /\ OriginalHeld
<1>0. /\ TypeOK /\ OwnType' /\ None \notin Buffer /\ QueueSize \in Nat
      /\ Available \subseteq Buffer
  BY AvailableIsFree, SerialAssumption DEF Inv, Owned
<1> SUFFICES Rest'
  BY <1>0 DEF TypeOK, OwnType, Reader
<1>1. ASSUME NEW p \in Producer, NEW c \in Chunk, Send(p, c) PROVE Rest'
  BY <1>0, <1>1, HoldersAre DEF Send, AllocateCopy, Allocate, TypeOK, Reader
<1>2. ASSUME NEW p \in Producer, SendEnqueue(p) PROVE Rest'
  BY <1>0, <1>2, HoldersAre DEF SendEnqueue, Enqueue, Room, TypeOK, Reader, Queue
<1>3. ASSUME NEW p \in Producer, SendDrop(p) PROVE Rest'
  BY <1>0, <1>3, HoldersAre DEF SendDrop, Free, TypeOK, Reader
<1>4. CASE ReaderAllocate
  BY <1>0, <1>4, HoldersAre DEF ReaderAllocate, Allocate, TypeOK, Reader
<1>5. CASE ReaderGotNothing
  BY <1>0, <1>5, HoldersAre DEF ReaderGotNothing, Free, TypeOK, Reader
<1>6. ASSUME NEW c \in Chunk, ReaderGot(c) PROVE Rest'
  BY <1>0, <1>6, HoldersAre DEF ReaderGot, TypeOK, Reader
<1>7. CASE ReaderCopy
  <2>1. held["original"] \in Buffer
    BY <1>0, <1>7, HoldersAre DEF ReaderCopy, TypeOK
  <2> QED
    BY <1>0, <1>7, <2>1, HoldersAre DEF ReaderCopy, AllocateCopy, Allocate, TypeOK, Reader
<1>8. CASE ReaderSkip
  BY <1>0, <1>8 DEF ReaderSkip, AfterCopy, TypeOK, Reader
<1>9. CASE ReaderEnqueue
  <2>1. reader \in Queue /\ reader # "idle" /\ reader' # "idle" /\ reader' \in Reader
    BY <1>9 DEF ReaderEnqueue, AfterCopy, Queue, Reader
  <2>2. held'["original"] = held["original"]
    BY <1>0, <1>9, HoldersAre DEF ReaderEnqueue, Enqueue, TypeOK
  <2>3. Short'
    BY <1>0, <1>9, <2>1 DEF ReaderEnqueue, Enqueue, Room, TypeOK
  <2> QED
    BY <1>0, <1>9, <2>1, <2>2, <2>3 DEF ReaderEnqueue, TypeOK
<1>10. CASE ReaderDrop
  BY <1>0, <1>10, HoldersAre DEF ReaderDrop, Free, AfterCopy, TypeOK, Reader
<1>11. CASE ReaderDone
  BY <1>0, <1>11, HoldersAre DEF ReaderDone, Free, TypeOK, Reader
<1>12. ASSUME NEW q \in Queue, Receive(q) PROVE Rest'
  <2>1. /\ held' = [held EXCEPT ![q] = Head(queue[q])] /\ queue[q] # <<>>
        /\ queue' = [queue EXCEPT ![q] = Tail(queue[q])]
        /\ content' = content /\ reader' = reader
    BY <1>12 DEF Receive, Dequeue
  <2>2. held'["original"] = held["original"]
    BY <1>0, <2>1, HoldersAre DEF TypeOK
  <2>3. Short'
    <3>1. Len(Tail(queue[q])) <= QueueSize
      BY <1>0, <2>1 DEF TypeOK
    <3> QED
      BY <1>0, <2>1, <3>1 DEF TypeOK
  <2> QED
    BY <1>0, <2>1, <2>2, <2>3 DEF TypeOK, Reader
<1>13. ASSUME NEW q \in Queue, Finish(q) PROVE Rest'
  BY <1>0, <1>13, HoldersAre DEF Finish, Free, TypeOK, Reader
<1>14. CASE UNCHANGED vars
  BY <1>0, <1>14 DEF vars, TypeOK, Reader
<1> HIDE DEF Rest
<1> QED
  BY <1>1, <1>2, <1>3, <1>4, <1>5, <1>6, <1>7, <1>8, <1>9, <1>10, <1>11, <1>12,
     <1>13, <1>14 DEF Next, Sending, Reading, Consuming

\* Every variable keeps its type, whatever the sizes of the pool and the queues.
THEOREM TypeCorrect == Spec => []TypeOK
<1>1. Inv /\ [Next]_vars => Inv'
  BY NextOwned, NextType DEF Owned, Inv
<1>2. Inv => TypeOK
  BY DEF Inv
<1> QED
  BY InitInv, <1>1, <1>2, PTL DEF Spec

\* No two tasks ever have the same buffer, and none is queued twice: no task of
\* serial_handler.c uses or frees memory another one is working on.
THEOREM NoSharedBuffer == Spec => []OneOwner
<1>1. Inv /\ [Next]_vars => Inv'
  BY NextOwned, NextType DEF Owned, Inv
<1>2. Inv => OneOwner
  BY DEF Inv
<1> QED
  BY InitInv, <1>1, <1>2, PTL DEF Spec

\* No path that drops a chunk, or hands it on, loses a buffer or frees one early.
THEOREM NoLeak == Spec => []NothingLeaks
<1>1. Inv /\ [Next]_vars => Inv'
  BY NextOwned, NextType DEF Owned, Inv
<1>2. Inv => NothingLeaks
  BY DEF Inv
<1> QED
  BY InitInv, <1>1, <1>2, PTL DEF Spec

=============================================================================
