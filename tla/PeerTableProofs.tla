--------------------------- MODULE PeerTableProofs ---------------------------
(***************************************************************************)
(* Proofs about the peer table, for any number of devices and entries and  *)
(* any timing constants.                                                   *)
(*                                                                         *)
(* TypeOK and NoDuplicateMac need only each other.  The bounds on silence  *)
(* need ProbeClock, which ties the three clocks of an entry together, and  *)
(* that in turn needs entries that are not active to be all zero.          *)
(***************************************************************************)
EXTENDS PeerTable, TLAPS

\* An entry is zeroed when it is freed.
FreeIsCleared == \A s \in Slot : ~peers[s].active => peers[s] = Cleared

\* Touching and relabelling, on one entry.
LEMMA TouchedType ==
  ASSUME NEW e \in Entry
  PROVE  /\ Touched(e) \in Entry
         /\ Touched(e).active = e.active /\ Touched(e).mac = e.mac
BY PeerTableAssumption DEF Touched, Restarted, Clock, Entry

\* Marking a table keeps its type, and who holds which entry.
LEMMA MarkedType ==
  ASSUME NEW t \in [Slot -> Entry], NEW m \in Mac
  PROVE  /\ Marked(t, m) \in [Slot -> Entry]
         /\ \A s \in Slot : /\ Marked(t, m)[s].active = t[s].active
                            /\ Marked(t, m)[s].mac = t[s].mac
BY TouchedType DEF Marked

\* So does setting the protocol of an entry.
LEMMA SpokenType ==
  ASSUME NEW t \in [Slot -> Entry], NEW m \in Mac, NEW p \in Protocol
  PROVE  /\ Spoken(t, m, p) \in [Slot -> Entry]
         /\ \A s \in Slot : /\ Spoken(t, m, p)[s].active = t[s].active
                            /\ Spoken(t, m, p)[s].mac = t[s].mac
<1>1. ASSUME NEW e \in Entry
      PROVE  /\ [e EXCEPT !.protocol = p] \in Entry
             /\ [e EXCEPT !.protocol = p].active = e.active
             /\ [e EXCEPT !.protocol = p].mac = e.mac
  BY DEF Entry
<1>2. QED
  BY <1>1 DEF Spoken

LEMMA FreshType ==
  ASSUME NEW m \in Mac, NEW p \in Protocol
  PROVE  Fresh(m, p) \in Entry /\ Fresh(m, p).active /\ Fresh(m, p).mac = m
BY PeerTableAssumption DEF Fresh, Restarted, Entry, Clock

LEMMA ClearedType == Cleared \in Entry /\ ~Cleared.active /\ Cleared.mac = NoMac
BY PeerTableAssumption DEF Cleared, Restarted, Entry, Clock, Protocol

\* A pass keeps the type of an entry, and its holder unless it clears it.
LEMMA ProbedType ==
  ASSUME NEW e \in Entry, NEW slack \in Slack
  PROVE  /\ Probed(e, slack) \in Entry
         /\ \/ /\ Probed(e, slack).active = e.active
               /\ Probed(e, slack).mac = e.mac
            \/ Probed(e, slack) = Cleared
<1> DEFINE c == Aged(e.clock)
           d == IF PingDue(c, slack) THEN Pinged(c) ELSE c
<1>1. c \in Clock
  BY DEF Aged, Clock, Entry
<1>2. CASE Unanswered(c, slack)
  BY <1>2, ClearedType DEF Probed
<1>3. CASE ~Unanswered(c, slack)
  <2>1. d \in Clock
    BY <1>1, <1>3, PeerTableAssumption DEF Unanswered, Pinged, Clock
  <2>2. Probed(e, slack) = [e EXCEPT !.clock = d]
    BY <1>3 DEF Probed
  <2>3. QED
    BY <2>1, <2>2 DEF Entry
<1>4. QED
  BY <1>2, <1>3

-----------------------------------------------------------------------------
\* What every action but the monitor's pass may do to the table: entries keep
\* their holders, except that one free entry may go to a device without one.
KeepsHolders ==
  \A s \in Slot : /\ peers'[s].active = peers[s].active
                  /\ peers'[s].mac = peers[s].mac

AddsHolder(m) ==
  /\ ~Listed(m)
  /\ \E s \in Slot : /\ ~peers[s].active
                     /\ peers'[s].active /\ peers'[s].mac = m
                     /\ \A t \in Slot \ {s} : peers'[t] = peers[t]

LEMMA AddPeerHolders ==
  ASSUME TypeOK, NEW m \in Mac, NEW p \in {"legacy", "new"}, AddPeer(m, p)
  PROVE  /\ peers' \in [Slot -> Entry]
         /\ KeepsHolders \/ AddsHolder(m)
<1>1. CASE Listed(m) /\ peers' = Spoken(Marked(peers, m), m, p)
  <2>1. Marked(peers, m) \in [Slot -> Entry]
    BY MarkedType DEF TypeOK
  <2>2. peers' \in [Slot -> Entry]
    BY <1>1, <2>1, SpokenType DEF Protocol
  <2>3. KeepsHolders
    BY <1>1, <2>1, MarkedType, SpokenType DEF Protocol, KeepsHolders, TypeOK
  <2>4. QED
    BY <2>2, <2>3
<1>2. CASE /\ ~Listed(m)
           /\ \E s \in FreeSlots : /\ \A t \in FreeSlots : s <= t
                                   /\ peers' = [peers EXCEPT ![s] = Fresh(m, p)]
  <2>1. PICK s \in FreeSlots : peers' = [peers EXCEPT ![s] = Fresh(m, p)]
    BY <1>2
  <2>2. Fresh(m, p) \in Entry /\ Fresh(m, p).active /\ Fresh(m, p).mac = m
    BY FreshType DEF Protocol
  <2>3. s \in Slot /\ ~peers[s].active
    BY DEF FreeSlots
  <2>4. peers' \in [Slot -> Entry]
    BY <2>1, <2>2, <2>3 DEF TypeOK
  <2>5. AddsHolder(m)
    BY <1>2, <2>1, <2>2, <2>3 DEF TypeOK, AddsHolder
  <2>6. QED
    BY <2>4, <2>5
<1>3. CASE UNCHANGED peers
  BY <1>3 DEF TypeOK, KeepsHolders
<1>4. QED
  BY <1>1, <1>2, <1>3 DEF AddPeer

\* The table's part of TypeOK and NoDuplicateMac, together inductive.
TableOK ==
  /\ peers \in [Slot -> Entry]
  /\ \A s \in Slot : peers[s].active <=> peers[s].mac # NoMac
  /\ NoDuplicateMac

LEMMA KeepsHoldersTable ==
  ASSUME TableOK, peers' \in [Slot -> Entry], KeepsHolders
  PROVE  TableOK'
BY DEF TableOK, KeepsHolders, NoDuplicateMac

LEMMA AddsHolderTable ==
  ASSUME TableOK, peers' \in [Slot -> Entry], NEW m \in Mac, AddsHolder(m)
  PROVE  TableOK'
<1>1. PICK s \in Slot : /\ ~peers[s].active
                        /\ peers'[s].active /\ peers'[s].mac = m
                        /\ \A t \in Slot \ {s} : peers'[t] = peers[t]
  BY DEF AddsHolder
<1>2. \A t \in Slot : ~(peers[t].active /\ peers[t].mac = m)
  BY DEF AddsHolder, Listed, SlotsOf, Holds
<1>3. m # NoMac
  BY PeerTableAssumption
<1>4. QED
  BY <1>1, <1>2, <1>3 DEF TableOK, NoDuplicateMac

LEMMA MonitorPassTable ==
  ASSUME TableOK, MonitorPass
  PROVE  TableOK' /\ removing' \in SUBSET Mac
<1>1. PICK slack \in [Slot -> Slack] :
        /\ peers' = [s \in Slot |->
                       IF peers[s].active THEN Probed(peers[s], slack[s])
                                          ELSE peers[s]]
        /\ removing' = {peers[s].mac : s \in
                          {t \in Slot : peers[t].active
                             /\ Unanswered(Aged(peers[t].clock), slack[t])}}
  BY DEF MonitorPass
<1>2. ASSUME NEW s \in Slot
      PROVE  /\ peers'[s] \in Entry
             /\ \/ peers'[s].active = peers[s].active /\ peers'[s].mac = peers[s].mac
                \/ peers'[s] = Cleared
  <2>1. peers[s] \in Entry /\ slack[s] \in Slack
    BY DEF TableOK
  <2>2. QED
    BY <1>1, <2>1, ProbedType
<1>3. peers' \in [Slot -> Entry]
  BY <1>1, <1>2
<1>4. \A s \in Slot : peers'[s].active <=> peers'[s].mac # NoMac
  BY <1>2, ClearedType DEF TableOK
<1>5. NoDuplicateMac'
  BY <1>2, ClearedType DEF TableOK, NoDuplicateMac
<1>6. removing' \in SUBSET Mac
  <2>1. \A s \in Slot : peers[s].active => peers[s].mac \in Mac
    BY DEF TableOK, Entry
  <2>2. QED
    BY <1>1, <2>1
<1>7. QED
  BY <1>3, <1>4, <1>5, <1>6 DEF TableOK

\* Frames, queued or not, keep the rest of TypeOK.
LEMMA EnqueueType ==
  ASSUME TypeOK, NEW p \in {"legacy", "new"}, NEW m \in Mac, Enqueue(p, m)
  PROVE  rxQueue' \in [{"legacy", "new"} -> Seq(Mac)]
<1>1. Append(rxQueue[p], m) \in Seq(Mac)
  BY DEF TypeOK
<1>2. QED
  BY <1>1 DEF TypeOK, Enqueue

\* TypeOK and NoDuplicateMac are inductive together.
LEMMA TableStep ==
  ASSUME TypeOK, NoDuplicateMac, [Next]_vars
  PROVE  TypeOK' /\ NoDuplicateMac'
<1> DEFINE Rest == /\ radio \in SUBSET Mac
                   /\ rxQueue \in [{"legacy", "new"} -> Seq(Mac)]
                   /\ removing \in SUBSET Mac
<1>0. TableOK /\ Rest
  BY DEF TypeOK, TableOK
<1>a. SUFFICES TableOK' /\ Rest'
  BY DEF TypeOK, TableOK
<1>1. ASSUME NEW m \in Mac, NEW p \in {"legacy", "new"}, ReceivePair(m, p)
      PROVE  TableOK' /\ Rest'
  <2>1. Rest'
    BY <1>0, <1>1 DEF ReceivePair
  <2>2. CASE UNCHANGED peers
    BY <1>0, <2>1, <2>2 DEF TableOK, NoDuplicateMac
  <2>3. CASE AddPeer(m, p)
    <3>1. peers' \in [Slot -> Entry] /\ (KeepsHolders \/ AddsHolder(m))
      BY <2>3, AddPeerHolders
    <3>2. QED
      BY <1>0, <2>1, <3>1, KeepsHoldersTable, AddsHolderTable
  <2>4. QED
    BY <1>1, <2>1, <2>2, <2>3 DEF ReceivePair
<1>2. ASSUME NEW m \in Mac, NEW t \in [Slot -> Entry], NEW p \in Protocol,
             t = peers \/ t = Marked(peers, m),
             peers' = t \/ peers' = Spoken(t, m, p)
      PROVE  TableOK'
  <2>1. \A s \in Slot : t[s].active = peers[s].active /\ t[s].mac = peers[s].mac
    BY <1>0, <1>2, MarkedType DEF TableOK
  <2>2. peers' \in [Slot -> Entry] /\ KeepsHolders
    BY <1>2, <2>1, SpokenType DEF KeepsHolders
  <2>3. QED
    BY <1>0, <2>2, KeepsHoldersTable
<1>3. ASSUME NEW m \in Mac
      PROVE  Marked(peers, m) \in [Slot -> Entry] /\ peers \in [Slot -> Entry]
  BY <1>0, MarkedType DEF TableOK
<1>4. ASSUME NEW m \in Mac, ReceivePong(m)
      PROVE  TableOK' /\ Rest'
  BY <1>0, <1>2, <1>3, <1>4 DEF ReceivePong, Protocol
<1>5. ASSUME NEW m \in Mac, ReceiveNewFrame(m)
      PROVE  TableOK' /\ Rest'
  BY <1>0, <1>2, <1>3, <1>5, EnqueueType DEF ReceiveNewFrame, Protocol
<1>6. ASSUME NEW m \in Mac, ReceiveLegacyCommand(m)
      PROVE  TableOK' /\ Rest'
  BY <1>0, <1>2, <1>3, <1>6, EnqueueType DEF ReceiveLegacyCommand, Protocol
<1>7. ASSUME NEW p \in {"legacy", "new"}, RxTask(p)
      PROVE  TableOK' /\ Rest'
  <2>1. Head(rxQueue[p]) \in Mac /\ Tail(rxQueue[p]) \in Seq(Mac)
    BY <1>0, <1>7 DEF RxTask
  <2>2. TableOK'
    <3>1. peers' = Marked(peers, Head(rxQueue[p]))
      BY <1>7 DEF RxTask
    <3>2. QED
      BY <1>2, <1>3, <2>1, <3>1 DEF Protocol
  <2>3. Rest'
    BY <1>0, <1>7, <2>1 DEF RxTask
  <2>4. QED
    BY <2>2, <2>3
<1>8. CASE MonitorPass
  <2>1. TableOK' /\ removing' \in SUBSET Mac
    BY <1>0, <1>8, MonitorPassTable
  <2>2. QED
    BY <1>0, <1>8, <2>1 DEF MonitorPass
<1>9. ASSUME NEW m \in Mac, MonitorDelete(m)
      PROVE  TableOK' /\ Rest'
  BY <1>0, <1>9 DEF MonitorDelete, TableOK, NoDuplicateMac
<1>10. CASE UNCHANGED vars
  BY <1>0, <1>10 DEF vars, TableOK, NoDuplicateMac
<1>11. QED
  BY <1>1, <1>4, <1>5, <1>6, <1>7, <1>8, <1>9, <1>10 DEF Next, Heard, Monitor

\* The types hold, for every number of devices and entries.
THEOREM TypeCorrect == Spec => []TypeOK
<1>1. Init => TypeOK /\ NoDuplicateMac
  BY ClearedType DEF Init, TypeOK, NoDuplicateMac
<1>2. TypeOK /\ NoDuplicateMac /\ [Next]_vars => (TypeOK /\ NoDuplicateMac)'
  BY TableStep
<1>3. QED
  BY <1>1, <1>2, PTL DEF Spec

\* No device ever holds two entries, whatever the tasks interleave.
THEOREM OneEntryPerDevice == Spec => []NoDuplicateMac
<1>1. Init => TypeOK /\ NoDuplicateMac
  BY ClearedType DEF Init, TypeOK, NoDuplicateMac
<1>2. TypeOK /\ NoDuplicateMac /\ [Next]_vars => (TypeOK /\ NoDuplicateMac)'
  BY TableStep
<1>3. QED
  BY <1>1, <1>2, PTL DEF Spec

-----------------------------------------------------------------------------
\* The clock an entry has between two passes, by the number of its probes.
ClockOK(c) ==
  IF c.retries = 0 THEN c.idle <= PingIdle
  ELSE /\ c.sincePing < PingInterval
       /\ PingIdle + (c.retries - 1) * (PingInterval - 1) + c.sincePing <= c.idle
       /\ c.idle <= PingIdle + 1 + (c.retries - 1) * PingInterval + c.sincePing

\* The same bounds, from the values of the three clocks.
LEMMA ClockIntro ==
  ASSUME NEW q, NEW i, NEW n, NEW t,
         q.idle = i, q.retries = n, q.sincePing = t,
         n # 0, t < PingInterval,
         PingIdle + (n - 1) * (PingInterval - 1) + t <= i,
         i <= PingIdle + 1 + (n - 1) * PingInterval + t
  PROVE  ClockOK(q)
BY Zenon DEF ClockOK

LEMMA RestartedOK == Restarted \in Clock /\ ClockOK(Restarted)
BY PeerTableAssumption DEF Restarted, Clock, ClockOK

\* One more interval.
LEMMA OneMore == \A n, k \in Int : (n + 1) * k = n * k + k
OBVIOUS

\* A pass that leaves the entry in the table keeps its clock within the bounds.
LEMMA PassKeepsClock ==
  ASSUME NEW c \in Clock, ClockOK(c), NEW slack \in Slack,
         ~Unanswered(Aged(c), slack)
  PROVE  ClockOK(IF PingDue(Aged(c), slack) THEN Pinged(Aged(c)) ELSE Aged(c))
<1> DEFINE r == c.retries
           a == Aged(c)
<1>1. /\ r \in Nat /\ r <= PingMaxRetries /\ c.idle \in Nat /\ c.sincePing \in Nat
      /\ slack \in {0, 1} /\ PingIdle \in Nat /\ PingInterval \in Nat
      /\ PingInterval > 0
  BY PeerTableAssumption DEF Clock, Slack
<1>2. /\ a.idle = c.idle + 1 /\ a.retries = r
      /\ r = 0 => a.sincePing = 0
      /\ r # 0 => a.sincePing = c.sincePing + 1
  BY DEF Aged
<1>3. CASE r = 0
  <2>1. CASE PingDue(a, slack)
    <3>1. a.idle + slack > PingIdle
      BY <1>2, <1>3, <2>1 DEF PingDue
    <3>2. c.idle <= PingIdle
      BY <1>3 DEF ClockOK
    <3>3. /\ Pinged(a).retries = 1 /\ Pinged(a).sincePing = 0
          /\ Pinged(a).idle = c.idle + 1
      BY <1>2, <1>3 DEF Pinged
    <3>4. /\ PingIdle + (1 - 1) * (PingInterval - 1) + 0 <= c.idle + 1
          /\ c.idle + 1 <= PingIdle + 1 + (1 - 1) * PingInterval + 0
      BY <1>1, <1>2, <3>1, <3>2
    <3>5. ClockOK(Pinged(a))
      <4>1. 0 < PingInterval /\ 1 # 0
        BY <1>1
      <4>2. QED
        BY <3>3, <3>4, <4>1, ClockIntro
    <3>6. QED
      BY <2>1, <3>5
  <2>2. CASE ~PingDue(a, slack)
    BY <1>1, <1>2, <1>3, <2>2 DEF PingDue, ClockOK
  <2>3. QED
    BY <2>1, <2>2
<1>4. CASE r # 0
  <2> DEFINE low == (r - 1) * (PingInterval - 1)
             high == (r - 1) * PingInterval
  <2>1. low \in Int /\ high \in Int
    BY <1>1
  <2>2. /\ c.sincePing < PingInterval
        /\ PingIdle + low + c.sincePing <= c.idle
        /\ c.idle <= PingIdle + 1 + high + c.sincePing
    BY <1>4 DEF ClockOK
  <2>3. CASE PingDue(a, slack)
    <3>1. a.sincePing + slack >= PingInterval
      BY <1>2, <1>4, <2>3 DEF PingDue
    <3>2. /\ Pinged(a).retries = r + 1 /\ Pinged(a).sincePing = 0
          /\ Pinged(a).idle = c.idle + 1
      BY <1>2 DEF Pinged
    <3>3. /\ (r + 1 - 1) * (PingInterval - 1) = low + (PingInterval - 1)
          /\ (r + 1 - 1) * PingInterval = high + PingInterval
      <4>1. r - 1 \in Int /\ PingInterval - 1 \in Int /\ r + 1 - 1 = (r - 1) + 1
        BY <1>1
      <4>2. QED
        BY <1>1, <4>1, OneMore
    <3>4. /\ PingIdle + (low + (PingInterval - 1)) <= c.idle + 1
          /\ c.idle + 1 <= PingIdle + 1 + (high + PingInterval)
      <4> HIDE DEF low, high
      <4>1. QED
        BY <1>1, <1>2, <1>4, <2>1, <2>2, <3>1
    <3>5. ClockOK(Pinged(a))
      <4> DEFINE n == r + 1
      <4>1. n # 0 /\ Pinged(a).retries = n
        BY <1>1, <3>2
      <4>2. /\ 0 < PingInterval
            /\ PingIdle + (n - 1) * (PingInterval - 1) + 0 <= c.idle + 1
            /\ c.idle + 1 <= PingIdle + 1 + (n - 1) * PingInterval + 0
        <5> HIDE DEF low, high
        <5>1. QED
          BY <1>1, <2>1, <3>3, <3>4
      <4> HIDE DEF n
      <4>3. QED
        BY <3>2, <4>1, <4>2, ClockIntro
    <3>6. QED
      BY <2>3, <3>5
  <2>4. CASE ~PingDue(a, slack)
    <3>1. a.sincePing < PingInterval
      BY <1>1, <1>2, <1>4, <2>4 DEF PingDue
    <3>2. /\ PingIdle + low + a.sincePing <= a.idle
          /\ a.idle <= PingIdle + 1 + high + a.sincePing
      <4> HIDE DEF low, high
      <4>1. QED
        BY <1>1, <1>2, <1>4, <2>1, <2>2
    <3>3. ClockOK(a)
      BY <1>2, <1>4, <3>1, <3>2 DEF ClockOK
    <3>4. QED
      BY <2>4, <3>3
  <2>5. QED
    BY <2>3, <2>4
<1>5. QED
  BY <1>3, <1>4

\* What every entry looks like between two steps: all zero, or its clocks agree.
EntryOK(e) == (~e.active => e = Cleared) /\ ClockOK(e.clock)

\* Receiving and queueing leave every entry as it is, or restart its clocks, or
\* change its protocol, or take a free entry.
ClockRestarts ==
  \A s \in Slot : /\ peers[s].active => peers'[s].active
                  /\ \/ peers'[s] = peers[s]
                     \/ peers'[s].active /\ peers'[s].clock \in {peers[s].clock, Restarted}

LEMMA HeardClocks ==
  ASSUME TypeOK, NEW m \in Mac, NEW t \in [Slot -> Entry], NEW p \in Protocol,
         t = peers \/ t = Marked(peers, m),
         peers' = t \/ peers' = Spoken(t, m, p)
  PROVE  ClockRestarts
<1>1. ASSUME NEW e \in Entry
      PROVE  /\ Touched(e).active = e.active /\ Touched(e).clock = Restarted
             /\ [e EXCEPT !.protocol = p].active = e.active
             /\ [e EXCEPT !.protocol = p].clock = e.clock
  BY DEF Touched, Entry
<1>2. ASSUME NEW s \in Slot
      PROVE  /\ t[s] \in Entry /\ t[s].active = peers[s].active
             /\ t[s] = peers[s] \/ (t[s].active /\ t[s].clock = Restarted)
  BY <1>1, MarkedType DEF Marked, TypeOK
<1>3. ASSUME NEW s \in Slot
      PROVE  /\ peers'[s].active = t[s].active
             /\ peers'[s] = t[s] \/ (t[s].active /\ peers'[s].clock = t[s].clock)
  <2>1. CASE peers' = t
    BY <2>1, <1>2
  <2>2. CASE peers' = Spoken(t, m, p)
    <3>1. CASE t[s].active /\ t[s].mac = m
      BY <1>1, <1>2, <2>2, <3>1 DEF Spoken
    <3>2. CASE ~(t[s].active /\ t[s].mac = m)
      BY <1>2, <2>2, <3>2 DEF Spoken
    <3>3. QED
      BY <3>1, <3>2
  <2>3. QED
    BY <2>1, <2>2
<1>4. QED
  BY <1>2, <1>3 DEF ClockRestarts

LEMMA AddPeerClocks ==
  ASSUME TypeOK, NEW m \in Mac, NEW p \in {"legacy", "new"}, AddPeer(m, p)
  PROVE  ClockRestarts \/ UNCHANGED peers
         \/ \E s \in Slot : /\ ~peers[s].active
                            /\ peers' = [peers EXCEPT ![s] = Fresh(m, p)]
<1>1. Marked(peers, m) \in [Slot -> Entry] /\ p \in Protocol
  BY MarkedType DEF TypeOK, Protocol
<1>2. QED
  BY <1>1, HeardClocks DEF AddPeer, FreeSlots

\* The invariant behind the bounds on silence.
SilenceInv == TypeOK /\ NoDuplicateMac /\ \A s \in Slot : EntryOK(peers[s])

LEMMA PassKeepsEntry ==
  ASSUME NEW e \in Entry, EntryOK(e), e.active, NEW slack \in Slack
  PROVE  EntryOK(Probed(e, slack))
<1> DEFINE c == Aged(e.clock)
<1>1. e.clock \in Clock /\ ClockOK(e.clock)
  BY DEF Entry, EntryOK
<1>2. CASE Unanswered(c, slack)
  <2>1. Probed(e, slack) = Cleared /\ Cleared.clock = Restarted
    BY <1>2 DEF Probed, Cleared
  <2>2. QED
    BY <2>1, RestartedOK DEF EntryOK
<1>3. CASE ~Unanswered(c, slack)
  <2>1. Probed(e, slack) = [e EXCEPT !.clock = IF PingDue(c, slack) THEN Pinged(c) ELSE c]
    BY <1>3 DEF Probed
  <2>2. /\ Probed(e, slack).active = e.active
        /\ Probed(e, slack).clock = IF PingDue(c, slack) THEN Pinged(c) ELSE c
    BY <2>1 DEF Entry
  <2>3. QED
    BY <1>1, <1>3, <2>2, PassKeepsClock DEF EntryOK
<1>4. QED
  BY <1>2, <1>3

LEMMA SilenceStep ==
  ASSUME SilenceInv, [Next]_vars
  PROVE  SilenceInv'
<1>0. TypeOK /\ NoDuplicateMac /\ \A s \in Slot : EntryOK(peers[s])
  BY DEF SilenceInv
<1>a. SUFFICES \A s \in Slot : EntryOK(peers'[s])
  BY <1>0, TableStep DEF SilenceInv
<1>b. ASSUME ClockRestarts
      PROVE  \A s \in Slot : EntryOK(peers'[s])
  BY <1>0, <1>b, RestartedOK DEF ClockRestarts, EntryOK
<1>c. ASSUME UNCHANGED peers
      PROVE  \A s \in Slot : EntryOK(peers'[s])
  BY <1>0, <1>c
<1>1. ASSUME NEW m \in Mac, NEW p \in {"legacy", "new"}, ReceivePair(m, p)
      PROVE  \A s \in Slot : EntryOK(peers'[s])
  <2>1. CASE \E s \in Slot : /\ ~peers[s].active
                             /\ peers' = [peers EXCEPT ![s] = Fresh(m, p)]
    <3>1. EntryOK(Fresh(m, p))
      BY RestartedOK DEF EntryOK, Fresh
    <3>2. QED
      BY <1>0, <2>1, <3>1 DEF TypeOK
  <2>2. CASE AddPeer(m, p)
    BY <1>0, <1>b, <1>c, <2>1, <2>2, AddPeerClocks
  <2>3. QED
    BY <1>1, <1>c, <2>2 DEF ReceivePair
<1>2. ASSUME NEW m \in Mac,
             ReceivePong(m) \/ ReceiveNewFrame(m) \/ ReceiveLegacyCommand(m)
      PROVE  \A s \in Slot : EntryOK(peers'[s])
  <2>1. Marked(peers, m) \in [Slot -> Entry] /\ peers \in [Slot -> Entry]
    BY <1>0, MarkedType DEF TypeOK
  <2>2. ClockRestarts
    BY <1>0, <1>2, <2>1, HeardClocks
    DEF ReceivePong, ReceiveNewFrame, ReceiveLegacyCommand, Protocol
  <2>3. QED
    BY <1>b, <2>2
<1>3. ASSUME NEW p \in {"legacy", "new"}, RxTask(p)
      PROVE  \A s \in Slot : EntryOK(peers'[s])
  <2>1. Head(rxQueue[p]) \in Mac /\ peers' = Marked(peers, Head(rxQueue[p]))
    BY <1>0, <1>3 DEF RxTask, TypeOK
  <2>2. Marked(peers, Head(rxQueue[p])) \in [Slot -> Entry] /\ p \in Protocol
    BY <1>0, <2>1, MarkedType DEF TypeOK, Protocol
  <2>3. ClockRestarts
    BY <1>0, <2>1, <2>2, HeardClocks
  <2>4. QED
    BY <1>b, <2>3
<1>4. CASE MonitorPass
  <2>1. PICK slack \in [Slot -> Slack] :
          peers' = [s \in Slot |->
                      IF peers[s].active THEN Probed(peers[s], slack[s])
                                         ELSE peers[s]]
    BY <1>4 DEF MonitorPass
  <2>2. \A s \in Slot : peers[s] \in Entry /\ slack[s] \in Slack
    BY <1>0 DEF TypeOK
  <2>3. QED
    BY <1>0, <2>1, <2>2, PassKeepsEntry
<1>5. ASSUME NEW m \in Mac, MonitorDelete(m)
      PROVE  \A s \in Slot : EntryOK(peers'[s])
  BY <1>c, <1>5 DEF MonitorDelete
<1>6. CASE UNCHANGED vars
  BY <1>c, <1>6 DEF vars
<1>7. QED
  BY <1>1, <1>2, <1>3, <1>4, <1>5, <1>6 DEF Next, Heard, Monitor

LEMMA SilenceInit == Init => SilenceInv
<1>1. Cleared \in Entry /\ ~Cleared.active /\ Cleared.mac = NoMac
  BY ClearedType
<1>2. Init => TypeOK /\ NoDuplicateMac
  BY <1>1 DEF Init, TypeOK, NoDuplicateMac
<1>3. EntryOK(Cleared)
  BY RestartedOK DEF EntryOK, Cleared
<1>4. QED
  BY <1>2, <1>3 DEF Init, SilenceInv

LEMMA SilenceInvariant == Spec => []SilenceInv
<1>1. SilenceInv /\ [Next]_vars => SilenceInv'
  BY SilenceStep
<1>2. QED
  BY <1>1, SilenceInit, PTL DEF Spec

\* The three clocks of every entry always agree.
THEOREM ClocksAgree == Spec => []ProbeClock
<1>1. SilenceInv => ProbeClock
  BY DEF SilenceInv, EntryOK, ClockOK, ProbeClock
<1>2. QED
  BY <1>1, SilenceInvariant, PTL

\* A product grows with its factor.
LEMMA ProductMonotone ==
  ASSUME NEW a \in Nat, NEW b \in Nat, NEW k \in Nat, a <= b
  PROVE  a * k <= b * k
<1>1. b * k = a * k + (b - a) * k
  OBVIOUS
<1>2. (b - a) \in Nat /\ (b - a) * k \in Nat /\ a * k \in Nat
  OBVIOUS
<1>3. QED
  BY <1>1, <1>2

\* A device that has gone silent loses its entry within SilenceLimit passes.
THEOREM SilenceIsBounded == Spec => []SilentPeerEvicted
<1>1. ASSUME SilenceInv, NEW s \in Slot
      PROVE  peers[s].clock.idle <= SilenceLimit
  <2> DEFINE c == peers[s].clock
             r == c.retries
  <2>1. c \in Clock /\ ClockOK(c)
    BY <1>1 DEF SilenceInv, TypeOK, Entry, EntryOK
  <2>2. /\ r \in Nat /\ r <= PingMaxRetries /\ c.idle \in Nat /\ c.sincePing \in Nat
        /\ PingIdle \in Nat /\ PingInterval \in Nat /\ PingMaxRetries \in Nat
    BY <2>1, PeerTableAssumption DEF Clock
  <2>3. PingMaxRetries * PingInterval \in Nat
    BY <2>2
  <2>4. CASE r = 0
    BY <2>1, <2>2, <2>3, <2>4 DEF ClockOK, SilenceLimit
  <2>5. CASE r # 0
    <3>1. c.sincePing < PingInterval /\ c.idle <= PingIdle + 1 + (r - 1) * PingInterval + c.sincePing
      BY <2>1, <2>5 DEF ClockOK
    <3>2. (r - 1) * PingInterval + PingInterval = r * PingInterval
      <4>1. r - 1 \in Int /\ (r - 1) + 1 = r
        BY <2>2
      <4>2. QED
        BY <2>2, <4>1, OneMore
    <3>3. r * PingInterval <= PingMaxRetries * PingInterval
      BY <2>2, ProductMonotone
    <3>4. (r - 1) * PingInterval \in Int /\ r * PingInterval \in Int
      BY <2>2
    <3> HIDE DEF r, c
    <3>5. QED
      BY <2>2, <2>3, <3>1, <3>2, <3>3, <3>4 DEF SilenceLimit, c
  <2>6. QED
    BY <2>4, <2>5
<1>2. SilenceInv => SilentPeerEvicted
  BY <1>1 DEF SilentPeerEvicted
<1>3. QED
  BY <1>2, SilenceInvariant, PTL

\* An entry whose last probe a pass finds unanswered has been silent long enough.
LEMMA UnansweredIsSilent ==
  ASSUME NEW c \in Clock, ClockOK(c), NEW slack \in Slack, Unanswered(Aged(c), slack)
  PROVE  c.idle + 1 >= SilenceFloor
<1> DEFINE r == PingMaxRetries
           low == (r - 1) * (PingInterval - 1)
<1>1. /\ r \in Nat /\ r > 0 /\ c.idle \in Nat /\ c.sincePing \in Nat
      /\ PingIdle \in Nat /\ PingInterval \in Nat /\ PingInterval > 0
      /\ slack \in {0, 1}
  BY PeerTableAssumption DEF Clock, Slack
<1>2. c.retries = r
  BY DEF Unanswered, Aged
<1>3. PingIdle + low + c.sincePing <= c.idle
  BY <1>1, <1>2 DEF ClockOK
<1>4. c.sincePing + 1 + slack >= PingInterval
  BY <1>1, <1>2 DEF Unanswered, PingDue, Aged
<1>5. low + (PingInterval - 1) = r * (PingInterval - 1)
  <2>1. r - 1 \in Int /\ PingInterval - 1 \in Int /\ (r - 1) + 1 = r
    BY <1>1
  <2>2. QED
    BY <2>1, OneMore
<1>6. low \in Int /\ r * (PingInterval - 1) \in Int
  BY <1>1
<1>7. SilenceFloor = PingIdle + r * (PingInterval - 1)
  BY DEF SilenceFloor
<1> HIDE DEF r, low
<1>8. QED
  BY <1>1, <1>3, <1>4, <1>5, <1>6, <1>7

\* Only the monitor frees an entry, and only after SilenceFloor passes.
THEOREM EvictionIsEarned == Spec => EvictionNeedsSilence
<1>1. ASSUME SilenceInv, [Next]_vars
      PROVE  [\A s \in Slot : peers[s].active /\ ~peers'[s].active
                                => peers[s].clock.idle + 1 >= SilenceFloor]_vars
  <2>0. SilenceInv /\ TypeOK
    BY <1>1 DEF SilenceInv
  <2>1. CASE MonitorPass
    <3>1. PICK slack \in [Slot -> Slack] :
            peers' = [s \in Slot |->
                        IF peers[s].active THEN Probed(peers[s], slack[s])
                                           ELSE peers[s]]
      BY <2>1 DEF MonitorPass
    <3>2. ASSUME NEW s \in Slot, peers[s].active, ~peers'[s].active
          PROVE  peers[s].clock.idle + 1 >= SilenceFloor
      <4>1. /\ peers[s] \in Entry /\ slack[s] \in Slack
            /\ peers[s].clock \in Clock /\ ClockOK(peers[s].clock)
        BY <2>0 DEF SilenceInv, TypeOK, Entry, EntryOK
      <4>2. ~Probed(peers[s], slack[s]).active
        BY <3>1, <3>2
      <4>3. Unanswered(Aged(peers[s].clock), slack[s])
        BY <3>2, <4>1, <4>2 DEF Probed, Entry
      <4>4. QED
        BY <4>1, <4>3, UnansweredIsSilent
    <3>3. QED
      BY <3>2
  <2>2. CASE ~MonitorPass
    <3>1. \A s \in Slot : peers[s].active => peers'[s].active
      <4>1. ASSUME NEW m \in Mac, Heard(m)
            PROVE  \A s \in Slot : peers[s].active => peers'[s].active
        <5>1. Marked(peers, m) \in [Slot -> Entry] /\ peers \in [Slot -> Entry]
          BY <2>0, MarkedType DEF TypeOK
        <5>2. CASE ReceivePong(m) \/ ReceiveNewFrame(m) \/ ReceiveLegacyCommand(m)
          BY <2>0, <5>1, <5>2, HeardClocks
          DEF ReceivePong, ReceiveNewFrame, ReceiveLegacyCommand, Protocol, ClockRestarts
        <5>3. ASSUME NEW p \in {"legacy", "new"}, ReceivePair(m, p)
              PROVE  \A s \in Slot : peers[s].active => peers'[s].active
          <6>1. CASE UNCHANGED peers
            BY <6>1
          <6>2. CASE AddPeer(m, p)
            BY <2>0, <6>2, AddPeerClocks, FreshType DEF ClockRestarts, TypeOK, Protocol
          <6>3. QED
            BY <5>3, <6>1, <6>2 DEF ReceivePair
        <5>4. QED
          BY <4>1, <5>2, <5>3 DEF Heard
      <4>2. ASSUME NEW p \in {"legacy", "new"}, RxTask(p)
            PROVE  \A s \in Slot : peers[s].active => peers'[s].active
        <5>1. Head(rxQueue[p]) \in Mac /\ peers' = Marked(peers, Head(rxQueue[p]))
          BY <2>0, <4>2 DEF RxTask, TypeOK
        <5>2. QED
          BY <2>0, <5>1, MarkedType DEF TypeOK
      <4>3. QED
        BY <1>1, <2>2, <4>1, <4>2 DEF Next, Monitor, MonitorDelete, vars
    <3>2. QED
      BY <3>1
  <2>3. QED
    BY <2>1, <2>2
<1>2. QED
  BY <1>1, SilenceInvariant, PTL DEF Spec, EvictionNeedsSilence


-----------------------------------------------------------------------------
\* Frames take no entry from anybody.
LEMMA HoldersStay ==
  ASSUME NEW m, KeepsHolders \/ AddsHolder(m), NEW n, Listed(n)
  PROVE  Listed(n)'
<1>1. PICK s \in Slot : Holds(s, n)
  BY DEF Listed, SlotsOf
<1>2. Holds(s, n)'
  BY <1>1 DEF Holds, KeepsHolders, AddsHolder
<1> QED
  BY <1>1, <1>2 DEF Listed, SlotsOf

LEMMA FrameHolders ==
  ASSUME TypeOK, NEW m \in Mac,
         \/ ReceivePong(m) \/ ReceiveNewFrame(m) \/ ReceiveLegacyCommand(m)
         \/ \E p \in {"legacy", "new"} : RxTask(p)
  PROVE  KeepsHolders /\ UNCHANGED <<radio, removing>>
<1>1. \A n \in Mac : Marked(peers, n) \in [Slot -> Entry]
  BY MarkedType DEF TypeOK
<1>2. CASE ReceivePong(m) \/ ReceiveNewFrame(m) \/ ReceiveLegacyCommand(m)
  <2>1. PICK t \in [Slot -> Entry], p \in Protocol :
          /\ t = peers \/ t = Marked(peers, m)
          /\ peers' = Spoken(t, m, p)
    BY <1>1, <1>2
    DEF ReceivePong, ReceiveNewFrame, ReceiveLegacyCommand, Protocol, TypeOK
  <2>2. \A s \in Slot : t[s].active = peers[s].active /\ t[s].mac = peers[s].mac
    BY <2>1, MarkedType DEF TypeOK
  <2>3. KeepsHolders
    BY <2>1, <2>2, SpokenType DEF KeepsHolders
  <2> QED
    BY <1>2, <2>3 DEF ReceivePong, ReceiveNewFrame, ReceiveLegacyCommand
<1>3. CASE \E p \in {"legacy", "new"} : RxTask(p)
  <2>1. PICK p \in {"legacy", "new"} : RxTask(p)
    BY <1>3
  <2>2. Head(rxQueue[p]) \in Mac /\ peers' = Marked(peers, Head(rxQueue[p]))
    BY <2>1 DEF RxTask, TypeOK
  <2> QED
    BY <2>1, <2>2, MarkedType DEF RxTask, TypeOK, KeepsHolders
<1> QED
  BY <1>2, <1>3

\* A radio peer without an entry that nobody is about to delete comes only from a PAIR
\* that found the table full (add_peer_to_list returns after esp_now_add_peer); neither
\* an eviction nor the window before its esp_now_del_peer leaves one.
THEOREM StraysComeFromFullTables == Spec => StrayOnlyWhenFull
<1>1. ASSUME TypeOK, [Next]_vars, NEW m \in Mac, ~Stray(m), Stray(m)'
      PROVE  FreeSlots = {}
  <2>1. m \in radio' /\ ~Listed(m)' /\ m \notin removing'
    BY <1>1 DEF Stray
  <2>2. CASE MonitorPass
    <3>1. Listed(m)
      BY <1>1, <2>1, <2>2 DEF MonitorPass, Stray
    <3>2. PICK s \in Slot : peers[s].active /\ peers[s].mac = m
      BY <3>1 DEF Listed, SlotsOf, Holds
    <3>3. PICK slack \in [Slot -> Slack] :
            /\ peers' = [t \in Slot |-> IF peers[t].active THEN Probed(peers[t], slack[t])
                                                           ELSE peers[t]]
            /\ removing' = {peers[t].mac : t \in
                              {t \in Slot : peers[t].active
                                 /\ Unanswered(Aged(peers[t].clock), slack[t])}}
      BY <2>2 DEF MonitorPass
    <3>4. ~Unanswered(Aged(peers[s].clock), slack[s])
      BY <2>1, <3>2, <3>3
    <3>5. peers[s] \in Entry /\ peers'[s] = Probed(peers[s], slack[s])
      BY <1>1, <3>2, <3>3 DEF TypeOK
    <3>6. peers'[s].active /\ peers'[s].mac = m
      BY <3>2, <3>4, <3>5 DEF Probed, Entry
    <3>7. Listed(m)'
      BY <3>6 DEF Listed, SlotsOf, Holds
    <3> QED
      BY <2>1, <3>7
  <2>3. ASSUME NEW n \in Mac, NEW p \in {"legacy", "new"}, ReceivePair(n, p)
        PROVE  FreeSlots = {}
    <3>1. removing' = removing
      BY <2>3 DEF ReceivePair
    <3>2. CASE UNCHANGED <<radio, peers>>
      BY <1>1, <2>1, <3>1, <3>2 DEF Stray, Listed, SlotsOf, Holds
    <3>3. CASE radio' = radio \cup {n} /\ AddPeer(n, p)
      <4>1. KeepsHolders \/ AddsHolder(n)
        BY <1>1, <3>3, AddPeerHolders
      <4>2. ~Listed(m)
        BY <2>1, <4>1, HoldersStay
      <4>3. m = n
        BY <1>1, <2>1, <3>1, <3>3, <4>2 DEF Stray
      <4>4. KeepsHolders
        <5>1. AddsHolder(n) => Listed(n)'
          BY DEF AddsHolder, Listed, SlotsOf, Holds
        <5> QED
          BY <2>1, <4>1, <4>3, <5>1
      <4>5. ASSUME NEW s \in FreeSlots, peers' = [peers EXCEPT ![s] = Fresh(n, p)]
            PROVE  FALSE
        <5>1. s \in Slot /\ ~peers[s].active /\ Fresh(n, p).active
          BY FreshType DEF FreeSlots, Protocol
        <5>2. peers'[s].active
          BY <1>1, <4>5, <5>1 DEF TypeOK
        <5> QED
          BY <4>4, <5>1, <5>2 DEF KeepsHolders
      <4> QED
        BY <3>3, <4>2, <4>3, <4>5 DEF AddPeer
    <3> QED
      BY <2>3, <3>2, <3>3 DEF ReceivePair
  <2>4. ASSUME NEW n \in Mac,
               \/ ReceivePong(n) \/ ReceiveNewFrame(n) \/ ReceiveLegacyCommand(n)
               \/ \E p \in {"legacy", "new"} : RxTask(p)
        PROVE  FALSE
    <3>1. KeepsHolders /\ UNCHANGED <<radio, removing>>
      BY <1>1, <2>4, FrameHolders
    <3>2. Listed(m) => Listed(m)'
      BY <3>1, HoldersStay
    <3> QED
      BY <1>1, <2>1, <3>1, <3>2 DEF Stray
  <2>5. ASSUME NEW n \in Mac, MonitorDelete(n)
        PROVE  FALSE
    BY <1>1, <2>1, <2>5 DEF MonitorDelete, Stray, Listed, SlotsOf, Holds
  <2>6. CASE UNCHANGED vars
    BY <1>1, <2>1, <2>6 DEF vars, Stray, Listed, SlotsOf, Holds
  <2> QED
    BY <1>1, <2>2, <2>3, <2>4, <2>5, <2>6 DEF Next, Heard, Monitor
<1>2. TypeOK /\ [Next]_vars =>
        [\A m \in Mac : ~Stray(m) /\ Stray(m)' => FreeSlots = {}]_vars
  BY <1>1
<1> QED
  BY <1>2, TypeCorrect, PTL DEF Spec, StrayOnlyWhenFull
=============================================================================
