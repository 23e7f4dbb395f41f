------------------------------ MODULE PeerTable ------------------------------
(***************************************************************************)
(* The ESP-NOW peer table of the bridge (src/src/espnow_handler.c): which  *)
(* devices hold one of the MAX_ESPNOW_PEERS entries, which of them the     *)
(* radio driver knows, and how the monitor task probes and evicts them.    *)
(*                                                                         *)
(* Three tasks share the table under peers_mutex: the receive callback (in *)
(* the WiFi task), the two receive tasks behind their queues, and the      *)
(* monitor.  The chip has one core and the WiFi task outranks the others,  *)
(* so the callback is one step; the monitor gives the mutex back before it *)
(* tells the radio driver to forget the peers it evicted, so its deletions *)
(* are steps of their own and the callback may run in between.             *)
(*                                                                         *)
(* Time is counted in passes of the monitor, one second each: idle and     *)
(* sincePing are the passes since last_activity_ms and last_ping_ms.  A    *)
(* pass may see up to one pass more than it counts (Slack), because the    *)
(* activity and the pass are not aligned and a delay ends on a clock tick. *)
(***************************************************************************)
EXTENDS Integers, Sequences, FiniteSets

CONSTANTS
  Mac,             \* the devices in range
  NoMac,           \* the address of an entry that is not active
  MaxPeers,        \* MAX_ESPNOW_PEERS, the entries of the table
  RadioPeers,      \* unicast peers the radio driver can hold
  PingIdle,        \* ESPNOW_PING_IDLE_MS, in passes
  PingInterval,    \* ESPNOW_PING_INTERVAL_MS, in passes, rounded up
  PingMaxRetries,  \* ESPNOW_PING_MAX_RETRIES
  RxQueueSize      \* ESPNOW_RX_QUEUE_SIZE and ESPNOW_LEGACY_RX_QUEUE_SIZE

ASSUME PeerTableAssumption ==
  /\ NoMac \notin Mac
  /\ MaxPeers \in Nat \ {0}
  /\ RadioPeers \in Nat
  /\ PingIdle \in Nat
  /\ PingInterval \in Nat \ {0}
  /\ PingMaxRetries \in Nat \ {0}
  /\ RxQueueSize \in Nat

VARIABLES
  peers,     \* peers[s]: the entry in slot s
  radio,     \* the unicast peers of the radio driver
  rxQueue,   \* rxQueue[p]: senders of the frames waiting for the task of protocol p
  removing   \* remove_macs: evicted, not yet deleted from the radio

vars == <<peers, radio, rxQueue, removing>>

Slot == 1..MaxPeers
Protocol == {"unknown", "legacy", "new"}
Slack == {0, 1}

\* last_activity_ms, ping_retries and last_ping_ms.
Clock == [idle : Nat, retries : 0..PingMaxRetries, sincePing : Nat]

Entry == [active : BOOLEAN, mac : Mac \cup {NoMac}, protocol : Protocol,
          clock : Clock]

Restarted == [idle |-> 0, retries |-> 0, sincePing |-> 0]

\* A cleared entry: memset to zero.
Cleared == [active |-> FALSE, mac |-> NoMac, protocol |-> "unknown",
            clock |-> Restarted]

\* Mutant of Fresh: the entry is filled but never marked active.
FreshInactive(m, p) ==
  [active |-> FALSE, mac |-> m, protocol |-> p, clock |-> Restarted]

\* A new entry: all zero but for the address, the protocol and the time.
Fresh(m, p) == [active |-> TRUE, mac |-> m, protocol |-> p, clock |-> Restarted]

Holds(s, m) == peers[s].active /\ peers[s].mac = m
SlotsOf(m) == {s \in Slot : Holds(s, m)}
Listed(m) == SlotsOf(m) # {}
FreeSlots == {s \in Slot : ~peers[s].active}

\* Mutant of Touched: activity leaves the retries of an earlier probe.
TouchedKeepsRetries(e) == [e EXCEPT !.clock.idle = 0]

\* Heard from: the idle clock restarts and the probing is forgotten.
Touched(e) == [e EXCEPT !.clock = Restarted]

\* mark_peer_activity, on the table t.
Marked(t, m) ==
  [s \in Slot |-> IF t[s].active /\ t[s].mac = m THEN Touched(t[s]) ELSE t[s]]

\* The callback's "peers[idx].protocol = ...", on the table t.
Spoken(t, m, p) ==
  [s \in Slot |-> IF t[s].active /\ t[s].mac = m
                  THEN [t[s] EXCEPT !.protocol = p] ELSE t[s]]

-----------------------------------------------------------------------------
Init ==
  /\ peers = [s \in Slot |-> Cleared]
  /\ radio = {}
  /\ rxQueue = [p \in {"legacy", "new"} |-> <<>>]
  /\ removing = {}

\* Mutant of AddPeer: no look-up before the first free entry is taken.
AddPeerUnchecked(m, p) ==
  IF FreeSlots = {} THEN UNCHANGED peers
  ELSE \E s \in FreeSlots : /\ \A t \in FreeSlots : s <= t
                            /\ peers' = [peers EXCEPT ![s] = Fresh(m, p)]

\* add_peer_to_list: refresh the entry of m, or take the first free one, or
\* give up when the table is full.
AddPeer(m, p) ==
  \/ /\ Listed(m)
     /\ peers' = Spoken(Marked(peers, m), m, p)
  \/ /\ ~Listed(m)
     /\ \E s \in FreeSlots :
          /\ \A t \in FreeSlots : s <= t
          /\ peers' = [peers EXCEPT ![s] = Fresh(m, p)]
  \/ /\ ~Listed(m) /\ FreeSlots = {}
     /\ UNCHANGED peers

\* A PAIR of either protocol.  The radio peer comes first: when the driver is
\* full the frame is dropped, when the table is full the radio peer stays.
ReceivePair(m, p) ==
  /\ \/ /\ m \in radio \/ Cardinality(radio) < RadioPeers
        /\ radio' = radio \cup {m}
        /\ AddPeer(m, p)
     \/ /\ m \notin radio /\ Cardinality(radio) >= RadioPeers
        /\ UNCHANGED <<radio, peers>>
  /\ UNCHANGED <<rxQueue, removing>>

\* A legacy PONG of a peer.
ReceivePong(m) ==
  /\ Listed(m)
  /\ peers' = Spoken(Marked(peers, m), m, "legacy")
  /\ UNCHANGED <<radio, rxQueue, removing>>

\* xQueueSend without waiting: the frame is dropped when the queue is full.
Enqueue(p, m) ==
  rxQueue' = IF Len(rxQueue[p]) < RxQueueSize
             THEN [rxQueue EXCEPT ![p] = Append(@, m)] ELSE rxQueue

\* Any other frame of the new protocol: queued, and counted as activity only
\* when the receive task gets to it.
ReceiveNewFrame(m) ==
  /\ Listed(m)
  /\ peers' = Spoken(peers, m, "new")
  /\ Enqueue("new", m)
  /\ UNCHANGED <<radio, removing>>

\* A legacy command: activity at once, and queued unless it is a duplicate.
ReceiveLegacyCommand(m) ==
  /\ Listed(m)
  /\ peers' = Spoken(Marked(peers, m), m, "legacy")
  /\ Enqueue("legacy", m) \/ UNCHANGED rxQueue
  /\ UNCHANGED <<radio, removing>>

\* espnow_rx_task and espnow_legacy_rx_task: a frame of a peer that has been
\* evicted since it was queued is dropped.
RxTask(p) ==
  /\ rxQueue[p] # <<>>
  /\ rxQueue' = [rxQueue EXCEPT ![p] = Tail(@)]
  /\ peers' = Marked(peers, Head(rxQueue[p]))
  /\ UNCHANGED <<radio, removing>>

-----------------------------------------------------------------------------
\* Mutant of Aged: last_ping_ms moves on every pass, so no retry is ever due.
AgedRestartsPing(c) == [idle |-> c.idle + 1, retries |-> c.retries, sincePing |-> 0]

\* One more pass without a frame.
Aged(c) == [idle |-> c.idle + 1, retries |-> c.retries,
            sincePing |-> IF c.retries = 0 THEN 0 ELSE c.sincePing + 1]

\* Mutant of Pinged: a retry does not restart last_ping_ms.
PingedKeepsClock(c) == [c EXCEPT !.retries = @ + 1]

\* A probe goes out: PING or HEARTBEAT, by the entry's protocol.
Pinged(c) == [idle |-> c.idle, retries |-> c.retries + 1, sincePing |-> 0]

PingDue(c, slack) ==
  IF c.retries = 0 THEN c.idle + slack > PingIdle
                   ELSE c.sincePing + slack >= PingInterval

Unanswered(c, slack) == PingDue(c, slack) /\ c.retries = PingMaxRetries

\* What one pass does to an active entry.
Probed(e, slack) ==
  LET c == Aged(e.clock) IN
  IF Unanswered(c, slack) THEN Cleared
  ELSE [e EXCEPT !.clock = IF PingDue(c, slack) THEN Pinged(c) ELSE c]

\* espnow_peer_monitor_task up to xSemaphoreGive.
MonitorPass ==
  /\ removing = {}
  /\ \E slack \in [Slot -> Slack] :
       /\ peers' = [s \in Slot |->
                      IF peers[s].active THEN Probed(peers[s], slack[s])
                                         ELSE peers[s]]
       /\ removing' = {peers[s].mac : s \in
                         {t \in Slot : peers[t].active
                            /\ Unanswered(Aged(peers[t].clock), slack[t])}}
  /\ UNCHANGED <<radio, rxQueue>>

\* Mutant of MonitorDelete: the radio peer of an evicted entry is left behind.
MonitorForgets(m) ==
  /\ m \in removing
  /\ removing' = removing \ {m}
  /\ UNCHANGED <<peers, radio, rxQueue>>

\* The rest of the pass: esp_now_del_peer, without the mutex.
MonitorDelete(m) ==
  /\ m \in removing
  /\ removing' = removing \ {m}
  /\ radio' = radio \ {m}
  /\ UNCHANGED <<peers, rxQueue>>

-----------------------------------------------------------------------------
Heard(m) ==
  \/ \E p \in {"legacy", "new"} : ReceivePair(m, p)
  \/ ReceivePong(m)
  \/ ReceiveNewFrame(m)
  \/ ReceiveLegacyCommand(m)

Monitor == MonitorPass \/ \E m \in Mac : MonitorDelete(m)

Next ==
  \/ \E m \in Mac : Heard(m)
  \/ \E p \in {"legacy", "new"} : RxTask(p)
  \/ Monitor

Spec == Init /\ [][Next]_vars

-----------------------------------------------------------------------------
\* Every variable has the type of the code's data.
TypeOK ==
  /\ peers \in [Slot -> Entry]
  /\ radio \in SUBSET Mac
  /\ rxQueue \in [{"legacy", "new"} -> Seq(Mac)]
  /\ removing \in SUBSET Mac
  /\ \A s \in Slot : peers[s].active <=> peers[s].mac # NoMac

\* find_peer_index_locked stops at the first match: no device ever holds two
\* entries, whatever tasks run between the checks and the insertion.
NoDuplicateMac ==
  \A s, t \in Slot : peers[s].active /\ peers[s].mac = peers[t].mac => s = t

\* The longest silence an entry survives.
SilenceLimit == PingIdle + PingMaxRetries * PingInterval
\* The shortest silence that may cost an entry.
SilenceFloor == PingIdle + PingMaxRetries * (PingInterval - 1)

\* How the monitor's three clocks of an entry hang together, by the number of
\* probes sent so far: after the n-th one the silence is the idle time, n - 1
\* whole intervals (each up to a pass short) and the time since that probe.
ProbeClock ==
  \A s \in Slot : LET c == peers[s].clock IN
    IF c.retries = 0 THEN c.idle <= PingIdle
    ELSE /\ c.sincePing < PingInterval
         /\ PingIdle + (c.retries - 1) * (PingInterval - 1) + c.sincePing <= c.idle
         /\ c.idle <= PingIdle + 1 + (c.retries - 1) * PingInterval + c.sincePing

\* No device keeps its entry past SilenceLimit passes of silence: the
\* ping_retries and last_ping_ms bookkeeping never gets stuck.
SilentPeerEvicted == \A s \in Slot : peers[s].clock.idle <= SilenceLimit

\* The monitor frees an entry only after the whole idle time and every retry
\* went by in silence: a frame at any point of the probing restarts it.
EvictionNeedsSilence ==
  [][\A s \in Slot : peers[s].active /\ ~peers'[s].active
                       => peers[s].clock.idle + 1 >= SilenceFloor]_vars

\* Known to the radio driver, in no entry and not about to be deleted: nothing
\* will ever delete it unless it pairs again.
Stray(m) == m \in radio /\ ~Listed(m) /\ m \notin removing

\* A radio peer is stranded only by a PAIR that found the table full, never by
\* an eviction or by the window between the eviction and the deletion.
StrayOnlyWhenFull ==
  [][\A m \in Mac : ~Stray(m) /\ Stray(m)' => FreeSlots = {}]_vars

=============================================================================
