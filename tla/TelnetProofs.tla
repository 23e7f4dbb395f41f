---------------------------- MODULE TelnetProofs ----------------------------
(***************************************************************************)
(* The Telnet server and the STATE pin, for tables, descriptors and queues *)
(* of any size: proofs that the table and the open descriptors are the     *)
(* same set, that recv never waits with the mutex held, and that a chunk   *)
(* reaches every client that is still there after it.  And the LED, for    *)
(* blinks of any length: that its blinks tell who is connected.            *)
(*                                                                         *)
(* Three facts hold the proofs together.  AcceptsWaiting: accept is only   *)
(* called while a connection waits.  StillReadable: nothing but the server *)
(* itself makes a descriptor unreadable, so what select found ready stays  *)
(* ready until it is read.  SentSoFar: behind the entry the server has     *)
(* come to, every client has had the chunk.  For the LED there is a        *)
(* fourth, OnTheBeat: once it has settled, a spell of light or dark begins *)
(* with a phase of the machine and ends with it.                           *)
(***************************************************************************)
EXTENDS StatePin, StatusLed, FiniteSetTheorems, WellFoundedInduction, TLAPS

-----------------------------------------------------------------------------
(* Descriptors and entries                                                 *)

\* A set of numbers that is not empty has a least one.  (The intervals from 1 to
\* its members are finite sets, and these are well-founded by inclusion.)
LEMMA LeastIsMember ==
  ASSUME NEW S \in SUBSET Nat, S # {}
  PROVE  Least(S) \in S
<1> DEFINE T == {1..n : n \in S}
<1>1. \A n \in Nat : 1..n \in SUBSET Nat /\ IsFiniteSet(1..n)
  BY FS_Interval
<1>2. T \subseteq {U \in SUBSET Nat : IsFiniteSet(U)} /\ T # {}
  BY <1>1
<1>3. T \subseteq FiniteSubsetsOf(Nat) /\ T # {}
  BY <1>2 DEF FiniteSubsetsOf
<1> HIDE DEF T
<1>4. PICK X \in T : \A Y \in T : ~(<<Y, X>> \in StrictSubsetOrdering(Nat))
  BY <1>3, FS_StrictSubsetOrderingWellFounded, WFMin
<1>5. PICK x \in S : X = 1..x
  BY DEF T
<1>6. ASSUME NEW y \in S PROVE x <= y
  <2>1. 1..y \in T /\ 1..y \in SUBSET Nat /\ 1..x \in SUBSET Nat
    BY DEF T
  <2>2. ~(<<1..y, 1..x>> \in StrictSubsetOrdering(Nat))
    BY <2>1, <1>4, <1>5
  <2>3. ~(1..y \subseteq 1..x /\ 1..y # 1..x)
    BY <2>1, <2>2 DEF StrictSubsetOrdering
  <2>4. SUFFICES ASSUME x > y PROVE FALSE
    BY <1>5
  <2>5. x \in 1..x /\ x \notin 1..y /\ 1..y \subseteq 1..x
    BY <2>4
  <2> QED
    BY <2>3, <2>5
<1> QED
  BY <1>6 DEF Least

\* Entries and descriptors are numbers, and neither a free entry nor the listener is
\* a client's descriptor.
LEMMA Numbers ==
  /\ Slot \subseteq Nat /\ Socket \subseteq Nat
  /\ Free \notin Socket /\ Listener \notin Socket /\ Free # Listener
BY TcpServerAssumption DEF Slot, Socket, Free, Listener

LEMMA ConnectedAreSockets == TypeOK => Connected \subseteq Socket
BY DEF TypeOK, Connected

\* What Accept picks is free.
LEMMA AcceptPicks ==
  ASSUME FreeDescriptors # {}, FreeSlots # {}
  PROVE  /\ Least(FreeDescriptors) \in Socket /\ peer[Least(FreeDescriptors)] = "none"
         /\ Least(FreeSlots) \in Slot /\ tcp_clients[Least(FreeSlots)] = Free
<1>1. FreeDescriptors \in SUBSET Nat /\ FreeSlots \in SUBSET Nat
  BY Numbers DEF FreeDescriptors, FreeSlots
<1>2. Least(FreeDescriptors) \in FreeDescriptors /\ Least(FreeSlots) \in FreeSlots
  BY <1>1, LeastIsMember
<1> QED
  BY <1>2 DEF FreeDescriptors, FreeSlots

-----------------------------------------------------------------------------
(* Types                                                                   *)

AcceptsWaiting == pc = "accept" => backlog > 0

Typed == TypeOK /\ AcceptsWaiting

LEMMA ClientTyped ==
  ASSUME Typed, Client, UNCHANGED pinVars
  PROVE  Typed'
<1>1. CASE Connect \/ UartChunk
  BY <1>1, TcpServerAssumption
     DEF Typed, TypeOK, AcceptsWaiting, pinVars, Connect, UartChunk, Environment, Quiet
<1>2. ASSUME NEW d \in Socket, ClientSends(d) \/ ClientLeaves(d)
      PROVE  Typed'
  BY <1>2, TcpServerAssumption
     DEF Typed, TypeOK, AcceptsWaiting, pinVars, ClientSends, ClientLeaves, Environment, Quiet
<1> QED
  BY <1>1, <1>2 DEF Client

LEMMA LevelTyped == \A connected : LevelFor(connected) \in 0..1
BY DEF LevelFor

LEMMA MonitorTyped ==
  ASSUME Typed, PairOrUnpair \/ Monitor
  PROVE  Typed'
<1>1. CASE PairOrUnpair
  <2>1. paired' \in BOOLEAN
    BY <1>1 DEF PairOrUnpair
  <2> QED
    BY <1>1, <2>1 DEF Typed, TypeOK, AcceptsWaiting, tcpVars, PairOrUnpair
<1>2. CASE Count \/ CountTimesOut
  <2>1. telnet_connected' \in BOOLEAN
    BY <1>2 DEF Count, CountTimesOut
  <2>2. monitor' = "update" /\ UNCHANGED <<tcpVars, setup, paired, current, level>>
    BY <1>2 DEF Count, CountTimesOut
  <2> QED
    BY <2>1, <2>2 DEF Typed, TypeOK, AcceptsWaiting, tcpVars
<1>3. CASE UpdateState
  <2>1. current' = [telnet |-> telnet_connected, espnow |-> paired]
    BY <1>3 DEF UpdateState
  <2>2. level' \in 0..1
    BY <1>3, LevelTyped DEF UpdateState, Typed, TypeOK
  <2>3. monitor' = "count" /\ telnet_connected' = FALSE /\ UNCHANGED <<tcpVars, setup, paired>>
    BY <1>3 DEF UpdateState
  <2> QED
    BY <2>1, <2>2, <2>3 DEF Typed, TypeOK, AcceptsWaiting, tcpVars
<1> QED
  BY <1>1, <1>2, <1>3 DEF Monitor

LEMMA CloseTyped ==
  ASSUME TypeOK, NEW s \in Slot, tcp_clients[s] # Free, Close(s)
  PROVE  /\ tcp_clients' \in [Slot -> Socket \cup {Free}]
         /\ peer' \in [Socket -> {"none", "here", "gone"}]
         /\ inbox' \in [Socket -> 0..Inbox]
BY TcpServerAssumption DEF TypeOK, Close

LEMMA ServerTyped ==
  ASSUME Typed, NEW r, Server(r), UNCHANGED pinVars
  PROVE  Typed'
<1>1. CASE Listen \/ ListenFails \/ RecvDone \/ TakeChunk \/ NoChunk \/ SendDone
  BY <1>1, TcpServerAssumption
     DEF Typed, TypeOK, AcceptsWaiting, pinVars, Listen, ListenFails, RecvDone, TakeChunk,
         NoChunk, SendDone, Quiet, Phases
<1>2. CASE Select
  <2>1. Listener \in Ready => backlog > 0
    BY Numbers, ConnectedAreSockets DEF Ready, Typed, TypeOK
  <2>2. Ready \subseteq Socket \cup {Listener}
    BY ConnectedAreSockets DEF Ready, Typed
  <2> QED
    BY <1>2, <2>1, <2>2, TcpServerAssumption
       DEF Typed, TypeOK, AcceptsWaiting, pinVars, Select, Quiet, Phases
<1>3. CASE Accept
  BY <1>3, AcceptPicks, TcpServerAssumption
     DEF Typed, TypeOK, AcceptsWaiting, pinVars, Accept, Quiet, Phases
<1>4. CASE Reject \/ AcceptFails \/ CountWithin
  BY <1>4, TcpServerAssumption
     DEF Typed, TypeOK, AcceptsWaiting, pinVars, Reject, AcceptFails, CountWithin, Quiet,
         Phases
<1>5. CASE Pass \/ SkipFree
  BY <1>5, TcpServerAssumption
     DEF Typed, TypeOK, AcceptsWaiting, pinVars, Pass, SkipFree, Quiet, Phases, Slot
<1>6. CASE RecvData
  BY <1>6, TcpServerAssumption
     DEF Typed, TypeOK, AcceptsWaiting, pinVars, RecvData, Selected, Phases, Slot
<1>7. CASE SendAll
  BY <1>7, TcpServerAssumption
     DEF Typed, TypeOK, AcceptsWaiting, pinVars, SendAll, Quiet, Phases, Slot
<1>8. CASE RecvEnd(r) \/ SendFails
  BY <1>8, CloseTyped, TcpServerAssumption
     DEF Typed, TypeOK, AcceptsWaiting, pinVars, RecvEnd, SendFails, Selected, Quiet, Phases,
         Slot
<1> QED
  BY <1>1, <1>2, <1>3, <1>4, <1>5, <1>6, <1>7, <1>8 DEF Server

LEMMA TypedInductive ==
  /\ Init => Typed
  /\ Typed /\ [Next]_vars => Typed'
<1>1. Init => Typed
  <2> SUFFICES ASSUME TcpInit, PinInit PROVE Typed
    BY DEF Init
  <2>1. level \in 0..1
    BY LevelTyped DEF PinInit
  <2>2. /\ setup \in Setups /\ paired \in BOOLEAN
        /\ monitor \in {"count", "update"} /\ telnet_connected \in BOOLEAN
        /\ current \in [telnet : BOOLEAN, espnow : BOOLEAN]
    BY DEF PinInit
  <2> QED
    BY <2>1, <2>2, TcpServerAssumption DEF TcpInit, Typed, TypeOK, AcceptsWaiting, Phases
<1>2. Typed /\ UNCHANGED vars => Typed'
  BY DEF Typed, TypeOK, AcceptsWaiting, vars, tcpVars, pinVars
<1> QED
  BY <1>1, <1>2, ClientTyped, MonitorTyped, ServerTyped DEF Next

\* Every variable of the server, of the monitor and of the pin keeps its type; the
\* count of waiting connections never goes below zero, and no entry is read or
\* closed that is not in the table.
THEOREM TypeCorrect == Spec => []TypeOK
<1>1. Typed => TypeOK
  BY DEF Typed
<1> QED
  BY <1>1, TypedInductive, PTL DEF Spec
-----------------------------------------------------------------------------
(* Who owns which descriptor                                               *)

Owned == Typed /\ SocketsOwned

\* Connected after one entry has changed.
LEMMA EntryTaken ==
  ASSUME NEW s \in Slot, NEW d \in Socket, tcp_clients \in [Slot -> Socket \cup {Free}],
         tcp_clients[s] = Free, tcp_clients' = [tcp_clients EXCEPT ![s] = d]
  PROVE  Connected' = Connected \cup {d}
<1>1. d # Free
  BY Numbers
<1>2. \A t \in Slot : tcp_clients'[t] = IF t = s THEN d ELSE tcp_clients[t]
  OBVIOUS
<1> QED
  BY <1>1, <1>2 DEF Connected

LEMMA EntryFreed ==
  ASSUME TypeOK, SocketsOwned, NEW s \in Slot, tcp_clients[s] # Free,
         tcp_clients' = [tcp_clients EXCEPT ![s] = Free]
  PROVE  Connected' = Connected \ {tcp_clients[s]}
<1>1. \A t \in Slot : tcp_clients'[t] = IF t = s THEN Free ELSE tcp_clients[t]
  BY DEF TypeOK
<1>2. \A t \in Slot : t # s => tcp_clients[t] # tcp_clients[s]
  BY DEF SocketsOwned
<1> QED
  BY <1>1, <1>2 DEF Connected

LEMMA CloseOwned ==
  ASSUME TypeOK, SocketsOwned, NEW s \in Slot, tcp_clients[s] # Free, Close(s)
  PROVE  SocketsOwned'
<1>1. tcp_clients[s] \in Socket
  BY DEF TypeOK
<1>2. Connected' = Connected \ {tcp_clients[s]}
  BY EntryFreed DEF Close
<1>3. FreeDescriptors' = FreeDescriptors \cup {tcp_clients[s]}
  BY <1>1 DEF Close, FreeDescriptors, TypeOK
<1>4. Connected' = Socket \ FreeDescriptors'
  BY <1>2, <1>3 DEF SocketsOwned
<1>5. \A t, u \in Slot : t # u /\ tcp_clients'[t] # Free => tcp_clients'[t] # tcp_clients'[u]
  BY DEF SocketsOwned, TypeOK, Close
<1> QED
  BY <1>4, <1>5 DEF SocketsOwned

LEMMA AcceptOwned == Owned /\ Accept => SocketsOwned'
<1> SUFFICES ASSUME Owned, Accept PROVE SocketsOwned'
  OBVIOUS
<1> DEFINE d == Least(FreeDescriptors)
           s == Least(FreeSlots)
<1>1. d \in Socket /\ peer[d] = "none" /\ s \in Slot /\ tcp_clients[s] = Free
  BY AcceptPicks DEF Accept
<1>2. d \notin Connected
  BY <1>1 DEF Owned, SocketsOwned, FreeDescriptors
<1>3. tcp_clients' = [tcp_clients EXCEPT ![s] = d]
  BY DEF Accept
<1>4. PICK p \in {"here", "gone"} : peer' = [peer EXCEPT ![d] = p]
  BY DEF Accept
<1> HIDE DEF d, s
<1>5. Connected' = Connected \cup {d}
  BY <1>1, <1>3, EntryTaken DEF Owned, Typed, TypeOK
<1>6. FreeDescriptors' = FreeDescriptors \ {d}
  BY <1>1, <1>4 DEF FreeDescriptors, Owned, Typed, TypeOK
<1>7. Connected' = Socket \ FreeDescriptors'
  BY <1>1, <1>5, <1>6 DEF Owned, SocketsOwned, FreeDescriptors
<1>8. \A t \in Slot : tcp_clients[t] # d
  BY <1>1, <1>2, Numbers DEF Connected
<1>9. \A t, u \in Slot : t # u /\ tcp_clients'[t] # Free => tcp_clients'[t] # tcp_clients'[u]
  BY <1>1, <1>3, <1>8 DEF Owned, SocketsOwned, Typed, TypeOK
<1> QED
  BY <1>7, <1>9 DEF SocketsOwned

\* Nothing else touches the table, and nobody else opens or closes a descriptor.
LEMMA SameDescriptors ==
  ASSUME SocketsOwned, UNCHANGED tcp_clients, FreeDescriptors' = FreeDescriptors
  PROVE  SocketsOwned'
BY DEF SocketsOwned, Connected

LEMMA OwnedInductive ==
  /\ Init => Owned
  /\ Owned /\ [Next]_vars => Owned'
<1>1. Init => Owned
  <2> SUFFICES ASSUME Init PROVE SocketsOwned
    BY TypedInductive DEF Owned
  <2>1. Connected = {} /\ FreeDescriptors = Socket
    BY DEF Init, TcpInit, Connected, FreeDescriptors
  <2> QED
    BY <2>1 DEF SocketsOwned, Init, TcpInit
<1>2. ASSUME Owned, [Next]_vars PROVE Owned'
  <2>1. Typed /\ TypeOK /\ SocketsOwned
    BY <1>2 DEF Owned, Typed
  <2>2. Typed'
    BY <1>2, <2>1, TypedInductive
  <2>3. CASE UNCHANGED tcpVars
    BY <2>1, <2>2, <2>3, SameDescriptors DEF tcpVars, FreeDescriptors, Owned
  <2>4. CASE Client
    <3>1. FreeDescriptors' = FreeDescriptors /\ UNCHANGED tcp_clients
      BY <2>1, <2>4 DEF Client, Connect, UartChunk, ClientSends, ClientLeaves, Environment,
                        FreeDescriptors, TypeOK
    <3> QED
      BY <2>1, <2>2, <3>1, SameDescriptors DEF Owned
  <2>5. ASSUME NEW r, Server(r) PROVE Owned'
    <3>1. CASE Accept
      BY <1>2, <2>2, <3>1, AcceptOwned DEF Owned
    <3>2. CASE RecvEnd(r) \/ SendFails
      BY <2>1, <2>2, <3>2, CloseOwned DEF Owned, RecvEnd, SendFails, Selected
    <3>3. CASE UNCHANGED <<tcp_clients, peer>>
      BY <2>1, <2>2, <3>3, SameDescriptors DEF FreeDescriptors, Owned
    <3> QED
      BY <2>5, <3>1, <3>2, <3>3
         DEF Server, Listen, ListenFails, Select, Reject, AcceptFails, CountWithin, Pass,
             RecvData, RecvDone, TakeChunk, NoChunk, SkipFree, SendAll, SendDone
  <2> QED
    BY <1>2, <2>2, <2>3, <2>4, <2>5
       DEF Next, vars, PairOrUnpair, Monitor, Count, CountTimesOut, UpdateState
<1> QED
  BY <1>1, <1>2

\* Every open descriptor is in the table, once, and every entry is open, for any
\* number of entries and of descriptors, fewer or more: no client leaks one, and none
\* is closed under another.
THEOREM NoDescriptorLeaks == Spec => []SocketsOwned
<1>1. Owned => SocketsOwned
  BY DEF Owned
<1> QED
  BY <1>1, OwnedInductive, PTL DEF Spec

-----------------------------------------------------------------------------
(* Reading what select found                                               *)

StillReadable ==
  pc \in {"accept", "count", "recv"} => \A d \in readfds \ {Listener} : Readable(d)

Reading == Owned /\ StillReadable

\* Clients make descriptors readable and leave those that are.
LEMMA ClientsKeepReadable ==
  ASSUME TypeOK, Client, NEW d \in Socket, Readable(d)
  PROVE  Readable(d)'
BY TcpServerAssumption
   DEF TypeOK, Client, Connect, UartChunk, ClientSends, ClientLeaves, Environment, Readable

\* So does accepting a connection.
LEMMA AcceptKeepsReadable ==
  ASSUME TypeOK, Accept, NEW d \in Socket, Readable(d)
  PROVE  Readable(d)'
<1> DEFINE new == Least(FreeDescriptors)
<1>1. new \in Socket /\ peer[new] = "none"
  BY AcceptPicks DEF Accept
<1>2. inbox' = inbox /\ \E p \in {"here", "gone"} : peer' = [peer EXCEPT ![new] = p]
  BY DEF Accept
<1> QED
  BY <1>1, <1>2 DEF TypeOK, Readable

\* Reading an entry takes its descriptor out of readfds, and leaves the others alone.
LEMMA RecvKeepsReadable ==
  ASSUME Reading, NEW r, RecvData \/ RecvEnd(r)
  PROVE  StillReadable'
<1> SUFFICES ASSUME NEW d \in readfds' \ {Listener} PROVE Readable(d)'
  BY DEF StillReadable
<1>1. /\ at \in Slot /\ Selected(at) /\ pc = "recv"
      /\ readfds' = readfds \ {tcp_clients[at]}
  BY DEF RecvData, RecvEnd
<1>2. tcp_clients[at] \in Socket
  BY <1>1 DEF Reading, Owned, Typed, TypeOK, Selected
<1>3. d \in Socket /\ d # tcp_clients[at] /\ Readable(d)
  BY <1>1 DEF Reading, Owned, Typed, TypeOK, StillReadable
<1>4. inbox'[d] = inbox[d] /\ peer'[d] = peer[d]
  BY <1>2, <1>3 DEF RecvData, RecvEnd, Close, Reading, Owned, Typed, TypeOK
<1> QED
  BY <1>3, <1>4 DEF Readable

LEMMA ReadingInductive ==
  /\ Init => Reading
  /\ Reading /\ [Next]_vars => Reading'
<1>1. Init => Reading
  BY OwnedInductive DEF Reading, StillReadable, Init, TcpInit
<1>2. ASSUME Reading, [Next]_vars PROVE StillReadable'
  <2>1. Owned /\ Typed /\ TypeOK /\ StillReadable /\ readfds \subseteq Socket \cup {Listener}
    BY <1>2 DEF Reading, Owned, Typed, TypeOK
  <2>2. CASE UNCHANGED <<pc, readfds, inbox, peer>>
    BY <2>1, <2>2 DEF StillReadable, Readable
  <2>3. CASE Client
    <3>1. UNCHANGED <<pc, readfds>>
      BY <2>3 DEF Client, Connect, UartChunk, ClientSends, ClientLeaves, Environment
    <3>2. \A d \in readfds \ {Listener} : d \in Socket
      BY <2>1
    <3> QED
      BY <2>1, <2>3, <3>1, <3>2, ClientsKeepReadable DEF StillReadable
  <2>4. ASSUME NEW r, Server(r) PROVE StillReadable'
    <3>1. CASE Select
      <4>1. \A d \in Ready \ {Listener} : Readable(d)
        BY DEF Ready
      <4> QED
        BY <3>1, <4>1 DEF Select, StillReadable, Readable
    <3>2. CASE Accept
      <4>1. \A d \in readfds' \ {Listener} : d \in Socket /\ Readable(d)
        BY <2>1, <3>2 DEF Accept, StillReadable
      <4> QED
        BY <2>1, <3>2, <4>1, AcceptKeepsReadable DEF StillReadable
    <3>3. CASE Reject \/ AcceptFails \/ CountWithin
      BY <2>1, <3>3 DEF Reject, AcceptFails, CountWithin, StillReadable, Readable
    <3>4. CASE RecvData \/ RecvEnd(r)
      BY <1>2, <3>4, RecvKeepsReadable
    <3>5. CASE pc' \notin {"accept", "count", "recv"}
      BY <3>5 DEF StillReadable
    <3>6. CASE Pass
      BY <2>1, <3>6 DEF Pass, StillReadable, Readable
    <3> QED
      BY <2>4, <3>1, <3>2, <3>3, <3>4, <3>5, <3>6
         DEF Server, Listen, ListenFails, RecvDone, TakeChunk, NoChunk, SkipFree, SendAll,
             SendFails, SendDone
  <2> QED
    BY <1>2, <2>2, <2>3, <2>4
       DEF Next, vars, tcpVars, PairOrUnpair, Monitor, Count, CountTimesOut, UpdateState
<1> QED
  BY <1>1, <1>2, OwnedInductive DEF Reading

\* recv is called without a time-out and with clients_mutex held; it never waits,
\* however clients and connections come and go between select and the call.
THEOREM RecvDoesNotWait == Spec => []RecvNeverWaits
<1>1. Reading => RecvNeverWaits
  <2> SUFFICES ASSUME Reading, pc = "recv", at \in Slot, Selected(at)
               PROVE  Readable(tcp_clients[at])
    BY DEF RecvNeverWaits
  <2>1. tcp_clients[at] \in readfds \ {Listener}
    BY Numbers DEF Selected, Reading, Owned, Typed, TypeOK
  <2> QED
    BY <2>1 DEF Reading, StillReadable
<1> QED
  BY <1>1, ReadingInductive, PTL DEF Spec

-----------------------------------------------------------------------------
(* Sending a chunk                                                         *)

SentSoFar ==
  pc = "send" => \A s \in Slot : s < at /\ tcp_clients[s] # Free => tcp_clients[s] \in served

Sending == Typed /\ SentSoFar

LEMMA SendingInductive ==
  /\ Init => Sending
  /\ Sending /\ [Next]_vars => Sending'
<1>1. Init => Sending
  BY TypedInductive DEF Sending, SentSoFar, Init, TcpInit
<1>2. ASSUME Sending, [Next]_vars PROVE SentSoFar'
  <2>1. /\ at \in Nat /\ Slot \subseteq Nat /\ SentSoFar
        /\ tcp_clients \in [Slot -> Socket \cup {Free}]
    BY <1>2, Numbers, TcpServerAssumption DEF Sending, Typed, TypeOK
  <2>2. CASE UNCHANGED <<pc, tcp_clients, at, served>>
    BY <2>1, <2>2 DEF SentSoFar
  <2>3. CASE Client
    BY <2>1, <2>3
       DEF Client, Connect, UartChunk, ClientSends, ClientLeaves, Environment, SentSoFar
  <2>4. ASSUME NEW r, Server(r) PROVE SentSoFar'
    <3>1. CASE TakeChunk
      BY <3>1, Numbers DEF TakeChunk, SentSoFar, Slot
    <3>2. CASE SkipFree \/ SendAll
      BY <2>1, <3>2 DEF SkipFree, SendAll, SentSoFar
    <3>3. CASE SendFails
      BY <2>1, <3>3 DEF SendFails, Close, SentSoFar
    <3>4. CASE pc' # "send"
      BY <3>4 DEF SentSoFar
    <3> QED
      BY <2>4, <3>1, <3>2, <3>3, <3>4
         DEF Server, Listen, ListenFails, Select, Accept, Reject, AcceptFails, CountWithin,
             Pass, RecvData, RecvEnd, RecvDone, NoChunk, SendDone
  <2> QED
    BY <1>2, <2>2, <2>3, <2>4
       DEF Next, vars, tcpVars, PairOrUnpair, Monitor, Count, CountTimesOut, UpdateState
<1> QED
  BY <1>1, <1>2, TypedInductive DEF Sending

\* When the server is done with a chunk, every client then in the table has had all of
\* it, whichever of the others failed and were closed on the way.
THEOREM ChunksReachAll == Spec => ChunkReachesAll
<1>1. ASSUME Sending, Next, pc = "send", pc' = "drain"
      PROVE  Connected' \subseteq served
  <2>1. SendDone
    BY <1>1
       DEF Next, Client, Connect, UartChunk, ClientSends, ClientLeaves, Environment, Server,
           Listen, ListenFails, Select, Accept, Reject, AcceptFails, CountWithin, Pass,
           RecvData, RecvEnd, RecvDone, TakeChunk, NoChunk, SkipFree, SendAll, SendFails,
           PairOrUnpair, Monitor, Count, CountTimesOut, UpdateState, tcpVars
  <2>2. \A s \in Slot : s < at
    BY <1>1, <2>1, TcpServerAssumption DEF SendDone, Slot, Sending, Typed, TypeOK
  <2> QED
    BY <1>1, <2>1, <2>2 DEF SendDone, Sending, SentSoFar, Connected
<1>2. Sending /\ [Next]_vars =>
        [pc = "send" /\ pc' = "drain" => Connected' \subseteq served]_vars
  BY <1>1
<1> QED
  BY <1>2, SendingInductive, PTL DEF Spec, ChunkReachesAll

-----------------------------------------------------------------------------
(* The LED                                                                 *)

LedPhases == {"ON_SHORT", "OFF_SHORT", "ON_LONG", "OFF_LONG"}

LedType ==
  /\ led_state \in LedPhases \cup {"ON_SOLID"} /\ tick_counter \in Nat
  /\ last \in [espnow : BOOLEAN, telnet : BOOLEAN]
  /\ lit \in BOOLEAN /\ spell \in Nat /\ settled \in BOOLEAN

\* A phase meant for the clients last seen.
MeantFor(state) ==
  /\ state \in {"ON_SHORT", "OFF_SHORT"} => last.espnow
  /\ state \in {"ON_LONG", "OFF_LONG"} => last.telnet

\* The machine is in such a phase, and not past its end; without clients the LED is lit.
RightPhase ==
  /\ Nobody(last) => led_state = "ON_SOLID" /\ lit /\ ~settled
  /\ ~Nobody(last) => led_state \in LedPhases /\ tick_counter < Phase[led_state].ticks
  /\ MeantFor(led_state)

\* Within a phase the light is the phase's.  Once settled, the spell is as old as the
\* phase, and at the start of one it is the whole of the phase before.
WholePhase(state) ==
  /\ led_state = After(state) /\ MeantFor(state)
  /\ lit = Phase[state].light /\ spell = Phase[state].ticks

OnTheBeat ==
  /\ tick_counter > 0 => led_state \in LedPhases /\ lit = Phase[led_state].light
  /\ settled /\ tick_counter > 0 => spell = tick_counter
  /\ settled /\ tick_counter = 0 => \E state \in LedPhases : WholePhase(state)

LedInv == LedType /\ RightPhase /\ OnTheBeat

LEMMA PhaseValues ==
  /\ Phase["ON_SHORT"].light = TRUE /\ Phase["OFF_SHORT"].light = FALSE
  /\ Phase["ON_LONG"].light = TRUE /\ Phase["OFF_LONG"].light = FALSE
  /\ Phase["ON_SHORT"].ticks = ShortOn /\ Phase["OFF_SHORT"].ticks = ShortOff
  /\ Phase["ON_LONG"].ticks = LongOn /\ Phase["OFF_LONG"].ticks = LongOff
BY DEF Phase

LEMMA PhaseTicks ==
  /\ Longest \in Nat
  /\ \A state \in LedPhases : /\ Phase[state].ticks \in Nat /\ 0 < Phase[state].ticks
                             /\ Phase[state].ticks < Longest
<1>1. /\ ShortOn \in Nat \ {0} /\ ShortOff \in Nat \ {0}
      /\ LongOn \in Nat \ {0} /\ LongOff \in Nat \ {0}
  BY LedAssumption
<1> QED
  BY <1>1, PhaseValues DEF LedPhases, Longest

LEMMA PhaseLight ==
  ASSUME NEW state \in LedPhases
  PROVE  /\ state \in {"ON_SHORT", "ON_LONG"} => Phase[state].light = TRUE
         /\ state \in {"OFF_SHORT", "OFF_LONG"} => Phase[state].light = FALSE
         /\ Phase[state].light \in BOOLEAN
BY PhaseValues DEF LedPhases

\* A phase with the light on is followed by one with the light off, and the reverse.
LEMMA AfterTurns ==
  ASSUME NEW state \in LedPhases
  PROVE  /\ After(state) \in LedPhases
         /\ After(state) \in {"ON_SHORT", "ON_LONG"} <=> state \in {"OFF_SHORT", "OFF_LONG"}
BY DEF LedPhases, After

\* A phase meant for these clients is one of the spells meant for them.
LEMMA PhaseIsSpell ==
  ASSUME NEW state \in LedPhases, MeantFor(state)
  PROVE  \E t \in Spells(Phase[state].light) : t[3] = Phase[state].ticks
<1> DEFINE t(source) == <<source, Phase[state].light, Phase[state].ticks>>
<1>1. CASE state \in {"ON_SHORT", "OFF_SHORT"}
  <2>1. t("espnow") \in {<<"espnow", TRUE, ShortOn>>, <<"espnow", FALSE, ShortOff>>}
    BY <1>1, PhaseValues, Zenon
  <2>2. t("espnow") \in Spells(Phase[state].light)
    BY <1>1, <2>1 DEF Spells, MeantFor
  <2> QED
    BY <2>2
<1>2. CASE state \in {"ON_LONG", "OFF_LONG"}
  <2>1. t("telnet") \in {<<"telnet", TRUE, LongOn>>, <<"telnet", FALSE, LongOff>>}
    BY <1>2, PhaseValues, Zenon
  <2>2. t("telnet") \in Spells(Phase[state].light)
    BY <1>2, <2>1 DEF Spells, MeantFor
  <2> QED
    BY <2>2
<1> QED
  BY <1>1, <1>2 DEF LedPhases

\* Other clients: the machine starts over and nothing is settled.
LEMMA RestartKeepsBeat ==
  ASSUME LedInv, NEW seen \in [espnow : BOOLEAN, telnet : BOOLEAN],
         last' = seen, LedRestart(seen)
  PROVE  LedInv'
<1>1. /\ tick_counter' = 0 /\ settled' = FALSE
      /\ lit' = (lit \/ Nobody(seen)) /\ spell' \in Nat
  <2>1. Record(lit \/ Nobody(seen), TRUE) /\ tick_counter' = 0
    BY DEF LedRestart
  <2>2. settled' = FALSE /\ lit' = (lit \/ Nobody(seen))
    BY <2>1 DEF Record
  <2>3. spell' \in {1, spell, spell + 1}
    BY <2>1 DEF Record
  <2> QED
    BY <2>1, <2>2, <2>3 DEF LedInv, LedType
<1>2. led_state' = IF Nobody(seen) THEN "ON_SOLID"
                   ELSE IF seen.espnow THEN "ON_SHORT" ELSE "ON_LONG"
  BY DEF LedRestart
<1>3. LedType'
  BY <1>1, <1>2 DEF LedType, LedPhases
<1>4. RightPhase'
  <2> USE DEF Nobody
  <2>1. CASE Nobody(seen)
    BY <1>1, <1>2, <2>1 DEF RightPhase, MeantFor
  <2>2. CASE ~Nobody(seen)
    <3>1. MeantFor(led_state)'
      BY <1>2, <2>2 DEF MeantFor, Nobody
    <3>2. led_state' \in LedPhases
      BY <1>2, <2>2 DEF LedPhases
    <3>3. PICK new \in LedPhases : new = led_state'
      BY <3>2
    <3>4. tick_counter' < Phase[led_state'].ticks
      BY <1>1, <3>3, PhaseTicks
    <3> QED
      BY <2>2, <3>1, <3>2, <3>4 DEF RightPhase
  <2> QED
    BY <2>1, <2>2
<1>5. OnTheBeat'
  BY <1>1 DEF OnTheBeat
<1> QED
  BY <1>3, <1>4, <1>5 DEF LedInv

\* Nobody, as before: the LED stays lit.
LEMMA SolidKeepsBeat ==
  ASSUME LedInv, Nobody(last), last' = last, UNCHANGED <<led_state, tick_counter>>,
         Record(lit, FALSE)
  PROVE  LedInv'
<1>1. lit' = lit /\ settled' = settled /\ spell' \in Nat
  BY DEF LedInv, LedType, Record
<1>2. ~settled /\ led_state = "ON_SOLID"
  BY DEF LedInv, RightPhase
<1>3. LedType'
  BY <1>1 DEF LedInv, LedType
<1>4. RightPhase' /\ OnTheBeat'
  BY <1>1, <1>2 DEF LedInv, RightPhase, OnTheBeat, MeantFor, Nobody
<1> QED
  BY <1>3, <1>4 DEF LedInv

\* A tick within the blinks: the spell is a tick longer, or new with the phase.
LEMMA PhaseKeepsBeat ==
  ASSUME LedInv, ~Nobody(last), last' = last, LedPhase
  PROVE  LedInv'
<1> DEFINE ticks == Phase[led_state].ticks
<1>1. /\ led_state \in LedPhases /\ MeantFor(led_state)
      /\ tick_counter \in Nat /\ spell \in Nat /\ tick_counter < ticks
  BY DEF LedInv, LedType, RightPhase
<1>2. ticks \in Nat /\ 0 < ticks /\ ticks < Longest /\ Longest \in Nat
  BY <1>1, PhaseTicks
<1>3. After(led_state) \in LedPhases /\ MeantFor(After(led_state))
  BY <1>1 DEF LedPhases, After, MeantFor, Both, Nobody
<1>4. /\ lit' = Phase[led_state].light /\ lit' \in BOOLEAN
      /\ settled' = (settled \/ lit' # lit) /\ settled' \in BOOLEAN
      /\ spell' = IF lit' # lit THEN 1 ELSE IF spell < Longest THEN spell + 1 ELSE spell
  BY <1>1, PhaseLight DEF LedPhase, Record, LedInv, LedType
<1>5. spell' \in Nat
  BY <1>1, <1>4
<1>6. ASSUME settled' PROVE spell' = tick_counter + 1
  <2>1. CASE tick_counter > 0
    <3>1. lit' = lit
      BY <1>4, <2>1 DEF LedInv, OnTheBeat
    <3>2. spell = tick_counter
      BY <1>4, <1>6, <2>1, <3>1 DEF LedInv, OnTheBeat
    <3>3. spell' = IF spell < Longest THEN spell + 1 ELSE spell
      BY <1>4, <3>1
    <3> QED
      BY <1>1, <1>2, <3>2, <3>3
  <2>2. CASE tick_counter = 0
    <3>1. ASSUME settled PROVE lit' # lit
      <4>1. PICK state \in LedPhases : led_state = After(state) /\ lit = Phase[state].light
        BY <2>2, <3>1 DEF LedInv, OnTheBeat, WholePhase
      <4> QED
        BY <1>4, <4>1, PhaseLight, AfterTurns DEF LedPhases
    <3>2. lit' # lit
      BY <1>4, <1>6, <3>1
    <3>3. lit' # lit => spell' = 1
      BY <1>4
    <3> QED
      BY <2>2, <3>2, <3>3
  <2> QED
    BY <1>1, <2>1, <2>2
<1>7. CASE Over(led_state)
  <2>1. led_state' = After(led_state) /\ tick_counter' = 0 /\ tick_counter + 1 = ticks
    BY <1>1, <1>2, <1>7 DEF LedPhase, Over
  <2>2. LedType'
    BY <1>3, <1>4, <1>5, <2>1 DEF LedInv, LedType
  <2>3. RightPhase'
    <3>1. PICK new \in LedPhases : new = led_state'
      BY <1>3, <2>1
    <3>2. tick_counter' < Phase[led_state'].ticks
      BY <2>1, <3>1, PhaseTicks
    <3> QED
      BY <1>3, <2>1, <3>2 DEF RightPhase, MeantFor, Nobody
  <2>4. PICK old \in LedPhases : old = led_state
    BY <1>1
  <2>5. After(old)' = After(old) /\ MeantFor(old)'
    BY <1>1, <2>4 DEF After, Both, MeantFor
  <2>6. settled' => WholePhase(old)'
    BY <1>4, <1>6, <2>1, <2>4, <2>5 DEF WholePhase
  <2>7. OnTheBeat'
    BY <2>1, <2>6 DEF OnTheBeat
  <2> QED
    BY <2>2, <2>3, <2>7 DEF LedInv
<1>8. CASE ~Over(led_state)
  <2>1. led_state' = led_state /\ tick_counter' = tick_counter + 1 /\ tick_counter + 1 < ticks
    BY <1>1, <1>2, <1>8 DEF LedPhase, Over
  <2>2. LedType'
    BY <1>1, <1>4, <1>5, <2>1 DEF LedInv, LedType
  <2>3. RightPhase'
    BY <1>1, <2>1 DEF RightPhase, MeantFor, Nobody
  <2>4. OnTheBeat'
    BY <1>1, <1>4, <1>6, <2>1 DEF OnTheBeat
  <2> QED
    BY <2>2, <2>3, <2>4 DEF LedInv
<1> QED
  BY <1>7, <1>8

LEMMA LedInductive ==
  /\ LedInit => LedInv
  /\ LedInv /\ [LedNext]_ledVars => LedInv'
<1>1. LedInit => LedInv
  <2> SUFFICES ASSUME LedInit PROVE LedInv
    OBVIOUS
  <2>1. LedType
    BY DEF LedInit, LedType
  <2>2. led_state = "ON_SOLID" /\ Nobody(last) /\ lit /\ ~settled /\ tick_counter = 0
    BY DEF LedInit, Nobody
  <2> QED
    BY <2>1, <2>2 DEF LedInv, RightPhase, OnTheBeat, MeantFor
<1>2. LedInv /\ UNCHANGED ledVars => LedInv'
  <2> SUFFICES ASSUME LedInv, UNCHANGED ledVars PROVE LedInv'
    OBVIOUS
  <2>1. UNCHANGED <<led_state, tick_counter, last, lit, spell, settled>>
    BY DEF ledVars
  <2> QED
    BY <2>1 DEF LedInv, LedType, RightPhase, OnTheBeat, WholePhase, MeantFor, Nobody, After, Both
<1>3. LedInv /\ LedNext => LedInv'
  BY RestartKeepsBeat, SolidKeepsBeat, PhaseKeepsBeat DEF LedNext, Tick
<1> QED
  BY <1>2, <1>1, <1>3

\* The LED tells who is connected, however the phases are timed and whenever clients
\* come and go: lit while nobody is, and once settled no spell of light or dark is
\* longer than one of the blinks meant for these clients.
THEOREM LedIsRight == LedInit /\ [][LedNext]_ledVars => []LedShows
<1>1. LedInv => LedShows
  <2> SUFFICES ASSUME LedInv PROVE LedShows
    OBVIOUS
  <2>1. Nobody(last) => lit
    BY DEF LedInv, RightPhase
  <2>2. ASSUME settled PROVE \E t \in Spells(lit) : spell <= t[3]
    <3>1. led_state \in LedPhases /\ MeantFor(led_state) /\ tick_counter \in Nat
          /\ tick_counter < Phase[led_state].ticks
      BY <2>2 DEF LedInv, LedType, RightPhase
    <3>2. PICK state \in LedPhases : /\ MeantFor(state) /\ lit = Phase[state].light
                                      /\ spell \in Nat /\ spell <= Phase[state].ticks
      <4>1. CASE tick_counter > 0
        BY <2>2, <3>1, <4>1, PhaseTicks DEF LedInv, OnTheBeat
      <4>2. CASE tick_counter = 0
        <5>1. PICK state \in LedPhases : WholePhase(state)
          BY <2>2, <4>2 DEF LedInv, OnTheBeat
        <5> QED
          BY <5>1, PhaseTicks DEF WholePhase
      <4> QED
        BY <3>1, <4>1, <4>2
    <3>3. PICK t \in Spells(Phase[state].light) : t[3] = Phase[state].ticks
      BY <3>2, PhaseIsSpell
    <3> QED
      BY <3>2, <3>3
  <2> QED
    BY <2>1, <2>2 DEF LedShows
<1> QED
  BY <1>1, LedInductive, PTL

\* And none is shorter: while the same clients stay, the light changes when a blink
\* meant for them is over and not before.
THEOREM NoBlinkEndsEarly == LedInit /\ [][LedNext]_ledVars => LedSpells
<1>1. ASSUME LedInv, LedNext, settled, last' = last, lit' # lit
      PROVE  \E t \in Spells(lit) : spell = t[3]
  <2>1. ~Nobody(last)
    BY <1>1 DEF LedInv, RightPhase
  <2>2. LedPhase
    BY <1>1, <2>1 DEF LedNext, Tick
  <2>3. lit' = Phase[led_state].light
    BY <2>2 DEF LedPhase, Record
  <2>4. tick_counter = 0
    BY <1>1, <2>3 DEF LedInv, LedType, OnTheBeat
  <2>5. PICK state \in LedPhases : WholePhase(state)
    BY <1>1, <2>4 DEF LedInv, OnTheBeat
  <2> QED
    BY <2>5, PhaseIsSpell DEF WholePhase
<1>2. LedInv /\ [LedNext]_ledVars =>
        [settled /\ last' = last /\ lit' # lit => \E t \in Spells(lit) : spell = t[3]]_ledVars
  BY <1>1
<1> QED
  BY <1>2, LedInductive, PTL DEF LedSpells
=============================================================================
