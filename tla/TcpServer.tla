------------------------------ MODULE TcpServer ------------------------------
(***************************************************************************)
(* The Telnet server of the bridge (src/src/tcp_server.c): one task that   *)
(* accepts clients into a table of MAX_TCP_CLIENTS descriptors, hands what *)
(* they send to the UART and sends every chunk from the UART to all of     *)
(* them.                                                                   *)
(*                                                                         *)
(* The task never waits for one thing at a time: it selects, and acts on   *)
(* what select found while the clients go on sending, leaving and          *)
(* connecting.  clients_mutex guards the table against the two tasks that  *)
(* count its entries; the server holds it over calls that take long.       *)
(*                                                                         *)
(* A descriptor is a number the library gives again once it is closed.     *)
(* What the clients send is abstracted to how much of it waits.            *)
(***************************************************************************)
EXTENDS Integers, FiniteSets

CONSTANTS
  MaxClients,   \* MAX_TCP_CLIENTS
  Sockets,      \* descriptors the TCP/IP library has for this server's clients
  Waiting,      \* connections it keeps until they are accepted, a backlog of
                \* at least MAX_TCP_CLIENTS
  Inbox,        \* bound on what a client has sent and nobody has read yet
  Chunks        \* length of the UART's queue of chunks for the clients

ASSUME TcpServerAssumption ==
  /\ MaxClients \in Nat \ {0} /\ Sockets \in Nat
  /\ Waiting \in Nat /\ Inbox \in Nat /\ Chunks \in Nat \ {0}

VARIABLES
  pc,            \* what the server task does next
  tcp_clients,   \* the table: a descriptor, or Free
  at,            \* i, the entry the server has come to
  readfds,       \* what select found ready and the server has not yet read;
                 \* Listener among it
  peer,          \* peer[d]: who is at the other end of descriptor d, if it is open
  inbox,         \* inbox[d]: how much of what it has sent waits
  backlog,       \* connections waiting to be accepted
  chunks,        \* chunks in uart_data_queue
  served,        \* the descriptors the chunk in hand has been sent to in full
  toSerial       \* what the last step handed to serial_send_data

tcpVars == <<pc, tcp_clients, at, readfds, peer, inbox, backlog, chunks, served,
             toSerial>>

Slot == 1..MaxClients
Socket == 1..Sockets
Free == -1
Listener == 0

Connected == {tcp_clients[s] : s \in Slot} \ {Free}

\* The phases in which the server holds clients_mutex, for longer than others
\* wait for it: while it counts within itself, reads and sends.
Holding == pc \in {"count", "recv", "send"}

\* recv would return at once: with bytes, or with the end of the connection.
Readable(d) == inbox[d] > 0 \/ peer[d] = "gone"

\* Nothing for the UART in this step.
Quiet == toSerial' = "nothing"

-----------------------------------------------------------------------------
TcpInit ==
  /\ pc = "start"
  /\ tcp_clients = [s \in Slot |-> Free]
  /\ at = 1
  /\ readfds = {}
  /\ peer = [d \in Socket |-> "none"]
  /\ inbox = [d \in Socket |-> 0]
  /\ backlog = 0
  /\ chunks = 0
  /\ served = {}
  /\ toSerial = "nothing"

\* socket, bind and listen.
Listen ==
  /\ pc = "start"
  /\ pc' = "select"
  /\ Quiet
  /\ UNCHANGED <<tcp_clients, at, readfds, peer, inbox, backlog, chunks, served>>

\* One of them fails: the task deletes itself, and nobody starts it again.
ListenFails ==
  /\ pc = "start"
  /\ pc' = "deleted"
  /\ Quiet
  /\ UNCHANGED <<tcp_clients, at, readfds, peer, inbox, backlog, chunks, served>>

-----------------------------------------------------------------------------
(* The clients, and the task that reads the UART                           *)

Environment == UNCHANGED <<pc, tcp_clients, at, readfds, served>> /\ Quiet

Connect ==
  /\ pc \notin {"start", "deleted"}
  /\ backlog < Waiting
  /\ backlog' = backlog + 1
  /\ Environment /\ UNCHANGED <<peer, inbox, chunks>>

ClientSends(d) ==
  /\ peer[d] = "here"
  /\ inbox[d] < Inbox
  /\ inbox' = [inbox EXCEPT ![d] = @ + 1]
  /\ Environment /\ UNCHANGED <<peer, backlog, chunks>>

\* It closes the connection, or the connection is lost.
ClientLeaves(d) ==
  /\ peer[d] = "here"
  /\ peer' = [peer EXCEPT ![d] = "gone"]
  /\ Environment /\ UNCHANGED <<inbox, backlog, chunks>>

\* A chunk from the UART; one that finds the queue full is dropped, see SerialHandler.
UartChunk ==
  /\ chunks < Chunks
  /\ chunks' = chunks + 1
  /\ Environment /\ UNCHANGED <<peer, inbox, backlog>>

-----------------------------------------------------------------------------
(* Accepting                                                               *)

\* What select leaves in readfds, given the listener and the table.
Ready == {d \in Connected : Readable(d)} \cup (IF backlog > 0 THEN {Listener} ELSE {})

\* select returns as soon as there is something to do, or after 50 ms with
\* nothing.  A failing select is tried again.
Select ==
  /\ pc = "select"
  /\ readfds' = Ready
  /\ pc' = IF Ready = {} THEN "drain" ELSE IF Listener \in Ready THEN "accept" ELSE "recv"
  /\ at' = 1
  /\ Quiet
  /\ UNCHANGED <<tcp_clients, peer, inbox, backlog, chunks, served>>

\* tcp_find_free_slot; 0 when there is none.
FreeSlots == {s \in Slot : tcp_clients[s] = Free}
FreeDescriptors == {d \in Socket : peer[d] = "none"}
Least(S) == CHOOSE x \in S : \A y \in S : x <= y

\* The connection gets the least descriptor that is free.  Its client may have
\* left while it waited.
Accept ==
  /\ pc = "accept"
  /\ FreeDescriptors # {} /\ FreeSlots # {}
  /\ LET d == Least(FreeDescriptors) IN
       /\ \E p \in {"here", "gone"} : peer' = [peer EXCEPT ![d] = p]
       /\ tcp_clients' = [tcp_clients EXCEPT ![Least(FreeSlots)] = d]
  /\ pc' = "count"
  /\ backlog' = backlog - 1
  /\ readfds' = readfds \ {Listener}
  /\ Quiet
  /\ UNCHANGED <<at, inbox, chunks, served>>

\* Mutant of Reject: the descriptor of the client that is turned away stays open.
RejectLeaves ==
  /\ pc = "accept"
  /\ FreeDescriptors # {} /\ FreeSlots = {}
  /\ peer' = [peer EXCEPT ![Least(FreeDescriptors)] = "gone"]
  /\ pc' = "recv"
  /\ backlog' = backlog - 1
  /\ readfds' = readfds \ {Listener}
  /\ Quiet
  /\ UNCHANGED <<tcp_clients, at, inbox, chunks, served>>

\* The table is full: accepted, shut down and closed.
Reject ==
  /\ pc = "accept"
  /\ FreeDescriptors # {} /\ FreeSlots = {}
  /\ pc' = "recv"
  /\ backlog' = backlog - 1
  /\ readfds' = readfds \ {Listener}
  /\ Quiet
  /\ UNCHANGED <<tcp_clients, at, peer, inbox, chunks, served>>

\* accept fails, for want of a descriptor or because the connection was aborted.
AcceptFails ==
  /\ pc = "accept"
  /\ pc' = "recv"
  /\ backlog' = backlog - 1
  /\ readfds' = readfds \ {Listener}
  /\ Quiet
  /\ UNCHANGED <<tcp_clients, at, peer, inbox, chunks, served>>

\* Mutant of CountWithin: it waits for the mutex without a time-out.
CountWithinWaits ==
  /\ pc = "count" /\ ~Holding
  /\ pc' = "recv"
  /\ Quiet
  /\ UNCHANGED <<tcp_clients, at, readfds, peer, inbox, backlog, chunks, served>>

\* tcp_server_get_client_count, called for a log line by the task that holds the
\* mutex: it waits for itself for 100 ms and logs 0.
CountWithin ==
  /\ pc = "count"
  /\ pc' = "recv"
  /\ Quiet
  /\ UNCHANGED <<tcp_clients, at, readfds, peer, inbox, backlog, chunks, served>>

-----------------------------------------------------------------------------
(* Reading                                                                 *)

\* Mutant of Close: a free entry is written as 0.
CloseToZero(s) ==
  /\ tcp_clients' = [tcp_clients EXCEPT ![s] = 0]
  /\ peer' = [peer EXCEPT ![tcp_clients[s]] = "none"]
  /\ inbox' = [inbox EXCEPT ![tcp_clients[s]] = 0]

\* close: the descriptor is free again, and its entry in the table.
Close(s) ==
  /\ tcp_clients' = [tcp_clients EXCEPT ![s] = Free]
  /\ peer' = [peer EXCEPT ![tcp_clients[s]] = "none"]
  /\ inbox' = [inbox EXCEPT ![tcp_clients[s]] = 0]

\* Mutant of Selected: an entry is read because it is in the table.
SelectedAnyway(s) == tcp_clients[s] # Free

\* Is entry s one recv is called for?
Selected(s) == tcp_clients[s] # Free /\ tcp_clients[s] \in readfds

\* The entry has nothing to read.
Pass ==
  /\ pc = "recv" /\ at \in Slot
  /\ ~Selected(at)
  /\ at' = at + 1
  /\ Quiet
  /\ UNCHANGED <<pc, tcp_clients, readfds, peer, inbox, backlog, chunks, served>>

\* Bytes, passed on to the UART with the mutex held.
RecvData ==
  /\ pc = "recv" /\ at \in Slot
  /\ Selected(at) /\ inbox[tcp_clients[at]] > 0
  /\ inbox' = [inbox EXCEPT ![tcp_clients[at]] = 0]
  /\ toSerial' = "data"
  /\ readfds' = readfds \ {tcp_clients[at]}
  /\ at' = at + 1
  /\ UNCHANGED <<pc, tcp_clients, peer, backlog, chunks, served>>

\* The end of the connection, or an error that leaves what was sent unread:
\* tcp_remove_client_locked and grblHAL_advanced_check_and_send_reset.
RecvEnd(resetOnDisconnect) ==
  /\ pc = "recv" /\ at \in Slot
  /\ Selected(at) /\ peer[tcp_clients[at]] = "gone"
  /\ Close(at)
  /\ toSerial' = IF resetOnDisconnect THEN "ctrlX" ELSE "nothing"
  /\ readfds' = readfds \ {tcp_clients[at]}
  /\ at' = at + 1
  /\ UNCHANGED <<pc, backlog, chunks, served>>

RecvDone ==
  /\ pc = "recv" /\ at \notin Slot
  /\ pc' = "drain"
  /\ Quiet
  /\ UNCHANGED <<tcp_clients, at, readfds, peer, inbox, backlog, chunks, served>>

-----------------------------------------------------------------------------
(* Sending                                                                 *)

\* xQueueReceive without waiting.
TakeChunk ==
  /\ pc = "drain"
  /\ chunks > 0
  /\ chunks' = chunks - 1
  /\ pc' = "send"
  /\ at' = 1
  /\ Quiet
  /\ UNCHANGED <<tcp_clients, readfds, peer, inbox, backlog, served>>

NoChunk ==
  /\ pc = "drain"
  /\ chunks = 0
  /\ pc' = "select"
  /\ readfds' = {}
  /\ Quiet
  /\ UNCHANGED <<tcp_clients, at, peer, inbox, backlog, chunks, served>>

SkipFree ==
  /\ pc = "send" /\ at \in Slot
  /\ tcp_clients[at] = Free
  /\ at' = at + 1
  /\ Quiet
  /\ UNCHANGED <<pc, tcp_clients, readfds, peer, inbox, backlog, chunks, served>>

\* tcp_send_all succeeds; the library takes bytes for a client that is gone, too,
\* until it notices.
SendAll ==
  /\ pc = "send" /\ at \in Slot
  /\ tcp_clients[at] # Free
  /\ served' = served \cup {tcp_clients[at]}
  /\ at' = at + 1
  /\ Quiet
  /\ UNCHANGED <<pc, tcp_clients, readfds, peer, inbox, backlog, chunks>>

\* Mutant of SendFails: the chunk is given up for the clients after this one.
SendFailsReturns ==
  /\ pc = "send" /\ at \in Slot
  /\ tcp_clients[at] # Free /\ peer[tcp_clients[at]] = "gone"
  /\ Close(at)
  /\ at' = MaxClients + 1
  /\ Quiet
  /\ UNCHANGED <<pc, readfds, backlog, chunks, served>>

\* It fails, perhaps with a part of the chunk sent: closed, and no Ctrl-X.
SendFails ==
  /\ pc = "send" /\ at \in Slot
  /\ tcp_clients[at] # Free /\ peer[tcp_clients[at]] = "gone"
  /\ Close(at)
  /\ at' = at + 1
  /\ Quiet
  /\ UNCHANGED <<pc, readfds, backlog, chunks, served>>

\* serial_free_data, and on to the next chunk.
SendDone ==
  /\ pc = "send" /\ at \notin Slot
  /\ pc' = "drain"
  /\ served' = {}
  /\ Quiet
  /\ UNCHANGED <<tcp_clients, at, readfds, peer, inbox, backlog, chunks>>

-----------------------------------------------------------------------------
Client ==
  \/ Connect \/ UartChunk
  \/ \E d \in Socket : ClientSends(d) \/ ClientLeaves(d)

Server(resetOnDisconnect) ==
  \/ Listen \/ ListenFails
  \/ Select \/ Accept \/ Reject \/ AcceptFails \/ CountWithin
  \/ Pass \/ RecvData \/ RecvEnd(resetOnDisconnect) \/ RecvDone
  \/ TakeChunk \/ NoChunk \/ SkipFree \/ SendAll \/ SendFails \/ SendDone

=============================================================================
