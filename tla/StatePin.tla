------------------------------ MODULE StatePin ------------------------------
(***************************************************************************)
(* The connection state the bridge shows to grblHAL: the Telnet server     *)
(* (TcpServer) together with client_monitor_task (src/src/main.c), which   *)
(* polls it, and the STATE pin (src/src/grblHAL_advanced.c), which follows *)
(* what was polled.                                                        *)
(*                                                                         *)
(* The poll may find clients_mutex taken for longer than it waits; it then *)
(* counts no client at all.  The monitor has the lowest priority of the    *)
(* tasks involved, so anything may happen between its steps.               *)
(***************************************************************************)
EXTENDS TcpServer

CONSTANT
  Setups   \* settings the bridge may be started with

ASSUME StatePinAssumption ==
  Setups \subseteq [state_pin_mode : 0..1, client_mode : 0..2, reset_on_disconnect : BOOLEAN]

VARIABLES
  setup,            \* state_pin_mode, 0 low and 1 high when connected; client_mode, 0 any
                    \* client, 1 Telnet, 2 ESP-NOW; reset_on_disconnect; as loaded at boot
  paired,           \* espnow_is_paired: a device is in the ESP-NOW table
  monitor,          \* what client_monitor_task does next: "count" or "update"
  telnet_connected, \* its local variable
  current,          \* current_telnet and current_espnow
  level             \* the level of the STATE pin

pinVars == <<setup, paired, monitor, telnet_connected, current, level>>
vars == <<tcpVars, pinVars>>

\* is_any_client_connected.
AnyConnected(flags) ==
  CASE setup.client_mode = 0 -> flags.telnet \/ flags.espnow
    [] setup.client_mode = 1 -> flags.telnet
    [] setup.client_mode = 2 -> flags.espnow

\* update_state_pin.
LevelFor(connected) ==
  IF setup.state_pin_mode = 0 THEN IF connected THEN 0 ELSE 1
  ELSE IF connected THEN 1 ELSE 0

-----------------------------------------------------------------------------
\* grblHAL_advanced_init sets the pin before the monitor is started; the server
\* and ESP-NOW run already.
PinInit ==
  /\ setup \in Setups
  /\ paired \in BOOLEAN
  /\ monitor = "count" /\ telnet_connected = FALSE
  /\ current = [telnet |-> FALSE, espnow |-> FALSE]
  /\ level = LevelFor(FALSE)

\* A device is paired, or the last one leaves; see PeerTable.
PairOrUnpair ==
  /\ paired' = ~paired
  /\ UNCHANGED <<tcpVars, setup, monitor, telnet_connected, current, level>>

\* tcp_server_get_client_count, for client_monitor_task, which finds the mutex free ...
Count ==
  /\ monitor = "count"
  /\ monitor' = "update"
  /\ ~Holding
  /\ telnet_connected' = (Connected # {})
  /\ UNCHANGED <<tcpVars, setup, paired, current, level>>

\* ... or does not get it within 100 ms.
CountTimesOut ==
  /\ monitor = "count"
  /\ monitor' = "update"
  /\ Holding
  /\ telnet_connected' = FALSE
  /\ UNCHANGED <<tcpVars, setup, paired, current, level>>

\* Mutant of Changed: only the Telnet flag is compared.
ChangedTelnet(flags) == current.telnet # flags.telnet

Changed(flags) == current # flags

\* The rest of a round of the monitor: espnow_is_paired,
\* grblHAL_advanced_update_state and the delay of 500 ms.
UpdateState ==
  /\ monitor = "update"
  /\ monitor' = "count"
  /\ LET flags == [telnet |-> telnet_connected, espnow |-> paired] IN
       /\ current' = flags
       /\ level' = IF Changed(flags) THEN LevelFor(AnyConnected(flags)) ELSE level
  /\ telnet_connected' = FALSE
  /\ UNCHANGED <<tcpVars, setup, paired>>

-----------------------------------------------------------------------------
Init == TcpInit /\ PinInit

Monitor == Count \/ CountTimesOut \/ UpdateState

Next ==
  \/ (Client \/ Server(setup.reset_on_disconnect)) /\ UNCHANGED pinVars
  \/ PairOrUnpair
  \/ Monitor

ServerStep == Server(setup.reset_on_disconnect) /\ UNCHANGED pinVars

\* Every task runs again and again, and a send ends: its client reads, or is
\* found to be gone.
Fairness == WF_vars(ServerStep) /\ WF_vars(Monitor)

Spec == Init /\ [][Next]_vars /\ Fairness

-----------------------------------------------------------------------------
Phases == {"start", "deleted", "select", "accept", "count", "recv", "drain", "send"}

TypeOK ==
  /\ pc \in Phases
  /\ tcp_clients \in [Slot -> Socket \cup {Free}]
  /\ at \in 1..MaxClients + 1
  /\ readfds \subseteq Socket \cup {Listener}
  /\ peer \in [Socket -> {"none", "here", "gone"}]
  /\ inbox \in [Socket -> 0..Inbox]
  /\ backlog \in 0..Waiting
  /\ chunks \in 0..Chunks
  /\ served \subseteq Socket
  /\ toSerial \in {"nothing", "data", "ctrlX"}
  /\ setup \in Setups /\ paired \in BOOLEAN
  /\ monitor \in {"count", "update"} /\ telnet_connected \in BOOLEAN
  /\ current \in [telnet : BOOLEAN, espnow : BOOLEAN]
  /\ level \in 0..1

\* Every open descriptor is in the table, once, and every entry is open: whatever
\* way clients come and go, none is leaked and none is closed under another.
SocketsOwned ==
  /\ Connected = Socket \ FreeDescriptors
  /\ \A s, t \in Slot : s # t /\ tcp_clients[s] # Free => tcp_clients[s] # tcp_clients[t]

\* recv, which has no time-out and is called with the mutex held, never waits:
\* what select found ready is still open, still the same client's and still ready.
RecvNeverWaits ==
  pc = "recv" /\ at \in Slot /\ Selected(at) => Readable(tcp_clients[at])

\* A chunk reaches every client that is in the table when it is done with,
\* however many of the others failed.
ChunkReachesAll ==
  [][pc = "send" /\ pc' = "drain" => Connected' \subseteq served]_vars

\* The server turns to its listener and its clients again and again, although it
\* waits for its own mutex after each new client, unless it could not start or
\* the UART never leaves it a free moment.  Every send is taken to end (Fairness): the
\* code sets no time-out on it.
ServerComesBack ==
  []<>(pc = "select") \/ <>(pc = "deleted") \/ []<><<UartChunk>>_vars

\* The two sources the pin may be about, and whether there is a client at one of them.
TelnetThere == setup.client_mode # 2 /\ Connected # {}
EspnowThere == setup.client_mode # 1 /\ paired

\* The STATE pin follows: when the clients it is about are gone for good it ends
\* up saying so, and while one source keeps a client it says so again and again.
\* Not always, and for Telnet only if the monitor gets the mutex now and then: a
\* poll that finds it taken shows the clients gone.
PinFollows ==
  /\ <>[](~TelnetThere /\ ~EspnowThere) => <>[](level = LevelFor(FALSE))
  /\ <>[]TelnetThere /\ []<><<Count>>_vars => []<>(level = LevelFor(TRUE))
  /\ <>[]EspnowThere => []<>(level = LevelFor(TRUE))

\* src/README.md: with Reset on Telnet Disconnect enabled the bridge sends 0x18
\* to the controller when the Telnet client disconnects.
LeaveIsReset ==
  [][setup.reset_on_disconnect /\ (\E s \in Slot : tcp_clients[s] # Free /\ tcp_clients'[s] = Free)
       => toSerial' = "ctrlX"]_vars

=============================================================================
