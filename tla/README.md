# Verification of the ESP32-C3 Telnet / ESP-NOW ↔ UART bridge

TLA+ models of the bridge's firmware (`src/src`) and of the two sketches that
talk to it (`src/examples`), checked with TLC on small instances, and theorems
about them proved with TLAPS for every value of the constants.

The models are written from the code. Where a name in a module equals a name in
the code (`peers`, `remove_macs` → `removing`, `sendGcodeLine` → `SendLine`), it
stands for that thing; `PROJECT.json` ("map") gives the lines of every
definition. Line numbers below refer to the commit in `src/`.

## 1. The system

An ESP32-C3 (one core, FreeRTOS) sits between a CNC controller on a UART and its
users: Telnet clients over WiFi, hand-held *pendants* over ESP-NOW (a "legacy"
protocol of ASCII words and numbered G-code lines), and *wireless sensors* (probe,
limit switches) over ESP-NOW with a newer, versioned protocol, whose commands
drive output pins of the bridge.

| component | code | state it keeps | operations | who calls it |
|---|---|---|---|---|
| peer table | `espnow_handler.c` 72-235, 691-982 | `peers[16]`, the radio driver's peers, two receive queues | add on PAIR, mark activity, probe, evict | receive callback (WiFi task), two receive tasks, monitor task |
| new protocol | `espnow_handler.c` 258-628, 984-1089 | per peer: session, last sequence number, its result; `output_state` | answer PAIR and HEARTBEAT, execute GPIO commands once, assign and unassign a function | receive callback, `espnow_rx_task`, web server task |
| sensor sketch | `examples/wireless_sensor` | session, sequence, pairing, function, heartbeat failures | pair, heartbeat, status request, command; start over | its own loop and receive callback |
| legacy protocol | `espnow_handler.c` 457-488, 630-689, 702-729, 818-846 | per peer: last legacy sequence number | acknowledge, filter duplicates, queue, forward to the UART | receive callback, `espnow_legacy_rx_task` |
| pendant sketch | `examples/espnow_pendant` | sequence, last acknowledgement, pairing | send a line and wait, send a realtime command | its loop, web handlers and receive callback |
| serial handler | `serial_handler.c` | pool of 10 buffers, three queues of 50 pointers | send, read and copy, deliver | every task that has bytes for the UART; reader, UART writer, ESP-NOW sender, Telnet server |
| Telnet server | `tcp_server.c` | four client sockets under `clients_mutex` | accept, receive, broadcast, remove, count | its own task; count from client monitor and LED task |
| connection state | `grblHAL_advanced.c`, `main.c` 32-337 | level of the STATE pin, LED mode | poll the count, drive the pin, send Ctrl-X when a client is gone | client monitor, LED task, Telnet server |
| configuration store | `nvs_storage.c` | `g_config` in RAM, a copy in flash | load and sanitise, change, save | start-up, web server, assignment of sensors |
| web server | `web_server.c` | – (works on the configuration) | settings, assignment, OTA, reboot, reset | one HTTP task: requests one at a time |
| WiFi manager | `wifi_manager.c`, `WiFiSelector.c` | event bits, reconnect task handle | connect, reconnect, choose the strongest network | event loop, reconnect task, start-up |

How they interact: the ESP-NOW callback and the receive tasks share the peer table
under `peers_mutex` and hand work over through queues; every producer of UART
bytes goes through `serial_send_data`; what the UART says is copied to two queues,
one for the ESP-NOW peers, one for the Telnet clients; the web server changes the
configuration that the ESP-NOW side reads without a lock; the count of Telnet
clients, polled, decides the STATE pin and the LED.

What is hard: five kinds of tasks interleave on the same tables (the WiFi task
pre-empts all others); a radio that loses frames on either way, so acknowledgements
get lost and commands are retried; both sides restart independently; queues and
pool fill up; every timeout (1 s and 3 s waits, 5 s and 2.5 s probes, 10 ms and
100 ms queue sends) races with a late answer. `PROJECT.json` ("hazards") lists
each place with the properties that cover it.

## 2. Modules

| module | what it models |
|---|---|
| `PeerTable` | entries, radio peers, probing and eviction (`espnow_handler.c`) |
| `PeerTableProofs` | its theorems |
| `SensorLink` | one sensor and the bridge: pairing, sessions, heartbeats, GPIO commands, assignment |
| `SensorProofs` | its theorems: no command twice, a confirmed command is in force |
| `LegacyPendant` | one pendant and the bridge: pairing, numbered lines, realtime commands, duplicate filter, queue to the UART |
| `LegacyProofs` | its theorems |
| `SerialHandler` | pool, queues and tasks of `serial_handler.c` |
| `LossyFifo` | the abstract specification of one direction of the serial bridge |
| `SerialProofs` | type, ownership and leak theorems of `SerialHandler` |
| `SerialRefinement` | the proof that `SerialHandler` implements three `LossyFifo`s |
| `TcpServer` | the Telnet server's task: client table, select, accept, recv, broadcast |
| `StatePin` | `TcpServer` with the client monitor and the STATE pin |
| `StatusLed` | the LED task |
| `TelnetProofs` | theorems of `TcpServer`, `StatePin` and `StatusLed` |
| `WifiManager` | joining a network at boot and again after a loss |
| `WifiProofs` | its theorems |
| `ConfigStore` | the configuration in RAM and in flash, start-up, web requests, bindings |
| `ConfigProofs` | its theorems |
| `MC*` | the instances for TLC; `MCBridge` takes `StatePin`, `StatusLed`, `WifiManager` and `ConfigStore` together |

### PeerTable

`peers`, `radio`, `rxQueue` and `removing` stand for `peers[]`, the driver's peer
list, the two receive queues (only senders are kept) and the monitor's local
`remove_macs`. The receive callback is one step, because the WiFi task outranks
every task it shares the table with; so is a receive task's look-up with
`mark_peer_activity`. A pass of the monitor is one step up to `xSemaphoreGive`;
its `esp_now_del_peer` calls, made without the mutex, are steps of their own.

Time is counted in passes of the monitor. The code compares milliseconds; as
activity and pass are not aligned, a pass may see up to one pass more than it
counts. That is `Slack`, chosen freely for every entry on every pass.

### SensorLink

The sensor's variables are the sketch's globals; `waiting` and `answer` stand for
the loop that waits with `delay(1)` and the flag its callback sets. The bridge's
side is the sensor's entry (`peer`: session, number, valid flag, result), the
receive queue and the receive task, whose handling of a command is four steps
(take and duplicate check; binding check; drive the pin; remember and answer), with
callback, monitor and web server free to run in between. A frame reaches the other
callback at once or is lost; copies of a command come from the sensor's own
retries, and wait in the bridge's queue.

`outcome` records what the sketch's user sees: `open` while a command is not
confirmed, `confirmed` when `sendGPIOCommand` returns true. `lastDriven` is a
history variable for `AtMostOnce`.

Abstractions: an eviction may happen at any time (PeerTable models when); nobody
else is bound to the sensor's function; a session chosen anew differs from every
session still around (32 random bits in the sketch); the pins are configured; saving the binding
succeeds (failing saves belong to the configuration store); a frame the sensor's
own radio refuses counts as lost.

### LegacyPendant

The pendant's variables are the globals of its sketch; `waiting` is the loop of
`sendGcodeLine`. The bridge's side is the pendant's entry (`peer`), its radio peer
and `espnow_legacy_rx_queue`. A command reaches the bridge's callback at once or is
lost; the callback is one step, in the order of the code: acknowledge, look for a
duplicate, remember the number, queue. Acknowledgements may wait (`acks`), so they
come before, after and long after the three seconds `sendGcodeLine` waits.

The module follows one command at a time, the current one: `command` is what the
sketch believes of it, `fate` what has become of it on the bridge. Everything
queued before is `"earlier"`.

Abstractions: evictions may happen whenever the queue is empty, because they need
ten seconds without a frame of the pendant (`EvictionNeedsSilence`); other
pendants on the same queue are left out; the 16-bit number does not wrap, and
after `MaxSequence` commands the pendant sends no more until it starts over.

`RxTask` ends with the call of `serial_send_data`, whose outcome nobody learns: the bytes
are queued for the UART or, without a buffer or after 100 ms of a full queue, dropped
(`SerialSendData`). The call's 100 ms are inside the step, so that a command in the
task's hand still counts as queued. The second call, which adds a newline
(`espnow_handler.c` 647-649), is left out: lines of the sketch end in one, realtime
commands do not, and for them the call may be dropped like the first. Why a queue is full
is the matter of `SerialHandler`.

### SerialHandler and LossyFifo

A buffer is a pool index or a heap buffer. `used` is `in_use` together with the
heap buffers not yet freed, `queue` the three FreeRTOS queues of pointers, `held`
the pointers in local variables, `content` what the buffers contain. The
allocation with the copy of the bytes, each queue call and each free is one step
(pool calls run under `pool_mutex`; the bytes are copied into a buffer nobody else
knows). A queue that stays full until the time-out shows as the choice between
waiting and dropping while there is no room. The container that carries pointer
and length is one with its buffer.

`LossyFifo` says what a direction promises: accepted chunks come out whole, in
order, once. `ChannelsAreFifo` states that `SerialHandler` implements three of
them, by the refinement mapping `Pending(q)`, `Current(q)`: the contents of the
buffers behind the pointers.

### TcpServer and StatePin

`pc` is where the server's task is between two calls that let others run: each
`recv`, each `tcp_send_all` and each queue call is a step, and the clients connect,
send and leave in between. A descriptor is a number the library gives again as soon
as it is closed (the least one free), so an entry of `tcp_clients` may come to mean
another client. `readfds` is what `select` found and the loop has not yet used. The
bytes are abstracted to how many portions wait (`inbox`) and whether an end of the
connection follows. `toSerial` records what a step hands to `serial_send_data`.

`clients_mutex` is held in the phases `Holding`. The server itself never fails to
get it: the only others who take it, the client monitor and the LED task, hold it for
a loop over four entries. They may fail to get it, which is `CountTimesOut`:
the count is then 0. `CountWithin` is the call of the count for a log line by
the task that holds the mutex; it waits for itself for 100 ms and logs 0.

`StatePin` adds a round of `client_monitor_task` in two steps (count; look at the
ESP-NOW peers, update, delay), because the server, which outranks it, may run in
between, and `grblHAL_advanced.c`. The configuration is read at boot only, so `setup` never
changes. A disabled STATE pin has no level and is left out.

### StatusLed

A step is a tick of 100 ms, in which the task sees any combination of clients: who
is there changes at any time, and a count may time out. `lit` is the GPIO; `spell` and
`settled` are history variables that measure the blinks as somebody who
watches the LED would.

### WifiManager

The event handler runs in a task that outranks `app_main` and the reconnect tasks, so
an event and its handling are one step; `app_main` looks at bits and handle and acts
on them in different steps. `wifi_event_group` is `bits`; the driver is reduced to
`station` (idle, connecting, up) and answers a request by one of two events. The tests
`wifi_is_connected` and `reconnect_task_handle` before the scan (249-258) are not in `Scan`:
nothing has asked for a connection before it. Time-outs are choices: 10 s and 15 s may pass
with or without an answer. `overtaken` is a history variable: an event came between
`app_main`'s look and its action.

`selectBestWiFi` is `Best`: any of the strongest known networks in range (the code
takes the first of them in the order of the scan, which is the driver's).

### ConfigStore

`ram` is `g_config`, `flash` the blob with its layout, which the code tells by its
size. A request changes `ram` in one step and saves in the next; `SettingsUnassign` and
its save repeat for every output that was disabled, before the candidate is copied over
the configuration. A save succeeds or fails (`WriteFails`): when it is `nvs_commit` that
fails the blob may be there or not. The power may go after any step. Start-up loads,
converts and corrects, and saves some of its corrections and not others (`RepairedBlob`).

Seven functions, their GPIOs and the sensors are small sets. The settings nothing depends
on here are one field, `other`, whose value `Invalid` is what start-up would repair;
the page's handler takes such values and answers "saved", which is why `RestartKeeps`
leaves that field out. Requests to add, remove, reset or set the debug level answer
without looking at their save: their answer is `"unseen"` and promises nothing.

### MCBridge

`StatePin` (with `TcpServer`), `StatusLed`, `WifiManager` and `ConfigStore` share no variable: the Telnet server and the WiFi manager read
the configuration at boot, and the LED is given every combination of clients. Putting
them side by side, as independent tasks, would multiply their states and show
nothing more. `MCBridge` therefore chooses a `part` at the start; only that part moves
in the whole behaviour, under its own next-state relation and fairness, and the other variables
stay at one of their initial values. Each property of the run is a property of one part, and
the two liveness properties that are false of a part that stands still say for which
part they are meant.

## 3. Runs

| run | instance | shows |
|---|---|---|
| `peers` | 4 interchangeable devices, 2 entries, 3 radio peers, queue of 1, probe after 1 pass, twice, every 2 passes | `NoDuplicateMac`, `ProbeClock`, `SilentPeerEvicted`, `EvictionNeedsSilence`, `StrayOnlyWhenFull` |
| `sensor` | 2 sessions, 5 sequence numbers, queue of 1 | `ConfirmedIsDriven`, `AtMostOnce` under two conditions (below) |
| `sensor_reconnect` | no function, 3 sessions, 2 failures before a new PAIR | `Reconnects` under fairness |
| `sensor_retry` | as `sensor`, the input or the function may change before the command is confirmed | violates `ConfirmedIsDriven` |
| `sensor_wrap` | as `sensor`, any number of heartbeats between commands | violates `ConfirmedIsDriven` |
| `sensor_assign` | as `sensor_reconnect`, with a function | violates `KnowsItsFunction` |
| `legacy` | 4 numbers, 2 acknowledgements under way, queue of 3 | `ConfirmedIsTaken` (as far as `serial_send_data`), `AcknowledgedIsTaken`, `ForwardedOnce` under two conditions, `ComesBack` under fairness |
| `legacy_hasty` | as `legacy`, any command may follow a line that timed out | violates `AcknowledgedIsTaken` |
| `legacy_overrun` | as `legacy`, the pendant may fill the queue | violates `ConfirmedIsTaken` |
| `bridge` | 2 table entries, 3 descriptors, 1 waiting connection; LED as in the code; 2 networks, 1 known, memory for 3 reconnect tasks; 2 SSIDs and a table of 2; 2 functions, 2 GPIOs, 1 sensor, blobs of all layouts, 1 failing write in a row | 14 invariants and 5 temporal properties of the modules `TcpServer` to `ConfigStore`, listed below |
| `telnet_reset` | `StatePin` as in `bridge`, reset enabled | violates `LeaveIsReset` |
| `serial` | 2 producers, 3 pool buffers, 1 heap buffer, 2 contents, queues of 2 | `OneOwner`, `NothingLeaks`, `ChannelsAreFifo`, `BuffersReturn` |

The properties of `bridge`:

| property | says |
|---|---|
| `SocketsOwned` | every open descriptor is in the table, once; no descriptor leaks or is closed under another client |
| `RecvNeverWaits` | `recv`, called without a time-out while the mutex is held, finds bytes or the end |
| `ChunkReachesAll` | a chunk has gone to every client still in the table when it is done with, whoever failed |
| `TelnetComesBack` | the server returns to `select` for ever, if every `send` ends and the UART pauses |
| `TelnetPinFollows` | the STATE pin ends up showing that nobody is there, and shows again and again that somebody is |
| `LedShows`, `LedSpells` | the LED's blinks are those of the clients that are there, of the right length |
| `HandleIsLive`, `FewTasks` | the handle is never for a deleted task; at most one reconnect task, two if `app_main` was overtaken |
| `SomebodyReconnects` | a lost connection has a task that looks after it |
| `FreshBackoff` | the first attempt after a loss waits the shortest delay, whatever failures came before the loss |
| `ComesBack` | while the network is in range the connection is up again and again, unless nothing ever asked for one |
| `PinsApart` | no GPIO has two uses in the configuration the bridge works with |
| `OneFunctionPerSensor` | no sensor has two functions, before or after a restart |
| `SavedUnbinds` | settings answered "saved" leave no sensor bound to an output they disabled |
| `RestartKeeps` | what was answered "saved" or "ok" is there after a restart |

Why the bounds are enough. *peers*: four devices are more than both the entries
and the driver can take, so both limits are met while an eviction is under way;
one queued frame is enough to arrive after its sender's eviction; two probes
give a first, a repeated and an unanswered one. *sensor*: five numbers give a window
of two and thus newer, equal and older numbers; the queue of one and the command in
hand are two copies of a command at a time; two sessions are an old and a new
one. *legacy*: four numbers are a line, its repetitions and commands around it; two
acknowledgements are a late and a timely one; the queue of three holds the command,
an earlier one and has room. *sensor_reconnect*: no function is needed for the link, and with one the
liveness check is too large; three sessions leave a fresh one always. *serial*:
the pool is smaller than what the tasks can hold, so it is used up while both
queues and tasks compete, and a queue of two has an order. *bridge*: two entries are a
client that fails and one that comes after it; a third descriptor lets a
connection arrive while the table is full, and a closed descriptor be given again; one
chunk and one portion are enough for one to come while the last is dealt with. A
third reconnect task would be the one `FewTasks` excludes. The back-off of 1 doubles twice before
it is cut. Two functions on two GPIOs and the STATE pin meet in every way; two SSIDs fill the
network table, so that new and known ones meet it full; a failing
write is followed by a succeeding one or by a restart. While the flash could not be
opened every save fails, so the bound on failures ends the requests there until a restart.

Conditions named in the configurations:

* `StableInput`: the input does not change, and the sensor is not told of another
  function, while a command is unconfirmed. `sensor_retry` drops it.
* `CommandsOften`: fewer than half of the sequence numbers are used up between
  two executed commands. `sensor_wrap` drops it; the code needs about 18 hours
  of heartbeats for that.
* `Patient`: a line that timed out is sent again before anything else is.
  `legacy_hasty` drops it.
* `Paced`: the pendant sends only while the bridge's queue has room.
  `legacy_overrun` drops it. Lines are paced by their acknowledgements, realtime
  commands by nothing.

Deadlock is checked in every run: nothing stops for good.

## 4. Fairness

`SensorLink!Fairness`: the sketch's loop, its waits and the bridge's tasks never
stop (weak fairness); a heartbeat is due every two seconds whatever the user
types, and each PAIR sent every five seconds has a chance (strong fairness on
`SendHeartbeat` and on a `SendPair` that gets through): without the latter a radio that
is dead for ever would keep the devices apart. No fairness is put on commands,
evictions, restarts or the web server. `LegacyPendant!Fairness`: waits end, callbacks and tasks run (weak fairness);
a bridge that does not reach the pendant is silent, so the loop's time-out comes
(strong fairness on `Silence` in that case, as PAIRs and restarts may come between);
not every PAIR is lost (strong fairness). The
user owes nothing, and restarts and evictions may go on for ever: even then the pendant
is back again and again, which is the first half of `ComesBack`.
`SerialHandler!Fairness`: every
task is scheduled (weak fairness on each task's steps); the chip drives the UART
and `uart_wait_tx_done` and `send` end by their time-outs.

`MCBridge!MCFairness`: the server and the client monitor run (weak fairness), which takes
every `send` to end: a client that keeps its connection and never reads would hold the
server, and its mutex, for as long as the TCP connection lasts. `ServerComesBack` has two
exceptions the code has: the server gave up at start, or the UART delivers chunks without a
pause, in which case the drain loop never ends. `PinFollows` asks for a count that gets the
mutex now and then, since nothing in the code guarantees one. The WiFi tasks run (weak fairness), the driver
answers every request to connect (weak fairness) and accepts one now and then while the
network is in range (strong fairness on `GotIp`). `ComesBack` says nothing of a bridge on which nothing ever asked for
a connection (no known network, the interface not ready in 10 s: `station` is idle from the
start and for ever) nor of one whose
`app_main` was overtaken. A connection that was once asked for and lost is not excused.

## 5. Findings

1. *Retry with another state* (`sensor_retry`): the bridge answers a repeated
   number with the remembered result, and the sensor reuses the number after a
   timeout even if its input has changed. ON, lost acknowledgement, OFF: the OFF
   is confirmed, the output stays ON (`espnow_handler.c` 412-429, 563-571; the
   sketch 538, 574-591). A sensor that is given another function between the
   lost acknowledgement and the retry fares the same: the command for the new function is
   confirmed with the result of the old one. The proof of `ConfirmedMeansDriven`
   (section 6) led to that second way in.
2. *Heartbeats wear the window out* (`sensor_wrap`): only commands move
   `last_rx_seq`; after 2^15 heartbeats a fresh command is "not newer", so it is
   confirmed and not executed (407-410, 431-442).
3. *A lost assignment* (`sensor_assign`): `SENSOR_ASSIGNMENT` is sent once and
   not acknowledged (1049-1051).
4. *Two commands, one number* (`legacy_hasty`): after a timeout the pendant's next
   command has the number of the line that timed out. If only the acknowledgement of
   that line was lost, the next command, be it a feed hold, is acknowledged and
   dropped as a duplicate (`espnow_handler.c` 838-841; the sketch 264-273, 302-312).
5. *Acknowledged before it is queued* (`legacy_overrun`): a line that finds the
   queue full is lost, though acknowledged and remembered (836-844).
   The queue is not the only place: `serial_send_data`, too, may drop a line that was
   confirmed, without a pendant that overruns anything. It has no run of its own; `RxTask`
   has the step, and the properties end before it (below).
6. *No reset when a send finds the client gone* (`telnet_reset`): the README promises
   Ctrl-X when a Telnet client disconnects; a client whose end shows in
   `tcp_broadcast_data` is removed without one (`tcp_server.c` 223-239, against 711-720).

Met while modelling, and no more than noted: a confirmed line is lost when
`serial_send_data` gets no buffer or finds `uart_tx_queue` full for 100 ms
(`serial_handler.c` 127-139, called at `espnow_handler.c` 646), which a Telnet client that
streams G-code can bring about; the acknowledgement has gone out in the callback (836), so
the "successfully transmitted" of the pendant's README.md:368 means no more than "taken". This is
why `ConfirmedIsTaken` ends at the call; while the network table is full a known network's new
password is refused as well (`nvs_storage.c` 364-378) and the page answers OK; the answers to adding and removing a
network do not depend on what happened (`web_server.c` 856-870); a blob of an unknown size is
overwritten with the defaults (`nvs_storage.c` 326-328, 131-134); the log line
"attivo scansione periodica" (`wifi_manager.c` 278) announces a scan that never
comes, since the reconnect task only repeats `esp_wifi_connect`; after a time-out of
the STA interface nothing connects until a restart (243-246).

## 6. Proofs

Every safety invariant and every action property of a passing run is a theorem: it
holds for any devices, table sizes, queues, thresholds and sequence spaces, and not
only on the instance of the run. `PROJECT.json` ("theorems") lists them with the
property each states. The theorems about the parts of `MCBridge` are about the parts'
own specifications (`Spec` of `StatePin`, `LedInit /\ [][LedNext]_ledVars` and so on).

| module | theorems | of |
|---|---|---|
| `PeerTableProofs` | `TypeCorrect`, `OneEntryPerDevice`, `ClocksAgree`, `SilenceIsBounded`, `EvictionIsEarned`, `StraysComeFromFullTables` | `PeerTable` |
| `SerialProofs` | `TypeCorrect`, `NoSharedBuffer`, `NoLeak` | `SerialHandler` |
| `SerialRefinement` | `ImplementsFifos` | `SerialHandler`, `LossyFifo` |
| `SensorProofs` | `TypeCorrect`, `NoCommandTwice`, `ConfirmedMeansDriven` | `SensorLink` |
| `LegacyProofs` | `TypeCorrect`, `NothingIsRepeated`, `ConfirmedMeansTaken`, `AcknowledgedMeansTaken` | `LegacyPendant` |
| `TelnetProofs` | `TypeCorrect`, `NoDescriptorLeaks`, `RecvDoesNotWait`, `ChunksReachAll`; `LedIsRight`, `NoBlinkEndsEarly` | `TcpServer` and `StatePin`; `StatusLed` |
| `WifiProofs` | `TypeCorrect`, `HandleStaysLive`, `NeverManyTasks`, `LossIsRepaired`, `BackoffIsFresh` | `WifiManager` |
| `ConfigProofs` | `TypeCorrect`, `PinsStayApart`, `SensorsStaySingle`, `SavedSettingsUnbind`, `RestartsKeep` | `ConfigStore` |

### Assumptions

All proofs use the named assumptions on the constants (`PeerTableAssumption`,
`SerialAssumption` and so on), which TLC evaluates on each instance: sizes are
numbers, and a value that stands for "nothing" (`None`, `NoSensor`, `NoPin`) is none of
the things it stands beside. `OlderAssumption` says that a blob older firmware left is
a blob. Six theorems have hypotheses of their own:

* `NoCommandTwice`: `CommandsOften`, and more than two sequence numbers (with two,
  no number is newer than another; the code has 2^16). `sensor_wrap` shows what happens
  without the first: its violation of `ConfirmedIsDriven` is a command dropped
  because the window has passed it by.
* `ConfirmedMeansDriven`: the same and `StableInput`. `sensor_retry` and `sensor_wrap`
  show that both conditions are needed.
* `ConfirmedMeansTaken`, `AcknowledgedMeansTaken`: `Patient` and `Paced`, which
  `legacy_hasty` and `legacy_overrun` show to be needed. `NothingIsRepeated` needs
  neither.
* `SensorsStaySingle`: `OlderBoundOnce`, that older firmware bound no sensor twice either;
  start-up corrects pins, not bindings.
* `LossIsRepaired`: memory for one reconnect task (`Task # {}`).

### The arguments

*Peer table.* `NoDuplicateMac` needs nothing but the types: `AddPeer`
looks and inserts in one step. The clock properties are proved together from the
inductive invariant `SilenceInv`: after the n-th probe the silence of an entry
is the idle time plus n-1 intervals plus the time since that probe, up to one
pass for each; `SilentPeerEvicted` alone is not inductive because it
does not say how far the probing has come. `EvictionNeedsSilence` follows from
the lower half of the same bound. `StrayOnlyWhenFull` follows from the types alone once
each step is seen to keep who holds an entry or is about to be deleted
(`HoldersStay`, `FrameHolders`).

*Serial handler.* `OneOwner` and `NothingLeaks` are inductive only
together: a buffer just taken from the pool is new to everybody because
whatever is held or queued is marked as used, and freeing one leaves the others
marked because nobody else holds it. `SerialRefinement` builds on that:
contents change only in buffers no queue and no consumer can reach, so each step
is a step or a stutter of every `LossyFifo` (`ImplementsFifos`).

*Sensor.* Sequence numbers go round, so that of two alone nobody can tell which is older;
what is ordered is the trail of the commands: the last one driven or
remembered, the one `espnow_rx_task` is at, those in its queue, and the sensor's next
number. The invariant `TrailInv` says of two such trails (`DrivenInOrder` starts from the last
command driven, `KnownInOrder` from what the bridge remembers) that the commands of one
session are together and that no number is more than half the number space past one before
it. The devices move along the trails and never change their order; only the sensor, which
counts on, could break the second part, and that is where `CommandsOften` comes in
(`Window`). Two trails are needed because an eviction or a new session forgets what is
remembered and not what was driven. With the trails in order, "newer than the last one" means
"after it", so a command the filter lets through was not driven before (`OnceInv`). For
`ConfirmedIsDriven`, `ForceInv` adds that what is behind the current command on a trail
carries its function and state, that a remembered or answered OK is for a
command in force, and that a confirmed number has been counted past and is on no
trail any more, so that nothing still queued can undo the output.

*Legacy pendant.* `LegacyInv`: no number remembered or acknowledged is ahead of the
pendant's, and none is equal to it unless it is that of the current line; the queue holds the
current line at most once; a line the bridge has seen is in its filter
while it lists the pendant. `ForwardedOnce` is its consequence. That an acknowledgement
means something is another invariant (`Honest`), which holds only for a pendant that is
patient and paced: an acknowledged or remembered current number is that of a line taken.
`ConfirmedMeansTaken` is about the bridge's queue and the call of `serial_send_data`; of what that
call does neither outcome is assumed.

*Telnet server.* `SocketsOwned` is inductive with the types: `accept` fills an entry that
was free with a descriptor nobody had, and whoever closes a descriptor clears its entry in the same
hold of the mutex. For `RecvNeverWaits` the
descriptors `select` found and the loop has not reached must stay readable (`StillReadable`),
which they do because only the server reads or closes, each one when it gets
there. For `ChunkReachesAll` the loop's invariant is that the entries before `at` have been
served or are free (`SentSoFar`).

*LED.* `LedInv`: the phase is one that is meant for the clients last seen, the LED shows that
phase's light, and the spell that is under way is as old as the phase (`OnTheBeat`). The lengths of the
four phases are arbitrary.

*WiFi manager.* `Tracking`: at most one task is not the one the handle is for, and only
once `app_main` was overtaken and is done; a task that ends clears the handle, whichever task that
was for. `Orderly`: connected and disconnected exclude each other and, unless `app_main` was
overtaken, a connection leaves no task, a loss leaves one, and no task ends but by
being deleted.

*Configuration.* `PinInv`: no configuration, posted or in RAM, uses a GPIO
twice; what start-up has corrected has clean pins, and the page cannot post others. `BindInv`
says of RAM, of the posted configuration and of what a restart would load that they bind no
sensor twice. `ReplyInv` follows the request: while it is served it has no reply, the
posted configuration binds nothing to a disabled output, and only a save that
succeeded is answered; `RestartKeeps` then needs that start-up finds nothing to correct
in the pins and bindings just saved.

### What is only model-checked

The liveness properties (`Reconnects`, `ComesBack` of the pendant and of WiFi,
`BuffersReturn`, `TelnetComesBack`, `TelnetPinFollows`): they rest on fairness
and ENABLED, which the prover cannot reach. The violations of section 5 are TLC's
counterexamples. `sensor` has one function; with two the state space (26 million states) was
explored once, without a violation, and is too large for a run. `ConfirmedMeansDriven`
covers any number.

## 7. Not modelled, and what is planned

Planned: abstract specifications of the two command protocols (what a sensor and what a
pendant may rely on, in the manner of `LossyFifo`) with `SensorLink` and `LegacyPendant`
shown to implement them, as properties of their runs and as refinement theorems from
`ConfirmInv` and `LegacyInv`.

Not modelled:

* The pins as they were set up at boot against the pins as configured. After
  "Settings saved" and before the restart the page asks for, `process_gpio_command`
  reads the new pins at once, while directions and the STATE pin are those of the start, so a
  GPIO may be driven as an output and as STATE pin. The repository says only that
  a restart is needed.
* The OTA update: one handler that calls the ESP-IDF library in sequence; what an
  interrupted update leaves is decided in the library and the boot loader.
* The GET handlers, the extraction of fields from JSON, the HTML page, log output, frame
  layouts (a frame is a record of its fields), the choice of WiFi channel, static addresses
  and the access point: no state of the program, or straight-line set-up.
* `UART_COMMAND` of the new protocol: no sketch of the repository sends it.
* `app_main` but for the order of its steps: the hazards list what depends on it.
