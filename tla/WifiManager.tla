---------------------------- MODULE WifiManager ----------------------------
(***************************************************************************)
(* Joining a WiFi network and joining it again (src/src/wifi_manager.c and *)
(* src/src/WiFiSelector.c): app_main selects the strongest known network   *)
(* once, at boot; from then on the event handler and the reconnect tasks   *)
(* it starts are to bring a lost connection back, waiting longer after     *)
(* each failure.                                                           *)
(*                                                                         *)
(* The chip has one core.  The handler runs in the event loop, which       *)
(* outranks app_main and the reconnect tasks: an event of the driver and   *)
(* its handling are one step.  app_main and the reconnect tasks may be     *)
(* overtaken between any two of theirs, and nothing but the variable       *)
(* reconnect_task_handle tells them of each other.                         *)
(***************************************************************************)
EXTENDS Integers, FiniteSets

CONSTANTS
  Net,          \* networks
  Known,        \* those the configuration knows
  NoNet,        \* no network
  Task,         \* as many reconnect tasks as there is memory for
  NoTask,       \* the NULL handle
  Rssi,         \* signal strengths
  MinBackoff,   \* current_backoff_ms at first
  MaxBackoff    \* and its bound

ASSUME WifiAssumption ==
  /\ Known \subseteq Net /\ NoNet \notin Net /\ NoTask \notin Task
  /\ Rssi \subseteq Int
  /\ MinBackoff \in Nat \ {0} /\ MaxBackoff \in Nat /\ MinBackoff <= MaxBackoff

VARIABLES
  main,        \* where app_main is
  bits,        \* wifi_event_group: a set of "connected", "disconnected", "sta_start"
  reconnect_task_handle,
  task,        \* task[t]: where reconnect task t is, "none" if there is no such task
  backoff,     \* current_backoff_ms
  sta_config,  \* the network the driver is set to join, kept in flash
  station,     \* what the driver does: "idle", "connecting", "up"
  signal,      \* signal[n]: strength of the networks in range, a function
  overtaken    \* an event came between app_main's look at the bits or the handle
               \* and what it then did about it (history)

wifiVars == <<main, bits, reconnect_task_handle, task, backoff, sta_config, station,
              signal, overtaken>>

InRange == DOMAIN signal
Tasks == {t \in Task : task[t] # "none"}

WifiInit ==
  /\ main = "wait_sta_start"
  /\ bits = {}
  /\ reconnect_task_handle = NoTask
  /\ task = [t \in Task |-> "none"]
  /\ backoff = MinBackoff
  /\ sta_config \in Net \cup {NoNet}
  /\ station = "idle"
  /\ signal \in UNION {[S -> Rssi] : S \in SUBSET Net}
  /\ overtaken = FALSE

-----------------------------------------------------------------------------
(* start_reconnect_task                                                    *)

NewTask == CHOOSE t \in Task : task[t] = "none"

\* A new task, and its handle in place of the old one.
Create(tasks) ==
  IF Tasks = Task THEN task' = tasks /\ UNCHANGED reconnect_task_handle
  ELSE /\ task' = [tasks EXCEPT ![NewTask] = "sleep"]
       /\ reconnect_task_handle' = NewTask

\* Mutant of StartReconnectTask: the handle is not looked at.
StartReconnectTaskAlways == Create(task)

StartReconnectTask ==
  IF reconnect_task_handle = NoTask THEN Create(task)
  ELSE UNCHANGED <<task, reconnect_task_handle>>

-----------------------------------------------------------------------------
(* wifi_event_handler                                                      *)

\* app_main has looked and not yet acted.
Deciding == main \in {"start_reconnect", "create"}
Overtake == overtaken' = (overtaken \/ Deciding)

StaStart ==
  /\ "sta_start" \notin bits
  /\ bits' = (bits \cup {"sta_start"}) \ {"disconnected"}
  /\ UNCHANGED <<main, reconnect_task_handle, task, backoff, sta_config, station, signal,
                 overtaken>>

\* The connection is refused or lost.
Disconnected ==
  /\ station = "connecting" \/ station = "up"
  /\ station' = "idle"
  /\ bits' = (bits \ {"connected"}) \cup {"disconnected"}
  /\ StartReconnectTask
  /\ Overtake
  /\ UNCHANGED <<main, backoff, sta_config, signal>>

\* vTaskDelete of the task the handle is for, wherever it is.
DeleteTracked ==
  IF reconnect_task_handle = NoTask THEN UNCHANGED <<task, reconnect_task_handle>>
  ELSE /\ task' = [task EXCEPT ![reconnect_task_handle] = "none"]
       /\ reconnect_task_handle' = NoTask

\* Mutant of ResetBackoff: the next loss waits as long as the last one did.
ResetBackoffNot == backoff' = backoff

ResetBackoff == backoff' = MinBackoff

\* The network is joined and there is an address.
GotIp ==
  /\ station = "connecting" /\ sta_config \in InRange
  /\ station' = "up"
  /\ bits' = (bits \cup {"connected"}) \ {"disconnected"}
  /\ ResetBackoff
  /\ DeleteTracked
  /\ Overtake
  /\ UNCHANGED <<main, sta_config, signal>>

\* Networks come into range, go, and change in strength.
SignalChanges ==
  /\ signal' \in UNION {[S -> Rssi] : S \in SUBSET Net}
  /\ station = "up" => sta_config \in DOMAIN signal'
  /\ UNCHANGED <<main, bits, reconnect_task_handle, task, backoff, sta_config, station,
                 overtaken>>

-----------------------------------------------------------------------------
(* wifi_reconnect_task                                                     *)

\* esp_wifi_connect: it is an error while no network is set.
CanConnect == sta_config # NoNet
DriverConnect ==
  station' = IF CanConnect /\ station = "idle" THEN "connecting" ELSE station

\* The delay is over: it connects, unless the connection is already there.
Wake(t) ==
  /\ task[t] = "sleep"
  /\ IF "connected" \in bits
       THEN task' = [task EXCEPT ![t] = "leave"] /\ UNCHANGED station
       ELSE /\ task' = [task EXCEPT ![t] = IF CanConnect THEN "wait" ELSE "failed"]
            /\ DriverConnect
  /\ UNCHANGED <<main, bits, reconnect_task_handle, backoff, sta_config, signal, overtaken>>

\* xEventGroupWaitBits returns: on CONNECTED, on DISCONNECTED (which an earlier
\* loss may have left there) or after 10 s with neither.
WaitConnected(t) ==
  /\ task[t] = "wait" /\ "connected" \in bits
  /\ task' = [task EXCEPT ![t] = "leave"]
  /\ UNCHANGED <<main, bits, reconnect_task_handle, backoff, sta_config, station, signal,
                 overtaken>>

WaitFails(t) ==
  /\ task[t] = "wait" /\ "connected" \notin bits
  /\ task' = [task EXCEPT ![t] = "failed"]
  /\ UNCHANGED <<main, bits, reconnect_task_handle, backoff, sta_config, station, signal,
                 overtaken>>

\* Mutant of Capped: the wait doubles for ever.
CappedNot(ms) == ms

Capped(ms) == IF ms > MaxBackoff THEN MaxBackoff ELSE ms

\* Mutant of BackOff: the task gives up when it has waited longest.
BackOffGivesUp(t) ==
  /\ task[t] = "failed"
  /\ backoff' = Capped(2 * backoff)
  /\ task' = [task EXCEPT ![t] = IF backoff = MaxBackoff THEN "leave" ELSE "sleep"]
  /\ UNCHANGED <<main, bits, reconnect_task_handle, sta_config, station, signal, overtaken>>

\* The exponential back-off, and around again.
BackOff(t) ==
  /\ task[t] = "failed"
  /\ backoff' = Capped(2 * backoff)
  /\ task' = [task EXCEPT ![t] = "sleep"]
  /\ UNCHANGED <<main, bits, reconnect_task_handle, sta_config, station, signal, overtaken>>

\* Mutant of Leave: the task ends without a word to the handle.
LeaveKeepsHandle(t) ==
  /\ task[t] = "leave"
  /\ task' = [task EXCEPT ![t] = "none"]
  /\ UNCHANGED <<main, bits, reconnect_task_handle, backoff, sta_config, station, signal,
                 overtaken>>

\* It clears the handle, whichever task that is for, and deletes itself.
Leave(t) ==
  /\ task[t] = "leave"
  /\ reconnect_task_handle' = NoTask
  /\ task' = [task EXCEPT ![t] = "none"]
  /\ UNCHANGED <<main, bits, backoff, sta_config, station, signal, overtaken>>

-----------------------------------------------------------------------------
(* wifi_auto_connect_from_nvs, once, in app_main                           *)

\* No network is configured, or the interface is not ready within 10 s.
GiveUp ==
  /\ main = "wait_sta_start"
  /\ Known = {} \/ "sta_start" \notin bits
  /\ main' = "done"
  /\ UNCHANGED <<bits, reconnect_task_handle, task, backoff, sta_config, station, signal,
                 overtaken>>

Stronger(n, S) == \A m \in S : signal[n] >= signal[m]

\* selectBestWiFi: the strongest of the known networks the scan found.
Best == {n \in Known \cap InRange : Stronger(n, Known \cap InRange)}

\* Nothing has asked for a connection before, so neither the test for one nor that
\* for a reconnect task ends it.
Scan ==
  /\ main = "wait_sta_start" /\ "sta_start" \in bits /\ Known # {}
  /\ IF Best = {} THEN main' = "start_reconnect" /\ UNCHANGED sta_config
     ELSE main' = "selected" /\ sta_config' \in Best
  /\ UNCHANGED <<bits, reconnect_task_handle, task, backoff, station, signal, overtaken>>

\* wifi_start_sta.
StartSta ==
  /\ main = "selected"
  /\ DriverConnect
  /\ main' = "wait_connected"
  /\ UNCHANGED <<bits, reconnect_task_handle, task, backoff, sta_config, signal, overtaken>>

\* xEventGroupWaitBits, for 15 s.
Joined ==
  /\ main = "wait_connected" /\ "connected" \in bits
  /\ main' = "done"
  /\ UNCHANGED <<bits, reconnect_task_handle, task, backoff, sta_config, station, signal,
                 overtaken>>

NotJoined ==
  /\ main = "wait_connected" /\ "connected" \notin bits
  /\ main' = "start_reconnect"
  /\ UNCHANGED <<bits, reconnect_task_handle, task, backoff, sta_config, station, signal,
                 overtaken>>

\* start_reconnect_task again, here in a task that may be overtaken after it has
\* looked at the handle.
LookAtHandle ==
  /\ main = "start_reconnect"
  /\ main' = IF reconnect_task_handle = NoTask THEN "create" ELSE "done"
  /\ UNCHANGED <<bits, reconnect_task_handle, task, backoff, sta_config, station, signal,
                 overtaken>>

CreateTask ==
  /\ main = "create"
  /\ main' = "done"
  /\ Create(task)
  /\ UNCHANGED <<bits, backoff, sta_config, station, signal, overtaken>>

-----------------------------------------------------------------------------
Main == GiveUp \/ Scan \/ StartSta \/ Joined \/ NotJoined \/ LookAtHandle \/ CreateTask
Reconnect(t) == Wake(t) \/ WaitConnected(t) \/ WaitFails(t) \/ BackOff(t) \/ Leave(t)
Driver == StaStart \/ Disconnected \/ GotIp
\* The driver's answer to a request to connect.
Answer == station = "connecting" /\ (Disconnected \/ GotIp)
WifiNext == Main \/ Driver \/ SignalChanges \/ \E t \in Task : Reconnect(t)

-----------------------------------------------------------------------------
WifiTypeOK ==
  /\ main \in {"wait_sta_start", "selected", "wait_connected", "start_reconnect", "create", "done"}
  /\ bits \subseteq {"connected", "disconnected", "sta_start"}
  /\ reconnect_task_handle \in Task \cup {NoTask}
  /\ task \in [Task -> {"none", "sleep", "wait", "failed", "leave"}]
  /\ backoff \in MinBackoff..MaxBackoff
  /\ sta_config \in Net \cup {NoNet}
  /\ station \in {"idle", "connecting", "up"}
  /\ InRange \subseteq Net /\ \A n \in InRange : signal[n] \in Rssi
  /\ overtaken \in BOOLEAN

\* The handle is never for a task that is gone: the handler deletes no task twice.
HandleIsLive == reconnect_task_handle # NoTask => reconnect_task_handle \in Tasks

\* However events, app_main and the tasks overtake each other, there are never
\* more than two reconnect tasks; and only one unless app_main was overtaken.
FewTasks == Cardinality(Tasks) <= IF overtaken THEN 2 ELSE 1

\* When the connection is lost there is a task to bring it back, unless app_main
\* was overtaken while it looked after that itself.
SomebodyReconnects ==
  "disconnected" \in bits /\ ~overtaken => \E t \in Tasks : task[t] # "leave"

\* After a connection the first attempt to get it back waits for the shortest delay,
\* whatever failures came before it.
FreshBackoff == "connected" \in bits /\ ~overtaken => backoff = MinBackoff

\* While the network the station is set to is in range the connection is up again
\* and again, unless nothing ever asked for one.
ComesBack ==
  <>[](sta_config \in InRange /\ ~overtaken) =>
     []<>("connected" \in bits) \/ [](station = "idle")

=============================================================================
