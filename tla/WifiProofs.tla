---------------------------- MODULE WifiProofs ----------------------------
(***************************************************************************)
(* Who brings the WiFi connection back: proofs that the reconnect handle   *)
(* is never for a task that is gone, that there are never more than two    *)
(* reconnect tasks, and that a lost connection has one to bring it back,   *)
(* for any networks, signals and waiting times.                            *)
(*                                                                         *)
(* The argument is about the tasks the handle is not for.  There is at     *)
(* most one, and none while app_main is still at work: its own task is the *)
(* only one that can be created beside another.  Until app_main has been   *)
(* overtaken there is none at all, so a connection leaves no task behind   *)
(* and a task only ever ends by being deleted.                             *)
(***************************************************************************)
EXTENDS WifiManager, FiniteSetTheorems, TLAPS

\* The tasks nobody has the handle of.
Untracked == Tasks \ {reconnect_task_handle}

Tracking ==
  /\ HandleIsLive
  /\ \A s, t \in Untracked : s = t
  /\ main # "done" \/ ~overtaken => Untracked = {}
  /\ main = "create" /\ ~overtaken => reconnect_task_handle = NoTask

\* Before app_main has asked for a connection nothing has.
NothingYet ==
  main \in {"wait_sta_start", "selected"} =>
    station = "idle" /\ Tasks = {} /\ "connected" \notin bits

\* Connected and disconnected exclude each other, and unless app_main was overtaken
\* a connection leaves no task and a loss leaves one.
Orderly ==
  /\ ~({"connected", "disconnected"} \subseteq bits)
  /\ ~overtaken =>
       /\ \A t \in Task : task[t] # "leave"
       /\ "connected" \in bits => Tasks = {} /\ ~Deciding /\ backoff = MinBackoff
       /\ "disconnected" \in bits /\ Task # {} => Tasks # {}

WifiInv == WifiTypeOK /\ Tracking /\ NothingYet /\ Orderly

-----------------------------------------------------------------------------
(* Types                                                                   *)

TaskState == {"none", "sleep", "wait", "failed", "leave"}

LEMMA CappedBackoff ==
  ASSUME NEW ms \in MinBackoff..MaxBackoff
  PROVE  Capped(2 * ms) \in MinBackoff..MaxBackoff
BY WifiAssumption DEF Capped

LEMMA NewTaskIsNone ==
  ASSUME Tasks # Task
  PROVE  NewTask \in Task /\ task[NewTask] = "none"
BY DEF Tasks, NewTask

LEMMA CreateTyped ==
  ASSUME WifiTypeOK, Create(task)
  PROVE  task' \in [Task -> TaskState] /\ reconnect_task_handle' \in Task \cup {NoTask}
BY NewTaskIsNone DEF WifiTypeOK, Create, TaskState

LEMMA MainTyped == WifiTypeOK /\ Main => WifiTypeOK'
<1> SUFFICES ASSUME WifiTypeOK, Main PROVE WifiTypeOK'
  OBVIOUS
<1>1. CASE GiveUp \/ Joined \/ NotJoined \/ LookAtHandle
  BY <1>1 DEF WifiTypeOK, GiveUp, Joined, NotJoined, LookAtHandle, InRange
<1>2. CASE Scan
  <2>1. Best \subseteq Net
    BY WifiAssumption DEF Best
  <2> QED
    BY <1>2, <2>1 DEF WifiTypeOK, Scan, InRange
<1>3. CASE StartSta
  BY <1>3 DEF WifiTypeOK, StartSta, DriverConnect, InRange
<1>4. CASE CreateTask
  BY <1>4, CreateTyped DEF WifiTypeOK, CreateTask, InRange, TaskState
<1> QED
  BY <1>1, <1>2, <1>3, <1>4 DEF Main

LEMMA DriverTyped == WifiTypeOK /\ (Driver \/ SignalChanges) => WifiTypeOK'
<1> SUFFICES ASSUME WifiTypeOK, Driver \/ SignalChanges PROVE WifiTypeOK'
  OBVIOUS
<1>1. CASE StaStart
  BY <1>1 DEF WifiTypeOK, StaStart, InRange
<1>2. CASE Disconnected
  <2>1. task' \in [Task -> TaskState] /\ reconnect_task_handle' \in Task \cup {NoTask}
    BY <1>2, CreateTyped DEF Disconnected, StartReconnectTask, WifiTypeOK, TaskState
  <2>2. overtaken' \in BOOLEAN
    BY <1>2 DEF Disconnected, Overtake, WifiTypeOK, Deciding
  <2> QED
    BY <1>2, <2>1, <2>2 DEF Disconnected, WifiTypeOK, InRange, TaskState
<1>3. CASE GotIp
  <2>1. task' \in [Task -> TaskState] /\ reconnect_task_handle' \in Task \cup {NoTask}
    BY <1>3 DEF GotIp, DeleteTracked, WifiTypeOK, TaskState
  <2>2. overtaken' \in BOOLEAN
    BY <1>3 DEF GotIp, Overtake, WifiTypeOK, Deciding
  <2>3. backoff' \in MinBackoff..MaxBackoff
    BY <1>3, WifiAssumption DEF GotIp, ResetBackoff
  <2> QED
    BY <1>3, <2>1, <2>2, <2>3 DEF GotIp, WifiTypeOK, InRange, TaskState
<1>4. CASE SignalChanges
  BY <1>4 DEF SignalChanges, WifiTypeOK, InRange
<1> QED
  BY <1>1, <1>2, <1>3, <1>4 DEF Driver

LEMMA ReconnectTyped ==
  ASSUME WifiTypeOK, NEW t \in Task, Reconnect(t)
  PROVE  WifiTypeOK'
<1>1. CASE Wake(t)
  BY <1>1 DEF WifiTypeOK, Wake, DriverConnect, InRange
<1>2. CASE WaitConnected(t) \/ WaitFails(t) \/ Leave(t)
  BY <1>2 DEF WifiTypeOK, WaitConnected, WaitFails, Leave, InRange
<1>3. CASE BackOff(t)
  BY <1>3, CappedBackoff DEF WifiTypeOK, BackOff, InRange
<1> QED
  BY <1>1, <1>2, <1>3 DEF Reconnect

LEMMA TypedInductive ==
  /\ WifiInit => WifiTypeOK
  /\ WifiTypeOK /\ [WifiNext]_wifiVars => WifiTypeOK'
<1>1. WifiInit => WifiTypeOK
  <2> SUFFICES ASSUME WifiInit PROVE WifiTypeOK
    OBVIOUS
  <2>1. PICK S \in SUBSET Net : signal \in [S -> Rssi]
    BY DEF WifiInit
  <2>2. InRange \subseteq Net /\ \A n \in InRange : signal[n] \in Rssi
    BY <2>1 DEF InRange
  <2>3. overtaken \in BOOLEAN
    BY DEF WifiInit
  <2> QED
    BY <2>2, <2>3, WifiAssumption DEF WifiInit, WifiTypeOK
<1>2. WifiTypeOK /\ UNCHANGED wifiVars => WifiTypeOK'
  BY DEF WifiTypeOK, wifiVars, InRange
<1> QED
  BY <1>1, <1>2, MainTyped, DriverTyped, ReconnectTyped DEF WifiNext

\* The WiFi manager's variables keep their types; the waiting time between two attempts
\* stays between its first value and its bound.
THEOREM TypeCorrect == WifiInit /\ [][WifiNext]_wifiVars => []WifiTypeOK
BY TypedInductive, PTL

-----------------------------------------------------------------------------
(* Tasks and the handle                                                    *)

\* What of the invariant speaks of tasks and the handle alone: at most one task that
\* is not tracked, and the handle is for a task that is there.
OneLost == HandleIsLive /\ \A s, t \in Untracked : s = t

\* A task is created beside another only where the handle knows that one.
LEMMA CreateTracked ==
  ASSUME WifiTypeOK, HandleIsLive, Create(task)
  PROVE  /\ Tasks \subseteq Tasks' /\ (Task # {} => Tasks' # {})
         /\ \A t \in Task : task'[t] = "leave" => task[t] = "leave"
         /\ HandleIsLive'
         /\ Untracked = {} => OneLost'
         /\ Tasks = {} => Untracked' = {}
         /\ OneLost /\ reconnect_task_handle = NoTask => OneLost'
<1>1. CASE Tasks = Task
  <2>1. UNCHANGED <<task, reconnect_task_handle>>
    BY <1>1 DEF Create
  <2> QED
    BY <1>1, <2>1 DEF Tasks, HandleIsLive, Untracked, OneLost
<1>2. CASE Tasks # Task
  <2>1. PICK n \in Task : /\ task[n] = "none" /\ reconnect_task_handle' = n
                         /\ task' = [task EXCEPT ![n] = "sleep"]
    BY <1>2, NewTaskIsNone DEF Create
  <2>2. Tasks' = Tasks \cup {n} /\ n \notin Tasks
    BY <2>1 DEF Tasks, WifiTypeOK
  <2>3. Untracked' = Tasks
    BY <2>1, <2>2 DEF Untracked
  <2>4. Untracked = {} => \A s, t \in Tasks : s = t
    BY DEF Untracked
  <2>5. reconnect_task_handle = NoTask => Untracked = Tasks
    BY WifiAssumption DEF Untracked, Tasks
  <2> QED
    BY <2>1, <2>2, <2>3, <2>4, <2>5 DEF HandleIsLive, OneLost, WifiTypeOK
<1> QED
  BY <1>1, <1>2

\* start_reconnect_task in the event loop: it looks and acts in one step.
LEMMA StartTracked ==
  ASSUME WifiTypeOK, OneLost, StartReconnectTask
  PROVE  /\ OneLost' /\ (Task # {} => Tasks' # {})
         /\ \A t \in Task : task'[t] = "leave" => task[t] = "leave"
         /\ Untracked = {} => Untracked' = {}
<1>1. CASE reconnect_task_handle = NoTask
  <2>1. Untracked = {} => Tasks = {}
    BY <1>1, WifiAssumption DEF Untracked, Tasks
  <2> QED
    BY <1>1, <2>1, CreateTracked DEF StartReconnectTask, OneLost
<1>2. CASE reconnect_task_handle # NoTask
  <2>1. UNCHANGED <<task, reconnect_task_handle>>
    BY <1>2 DEF StartReconnectTask
  <2> QED
    BY <1>2, <2>1 DEF OneLost, HandleIsLive, Untracked, Tasks
<1> QED
  BY <1>1, <1>2

\* vTaskDelete by the handle, when the connection is there.
LEMMA DeleteTrackedTracked ==
  ASSUME WifiTypeOK, OneLost, DeleteTracked
  PROVE  /\ OneLost' /\ Untracked' = Untracked /\ Tasks' \subseteq Tasks
         /\ Tasks' = Untracked
         /\ \A t \in Task : task'[t] = "leave" => task[t] = "leave"
         /\ reconnect_task_handle' = NoTask
<1>1. reconnect_task_handle' = NoTask
  BY DEF DeleteTracked
<1>2. Tasks' = Tasks \ {reconnect_task_handle}
  BY WifiAssumption DEF DeleteTracked, Tasks, WifiTypeOK
<1>3. Untracked' = Tasks'
  BY <1>1, WifiAssumption DEF Untracked, Tasks
<1>4. \A t \in Task : task'[t] = "leave" => task[t] = "leave"
  BY DEF DeleteTracked, WifiTypeOK
<1> QED
  BY <1>1, <1>2, <1>3, <1>4 DEF OneLost, HandleIsLive, Untracked

\* A task that ends clears the handle, whichever task that was for.
LEMMA LeaveTracked ==
  ASSUME WifiTypeOK, OneLost, NEW t \in Task, Leave(t)
  PROVE  /\ OneLost' /\ reconnect_task_handle' = NoTask
         /\ Untracked = {} => Untracked' = {} /\ Tasks' = {}
         /\ \A u \in Task : task'[u] = "leave" => task[u] = "leave"
<1>1. reconnect_task_handle' = NoTask /\ Tasks' = Tasks \ {t} /\ t \in Tasks
  BY DEF Leave, Tasks, WifiTypeOK
<1>2. Untracked' = Tasks \ {t}
  BY <1>1, WifiAssumption DEF Untracked, Tasks
<1>3. \A s, u \in Tasks \ {t} : s = u
  BY <1>1 DEF OneLost, Untracked
<1>4. Untracked = {} => Tasks \ {t} = {}
  BY <1>1 DEF Untracked
<1>5. \A u \in Task : task'[u] = "leave" => task[u] = "leave"
  BY DEF Leave, WifiTypeOK
<1> QED
  BY <1>1, <1>2, <1>3, <1>4, <1>5 DEF OneLost, HandleIsLive

\* A task that goes on is the same task.
LEMMA SameTasks ==
  ASSUME WifiTypeOK, NEW t \in Task, task[t] # "none",
         NEW state \in TaskState \ {"none"}, task' = [task EXCEPT ![t] = state]
  PROVE  Tasks' = Tasks
BY DEF Tasks, WifiTypeOK

-----------------------------------------------------------------------------
(* The invariant, step by step                                             *)

LEMMA TrackingInductive ==
  ASSUME WifiInv, WifiNext
  PROVE  Tracking'
<1>1. WifiTypeOK /\ OneLost /\ Tracking /\ (main # "done" \/ ~overtaken => Untracked = {})
  BY DEF WifiInv, Tracking, OneLost
<1>2. CASE UNCHANGED <<task, reconnect_task_handle, overtaken>>
  <2>1. OneLost' /\ Untracked' = Untracked
    BY <1>1, <1>2 DEF OneLost, HandleIsLive, Untracked, Tasks
  <2>2. main' # "done" => main # "done"
    BY <1>2
       DEF WifiNext, Main, Driver, StaStart, Disconnected, GotIp, SignalChanges, Reconnect,
           Wake, WaitConnected, WaitFails, BackOff, Leave, GiveUp, Scan, StartSta, Joined,
           NotJoined, LookAtHandle, CreateTask
  <2>3. main' = "create" => main = "create" \/ reconnect_task_handle = NoTask
    BY <1>2
       DEF WifiNext, Main, Driver, StaStart, Disconnected, GotIp, SignalChanges, Reconnect,
           Wake, WaitConnected, WaitFails, BackOff, Leave, GiveUp, Scan, StartSta, Joined,
           NotJoined, LookAtHandle, CreateTask
  <2> QED
    BY <1>1, <1>2, <2>1, <2>2, <2>3 DEF Tracking, OneLost
<1>3. CASE Disconnected
  <2>1. OneLost' /\ (Untracked = {} => Untracked' = {})
    BY <1>1, <1>3, StartTracked DEF Disconnected
  <2>2. main' = main /\ (overtaken' <=> overtaken \/ Deciding)
    BY <1>3 DEF Disconnected, Overtake
  <2> QED
    BY <1>1, <2>1, <2>2 DEF Tracking, OneLost, Deciding
<1>4. CASE GotIp
  <2>1. OneLost' /\ Untracked' = Untracked
    BY <1>1, <1>4, DeleteTrackedTracked DEF GotIp
  <2>2. main' = main /\ (overtaken' <=> overtaken \/ Deciding)
    BY <1>4 DEF GotIp, Overtake
  <2> QED
    BY <1>1, <2>1, <2>2 DEF Tracking, OneLost, Deciding
<1>5. CASE CreateTask
  <2>1. main = "create" /\ main' = "done" /\ overtaken' = overtaken /\ Create(task)
    BY <1>5 DEF CreateTask
  <2>2. Untracked = {} /\ HandleIsLive
    BY <1>1, <2>1 DEF Tracking
  <2>3. ~overtaken => Tasks = {}
    BY <1>1, <2>1, <2>2, WifiAssumption DEF Tracking, Untracked, Tasks
  <2> QED
    BY <1>1, <2>1, <2>2, <2>3, CreateTracked DEF Tracking, OneLost
<1>6. ASSUME NEW t \in Task, Reconnect(t) PROVE Tracking'
  <2>1. main' = main /\ overtaken' = overtaken
    BY <1>6 DEF Reconnect, Wake, WaitConnected, WaitFails, BackOff, Leave
  <2>2. CASE Leave(t)
    BY <1>1, <2>1, <2>2, LeaveTracked DEF Tracking, OneLost
  <2>3. CASE ~Leave(t)
    <3>1. /\ task[t] # "none" /\ reconnect_task_handle' = reconnect_task_handle
          /\ \E state \in TaskState \ {"none"} : task' = [task EXCEPT ![t] = state]
      BY <1>6, <2>3 DEF Reconnect, Wake, WaitConnected, WaitFails, BackOff, TaskState
    <3>2. Tasks' = Tasks
      BY <1>1, <3>1, SameTasks
    <3>3. OneLost' /\ Untracked' = Untracked
      BY <1>1, <3>1, <3>2 DEF OneLost, HandleIsLive, Untracked
    <3> QED
      BY <1>1, <2>1, <3>1, <3>3 DEF Tracking, OneLost
  <2> QED
    BY <2>2, <2>3
<1> QED
  BY <1>2, <1>3, <1>4, <1>5, <1>6
     DEF WifiNext, Main, Driver, StaStart, SignalChanges, GiveUp, Scan, StartSta, Joined,
         NotJoined, LookAtHandle

LEMMA NothingYetInductive ==
  ASSUME WifiInv, WifiNext
  PROVE  NothingYet'
<1>1. WifiTypeOK /\ NothingYet
  BY DEF WifiInv
<1> SUFFICES ASSUME main' \in {"wait_sta_start", "selected"}
             PROVE  station' = "idle" /\ Tasks' = {} /\ "connected" \notin bits'
  BY DEF NothingYet
<1>2. main \in {"wait_sta_start", "selected"}
  BY DEF WifiNext, Main, Driver, StaStart, Disconnected, GotIp, SignalChanges, Reconnect,
         Wake, WaitConnected, WaitFails, BackOff, Leave, GiveUp, Scan, StartSta, Joined,
         NotJoined, LookAtHandle, CreateTask
<1>3. station = "idle" /\ Tasks = {} /\ "connected" \notin bits
  BY <1>1, <1>2 DEF NothingYet
<1>4. \A t \in Task : ~Reconnect(t)
  BY <1>3 DEF Tasks, Reconnect, Wake, WaitConnected, WaitFails, BackOff, Leave
<1>5. ~Disconnected /\ ~GotIp
  BY <1>3 DEF Disconnected, GotIp
<1> QED
  BY <1>2, <1>3, <1>4, <1>5
     DEF WifiNext, Main, Driver, StaStart, SignalChanges, GiveUp, Scan, StartSta, Joined,
         NotJoined, LookAtHandle, CreateTask, Tasks

LEMMA OrderlyInductive ==
  ASSUME WifiInv, WifiNext
  PROVE  Orderly'
<1>1. WifiTypeOK /\ OneLost /\ Tracking /\ Orderly /\ NothingYet
  BY DEF WifiInv, Tracking, OneLost
<1>2. CASE Disconnected
  <2>1. /\ bits' = (bits \ {"connected"}) \cup {"disconnected"}
        /\ ~overtaken' => ~overtaken /\ ~Deciding
    BY <1>2 DEF Disconnected, Overtake
  <2>2. /\ Task # {} => Tasks' # {}
        /\ \A t \in Task : task'[t] = "leave" => task[t] = "leave"
    BY <1>1, <1>2, StartTracked DEF Disconnected
  <2> QED
    BY <1>1, <2>1, <2>2 DEF Orderly
<1>3. CASE GotIp
  <2>1. /\ bits' = (bits \cup {"connected"}) \ {"disconnected"} /\ main' = main
        /\ ~overtaken' => ~overtaken /\ ~Deciding
        /\ backoff' = MinBackoff
    BY <1>3 DEF GotIp, Overtake, ResetBackoff
  <2>2. Tasks' = Untracked /\ \A t \in Task : task'[t] = "leave" => task[t] = "leave"
    BY <1>1, <1>3, DeleteTrackedTracked DEF GotIp
  <2> QED
    BY <1>1, <2>1, <2>2 DEF Orderly, Tracking, Deciding
<1>4. CASE CreateTask
  <2>1. main = "create" /\ Create(task) /\ UNCHANGED <<bits, backoff, overtaken>>
    BY <1>4 DEF CreateTask
  <2>2. /\ Tasks \subseteq Tasks'
        /\ \A t \in Task : task'[t] = "leave" => task[t] = "leave"
    BY <1>1, <2>1, CreateTracked DEF OneLost
  <2>3. ~overtaken => "connected" \notin bits
    BY <1>1, <2>1 DEF Orderly, Deciding
  <2> QED
    BY <1>1, <2>1, <2>2, <2>3 DEF Orderly
<1>5. ASSUME NEW t \in Task, Reconnect(t) PROVE Orderly'
  <2>1. task[t] # "none" /\ UNCHANGED <<main, bits, overtaken>>
    BY <1>5 DEF Reconnect, Wake, WaitConnected, WaitFails, BackOff, Leave
  <2>2. CASE overtaken
    BY <1>1, <2>1, <2>2 DEF Orderly
  <2>3. CASE ~overtaken
    <3>1. "connected" \notin bits /\ task[t] # "leave"
      BY <1>1, <2>1, <2>3 DEF Orderly, Tasks
    <3>2. \E state \in TaskState \ {"none", "leave"} : task' = [task EXCEPT ![t] = state]
      BY <1>5, <3>1 DEF Reconnect, Wake, WaitConnected, WaitFails, BackOff, Leave, TaskState
    <3>3. Tasks' = Tasks
      BY <1>1, <2>1, <3>2, SameTasks
    <3>4. \A u \in Task : task'[u] # "leave"
      BY <1>1, <2>3, <3>2 DEF Orderly, WifiTypeOK
    <3> QED
      BY <1>1, <2>1, <3>1, <3>3, <3>4 DEF Orderly
  <2> QED
    BY <2>2, <2>3
<1>6. CASE StaStart \/ SignalChanges
  BY <1>1, <1>6 DEF StaStart, SignalChanges, Orderly, Tasks, Deciding
<1>7. CASE GiveUp \/ Joined \/ StartSta
  BY <1>1, <1>7 DEF GiveUp, Joined, StartSta, Orderly, Tasks, Deciding
<1>8. CASE Scan \/ NotJoined \/ LookAtHandle
  <2>1. UNCHANGED <<bits, task, backoff, overtaken>>
    BY <1>8 DEF Scan, NotJoined, LookAtHandle
  <2>2. ~overtaken => "connected" \notin bits
    BY <1>1, <1>8 DEF Scan, NotJoined, LookAtHandle, NothingYet, Orderly, Deciding
  <2> QED
    BY <1>1, <2>1, <2>2 DEF Orderly, Tasks
<1> QED
  BY <1>2, <1>3, <1>4, <1>5, <1>6, <1>7, <1>8 DEF WifiNext, Main, Driver

LEMMA WifiInductive ==
  /\ WifiInit => WifiInv
  /\ WifiInv /\ [WifiNext]_wifiVars => WifiInv'
<1>1. WifiInit => WifiInv
  <2> SUFFICES ASSUME WifiInit PROVE Tracking /\ NothingYet /\ Orderly
    BY TypedInductive DEF WifiInv
  <2>1. Tasks = {} /\ reconnect_task_handle = NoTask /\ bits = {} /\ main = "wait_sta_start"
        /\ station = "idle" /\ \A t \in Task : task[t] # "leave"
    BY DEF WifiInit, Tasks
  <2> QED
    BY <2>1 DEF Tracking, NothingYet, Orderly, HandleIsLive, Untracked
<1>2. WifiInv /\ UNCHANGED wifiVars => WifiInv'
  <2> SUFFICES ASSUME WifiInv, UNCHANGED wifiVars PROVE WifiInv'
    OBVIOUS
  <2>1. WifiTypeOK'
    BY TypedInductive DEF WifiInv
  <2> QED
    BY <2>1 DEF WifiInv, Tracking, NothingYet, Orderly, HandleIsLive, Untracked, Tasks,
                Deciding, wifiVars
<1>3. WifiInv /\ WifiNext => WifiInv'
  BY TrackingInductive, NothingYetInductive, OrderlyInductive, TypedInductive DEF WifiInv
<1> QED
  BY <1>1, <1>2, <1>3

-----------------------------------------------------------------------------
(* What the WiFi manager promises                                          *)

\* The event handler never deletes a task that has ended: the handle it deletes by is
\* for a task that is there, or NULL.
THEOREM HandleStaysLive == WifiInit /\ [][WifiNext]_wifiVars => []HandleIsLive
<1>1. WifiInv => HandleIsLive
  BY DEF WifiInv, Tracking
<1> QED
  BY <1>1, WifiInductive, PTL

\* How many there may be of one or two values.
LEMMA AtMostOne ==
  ASSUME NEW a, NEW S \in SUBSET {a}
  PROVE  Cardinality(S) <= 1 /\ Cardinality(S) <= 2
<1>1. IsFiniteSet({a}) /\ Cardinality({a}) = 1
  BY FS_Singleton
<1>2. IsFiniteSet(S) /\ Cardinality(S) <= Cardinality({a})
  BY <1>1, FS_Subset
<1>3. Cardinality(S) \in Nat
  BY <1>2, FS_CardinalityType
<1> QED
  BY <1>1, <1>2, <1>3

LEMMA AtMostTwo ==
  ASSUME NEW a, NEW b, NEW S \in SUBSET ({a} \cup {b})
  PROVE  Cardinality(S) <= 2
<1>1. IsFiniteSet({a}) /\ Cardinality({a}) = 1
  BY FS_Singleton
<1>2. IsFiniteSet({a} \cup {b}) /\ Cardinality({a} \cup {b}) \in {1, 2}
  BY <1>1, FS_AddElement
<1>3. IsFiniteSet(S) /\ Cardinality(S) <= Cardinality({a} \cup {b})
  BY <1>2, FS_Subset
<1>4. Cardinality(S) \in Nat
  BY <1>3, FS_CardinalityType
<1> QED
  BY <1>2, <1>3, <1>4

\* Lost connections, tasks that end and app_main at work never leave more than two
\* reconnect tasks, nor more than one unless app_main was overtaken.
THEOREM NeverManyTasks == WifiInit /\ [][WifiNext]_wifiVars => []FewTasks
<1>1. WifiInv => FewTasks
  <2> SUFFICES ASSUME WifiInv PROVE FewTasks
    OBVIOUS
  <2>1. Tasks \subseteq Untracked \cup {reconnect_task_handle}
    BY DEF Untracked
  <2>2. CASE Untracked = {}
    <3>1. Tasks \in SUBSET {reconnect_task_handle}
      BY <2>1, <2>2
    <3> QED
      BY <3>1, AtMostOne DEF FewTasks
  <2>3. CASE Untracked # {}
    <3>1. PICK t \in Untracked : Tasks \in SUBSET ({reconnect_task_handle} \cup {t})
      BY <2>1, <2>3 DEF WifiInv, Tracking
    <3>2. overtaken
      BY <2>3 DEF WifiInv, Tracking
    <3> QED
      BY <3>1, <3>2, AtMostTwo DEF FewTasks
  <2> QED
    BY <2>2, <2>3
<1> QED
  BY <1>1, WifiInductive, PTL

\* After a loss there is a task that will try again, unless app_main was overtaken; as
\* long as there is memory for one.
THEOREM LossIsRepaired ==
  ASSUME Task # {}
  PROVE  WifiInit /\ [][WifiNext]_wifiVars => []SomebodyReconnects
<1>1. WifiInv => SomebodyReconnects
  BY DEF WifiInv, Orderly, SomebodyReconnects, Tasks
<1> QED
  BY <1>1, WifiInductive, PTL

\* A connection leaves nobody behind who could lengthen the wait before the next
\* attempt, unless app_main was overtaken.
THEOREM BackoffIsFresh == WifiInit /\ [][WifiNext]_wifiVars => []FreshBackoff
<1>1. WifiInv => FreshBackoff
  BY DEF WifiInv, Orderly, FreshBackoff
<1> QED
  BY <1>1, WifiInductive, PTL
=============================================================================
