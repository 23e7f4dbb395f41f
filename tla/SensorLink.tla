----------------------------- MODULE SensorLink -----------------------------
(***************************************************************************)
(* One wireless sensor (src/examples/wireless_sensor) and the bridge's     *)
(* side of its protocol (src/src/espnow_handler.c): pairing and sessions,  *)
(* heartbeats, GPIO commands with their sequence numbers and duplicate     *)
(* filter, and the assignment of an output function to the sensor.         *)
(*                                                                         *)
(* A frame either reaches the other side's receive callback at once or is  *)
(* lost.  What takes time is the bridge's receive queue: the callback      *)
(* answers a PAIR itself and queues every other frame for espnow_rx_task,  *)
(* whose handling of a command is a sequence of steps the callback, the    *)
(* monitor task and the web server run in between.  A sensor that has      *)
(* given up waiting sends its command again, so several copies of one      *)
(* command may be on the bridge at a time.                                 *)
(*                                                                         *)
(* The entry of the sensor in the peer table is peer; PeerTable models     *)
(* when entries are taken and evicted, here an eviction may happen at any  *)
(* time.  The sensor is the only one bound to its function, so nobody else *)
(* drives the outputs it drives.                                           *)
(***************************************************************************)
EXTENDS Integers, Sequences

CONSTANTS
  Function,       \* the output functions
  Unassigned,     \* 0xFF, no function
  Session,        \* session identifiers
  None,           \* no entry, no answer, no frame
  SeqMod,         \* the sequence numbers are modulo SeqMod (2^16)
  RxQueueSize,    \* ESPNOW_RX_QUEUE_SIZE
  RepairAfter,    \* HEARTBEAT_FAILURES_BEFORE_REPAIR
  StableInput,    \* neither the input nor the sensor's function changes before
                  \* its command is confirmed
  CommandsOften   \* fewer than SeqMod/2 numbers between two executed commands

ASSUME SensorLinkAssumption ==
  /\ Unassigned \notin Function
  /\ None \notin Session \cup Function \cup {Unassigned, "ok", "error"}
  /\ SeqMod \in Nat /\ SeqMod > 1
  /\ RxQueueSize \in Nat
  /\ RepairAfter \in Nat \ {0}
  /\ StableInput \in BOOLEAN /\ CommandsOften \in BOOLEAN

VARIABLES
  \* the sensor
  paired,          \* paired and bridgePeerAdded
  session,         \* sessionId
  sequence,        \* sequence
  sensorFunction,  \* sensorFunction
  pairAck,         \* pairAssignedFunction while pairAckPending, else None
  failures,        \* heartbeatFailures
  waiting,         \* which answer the loop waits for
  answer,          \* the answer received so far, None before it
  command,         \* the last command: its function, state and outcome
  \* the bridge
  peer,            \* the sensor's entry in peers[], None when it has none
  radio,           \* the radio driver knows the sensor
  doomed,          \* the monitor has evicted the sensor, esp_now_del_peer to come
  rxQueue,         \* espnow_rx_queue
  rx,              \* the command espnow_rx_task is handling, None between frames
  outputs,         \* output_state
  binding,         \* the function bound to the sensor in the configuration
  lastDriven       \* the last command that drove an output since the last PAIR

sensorVars == <<paired, session, sequence, sensorFunction, pairAck, failures,
                waiting, answer, command>>
linkVars == <<peer, radio, doomed, lastDriven>>
bridgeVars == <<linkVars, rxQueue, rx, outputs, binding>>
vars == <<sensorVars, bridgeVars>>

Seq16 == 0..(SeqMod - 1)
Result == {"ok", "error"}
FunctionOrNone == Function \cup {Unassigned}

Frame == [type : {"heartbeat", "status", "gpio"}, session : Session, seq : Seq16,
          function : FunctionOrNone, state : BOOLEAN]

Command == [session : Session, seq : Seq16]

\* A command in the hands of espnow_rx_task.
Handled == [frame : Frame, stage : {"bound", "drive", "remember"}, result : Result]

ASSUME NoneAssumption == None \notin Command \cup Handled

\* Mutant of Newer: a difference of zero counts as newer.
NewerOrSame(seq, last) == (seq - last) % SeqMod \in 0..((SeqMod - 1) \div 2)

\* seq_is_newer: the difference as a signed 16-bit integer is positive.
Newer(seq, last) == (seq - last) % SeqMod \in 1..((SeqMod - 1) \div 2)

\* Mutant of NextSeq: the number does not wrap.
NextSeqUnwrapped == sequence + 1

NextSeq == (sequence + 1) % SeqMod

-----------------------------------------------------------------------------
Init ==
  /\ paired = FALSE /\ session \in Session /\ sequence = 0
  /\ sensorFunction = Unassigned /\ pairAck = None /\ failures = 0
  /\ waiting = "nothing" /\ answer = None
  /\ command = [function |-> Unassigned, state |-> FALSE, outcome |-> "none"]
  /\ peer = None /\ radio = FALSE /\ doomed = FALSE
  /\ rxQueue = <<>> /\ rx = None
  /\ outputs = [f \in Function |-> FALSE]
  /\ binding \in FunctionOrNone
  /\ lastDriven = None

-----------------------------------------------------------------------------
(* Pairing                                                                 *)

\* The entry right after reset_new_sequence.
Reset(s) == [session |-> s, seq |-> 0, valid |-> FALSE, result |-> "error"]

\* Mutant of Pair: the radio peer is added only along with the entry.
PairTrustsEntry(s) ==
  \/ pairAck' = None /\ UNCHANGED linkVars
  \/ /\ peer' = Reset(s) /\ radio' = (peer = None \/ radio)
     /\ lastDriven' = None
     /\ UNCHANGED doomed
     /\ pairAck' \in {None, binding}

\* sendPair in session s, up to the sensor's callback: the PAIR is lost, or the
\* bridge adds the peer and answers, and the PAIR_ACK is lost or noted.  The
\* SENSOR_ASSIGNMENT that follows it finds the sensor not yet paired.
Pair(s) ==
  \/ pairAck' = None /\ UNCHANGED linkVars
  \/ /\ peer' = Reset(s) /\ radio' = TRUE
     /\ lastDriven' = None
     /\ UNCHANGED doomed
     /\ pairAck' \in {None, binding}

\* createNewSession: 32 random bits, different from every session still around.
Fresh == Session \ ({session} \cup {rxQueue[i].session : i \in 1..Len(rxQueue)}
                      \cup (IF peer = None THEN {} ELSE {peer.session})
                      \cup (IF rx = None THEN {} ELSE {rx.frame.session}))

\* The loop retries the PAIR every PAIR_RETRY_MS, in the same session.
SendPair ==
  /\ ~paired /\ pairAck = None /\ waiting = "nothing"
  /\ Pair(session)
  /\ UNCHANGED <<paired, session, sequence, sensorFunction, failures, waiting,
                 answer, command, rxQueue, rx, outputs, binding>>

\* The loop acts on pairAckPending.
TakePairAck ==
  /\ pairAck # None /\ waiting = "nothing"
  /\ paired' = TRUE /\ sensorFunction' = pairAck /\ sequence' = 0
  /\ failures' = 0 /\ pairAck' = None
  /\ UNCHANGED <<session, waiting, answer, command, bridgeVars>>

\* Forget the bridge, make a new session and send its first PAIR.
StartOver ==
  /\ paired' = FALSE /\ sequence' = 0 /\ sensorFunction' = Unassigned
  /\ failures' = 0 /\ waiting' = "nothing" /\ answer' = None
  /\ \E s \in Fresh : session' = s /\ Pair(s)
  /\ UNCHANGED <<command, rxQueue, rx, outputs, binding>>

\* The sensor restarts, or its user types PAIR.
SensorRestart == StartOver

-----------------------------------------------------------------------------
(* The sensor's requests                                                   *)

\* The bridge's callback: a frame of an unknown peer is ignored, a frame that
\* finds the queue full is dropped.
Arrived(q, frame) ==
  IF peer = None \/ Len(q) >= RxQueueSize THEN q ELSE Append(q, frame)

\* sendNewPacket with the current session and sequence number.
Send(type, function, state) ==
  /\ paired /\ waiting = "nothing" /\ pairAck = None
  /\ waiting' = type /\ answer' = None
  /\ rxQueue' \in {rxQueue, Arrived(rxQueue,
                     [type |-> type, session |-> session, seq |-> sequence,
                      function |-> function, state |-> state])}
  /\ UNCHANGED <<paired, session, sequence, sensorFunction, pairAck, failures,
                 linkVars, rx, outputs, binding>>

\* The numbers of this session in the commands the bridge has queued, is
\* handling, remembers, or has executed last.
Landmarks ==
  LET known == {rxQueue[i] : i \in {j \in 1..Len(rxQueue) : rxQueue[j].type = "gpio"}}
                 \cup (IF rx = None THEN {} ELSE {rx.frame})
                 \cup {d \in {peer} : d # None /\ d.valid}
                 \cup ({lastDriven} \ {None})
  IN {e.seq : e \in {d \in known : d.session = session}}

\* With CommandsOften, no number is used half the sequence space past those.
WithinWindow ==
  CommandsOften =>
    \A base \in Landmarks : (NextSeq - base) % SeqMod \in 1..((SeqMod - 1) \div 2)

SendHeartbeat == WithinWindow /\ Send("heartbeat", Unassigned, FALSE) /\ UNCHANGED command

AskStatus == WithinWindow /\ Send("status", Unassigned, FALSE) /\ UNCHANGED command

SendCommand(state) ==
  /\ sensorFunction # Unassigned
  /\ StableInput /\ command.outcome = "open" =>
       state = command.state /\ sensorFunction = command.function
  /\ Send("gpio", sensorFunction, state)
  /\ command' = [function |-> sensorFunction, state |-> state, outcome |-> "open"]

-----------------------------------------------------------------------------
(* The end of the sensor's waits                                           *)

HeartbeatAnswered ==
  /\ waiting = "heartbeat" /\ answer # None
  /\ waiting' = "nothing" /\ answer' = None
  /\ failures' = 0 /\ sequence' = NextSeq
  /\ UNCHANGED <<paired, session, sensorFunction, pairAck, command, bridgeVars>>

\* ACK_TIMEOUT_MS went by; the last failure starts the pairing over.
HeartbeatTimeout ==
  /\ waiting = "heartbeat" /\ answer = None
  /\ IF failures + 1 >= RepairAfter THEN StartOver
     ELSE /\ failures' = failures + 1 /\ waiting' = "nothing"
          /\ UNCHANGED <<paired, session, sequence, sensorFunction, pairAck,
                         answer, command, bridgeVars>>

\* Answered or not, a status request uses up its number.
StatusDone ==
  /\ waiting = "status"
  /\ waiting' = "nothing" /\ answer' = None /\ sequence' = NextSeq
  /\ UNCHANGED <<paired, session, sensorFunction, pairAck, failures, command,
                 bridgeVars>>

\* The loop sees gpioAckReceived: only an OK uses up the number.
CommandAnswered ==
  /\ waiting = "gpio" /\ answer # None
  /\ waiting' = "nothing" /\ answer' = None
  /\ IF answer = "ok"
     THEN /\ sequence' = NextSeq
          /\ command' = IF command.outcome = "open"
                        THEN [command EXCEPT !.outcome = "confirmed"] ELSE command
     ELSE UNCHANGED <<sequence, command>>
  /\ UNCHANGED <<paired, session, sensorFunction, pairAck, failures, bridgeVars>>

CommandTimeout ==
  /\ waiting = "gpio" /\ answer = None
  /\ waiting' = "nothing"
  /\ UNCHANGED <<paired, session, sequence, sensorFunction, pairAck, failures,
                 answer, command, bridgeVars>>

-----------------------------------------------------------------------------
(* espnow_rx_task                                                          *)

\* onDataRecv of an answer: it must carry the session and number in use.
Answered(type, frame, a) ==
  answer' = IF /\ waiting = type /\ paired
               /\ frame.session = session /\ frame.seq = sequence
               /\ type = "gpio" => frame.function = sensorFunction
            THEN a ELSE answer

\* An answer is sent: lost, or heard if the radio driver knows the sensor.
Reply(type, frame, a) ==
  /\ \/ UNCHANGED answer
     \/ radio /\ Answered(type, frame, a)
  /\ UNCHANGED <<paired, session, sequence, sensorFunction, pairAck, failures,
                 waiting, command>>

\* Mutant of Duplicate: the session is not compared.
DuplicateAnySession(frame) ==
  /\ peer # None /\ peer.valid
  /\ ~Newer(frame.seq, peer.seq)

\* peer_accepts_sequence, which answers TRUE for a duplicate.
Duplicate(frame) ==
  /\ peer # None /\ peer.valid /\ peer.session = frame.session
  /\ ~Newer(frame.seq, peer.seq)

\* The next frame, up to its answer or to the end of the duplicate check.
RxTake ==
  /\ rx = None /\ rxQueue # <<>>
  /\ rxQueue' = Tail(rxQueue)
  /\ LET frame == Head(rxQueue) IN
       \/ /\ peer = None \/ frame.type = "status"
          /\ UNCHANGED <<sensorVars, rx>>
       \/ /\ peer # None /\ frame.type = "heartbeat"
          /\ Reply("heartbeat", frame, "ok")
          /\ UNCHANGED rx
       \/ /\ frame.type = "gpio" /\ Duplicate(frame)
          /\ Reply("gpio", frame, peer.result)
          /\ UNCHANGED rx
       \/ /\ peer # None /\ frame.type = "gpio" /\ ~Duplicate(frame)
          /\ rx' = [frame |-> frame, stage |-> "bound", result |-> "error"]
          /\ UNCHANGED sensorVars
  /\ UNCHANGED <<linkVars, outputs, binding>>

\* sensor_is_bound_to_function.
RxCheckBinding ==
  /\ rx # None /\ rx.stage = "bound"
  /\ rx' = [rx EXCEPT !.stage = IF peer # None /\ binding = rx.frame.function
                                THEN "drive" ELSE "remember"]
  /\ UNCHANGED <<sensorVars, linkVars, rxQueue, outputs, binding>>

\* gpio_set_level and output_state.
RxDrive ==
  /\ rx # None /\ rx.stage = "drive"
  /\ outputs' = [outputs EXCEPT ![rx.frame.function] = rx.frame.state]
  /\ rx' = [rx EXCEPT !.stage = "remember", !.result = "ok"]
  /\ lastDriven' = [session |-> rx.frame.session, seq |-> rx.frame.seq]
  /\ UNCHANGED <<sensorVars, peer, radio, doomed, rxQueue, binding>>

\* remember_sequence in whatever entry the sensor has by now, and the GPIO_ACK.
RxRemember ==
  /\ rx # None /\ rx.stage = "remember"
  /\ peer' = IF peer = None THEN None
             ELSE [session |-> rx.frame.session, seq |-> rx.frame.seq,
                   valid |-> TRUE, result |-> rx.result]
  /\ Reply("gpio", rx.frame, rx.result)
  /\ rx' = None
  /\ UNCHANGED <<radio, doomed, lastDriven, rxQueue, outputs, binding>>

-----------------------------------------------------------------------------
(* The other tasks of the bridge                                           *)

\* The monitor evicts the sensor, and then deletes its radio peer.
Evict ==
  /\ peer # None /\ ~doomed
  /\ peer' = None /\ doomed' = TRUE /\ lastDriven' = None
  /\ UNCHANGED <<sensorVars, radio, rxQueue, rx, outputs, binding>>

DeleteRadioPeer ==
  /\ doomed
  /\ radio' = FALSE /\ doomed' = FALSE
  /\ UNCHANGED <<sensorVars, peer, lastDriven, rxQueue, rx, outputs, binding>>

\* send_sensor_assignment: lost, or taken by a paired sensor whose session is
\* the one the bridge remembers.
Notify(f) ==
  /\ sensorFunction' \in {sensorFunction} \cup
       (IF radio /\ paired /\ peer # None /\ peer.session = session THEN {f} ELSE {})
  /\ UNCHANGED <<paired, session, sequence, pairAck, failures, waiting, answer,
                 command>>

\* espnow_assign_sensor on a listed sensor.  The session is read before the
\* binding is saved: a PAIR in between is one more way to lose the message.
Assign(f) ==
  /\ peer # None /\ binding \in {Unassigned, f}
  /\ binding' = f
  /\ Notify(f)
  /\ UNCHANGED <<linkVars, rxQueue, rx, outputs>>

\* espnow_unassign_sensor, listed or not; the output stays as it is.
Unassign ==
  /\ binding # Unassigned
  /\ binding' = Unassigned
  /\ Notify(Unassigned)
  /\ UNCHANGED <<linkVars, rxQueue, rx, outputs>>

\* The bridge restarts: everything but the stored binding is lost and every
\* output is switched off; the sensor's last command is not in force any more.
BridgeRestart ==
  /\ peer' = None /\ radio' = FALSE /\ doomed' = FALSE /\ lastDriven' = None
  /\ rxQueue' = <<>> /\ rx' = None
  /\ outputs' = [f \in Function |-> FALSE]
  /\ command' = [command EXCEPT !.outcome = "none"]
  /\ UNCHANGED <<paired, session, sequence, sensorFunction, pairAck, failures,
                 waiting, answer, binding>>

-----------------------------------------------------------------------------
SensorLoop ==
  \/ SendPair \/ TakePairAck \/ SendHeartbeat \/ HeartbeatAnswered
  \/ HeartbeatTimeout \/ StatusDone \/ CommandAnswered \/ CommandTimeout

RxTask == RxTake \/ RxCheckBinding \/ RxDrive \/ RxRemember

Next ==
  \/ SensorLoop
  \/ SensorRestart \/ AskStatus \/ \E state \in BOOLEAN : SendCommand(state)
  \/ RxTask
  \/ Evict \/ DeleteRadioPeer \/ BridgeRestart
  \/ (\E f \in Function : Assign(f)) \/ Unassign

Spec == Init /\ [][Next]_vars

\* The loops and tasks never stop, the loop gets to its heartbeat whatever its
\* user types, and the radio does not lose every PAIR for ever.
Fairness ==
  /\ SF_vars(SendPair /\ pairAck' # None)
  /\ SF_vars(SendHeartbeat)
  /\ WF_vars(TakePairAck)
  /\ WF_vars(HeartbeatAnswered \/ HeartbeatTimeout)
  /\ WF_vars(StatusDone)
  /\ WF_vars(CommandAnswered \/ CommandTimeout)
  /\ WF_vars(RxTask)
  /\ WF_vars(DeleteRadioPeer)

FairSpec == Spec /\ Fairness

-----------------------------------------------------------------------------
\* Every variable has the type of the code's data.
TypeOK ==
  /\ paired \in BOOLEAN /\ session \in Session /\ sequence \in Seq16
  /\ sensorFunction \in FunctionOrNone
  /\ pairAck \in FunctionOrNone \cup {None}
  /\ failures \in 0..(RepairAfter - 1)
  /\ waiting \in {"nothing", "heartbeat", "status", "gpio"}
  /\ answer \in Result \cup {None}
  /\ command \in [function : FunctionOrNone, state : BOOLEAN,
                  outcome : {"none", "open", "confirmed"}]
  /\ peer \in [session : Session, seq : Seq16, valid : BOOLEAN, result : Result]
               \cup {None}
  /\ radio \in BOOLEAN /\ doomed \in BOOLEAN
  /\ rxQueue \in Seq(Frame) /\ Len(rxQueue) <= RxQueueSize
  /\ rx \in Handled \cup {None}
  /\ outputs \in [Function -> BOOLEAN]
  /\ binding \in FunctionOrNone
  /\ lastDriven \in Command \cup {None}

\* sendGPIOCommand returned true: the output of the sensor's function has the
\* state it asked for, and keeps it until the sensor's next command.
ConfirmedIsDriven ==
  command.outcome = "confirmed" => outputs[command.function] = command.state

\* A command that arrives again, as a copy or as a retry, does not drive the
\* output again, unless a PAIR or an eviction came in between.
AtMostOnce ==
  [][RxDrive => lastDriven # [session |-> rx.frame.session, seq |-> rx.frame.seq]]_vars

\* The sensor takes itself for paired, the bridge lists it and can answer it.
Linked == paired /\ peer # None /\ radio

\* What the link has to survive: restarts of either device and evictions.  (The
\* sensor's own new start after HeartbeatTimeout is no disturbance.)
Disturbance == (SensorRestart /\ ~HeartbeatTimeout) \/ Evict \/ BridgeRestart

\* Unless it is disturbed again and again, the link always comes back: whatever
\* one side has forgotten, be it the radio peer the monitor deleted behind a new
\* PAIR, the heartbeats find out and the sensor pairs anew.
Reconnects == []<><<Disturbance>>_vars \/ []<>Linked

\* README.md: the sensor automatically knows which function it is assigned.
\* Unless the link is disturbed or the user reassigns for ever, the sensor keeps
\* coming to know the function it is bound to.
KnowsItsFunction ==
  \/ []<><<Disturbance>>_vars
  \/ []<><<Unassign \/ \E f \in Function : Assign(f)>>_vars
  \/ []<>(binding \in Function => sensorFunction = binding)

=============================================================================
