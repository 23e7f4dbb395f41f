---------------------------- MODULE LegacyPendant ----------------------------
(***************************************************************************)
(* A hand-held pendant (src/examples/espnow_pendant) and the bridge's side *)
(* of its protocol (src/src/espnow_handler.c): pairing, numbered G-code    *)
(* lines that wait for an acknowledgement, realtime commands that do not,  *)
(* and the bridge's duplicate filter and queue to the UART.                *)
(*                                                                         *)
(* The bridge's callback acknowledges a command before it looks whether it *)
(* is a duplicate and whether the queue has room.  A frame reaches it at   *)
(* once or is lost; acknowledgements may wait, because the pendant's       *)
(* callback writes to its web sockets.  A line is considered transmitted   *)
(* when the acknowledgement of its number comes: this module is about what *)
(* has become of the line by then.                                         *)
(*                                                                         *)
(* Only the pendant's current command is told apart from earlier ones: it  *)
(* is the one a wrong filter could swallow or repeat.                      *)
(***************************************************************************)
EXTENDS Naturals, Sequences

CONSTANTS
  MaxSequence,  \* bound of the model: numbers used before the pendant starts over
  MaxAcks,      \* bound of the model: acknowledgements waiting for the callback
  None,         \* 0xFFFF in lastAckSeq, no number the pendant gets to; no entry
  RxQueueSize,  \* ESPNOW_LEGACY_RX_QUEUE_SIZE
  Patient,      \* a line that timed out is sent again before anything else
  Paced         \* the pendant sends only while the bridge's queue has room

ASSUME LegacyPendantAssumption ==
  /\ MaxSequence \in Nat \ {0} /\ MaxAcks \in Nat \ {0}
  /\ None \notin 0..MaxSequence
  /\ None \notin [seq : 0..MaxSequence, valid : BOOLEAN]
  /\ RxQueueSize \in Nat \ {0}
  /\ Patient \in BOOLEAN /\ Paced \in BOOLEAN

VARIABLES
  \* the pendant
  paired,    \* paired and bridge_peer_added
  sequence,  \* sequence
  lastAck,   \* lastAckSeq
  waiting,   \* sendGcodeLine waits for its acknowledgement
  acks,      \* acknowledgements received by the radio, in order
  command,   \* the current command: none, a line still "open", a line that is
             \* "confirmed", or a "realtime" command
  \* the bridge
  peer,      \* legacy_last_seq and legacy_seq_valid, or None: not listed
  radio,     \* the radio driver knows the pendant
  doomed,    \* the monitor has evicted the pendant, esp_now_del_peer to come
  rxQueue,   \* espnow_legacy_rx_queue: "current" or "earlier" commands
  fate       \* the current command: "absent", "queued" or "lost" on the bridge,
             \* "wiped" from its queue by a restart, or handed to serial_send_data,
             \* which has "forwarded" it to the UART's queue or "dropped" it

pendantVars == <<paired, sequence, lastAck, waiting, acks, command>>
linkVars == <<peer, radio, doomed>>
bridgeVars == <<linkVars, rxQueue, fate>>
vars == <<pendantVars, bridgeVars>>

Seq16 == 0..MaxSequence

Init ==
  /\ paired = FALSE /\ sequence = 0 /\ lastAck = None /\ waiting = FALSE
  /\ acks = <<>> /\ command = "none"
  /\ peer = None /\ radio = FALSE /\ doomed = FALSE
  /\ rxQueue = <<>> /\ fate = "absent"

-----------------------------------------------------------------------------
(* Pairing                                                                 *)

\* Mutant of Reset: a number marks the entry, there is no flag.
ResetToNone == [seq |-> None, valid |-> FALSE]

\* reset_legacy_sequence.
Reset == [seq |-> 0, valid |-> FALSE]

\* Mutant of Pair: the radio peer is added only along with the entry.
PairTrustsEntry ==
  \/ paired' = FALSE /\ UNCHANGED linkVars
  \/ /\ peer' = Reset /\ radio' = (peer = None \/ radio)
     /\ paired' \in {FALSE, radio'}
     /\ UNCHANGED doomed

\* A PAIR, up to the pendant's callback: it is lost, or the bridge adds the peer
\* and forgets its number, and the PAIR_OK is lost or heard.
Pair ==
  \/ paired' = FALSE /\ UNCHANGED linkVars
  \/ /\ peer' = Reset /\ radio' = TRUE
     /\ paired' \in BOOLEAN
     /\ UNCHANGED doomed

\* The loop repeats the PAIR while the pendant is not paired.
SendPair ==
  /\ ~paired
  /\ Pair
  /\ UNCHANGED <<sequence, lastAck, waiting, acks, command, rxQueue, fate>>

\* Mutant of StartOver: the last acknowledgement is kept.
StartOverKeepsAck ==
  /\ sequence' = 0 /\ waiting' = FALSE
  /\ acks' = <<>> /\ command' = "none"
  /\ Pair
  /\ UNCHANGED <<lastAck, rxQueue, fate>>

\* resetPairing.  No acknowledgement is older than the ten seconds of silence
\* before it.
StartOver ==
  /\ sequence' = 0 /\ lastAck' = None /\ waiting' = FALSE
  /\ acks' = <<>> /\ command' = "none"
  /\ Pair
  /\ UNCHANGED <<rxQueue, fate>>

\* HEARTBEAT_TIMEOUT_MS without a frame from the bridge.
Silence == paired /\ ~waiting /\ StartOver

PendantRestart == StartOver

-----------------------------------------------------------------------------
(* The bridge's callback                                                   *)

Room == Len(rxQueue) < RxQueueSize

\* Mutant of Duplicate: legacy_seq_valid is not looked at.
DuplicateOfReset == peer.seq = sequence

\* legacy_sequence_is_duplicate.
Duplicate == peer.valid /\ peer.seq = sequence

\* The acknowledgement is lost, or waits for the pendant's callback.
Acknowledge ==
  \/ UNCHANGED acks
  \/ radio /\ Len(acks) < MaxAcks /\ acks' = Append(acks, sequence)

\* remember_legacy_sequence and enqueue_legacy_command, on the queue q.
Take(q) ==
  /\ peer' = [seq |-> sequence, valid |-> TRUE]
  /\ \/ Room /\ rxQueue' = Append(q, "current") /\ fate' = "queued"
     \/ ~Room /\ rxQueue' = q /\ fate' = "lost"

\* Mutant of Arrive: the filter does not see the number of a command waiting.
ArriveUnfiltered(q, f) ==
  \/ UNCHANGED <<acks, peer>> /\ rxQueue' = q /\ fate' = f
  \/ /\ peer # None
     /\ Acknowledge
     /\ Take(q)

\* The current command gets lost on the way, finds no entry, or is acknowledged
\* and then dropped or taken.
Arrive(q, f) ==
  \/ UNCHANGED <<acks, peer>> /\ rxQueue' = q /\ fate' = f
  \/ /\ peer # None
     /\ Acknowledge
     /\ IF Duplicate THEN UNCHANGED peer /\ rxQueue' = q /\ fate' = f ELSE Take(q)

-----------------------------------------------------------------------------
(* The pendant's commands                                                  *)

\* The queue when its commands are no longer the current one.
Earlier == [i \in 1..Len(rxQueue) |-> "earlier"]

CanSend == paired /\ ~waiting /\ sequence < MaxSequence /\ (Paced => Room)

\* sendGcodeLine with a new line, up to the wait.
SendLine ==
  /\ CanSend /\ (Patient => command # "open")
  /\ command' = "open" /\ waiting' = TRUE
  /\ Arrive(Earlier, "absent")
  /\ UNCHANGED <<paired, sequence, lastAck, radio, doomed>>

\* The user sends the line that timed out again.
RepeatLine ==
  /\ CanSend /\ command = "open"
  /\ waiting' = TRUE
  /\ Arrive(rxQueue, fate)
  /\ UNCHANGED <<paired, sequence, lastAck, command, radio, doomed>>

\* sendRealtime: nobody waits for the acknowledgement.
SendRealtime ==
  /\ CanSend /\ (Patient => command # "open")
  /\ command' = "realtime" /\ sequence' = sequence + 1
  /\ Arrive(Earlier, "absent")
  /\ UNCHANGED <<paired, lastAck, waiting, radio, doomed>>

\* onDataRecv of an acknowledgement.
HearAck ==
  /\ acks # <<>>
  /\ lastAck' = Head(acks) /\ acks' = Tail(acks)
  /\ UNCHANGED <<paired, sequence, waiting, command, bridgeVars>>

LineConfirmed ==
  /\ waiting /\ lastAck = sequence
  /\ waiting' = FALSE /\ sequence' = sequence + 1 /\ command' = "confirmed"
  /\ UNCHANGED <<paired, lastAck, acks, bridgeVars>>

\* Three seconds went by.
LineTimeout ==
  /\ waiting /\ lastAck # sequence
  /\ waiting' = FALSE
  /\ UNCHANGED <<paired, sequence, lastAck, acks, command, bridgeVars>>

-----------------------------------------------------------------------------
(* The other tasks of the bridge                                           *)

\* serial_send_data queues the bytes for the UART, or drops them when it gets no
\* buffer or finds no room for 100 ms; it tells nobody which.
SerialSendData == {"forwarded", "dropped"}

\* espnow_legacy_rx_task hands a listed pendant's command to serial_send_data.
RxTask ==
  /\ rxQueue # <<>>
  /\ rxQueue' = Tail(rxQueue)
  /\ \/ Head(rxQueue) # "current" /\ fate' = fate
     \/ Head(rxQueue) = "current" /\ peer = None /\ fate' = "lost"
     \/ Head(rxQueue) = "current" /\ peer # None /\ fate' \in SerialSendData
  /\ UNCHANGED <<pendantVars, linkVars>>

\* The monitor evicts the pendant.  It takes at least ten seconds without a
\* frame (PeerTable!EvictionNeedsSilence), so nothing of it waits any more.
Evict ==
  /\ peer # None /\ ~doomed /\ rxQueue = <<>>
  /\ peer' = None /\ doomed' = TRUE
  /\ UNCHANGED <<pendantVars, radio, rxQueue, fate>>

DeleteRadioPeer ==
  /\ doomed
  /\ radio' = FALSE /\ doomed' = FALSE
  /\ UNCHANGED <<pendantVars, peer, rxQueue, fate>>

\* The bridge restarts; what it had queued is gone.
BridgeRestart ==
  /\ peer' = None /\ radio' = FALSE /\ doomed' = FALSE
  /\ rxQueue' = <<>>
  /\ fate' = IF fate = "queued" THEN "wiped" ELSE fate
  /\ UNCHANGED pendantVars

-----------------------------------------------------------------------------
Sending == SendLine \/ RepeatLine \/ SendRealtime

Next ==
  \/ SendPair \/ Silence \/ PendantRestart
  \/ Sending \/ HearAck \/ LineConfirmed \/ LineTimeout
  \/ RxTask \/ Evict \/ DeleteRadioPeer \/ BridgeRestart

Spec == Init /\ [][Next]_vars

\* The bridge lists the pendant and can send to it.
Reachable == peer # None /\ radio

\* Loops and tasks never stop; a bridge that does not reach the pendant is silent
\* for ten seconds; not every PAIR is lost.
Fairness ==
  /\ WF_vars(LineConfirmed \/ LineTimeout)
  /\ WF_vars(HearAck)
  /\ WF_vars(RxTask)
  /\ WF_vars(DeleteRadioPeer)
  /\ SF_vars(Silence /\ ~Reachable)
  /\ SF_vars(SendPair /\ paired')

FairSpec == Spec /\ Fairness

-----------------------------------------------------------------------------
\* Every variable has the type of the code's data.
TypeOK ==
  /\ paired \in BOOLEAN /\ sequence \in Seq16 /\ waiting \in BOOLEAN
  /\ lastAck \in Seq16 \cup {None}
  /\ acks \in Seq(Seq16) /\ Len(acks) <= MaxAcks
  /\ command \in {"none", "open", "confirmed", "realtime"}
  /\ peer \in [seq : Seq16, valid : BOOLEAN] \cup {None}
  /\ radio \in BOOLEAN /\ doomed \in BOOLEAN
  /\ rxQueue \in Seq({"current", "earlier"}) /\ Len(rxQueue) <= RxQueueSize
  /\ fate \in {"absent", "queued", "lost", "wiped"} \cup SerialSendData

\* The current command has made it into the bridge's queue, whatever became of it there.
Taken == fate \in {"queued", "wiped"} \cup SerialSendData

\* Pendant README: the pendant waits for the acknowledgement before considering
\* the line transmitted.  A line sendGcodeLine returned true for waits in the bridge's
\* queue or has been handed to serial_send_data, unless the bridge restarted with it
\* in its queue.  That it reaches the UART is not said: serial_send_data may drop it.
ConfirmedIsTaken == command = "confirmed" => Taken

\* The bridge acknowledges the current command by its number; only a copy of a
\* command it has already taken may be acknowledged and dropped.
AcknowledgedIsTaken ==
  [][Sending /\ Len(acks') > Len(acks) => Taken']_vars

\* A command is handed to serial_send_data once, however often it is sent and in
\* whatever order its acknowledgements come or get lost.
ForwardedOnce ==
  [][RxTask /\ Head(rxQueue) = "current" => fate \notin SerialSendData]_vars

\* The pendant always gets back to a bridge that lists it and can answer it, and
\* unless it is evicted or the bridge restarts again and again, it stays so.
ComesBack ==
  /\ []<>(paired /\ Reachable)
  /\ []<><<Evict \/ BridgeRestart>>_vars \/ <>[]Reachable

=============================================================================
