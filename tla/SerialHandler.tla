---------------------------- MODULE SerialHandler ----------------------------
(***************************************************************************)
(* The serial side of the bridge (src/src/serial_handler.c): a pool of     *)
(* buffers, three queues of pointers to buffers, and the tasks that pass   *)
(* them on.  Bytes for the UART come from several tasks through            *)
(* serial_send_data and go out in uart_tx_task; bytes from the UART are    *)
(* read by serial_read_task, copied twice, and go to the ESP-NOW peers     *)
(* (espnow_sender_task) and to the Telnet clients (the TCP server task).   *)
(*                                                                         *)
(* A buffer is owned by whoever holds its pointer; nothing in the code but *)
(* the order of its calls keeps two tasks from using, or freeing, the same *)
(* buffer.  Each step is one critical section or one queue call: the tasks *)
(* interleave freely between them.  What a chunk of bytes says is          *)
(* abstracted to a value; the time-out of xQueueSend is a drop that may    *)
(* happen while the queue is full.                                         *)
(***************************************************************************)
EXTENDS Naturals, Sequences

CONSTANTS
  Producer,   \* the tasks that call serial_send_data
  PoolSize,   \* DATA_POOL_SIZE, or as many as init_buffer_pool found memory for
  Heap,       \* buffers malloc may hand out when the pool is used up
  Chunk,      \* what a buffer may contain
  None,       \* the NULL pointer
  QueueSize   \* UART_TX_QUEUE_SIZE, UART_ESPNOW_QUEUE_SIZE

\* The queues, named for where they lead; also the names of their consumers:
\* uart_tx_task, espnow_sender_task and the TCP server task.
Queue == {"uart", "espnow", "tcp"}
Pool == 1..PoolSize
Buffer == Pool \cup Heap
\* Who may hold a pointer outside the queues; serial_read_task holds the buffer
\* it reads into and the copy it is about to queue.
Holder == Producer \cup Queue \cup {"original", "copy"}

ASSUME SerialAssumption ==
  /\ PoolSize \in Nat /\ Pool \cap Heap = {}
  /\ None \notin Buffer /\ None \notin Chunk
  /\ Producer \cap (Queue \cup {"original", "copy"}) = {}
  /\ QueueSize \in Nat \ {0}

VARIABLES
  used,      \* the pool entries in_use, and the heap buffers not yet freed
  content,   \* what each buffer contains
  queue,     \* queue[q]: the pointers in uart_tx_queue, uart_espnow_queue and
             \* uart_to_tcp_queue
  held,      \* held[h]: the pointer in a local variable of h, or None
  reader     \* where serial_read_task is: "idle", "reading", "espnow", "tcp", "done"

vars == <<used, content, queue, held, reader>>

-----------------------------------------------------------------------------
(* allocate_buffer and free_buffer                                         *)

First(pool) == {b \in pool : \A a \in pool : b <= a}

\* Mutant of Available: in_use is not looked at.
AvailableIgnoresUse == IF PoolSize > 0 THEN First(Pool) ELSE Heap \ used

\* The buffers allocate_buffer may return: the first free one of the pool, or
\* memory from malloc when the pool is used up.
Available == IF Pool \ used # {} THEN First(Pool \ used) ELSE Heap \ used

\* h gets buffer b.  malloc may also fail, at any time, and then h gets none.
Allocate(h, b) ==
  /\ b \in Available
  /\ used' = used \cup {b}
  /\ held' = [held EXCEPT ![h] = b]

\* And copies chunk c into it, which nobody else knows yet.
AllocateCopy(h, c) ==
  \E b \in Available :
    /\ Allocate(h, b)
    /\ content' = [content EXCEPT ![b] = c]

\* h frees its buffer.
Free(h) ==
  /\ used' = used \ {held[h]}
  /\ held' = [held EXCEPT ![h] = None]

-----------------------------------------------------------------------------
(* xQueueSend and xQueueReceive                                            *)

Room(q) == Len(queue[q]) < QueueSize

\* h puts its pointer in queue q.
Enqueue(h, q) ==
  /\ Room(q)
  /\ queue' = [queue EXCEPT ![q] = Append(@, held[h])]
  /\ held' = [held EXCEPT ![h] = None]

\* The consumer of q takes the next pointer.
Dequeue(q) ==
  /\ queue[q] # <<>>
  /\ held' = [held EXCEPT ![q] = Head(queue[q])]
  /\ queue' = [queue EXCEPT ![q] = Tail(@)]

-----------------------------------------------------------------------------
Init ==
  /\ used = {}
  /\ content \in [Buffer -> Chunk]
  /\ queue = [q \in Queue |-> <<>>]
  /\ held = [h \in Holder |-> None]
  /\ reader = "idle"

\* serial_send_data with chunk c, when a buffer is found; without one the chunk
\* is dropped and nothing changes.
Send(p, c) ==
  /\ held[p] = None
  /\ AllocateCopy(p, c)
  /\ UNCHANGED <<queue, reader>>

SendEnqueue(p) ==
  /\ held[p] # None
  /\ Enqueue(p, "uart")
  /\ UNCHANGED <<used, content, reader>>

\* The queue stayed full for 100 ms.
SendDrop(p) ==
  /\ held[p] # None /\ ~Room("uart")
  /\ Free(p)
  /\ UNCHANGED <<content, queue, reader>>

-----------------------------------------------------------------------------
(* serial_read_task                                                        *)

\* serial_get_data allocates before it reads.
ReaderAllocate ==
  /\ reader = "idle"
  /\ \E b \in Available : Allocate("original", b)
  /\ reader' = "reading"
  /\ UNCHANGED <<content, queue>>

\* uart_read_bytes returned nothing in 10 ms.
ReaderGotNothing ==
  /\ reader = "reading"
  /\ Free("original")
  /\ reader' = "idle"
  /\ UNCHANGED <<content, queue>>

\* uart_read_bytes has put a chunk in the buffer.
ReaderGot(c) ==
  /\ reader = "reading"
  /\ content' = [content EXCEPT ![held["original"]] = c]
  /\ reader' = "espnow"
  /\ UNCHANGED <<used, queue, held>>

AfterCopy == IF reader = "espnow" THEN "tcp" ELSE "done"

\* The copy for the ESP-NOW peers, then the one for the Telnet clients.
ReaderCopy ==
  /\ reader \in {"espnow", "tcp"} /\ held["copy"] = None
  /\ AllocateCopy("copy", content[held["original"]])
  /\ UNCHANGED <<queue, reader>>

\* No buffer for it: that side does not get the chunk.
ReaderSkip ==
  /\ reader \in {"espnow", "tcp"} /\ held["copy"] = None
  /\ reader' = AfterCopy
  /\ UNCHANGED <<used, content, queue, held>>

ReaderEnqueue ==
  /\ reader \in {"espnow", "tcp"} /\ held["copy"] # None
  /\ Enqueue("copy", reader)
  /\ reader' = AfterCopy
  /\ UNCHANGED <<used, content>>

\* Mutant of ReaderDrop: the copy that was not queued is forgotten.
ReaderDropForgets ==
  /\ reader \in {"espnow", "tcp"} /\ held["copy"] # None /\ ~Room(reader)
  /\ held' = [held EXCEPT !["copy"] = None]
  /\ reader' = AfterCopy
  /\ UNCHANGED <<used, content, queue>>

\* The queue stayed full for 10 ms, or 100 ms.
ReaderDrop ==
  /\ reader \in {"espnow", "tcp"} /\ held["copy"] # None /\ ~Room(reader)
  /\ Free("copy")
  /\ reader' = AfterCopy
  /\ UNCHANGED <<content, queue>>

\* Mutant of ReaderDone: the pointer to the freed original is not cleared.
ReaderDoneKeepsPointer ==
  /\ reader = "done"
  /\ used' = used \ {held["original"]}
  /\ reader' = "idle"
  /\ UNCHANGED <<content, queue, held>>

ReaderDone ==
  /\ reader = "done"
  /\ Free("original")
  /\ reader' = "idle"
  /\ UNCHANGED <<content, queue>>

-----------------------------------------------------------------------------
(* The three consumers: uart_tx_task, espnow_sender_task, tcp_server_task  *)

\* Mutant of Receive: the buffer goes back to the pool before it is used.
ReceiveFrees(q) ==
  /\ held[q] = None
  /\ Dequeue(q)
  /\ used' = used \ {Head(queue[q])}
  /\ UNCHANGED <<content, reader>>

Receive(q) ==
  /\ held[q] = None
  /\ Dequeue(q)
  /\ UNCHANGED <<used, content, reader>>

\* The chunk has been written to the UART, or sent to every peer or client.
Finish(q) ==
  /\ held[q] # None
  /\ Free(q)
  /\ UNCHANGED <<content, queue, reader>>

-----------------------------------------------------------------------------
Sending(p) == SendEnqueue(p) \/ SendDrop(p)

Reading ==
  \/ ReaderAllocate \/ ReaderGotNothing \/ (\E c \in Chunk : ReaderGot(c))
  \/ ReaderCopy \/ ReaderSkip \/ ReaderEnqueue \/ ReaderDrop \/ ReaderDone

Consuming(q) == Receive(q) \/ Finish(q)

Next ==
  \/ \E p \in Producer : Sending(p) \/ \E c \in Chunk : Send(p, c)
  \/ Reading
  \/ \E q \in Queue : Consuming(q)

Spec == Init /\ [][Next]_vars

\* Every task keeps running, and the scheduler gives each of them its turn.
Fairness ==
  /\ \A p \in Producer : WF_vars(Sending(p))
  /\ WF_vars(Reading)
  /\ \A q \in Queue : WF_vars(Consuming(q))

FairSpec == Spec /\ Fairness

-----------------------------------------------------------------------------
\* Every variable has the type of the code's data.
TypeOK ==
  /\ used \in SUBSET Buffer
  /\ content \in [Buffer -> Chunk]
  /\ queue \in [Queue -> Seq(Buffer)]
  /\ \A q \in Queue : Len(queue[q]) <= QueueSize
  /\ held \in [Holder -> Buffer \cup {None}]
  /\ reader \in {"idle", "reading", "espnow", "tcp", "done"}
  /\ reader = "idle" <=> held["original"] = None

At(q) == 1..Len(queue[q])

\* A pointer is in one place only: in one local variable, or at one position of
\* one queue.  No task works on, or frees, a buffer another task has.
OneOwner ==
  /\ \A g, h \in Holder : held[g] # None /\ held[g] = held[h] => g = h
  /\ \A q, r \in Queue : \A i \in At(q), j \in At(r) :
       queue[q][i] = queue[r][j] => q = r /\ i = j
  /\ \A h \in Holder, q \in Queue : \A i \in At(q) : held[h] # queue[q][i]

Reachable(b) ==
  (\E h \in Holder : held[h] = b) \/ (\E q \in Queue : \E i \in At(q) : queue[q][i] = b)

\* The pool marks as used exactly the buffers somebody can still free: none
\* leaks, on any of the paths that drop a chunk, and none is freed early.
NothingLeaks == \A b \in Buffer : b \in used <=> Reachable(b)

\* Queue q and its consumer seen from outside, by what the buffers contain.
Pending(q) == [i \in At(q) |-> content[queue[q][i]]]
Current(q) == IF held[q] = None THEN None ELSE content[held[q]]

UartChannel == INSTANCE LossyFifo
  WITH pending <- Pending("uart"), current <- Current("uart"), Capacity <- QueueSize
EspNowChannel == INSTANCE LossyFifo
  WITH pending <- Pending("espnow"), current <- Current("espnow"), Capacity <- QueueSize
TcpChannel == INSTANCE LossyFifo
  WITH pending <- Pending("tcp"), current <- Current("tcp"), Capacity <- QueueSize

\* Bytes for the UART, and the UART's bytes on their way to the ESP-NOW peers and
\* to the Telnet clients, pass through a FIFO of chunks each: although only
\* pointers are queued, and buffers are reused all the time, what was put in is
\* what comes out.
ChannelsAreFifo == UartChannel!Spec /\ EspNowChannel!Spec /\ TcpChannel!Spec

\* A buffer taken from the pool finds its way back, through whatever queue.
BuffersReturn == \A b \in Buffer : b \in used ~> b \notin used

=============================================================================
