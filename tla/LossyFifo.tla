------------------------------ MODULE LossyFifo ------------------------------
(***************************************************************************)
(* What one direction of the serial bridge promises: chunks come out whole *)
(* and in the order they were accepted, one at a time, and a chunk that    *)
(* has been accepted is neither lost nor changed nor delivered twice.      *)
(* Whether a chunk is accepted is not promised: the code drops chunks it   *)
(* finds no buffer or no room for, and then nothing happens here.          *)
(***************************************************************************)
EXTENDS Naturals, Sequences

CONSTANTS
  Chunk,     \* the chunks of bytes
  None,      \* no chunk
  Capacity   \* how many chunks wait at most

VARIABLES
  pending,   \* the accepted chunks, in order
  current    \* the chunk being delivered, or None

fifoVars == <<pending, current>>

Init == pending = <<>> /\ current = None

Accept(c) ==
  /\ Len(pending) < Capacity
  /\ pending' = Append(pending, c)
  /\ UNCHANGED current

Take ==
  /\ current = None /\ pending # <<>>
  /\ current' = Head(pending) /\ pending' = Tail(pending)

Deliver ==
  /\ current # None
  /\ current' = None
  /\ UNCHANGED pending

Next == (\E c \in Chunk : Accept(c)) \/ Take \/ Deliver

Spec == Init /\ [][Next]_fifoVars

=============================================================================
