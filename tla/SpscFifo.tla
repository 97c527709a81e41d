------------------------------ MODULE SpscFifo ------------------------------
(* What the sample ring of daisy-usb-audio (src/codec.rs) promises to its two *)
(* endpoints: a bounded first-in first-out queue whose operations take effect *)
(* at one instant inside the call. A push is refused only by a full queue and *)
(* a pop only by an empty one.                                                *)
EXTENDS Naturals, Sequences

CONSTANTS Capacity, Samples, Nothing

VARIABLES queue,      \* the samples pushed and not yet popped, oldest first
          pushed,     \* what the last push that took effect answered
          popped      \* what the last pop that took effect answered

fifoVars == <<queue, pushed, popped>>

FifoInit == queue = <<>> /\ pushed = FALSE /\ popped = Nothing

Accept(v) ==
  /\ Len(queue) < Capacity
  /\ queue' = Append(queue, v)
  /\ pushed' = TRUE
  /\ UNCHANGED popped

Refuse ==
  /\ Len(queue) = Capacity
  /\ pushed' = FALSE
  /\ UNCHANGED <<queue, popped>>

Take ==
  /\ queue # <<>>
  /\ popped' = Head(queue)
  /\ queue' = Tail(queue)
  /\ UNCHANGED pushed

FindEmpty ==
  /\ queue = <<>>
  /\ popped' = Nothing
  /\ UNCHANGED <<queue, pushed>>

FifoNext == (\E v \in Samples : Accept(v)) \/ Refuse \/ Take \/ FindEmpty

FifoSpec == FifoInit /\ [][FifoNext]_fifoVars
=============================================================================
