------------------------------ MODULE SpscRing ------------------------------
(* The single-producer single-consumer sample ring of daisy-usb-audio         *)
(* (src/codec.rs): an array of N cells and two indices, shared without a lock *)
(* by the USB interrupt and the audio callback. Each call is the sequence of  *)
(* its loads and stores; the other endpoint runs between any two of them.     *)
(* Each endpoint stores its own index with Release and loads the other's with *)
(* Acquire, so the accesses below can be taken in program order.              *)
EXTENDS Integers, Sequences

CONSTANTS N,          \* cells of the array; one stays free
          Samples,
          Nothing     \* None

ASSUME RingAssumption == N \in Nat /\ N > 1
ASSUME NothingAssumption == Nothing \notin Samples

VARIABLES buf, head, tail,
          prod,       \* the producer's call: [pc, tail, value]
          cons,       \* the consumer's call: [pc, head, value]
          pushed,     \* the last answer of push
          popped,     \* the last answer of pop
          seen        \* the last answer of len, by the endpoint that called it

ringVars == <<buf, head, tail, prod, cons, pushed, popped, seen>>

Cells == 0 .. N - 1
Stored == Samples \cup {Nothing}      \* Nothing stands for the initial 0.0
Succ(i) == (i + 1) % N
Unwrapped(t, h) == t - h                \* a slip: len without the wrap
Swapped(t, h) == (h + N - t) % N        \* a slip: the free cells counted
Fill(t, h) == (t + N - h) % N

NoSeen == -1

RingInit ==
  /\ buf = [i \in Cells |-> Nothing]
  /\ head = 0 /\ tail = 0
  /\ prod = [pc |-> "idle", tail |-> 0, value |-> Nothing]
  /\ cons = [pc |-> "idle", head |-> 0, value |-> Nothing]
  /\ pushed = FALSE /\ popped = Nothing
  /\ seen = [prod |-> NoSeen, cons |-> NoSeen]

-----------------------------------------------------------------------------
(* push *)

PushLoadTail(v) ==
  /\ prod.pc = "idle"
  /\ prod' = [pc |-> "loaded", tail |-> tail, value |-> v]
  /\ UNCHANGED <<buf, head, tail, cons, pushed, popped, seen>>

RefuseEarly ==                          \* a slip: a cell too many kept free
  /\ prod.pc = "loaded" /\ Succ(Succ(prod.tail)) = head
  /\ pushed' = FALSE
  /\ prod' = [prod EXCEPT !.pc = "idle"]
  /\ UNCHANGED <<buf, head, tail, cons, popped, seen>>

PushFull ==
  /\ prod.pc = "loaded" /\ Succ(prod.tail) = head
  /\ pushed' = FALSE
  /\ prod' = [prod EXCEPT !.pc = "idle"]
  /\ UNCHANGED <<buf, head, tail, cons, popped, seen>>

RoomUnchecked ==                        \* a slip: no test for a full ring
  /\ prod.pc = "loaded"
  /\ prod' = [prod EXCEPT !.pc = "write"]
  /\ UNCHANGED <<buf, head, tail, cons, pushed, popped, seen>>

PublishFirst ==                         \* a slip: the tail stored before the cell
  /\ prod.pc = "loaded" /\ Succ(prod.tail) # head
  /\ tail' = Succ(prod.tail)
  /\ prod' = [prod EXCEPT !.pc = "write"]
  /\ UNCHANGED <<buf, head, cons, pushed, popped, seen>>

PushRoom ==
  /\ prod.pc = "loaded" /\ Succ(prod.tail) # head
  /\ prod' = [prod EXCEPT !.pc = "write"]
  /\ UNCHANGED <<buf, head, tail, cons, pushed, popped, seen>>

PushWrite ==
  /\ prod.pc = "write"
  /\ buf' = [buf EXCEPT ![prod.tail] = prod.value]
  /\ prod' = [prod EXCEPT !.pc = "publish"]
  /\ UNCHANGED <<head, tail, cons, pushed, popped, seen>>

PushPublish ==
  /\ prod.pc = "publish"
  /\ tail' = Succ(prod.tail)
  /\ pushed' = TRUE
  /\ prod' = [prod EXCEPT !.pc = "idle"]
  /\ UNCHANGED <<buf, head, cons, popped, seen>>

(* pop *)

PopLoadHead ==
  /\ cons.pc = "idle"
  /\ cons' = [cons EXCEPT !.pc = "loaded", !.head = head]
  /\ UNCHANGED <<buf, head, tail, prod, pushed, popped, seen>>

PopEmpty ==
  /\ cons.pc = "loaded" /\ cons.head = tail
  /\ popped' = Nothing
  /\ cons' = [cons EXCEPT !.pc = "idle"]
  /\ UNCHANGED <<buf, head, tail, prod, pushed, seen>>

PopBlind ==                             \* a slip: no test for an empty ring
  /\ cons.pc = "loaded"
  /\ cons' = [cons EXCEPT !.pc = "read"]
  /\ UNCHANGED <<buf, head, tail, prod, pushed, popped, seen>>

PopSome ==
  /\ cons.pc = "loaded" /\ cons.head # tail
  /\ cons' = [cons EXCEPT !.pc = "read"]
  /\ UNCHANGED <<buf, head, tail, prod, pushed, popped, seen>>

PopRead ==
  /\ cons.pc = "read"
  /\ cons' = [cons EXCEPT !.pc = "release", !.value = buf[cons.head]]
  /\ UNCHANGED <<buf, head, tail, prod, pushed, popped, seen>>

PopRelease ==
  /\ cons.pc = "release"
  /\ head' = Succ(cons.head)
  /\ popped' = cons.value
  /\ cons' = [cons EXCEPT !.pc = "idle"]
  /\ UNCHANGED <<buf, tail, prod, pushed, seen>>

(* len: the tail is loaded first and the head second. The producer's own tail *)
(* and the consumer's own head cannot move under it, the other index can.     *)

ProducerLenTail ==
  /\ prod.pc = "idle"
  /\ prod' = [prod EXCEPT !.pc = "len", !.tail = tail]
  /\ UNCHANGED <<buf, head, tail, cons, pushed, popped, seen>>

ProducerLenHead ==
  /\ prod.pc = "len"
  /\ seen' = [seen EXCEPT !.prod = Fill(prod.tail, head)]
  /\ prod' = [prod EXCEPT !.pc = "measured"]
  /\ UNCHANGED <<buf, head, tail, cons, pushed, popped>>

ConsumerLenTail ==
  /\ cons.pc = "idle"
  /\ cons' = [cons EXCEPT !.pc = "len", !.head = tail]
  /\ UNCHANGED <<buf, head, tail, prod, pushed, popped, seen>>

ConsumerLenHead ==
  /\ cons.pc = "len"
  /\ seen' = [seen EXCEPT !.cons = Fill(cons.head, head)]
  /\ cons' = [cons EXCEPT !.pc = "measured"]
  /\ UNCHANGED <<buf, head, tail, prod, pushed, popped>>

(* The answer is used (main.rs steers the rate by it) and forgotten.          *)
LenUsed ==
  \/ /\ prod.pc = "measured"
     /\ prod' = [prod EXCEPT !.pc = "idle"]
     /\ seen' = [seen EXCEPT !.prod = NoSeen]
     /\ UNCHANGED <<buf, head, tail, cons, pushed, popped>>
  \/ /\ cons.pc = "measured"
     /\ cons' = [cons EXCEPT !.pc = "idle"]
     /\ seen' = [seen EXCEPT !.cons = NoSeen]
     /\ UNCHANGED <<buf, head, tail, prod, pushed, popped>>

ProducerStep ==
  \/ \E v \in Samples : PushLoadTail(v)
  \/ PushFull \/ PushRoom \/ PushWrite \/ PushPublish
  \/ ProducerLenTail \/ ProducerLenHead

ConsumerStep ==
  \/ PopLoadHead \/ PopEmpty \/ PopSome \/ PopRead \/ PopRelease
  \/ ConsumerLenTail \/ ConsumerLenHead

RingNext == ProducerStep \/ ConsumerStep \/ LenUsed

RingSpec == RingInit /\ [][RingNext]_ringVars

-----------------------------------------------------------------------------
(* The index of the i-th queued sample, oldest first, in a ring read from h.  *)
Slot(h, i) == (h + i - 1) % N
RingQueue == [i \in 1 .. Fill(tail, head) |-> buf[Slot(head, i)]]

Fifo == INSTANCE SpscFifo WITH Capacity <- N - 1, queue <- RingQueue

ProdPcs == {"idle", "loaded", "write", "publish", "len", "measured"}
ConsPcs == {"idle", "loaded", "read", "release", "len", "measured"}

(* Types: in particular both indices stay inside the array and an endpoint    *)
(* never answers with more samples than the ring can hold.                    *)
RingTypeOK ==
  /\ buf \in [Cells -> Stored]
  /\ head \in Cells /\ tail \in Cells
  /\ prod \in [pc : ProdPcs, tail : Cells, value : Stored]
  /\ cons \in [pc : ConsPcs, head : Cells, value : Stored]
  /\ pushed \in BOOLEAN
  /\ popped \in Stored
  /\ seen \in [prod : Cells \cup {NoSeen}, cons : Cells \cup {NoSeen}]

(* The comment on `unsafe impl Sync`: the producer never writes the cell the  *)
(* consumer is reading, whatever the interleaving.                            *)
NoSharedCell ==
  prod.pc = "write" /\ cons.pc = "read" => prod.tail # cons.head

(* Between the bounds check of an endpoint and its store, the other endpoint  *)
(* cannot take the room or the sample away.                                   *)
ClaimsHold ==
  /\ prod.pc \in {"loaded", "write", "publish", "len"} => prod.tail = tail
  /\ cons.pc \in {"loaded", "read", "release"} => cons.head = head
  /\ prod.pc \in {"write", "publish"} => Succ(tail) # head
  /\ prod.pc = "publish" => buf[tail] = prod.value
  /\ cons.pc \in {"read", "release"} => head # tail
  /\ cons.pc = "release" => cons.value = buf[head]

(* len is a snapshot taken in two loads (codec.rs: "an estimate"). Called by  *)
(* an endpoint it errs on the safe side only: the producer never sees fewer   *)
(* samples than are queued, the consumer never more.                          *)
LenSound ==
  /\ prod.pc = "measured" => Fill(tail, head) =< seen.prod
  /\ cons.pc = "measured" => seen.cons =< Fill(tail, head)

(* Only samples are ever queued, never the initial contents of a cell.        *)
QueuedAreSamples == \A i \in 1 .. Fill(tail, head) : buf[Slot(head, i)] \in Samples

(* The ring is a FIFO queue of N - 1 places: nothing is lost, doubled or      *)
(* reordered, and push and pop fail only on a really full or empty ring.      *)
FifoImplemented == Fifo!FifoSpec
=============================================================================
