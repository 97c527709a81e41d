---------------------------- MODULE Audio_proofs ----------------------------
(* Proofs about the audio path, whose parts share no state: the sample ring,  *)
(* for every size and every set of samples; the USB audio bridge, for every   *)
(* ring capacity, block size and packet size; the double-buffered SAI driver; *)
(* and the USB interrupt.                                                     *)
(*                                                                            *)
(* The ring's indices live modulo N; three lemmas turn the remainders into    *)
(* case splits, after which every step is linear arithmetic over the two      *)
(* indices.  The bridge's argument is parity: blocks and packets are whole    *)
(* frames, so a ring that took all of each holds an even number of samples,   *)
(* and what is taken from its front moves the rest by an even number of       *)
(* places.  The driver's invariant says what each further undelayed interrupt *)
(* restores after a delay, one conjunct for each.                             *)
EXTENDS SpscRing, AudioBridge, SaiDma, UsbAudio, SequenceTheorems, FiniteSetTheorems, TLAPS


(* The remainder of a number below 2n, without a division.                    *)
LEMMA ModOnce ==
  ASSUME NEW n \in Nat, n > 0, NEW x \in 0 .. 2 * n - 1
  PROVE  x % n = IF x < n THEN x ELSE x - n
OBVIOUS

(* The next cell of the ring (codec.rs: (tail + 1) % N).                      *)
LEMMA SuccCases ==
  ASSUME NEW i \in Cells
  PROVE  /\ Succ(i) \in Cells
         /\ Succ(i) = IF i = N - 1 THEN 0 ELSE i + 1
<1>1. i + 1 \in 0 .. 2 * N - 1 BY RingAssumption DEF Cells
<1>2. (i + 1) % N = IF i + 1 < N THEN i + 1 ELSE i + 1 - N
  BY <1>1, ModOnce, RingAssumption DEF Cells
<1> QED BY <1>2, RingAssumption DEF Cells, Succ

(* The number of queued samples (codec.rs: (tail + N - head) % N).            *)
LEMMA FillCases ==
  ASSUME NEW t \in Cells, NEW h \in Cells
  PROVE  /\ Fill(t, h) \in Cells
         /\ Fill(t, h) = IF t < h THEN t + N - h ELSE t - h
<1>1. t + N - h \in 0 .. 2 * N - 1 BY RingAssumption DEF Cells
<1>2. (t + N - h) % N = IF t + N - h < N THEN t + N - h ELSE t + N - h - N
  BY <1>1, ModOnce, RingAssumption DEF Cells
<1> QED BY <1>2, RingAssumption DEF Cells, Fill

(* The index of the i-th queued sample, in a ring read from h.                *)
LEMMA SlotCases ==
  ASSUME NEW h \in Cells, NEW i \in 1 .. N
  PROVE  /\ Slot(h, i) \in Cells
         /\ Slot(h, i) = IF h + i - 1 < N THEN h + i - 1 ELSE h + i - 1 - N
<1>1. h + i - 1 \in 0 .. 2 * N - 1 BY RingAssumption DEF Cells
<1>2. (h + i - 1) % N = IF h + i - 1 < N THEN h + i - 1 ELSE h + i - 1 - N
  BY <1>1, ModOnce, RingAssumption DEF Cells
<1> QED BY <1>2, RingAssumption DEF Cells, Slot

(* While the consumer is between the two loads of len, its snapshot of the    *)
(* tail can only be behind the tail.                                          *)
LenPending == cons.pc = "len" => Fill(cons.head, head) =< Fill(tail, head)

(* The inductive invariant. The claims of the two endpoints do not depend on  *)
(* the samples; LenPending carries LenSound over the gap between two loads.   *)
RingInv == RingTypeOK /\ ClaimsHold /\ LenPending /\ LenSound

(* Publishing a cell adds one sample, releasing one removes one.              *)
LEMMA FillSteps ==
  ASSUME NEW t \in Cells, NEW h \in Cells
  PROVE  /\ Succ(t) # h => Fill(Succ(t), h) = Fill(t, h) + 1
         /\ Succ(t) = h <=> Fill(t, h) = N - 1
         /\ h # t => Fill(t, Succ(h)) = Fill(t, h) - 1
         /\ h = t <=> Fill(t, h) = 0
<1>1. Succ(t) \in Cells /\ Succ(h) \in Cells BY SuccCases
<1>2. /\ Succ(t) = IF t = N - 1 THEN 0 ELSE t + 1
      /\ Succ(h) = IF h = N - 1 THEN 0 ELSE h + 1
  BY SuccCases
<1>3. /\ Fill(t, h) = IF t < h THEN t + N - h ELSE t - h
      /\ Fill(Succ(t), h) = IF Succ(t) < h THEN Succ(t) + N - h ELSE Succ(t) - h
      /\ Fill(t, Succ(h)) = IF t < Succ(h) THEN t + N - Succ(h) ELSE t - Succ(h)
  BY <1>1, FillCases
<1> QED BY <1>1, <1>2, <1>3, RingAssumption DEF Cells

(* The queue seen through its slots: the cell after the last sample is the    *)
(* one the producer writes, no queued sample lies in it, and releasing a cell *)
(* shifts the numbering by one.                                               *)
LEMMA SlotSteps ==
  ASSUME NEW t \in Cells, NEW h \in Cells
  PROVE  /\ Slot(h, Fill(t, h) + 1) = t
         /\ \A i \in 1 .. Fill(t, h) : Slot(h, i) \in Cells /\ Slot(h, i) # t
         /\ Slot(h, 1) = h
         /\ \A i \in 1 .. N - 1 : Slot(Succ(h), i) = Slot(h, i + 1)
<1>1. /\ Fill(t, h) \in Cells
      /\ Fill(t, h) = IF t < h THEN t + N - h ELSE t - h
  BY FillCases
<1>2. Fill(t, h) + 1 \in 1 .. N /\ 1 \in 1 .. N BY <1>1, RingAssumption DEF Cells
<1>3. Slot(h, Fill(t, h) + 1) = t
  BY <1>1, <1>2, SlotCases, RingAssumption DEF Cells
<1>4. Slot(h, 1) = h BY <1>2, SlotCases, RingAssumption DEF Cells
<1>5. ASSUME NEW i \in 1 .. Fill(t, h)
      PROVE  Slot(h, i) \in Cells /\ Slot(h, i) # t
  <2>1. i \in 1 .. N BY <1>1, RingAssumption DEF Cells
  <2>2. /\ Slot(h, i) \in Cells
        /\ Slot(h, i) = IF h + i - 1 < N THEN h + i - 1 ELSE h + i - 1 - N
    BY <2>1, SlotCases
  <2> QED BY <1>1, <2>1, <2>2, RingAssumption DEF Cells
<1>6. ASSUME NEW i \in 1 .. N - 1
      PROVE  Slot(Succ(h), i) = Slot(h, i + 1)
  <2>1. i \in 1 .. N /\ i + 1 \in 1 .. N BY RingAssumption
  <2>2. Succ(h) \in Cells /\ Succ(h) = IF h = N - 1 THEN 0 ELSE h + 1
    BY SuccCases
  <2>3. Slot(h, i + 1) = IF h + (i + 1) - 1 < N THEN h + (i + 1) - 1
                                               ELSE h + (i + 1) - 1 - N
    BY <2>1, SlotCases
  <2>4. Slot(Succ(h), i) = IF Succ(h) + i - 1 < N THEN Succ(h) + i - 1
                                                  ELSE Succ(h) + i - 1 - N
    BY <2>1, <2>2, SlotCases
  <2> QED BY <2>1, <2>2, <2>3, <2>4, RingAssumption DEF Cells
<1> QED BY <1>3, <1>4, <1>5, <1>6

LEMMA RingInitInv == RingInit => RingInv
<1> SUFFICES ASSUME RingInit PROVE RingInv OBVIOUS
<1>1. 0 \in Cells BY RingAssumption DEF Cells
<1>2. RingTypeOK
  BY <1>1 DEF RingInit, RingTypeOK, Stored, ProdPcs, ConsPcs, NoSeen
<1> QED BY <1>2 DEF RingInit, RingInv, ClaimsHold, LenPending, LenSound

(* The inductive step: one case per access of push, pop and len.              *)
LEMMA RingStepInv == RingInv /\ [RingNext]_ringVars => RingInv'
<1> SUFFICES ASSUME RingInv, [RingNext]_ringVars PROVE RingInv'
  OBVIOUS
<1> USE DEF RingInv
<1>types. /\ head \in Cells /\ tail \in Cells
          /\ prod.tail \in Cells /\ cons.head \in Cells
  BY DEF RingTypeOK
<1>succ. /\ Succ(tail) \in Cells /\ Succ(head) \in Cells
         /\ Succ(prod.tail) \in Cells /\ Succ(cons.head) \in Cells
  BY <1>types, SuccCases
<1>1. ASSUME NEW v \in Samples, PushLoadTail(v) PROVE RingInv'
  BY <1>1, <1>types
  DEF PushLoadTail, RingTypeOK, ClaimsHold, LenPending, LenSound, ProdPcs, Stored
<1>2. CASE PushFull
  BY <1>2 DEF PushFull, RingTypeOK, ClaimsHold, LenPending, LenSound, ProdPcs
<1>3. CASE PushRoom
  BY <1>3 DEF PushRoom, RingTypeOK, ClaimsHold, LenPending, LenSound, ProdPcs
<1>4. CASE PushWrite
  <2>1. RingTypeOK'
    BY <1>4, <1>types DEF PushWrite, RingTypeOK, ProdPcs
  <2>2. ClaimsHold'
    BY <1>4, <1>types DEF PushWrite, RingTypeOK, ClaimsHold
  <2> QED BY <1>4, <2>1, <2>2 DEF PushWrite, LenPending, LenSound, RingTypeOK
<1>5. CASE PushPublish
  <2>1. prod.tail = tail /\ Succ(tail) # head BY <1>5 DEF PushPublish, ClaimsHold
  <2>2. /\ Fill(Succ(tail), head) = Fill(tail, head) + 1
        /\ Fill(tail, head) \in Cells
    BY <2>1, <1>types, FillSteps, FillCases
  <2>3. RingTypeOK' BY <1>5, <1>succ DEF PushPublish, RingTypeOK, ProdPcs
  <2>4. ClaimsHold'
    BY <1>5, <2>1, <1>types, <1>succ, SuccCases
    DEF PushPublish, RingTypeOK, ClaimsHold, ProdPcs
  <2>5. LenPending'
    BY <1>5, <2>1, <2>2, <1>types, FillCases DEF PushPublish, LenPending, Cells
  <2>6. LenSound'
    <3>1. cons.pc = "measured" => seen.cons \in Int
      BY DEF RingTypeOK, Cells, NoSeen
    <3> QED
      BY <1>5, <2>1, <2>2, <3>1, RingAssumption
      DEF PushPublish, LenSound, Cells, RingTypeOK
  <2> QED BY <2>3, <2>4, <2>5, <2>6
<1>6. CASE PopLoadHead
  BY <1>6, <1>types DEF PopLoadHead, RingTypeOK, ClaimsHold, LenPending, LenSound, ConsPcs
<1>7. CASE PopEmpty
  BY <1>7 DEF PopEmpty, RingTypeOK, ClaimsHold, LenPending, LenSound, ConsPcs, Stored
<1>8. CASE PopSome
  BY <1>8 DEF PopSome, RingTypeOK, ClaimsHold, LenPending, LenSound, ConsPcs
<1>9. CASE PopRead
  BY <1>9, <1>types DEF PopRead, RingTypeOK, ClaimsHold, LenPending, LenSound, ConsPcs
<1>10. CASE PopRelease
  <2>1. cons.head = head /\ head # tail BY <1>10 DEF PopRelease, ClaimsHold
  <2>2. /\ Fill(tail, Succ(head)) = Fill(tail, head) - 1
        /\ Fill(tail, head) \in Cells
    BY <2>1, <1>types, FillSteps, FillCases
  <2>3. RingTypeOK' BY <1>10, <1>succ DEF PopRelease, RingTypeOK, ConsPcs
  <2>4. ClaimsHold'
    BY <1>10, <2>1, <1>types, <1>succ, SuccCases
    DEF PopRelease, RingTypeOK, ClaimsHold, ConsPcs, Cells
  <2>5. LenPending' BY <1>10 DEF PopRelease, LenPending, RingTypeOK
  <2>6. LenSound'
    <3>1. prod.pc = "measured" => seen.prod \in Int
      BY DEF RingTypeOK, Cells, NoSeen
    <3> QED
      BY <1>10, <2>1, <2>2, <3>1, RingAssumption
      DEF PopRelease, LenSound, Cells, RingTypeOK
  <2> QED BY <2>3, <2>4, <2>5, <2>6
<1>11. CASE ProducerLenTail
  BY <1>11, <1>types DEF ProducerLenTail, RingTypeOK, ClaimsHold, LenPending, LenSound, ProdPcs
<1>12. CASE ProducerLenHead
  <2>1. prod.tail = tail BY <1>12 DEF ProducerLenHead, ClaimsHold
  <2>2. Fill(tail, head) \in Cells BY <1>types, FillCases
  <2>3. RingTypeOK'
    BY <1>12, <2>1, <2>2 DEF ProducerLenHead, RingTypeOK, ProdPcs
  <2>4. LenSound'
    BY <1>12, <2>1, <2>2 DEF ProducerLenHead, LenSound, RingTypeOK, Cells
  <2> QED
    BY <1>12, <2>3, <2>4 DEF ProducerLenHead, RingTypeOK, ClaimsHold, LenPending
<1>13. CASE ConsumerLenTail
  <2>1. Fill(tail, head) \in Int BY <1>types, FillCases DEF Cells
  <2>2. RingTypeOK' BY <1>13, <1>types DEF ConsumerLenTail, RingTypeOK, ConsPcs
  <2>3. LenPending' BY <1>13, <2>1 DEF ConsumerLenTail, LenPending, RingTypeOK
  <2> QED
    BY <1>13, <2>2, <2>3 DEF ConsumerLenTail, RingTypeOK, ClaimsHold, LenSound
<1>14. CASE ConsumerLenHead
  <2>1. Fill(cons.head, head) \in Cells BY <1>types, FillCases
  <2>2. RingTypeOK' BY <1>14, <2>1 DEF ConsumerLenHead, RingTypeOK, ConsPcs
  <2>3. LenSound'
    BY <1>14, <2>1 DEF ConsumerLenHead, LenPending, LenSound, RingTypeOK
  <2> QED
    BY <1>14, <2>2, <2>3 DEF ConsumerLenHead, RingTypeOK, ClaimsHold, LenPending
<1>15. CASE LenUsed
  BY <1>15 DEF LenUsed, RingTypeOK, ClaimsHold, LenPending, LenSound, ProdPcs, ConsPcs
<1>16. CASE UNCHANGED ringVars
  BY <1>16 DEF ringVars, RingTypeOK, ClaimsHold, LenPending, LenSound
<1> QED
  BY <1>1, <1>2, <1>3, <1>4, <1>5, <1>6, <1>7, <1>8, <1>9, <1>10, <1>11, <1>12,
     <1>13, <1>14, <1>15, <1>16
  DEF RingNext, ProducerStep, ConsumerStep

(* Type correctness of the ring for every size.                               *)
THEOREM RingTypeCorrect == RingSpec => []RingTypeOK
<1> QED BY RingInitInv, RingStepInv, PTL DEF RingSpec, RingInv

(* The argument of the `unsafe impl Sync` in codec.rs: between the check and  *)
(* the store of one endpoint the other cannot invalidate the check.           *)
THEOREM EndpointClaims == RingSpec => []ClaimsHold
<1> QED BY RingInitInv, RingStepInv, PTL DEF RingSpec, RingInv

(* No cell is written while it is being read.                                 *)
THEOREM NoDataRace == RingSpec => []NoSharedCell
<1>1. RingInv => NoSharedCell BY DEF RingInv, ClaimsHold, NoSharedCell
<1> QED BY <1>1, RingInitInv, RingStepInv, PTL DEF RingSpec

(* len errs only on the safe side of the endpoint that calls it.              *)
THEOREM LenIsSafe == RingSpec => []LenSound
<1> QED BY RingInitInv, RingStepInv, PTL DEF RingSpec, RingInv

-----------------------------------------------------------------------------
(* The ring implements the FIFO queue.                                        *)

(* What is on its way into the ring, and in it, are samples.                  *)
HoldsSample == prod.pc \in {"loaded", "write", "publish"} => prod.value \in Samples

QueueInv == RingInv /\ HoldsSample

(* The mapped queue is a sequence of as many values as len would count.       *)
LEMMA ShapeOf ==
  ASSUME NEW b \in [Cells -> Stored], NEW t \in Cells, NEW h \in Cells,
         NEW q, q = [i \in 1 .. Fill(t, h) |-> b[Slot(h, i)]]
  PROVE  /\ q \in Seq(Stored)
         /\ Len(q) = Fill(t, h)
         /\ Fill(t, h) \in 0 .. N - 1
         /\ \A i \in 1 .. Fill(t, h) : q[i] = b[Slot(h, i)]
<1>1. Fill(t, h) \in 0 .. N - 1 BY FillCases DEF Cells
<1>2. \A i \in 1 .. Fill(t, h) : Slot(h, i) \in Cells BY SlotSteps
<1>3. \A i \in 1 .. Fill(t, h) : b[Slot(h, i)] \in Stored BY <1>2
<1>4. Fill(t, h) \in Nat BY <1>1
<1> QED BY <1>1, <1>3, <1>4

LEMMA QueueShape ==
  ASSUME RingTypeOK
  PROVE  /\ RingQueue \in Seq(Stored)
         /\ Len(RingQueue) = Fill(tail, head)
         /\ Fill(tail, head) \in 0 .. N - 1
         /\ \A i \in 1 .. Fill(tail, head) : RingQueue[i] = buf[Slot(head, i)]
BY ShapeOf DEF RingTypeOK, RingQueue

(* A step that moves no index and writes no queued cell leaves the queue.     *)
LEMMA QueueKept ==
  ASSUME RingTypeOK, head' = head, tail' = tail,
         \A i \in Cells : i # tail => buf'[i] = buf[i]
  PROVE  RingQueue' = RingQueue
<1>1. \A i \in 1 .. Fill(tail, head) : Slot(head, i) \in Cells /\ Slot(head, i) # tail
  BY SlotSteps DEF RingTypeOK
<1> QED BY <1>1 DEF RingQueue

(* Publishing the cell at the tail appends its contents.                      *)
LEMMA QueueAppended ==
  ASSUME RingTypeOK, RingTypeOK', Succ(tail) # head,
         head' = head, tail' = Succ(tail), buf' = buf
  PROVE  RingQueue' = Append(RingQueue, buf[tail])
<1> DEFINE n == Fill(tail, head)
<1>1. head \in Cells /\ tail \in Cells /\ buf[tail] \in Stored
  BY DEF RingTypeOK
<1>2. Fill(tail', head') = n + 1 /\ n \in Nat
  BY <1>1, FillSteps, QueueShape
<1>3. Slot(head, n + 1) = tail BY <1>1, SlotSteps
<1>4. /\ RingQueue \in Seq(Stored) /\ Len(RingQueue) = n
      /\ \A i \in 1 .. n : RingQueue[i] = buf[Slot(head, i)]
  BY QueueShape
<1>5. RingQueue' = [i \in 1 .. n + 1 |-> buf[Slot(head, i)]]
  BY <1>2 DEF RingQueue
<1> HIDE DEF n
<1>6. RingQueue' \in Seq(Stored) /\ Len(RingQueue') = n + 1
  <2>1. \A i \in 1 .. n + 1 : buf[Slot(head, i)] \in Stored
    BY <1>1, <1>2, <1>3, <1>4, ElementOfSeq
  <2> QED BY <1>2, <1>5, <2>1
<1>7. /\ Append(RingQueue, buf[tail]) \in Seq(Stored)
      /\ Len(Append(RingQueue, buf[tail])) = n + 1
      /\ \A i \in 1 .. n : Append(RingQueue, buf[tail])[i] = RingQueue[i]
      /\ Append(RingQueue, buf[tail])[n + 1] = buf[tail]
  BY <1>1, <1>4, AppendProperties
<1>8. \A i \in 1 .. n + 1 : RingQueue'[i] = Append(RingQueue, buf[tail])[i]
  BY <1>2, <1>3, <1>4, <1>5, <1>7
<1> QED BY <1>6, <1>7, <1>8, SeqEqual

(* Releasing the cell at the head takes the oldest sample away.               *)
LEMMA QueuePopped ==
  ASSUME RingTypeOK, RingTypeOK', head # tail,
         head' = Succ(head), tail' = tail, buf' = buf
  PROVE  /\ RingQueue # <<>>
         /\ Head(RingQueue) = buf[head]
         /\ RingQueue' = Tail(RingQueue)
<1> DEFINE n == Fill(tail, head)
<1>1. head \in Cells /\ tail \in Cells BY DEF RingTypeOK
<1>2. Fill(tail', head') = n - 1 /\ n \in 1 .. N - 1
  BY <1>1, FillSteps, QueueShape
<1>3. Slot(head, 1) = head /\ \A i \in 1 .. n - 1 : Slot(head', i) = Slot(head, i + 1)
  <2>1. \A i \in 1 .. n - 1 : i \in 1 .. N - 1 BY <1>2, RingAssumption
  <2>2. /\ Slot(head, 1) = head
        /\ \A i \in 1 .. N - 1 : Slot(Succ(head), i) = Slot(head, i + 1)
    BY <1>1, SlotSteps
  <2> HIDE DEF n
  <2> QED BY <2>1, <2>2
<1>4. /\ RingQueue \in Seq(Stored) /\ Len(RingQueue) = n
      /\ \A i \in 1 .. n : RingQueue[i] = buf[Slot(head, i)]
  BY QueueShape
<1>5. /\ RingQueue' \in Seq(Stored) /\ Len(RingQueue') = n - 1
      /\ \A i \in 1 .. n - 1 : RingQueue'[i] = buf[Slot(head', i)]
  <2>0. /\ buf' \in [Cells -> Stored] /\ tail' \in Cells /\ head' \in Cells
        /\ RingQueue' = [i \in 1 .. Fill(tail', head') |-> buf'[Slot(head', i)]]
    BY DEF RingTypeOK, RingQueue
  <2> HIDE DEF n
  <2>1. /\ RingQueue' \in Seq(Stored) /\ Len(RingQueue') = Fill(tail', head')
        /\ \A i \in 1 .. Fill(tail', head') : RingQueue'[i] = buf'[Slot(head', i)]
    BY <2>0, ShapeOf
  <2> QED BY <1>2, <2>1
<1> HIDE DEF n
<1>6. RingQueue # <<>> BY <1>2, <1>4
<1>7. Head(RingQueue) = buf[head] BY <1>2, <1>3, <1>4, <1>6
<1>8. /\ Tail(RingQueue) \in Seq(Stored) /\ Len(Tail(RingQueue)) = n - 1
      /\ \A i \in 1 .. n - 1 : Tail(RingQueue)[i] = RingQueue[i + 1]
  BY <1>4, <1>6, HeadTailProperties
<1>9. \A i \in 1 .. n - 1 : RingQueue'[i] = Tail(RingQueue)[i]
  BY <1>2, <1>3, <1>4, <1>5, <1>8
<1> QED BY <1>5, <1>6, <1>7, <1>8, <1>9, SeqEqual

LEMMA QueueInitInv == RingInit => QueueInv
BY RingInitInv DEF QueueInv, RingInit, HoldsSample

LEMMA QueueStepInv == QueueInv /\ [RingNext]_ringVars => QueueInv'
<1> SUFFICES ASSUME QueueInv, [RingNext]_ringVars PROVE HoldsSample'
  BY RingStepInv DEF QueueInv
<1> USE DEF QueueInv, RingInv, RingTypeOK, HoldsSample
<1>1. ASSUME NEW v \in Samples, PushLoadTail(v) PROVE HoldsSample'
  BY <1>1 DEF PushLoadTail
<1>2. CASE PushFull BY <1>2 DEF PushFull
<1>3. CASE PushRoom BY <1>3 DEF PushRoom
<1>4. CASE PushWrite BY <1>4 DEF PushWrite
<1>5. CASE PushPublish BY <1>5 DEF PushPublish
<1>6. CASE ProducerLenTail \/ ProducerLenHead
  BY <1>6 DEF ProducerLenTail, ProducerLenHead
<1>7. CASE ConsumerStep
  BY <1>7 DEF ConsumerStep, PopLoadHead, PopEmpty, PopSome, PopRead, PopRelease,
              ConsumerLenTail, ConsumerLenHead
<1>8. CASE LenUsed BY <1>8 DEF LenUsed
<1>9. CASE UNCHANGED ringVars BY <1>9 DEF ringVars
<1> QED
  BY <1>1, <1>2, <1>3, <1>4, <1>5, <1>6, <1>7, <1>8, <1>9 DEF RingNext, ProducerStep

LEMMA QueueInitMaps == RingInit => Fifo!FifoInit
<1> SUFFICES ASSUME RingInit PROVE Fifo!FifoInit OBVIOUS
<1>1. Fill(tail, head) = 0
  BY FillCases, RingAssumption DEF RingInit, Cells
<1>2. RingQueue = <<>> BY <1>1 DEF RingQueue
<1> QED BY <1>2 DEF RingInit, Fifo!FifoInit

(* Each access of the code is a step of the queue or none at all: push takes  *)
(* effect where it stores the tail or finds the ring full, pop where it       *)
(* stores the head or finds the ring empty.                                   *)
LEMMA QueueStepMaps ==
  QueueInv /\ QueueInv' /\ [RingNext]_ringVars => [Fifo!FifoNext]_Fifo!fifoVars
<1> SUFFICES ASSUME QueueInv, QueueInv', [RingNext]_ringVars
             PROVE  [Fifo!FifoNext]_Fifo!fifoVars
  OBVIOUS
<1> USE DEF QueueInv, RingInv
<1>types. RingTypeOK /\ RingTypeOK' /\ head \in Cells /\ tail \in Cells
  BY DEF RingTypeOK
<1>a. ASSUME UNCHANGED <<buf, head, tail, pushed, popped>>
      PROVE  UNCHANGED Fifo!fifoVars
  BY <1>a, <1>types, QueueKept DEF Fifo!fifoVars
<1>1. ASSUME NEW v \in Samples, PushLoadTail(v) PROVE UNCHANGED Fifo!fifoVars
  BY <1>1, <1>a DEF PushLoadTail
<1>2. CASE PushFull
  <2>1. Succ(tail) = head BY <1>2 DEF PushFull, ClaimsHold
  <2>2. Len(RingQueue) = N - 1 BY <2>1, <1>types, FillSteps, QueueShape
  <2>3. RingQueue' = RingQueue BY <1>2, <1>types, QueueKept DEF PushFull
  <2>4. Fifo!Refuse BY <1>2, <2>2, <2>3 DEF PushFull, Fifo!Refuse
  <2> QED BY <2>4 DEF Fifo!FifoNext
<1>3. CASE PushRoom BY <1>3, <1>a DEF PushRoom
<1>4. CASE PushWrite
  <2>1. \A i \in Cells : i # tail => buf'[i] = buf[i]
    BY <1>4 DEF PushWrite, ClaimsHold, RingTypeOK
  <2>2. RingQueue' = RingQueue BY <1>4, <2>1, <1>types, QueueKept DEF PushWrite
  <2> QED BY <1>4, <2>2 DEF PushWrite, Fifo!fifoVars
<1>5. CASE PushPublish
  <2>1. prod.tail = tail /\ Succ(tail) # head /\ buf[tail] = prod.value
    BY <1>5 DEF PushPublish, ClaimsHold
  <2>2. RingQueue' = Append(RingQueue, prod.value)
    BY <1>5, <2>1, <1>types, QueueAppended DEF PushPublish
  <2>3. Len(RingQueue) < N - 1
    BY <2>1, <1>types, FillSteps, QueueShape, RingAssumption
  <2>4. prod.value \in Samples BY <1>5 DEF PushPublish, HoldsSample
  <2>5. Fifo!Accept(prod.value) BY <1>5, <2>2, <2>3 DEF PushPublish, Fifo!Accept
  <2> QED BY <2>4, <2>5 DEF Fifo!FifoNext
<1>6. CASE PopLoadHead BY <1>6, <1>a DEF PopLoadHead
<1>7. CASE PopEmpty
  <2>1. head = tail BY <1>7 DEF PopEmpty, ClaimsHold
  <2>2. RingQueue = <<>> BY <2>1, <1>types, FillSteps, QueueShape
  <2>3. RingQueue' = RingQueue BY <1>7, <1>types, QueueKept DEF PopEmpty
  <2>4. Fifo!FindEmpty BY <1>7, <2>2, <2>3 DEF PopEmpty, Fifo!FindEmpty
  <2> QED BY <2>4 DEF Fifo!FifoNext
<1>8. CASE PopSome BY <1>8, <1>a DEF PopSome
<1>9. CASE PopRead BY <1>9, <1>a DEF PopRead
<1>10. CASE PopRelease
  <2>1. cons.head = head /\ head # tail /\ cons.value = buf[head]
    BY <1>10 DEF PopRelease, ClaimsHold
  <2>2. RingQueue # <<>> /\ Head(RingQueue) = buf[head] /\ RingQueue' = Tail(RingQueue)
    BY <1>10, <2>1, <1>types, QueuePopped DEF PopRelease
  <2>3. Fifo!Take BY <1>10, <2>1, <2>2 DEF PopRelease, Fifo!Take
  <2> QED BY <2>3 DEF Fifo!FifoNext
<1>11. CASE ProducerLenTail \/ ProducerLenHead
  BY <1>11, <1>a DEF ProducerLenTail, ProducerLenHead
<1>12. CASE ConsumerLenTail \/ ConsumerLenHead
  BY <1>12, <1>a DEF ConsumerLenTail, ConsumerLenHead
<1>13. CASE LenUsed BY <1>13, <1>a DEF LenUsed
<1>14. CASE UNCHANGED ringVars BY <1>14, <1>a DEF ringVars
<1> QED
  BY <1>1, <1>2, <1>3, <1>4, <1>5, <1>6, <1>7, <1>8, <1>9, <1>10, <1>11, <1>12,
     <1>13, <1>14
  DEF RingNext, ProducerStep, ConsumerStep

(* The queue holds samples only: an invariant of its own, since the cells     *)
(* between the tail and the head hold whatever was left there.                *)
LEMMA QueuedStepInv ==
  QueueInv /\ QueueInv' /\ QueuedAreSamples /\ [RingNext]_ringVars => QueuedAreSamples'
<1> SUFFICES ASSUME QueueInv, QueueInv', QueuedAreSamples, [RingNext]_ringVars
             PROVE  QueuedAreSamples'
  OBVIOUS
<1> USE DEF QueueInv, RingInv
<1>types. RingTypeOK /\ RingTypeOK' /\ head \in Cells /\ tail \in Cells
  BY DEF RingTypeOK
<1>slots. \A i \in 1 .. Fill(tail, head) : Slot(head, i) \in Cells /\ Slot(head, i) # tail
  BY <1>types, SlotSteps
<1>a. ASSUME head' = head, tail' = tail, \A i \in Cells : i # tail => buf'[i] = buf[i]
      PROVE  QueuedAreSamples'
  BY <1>a, <1>slots DEF QueuedAreSamples
<1>1. CASE PushWrite
  <2>1. \A i \in Cells : i # tail => buf'[i] = buf[i]
    BY <1>1 DEF PushWrite, ClaimsHold, RingTypeOK
  <2> QED BY <1>1, <2>1, <1>a DEF PushWrite
<1>2. CASE PushPublish
  <2>1. prod.tail = tail /\ Succ(tail) # head /\ buf[tail] \in Samples
    BY <1>2 DEF PushPublish, ClaimsHold, HoldsSample
  <2>2. /\ Fill(tail', head') = Fill(tail, head) + 1
        /\ Slot(head, Fill(tail, head) + 1) = tail
        /\ Fill(tail, head) \in Nat
    BY <1>2, <2>1, <1>types, FillSteps, SlotSteps, QueueShape DEF PushPublish
  <2> QED BY <1>2, <2>1, <2>2 DEF PushPublish, QueuedAreSamples
<1>3. CASE PopRelease
  <2>1. cons.head = head /\ head # tail BY <1>3 DEF PopRelease, ClaimsHold
  <2>2. /\ Fill(tail', head') = Fill(tail, head) - 1
        /\ Fill(tail, head) \in 0 .. N - 1
    BY <1>3, <2>1, <1>types, FillSteps, QueueShape DEF PopRelease
  <2>3. \A i \in 1 .. N - 1 : Slot(head', i) = Slot(head, i + 1)
    BY <1>3, <2>1, <1>types, SlotSteps DEF PopRelease
  <2>4. ASSUME NEW i \in 1 .. Fill(tail', head') PROVE buf'[Slot(head', i)] \in Samples
    <3>1. i \in 1 .. N - 1 /\ i + 1 \in 1 .. Fill(tail, head) BY <2>2, RingAssumption
    <3>2. buf[Slot(head, i + 1)] \in Samples BY <3>1 DEF QueuedAreSamples
    <3> QED BY <1>3, <2>3, <3>1, <3>2 DEF PopRelease
  <2> QED BY <2>4 DEF QueuedAreSamples
<1>4. CASE UNCHANGED <<buf, head, tail>> BY <1>4, <1>a
<1>5. ASSUME NEW v \in Samples, PushLoadTail(v) PROVE UNCHANGED <<buf, head, tail>>
  BY <1>5 DEF PushLoadTail
<1>6. PushFull \/ PushRoom \/ ProducerLenTail \/ ProducerLenHead \/ LenUsed
        => UNCHANGED <<buf, head, tail>>
  BY DEF PushFull, PushRoom, ProducerLenTail, ProducerLenHead, LenUsed
<1>7. PopLoadHead \/ PopEmpty \/ PopSome \/ PopRead \/ ConsumerLenTail \/ ConsumerLenHead
        => UNCHANGED <<buf, head, tail>>
  BY DEF PopLoadHead, PopEmpty, PopSome, PopRead, ConsumerLenTail, ConsumerLenHead
<1>8. UNCHANGED ringVars => UNCHANGED <<buf, head, tail>> BY DEF ringVars
<1> QED
  BY <1>1, <1>2, <1>3, <1>4, <1>5, <1>6, <1>7, <1>8
  DEF RingNext, ProducerStep, ConsumerStep

(* A pop never returns a cell that no push has filled.                        *)
THEOREM OnlySamplesQueued == RingSpec => []QueuedAreSamples
<1>1. RingInit => QueuedAreSamples
  <2>1. RingInit => Fill(tail, head) = 0
    BY FillCases, RingAssumption DEF RingInit, Cells
  <2> QED BY <2>1 DEF QueuedAreSamples
<1> QED BY <1>1, QueueInitInv, QueueStepInv, QueuedStepInv, PTL DEF RingSpec

(* The lock-free ring is a bounded FIFO queue for every length and every set  *)
(* of samples: no sample is lost, doubled or reordered, and a push or pop     *)
(* fails only on a full or an empty queue.                                    *)
THEOREM RingImplementsFifo == RingSpec => FifoImplemented
<1>1. RingInit => Fifo!FifoInit BY QueueInitMaps
<1>2. RingInit => QueueInv BY QueueInitInv
<1>3. QueueInv /\ [RingNext]_ringVars => QueueInv' BY QueueStepInv
<1>4. QueueInv /\ QueueInv' /\ [RingNext]_ringVars => [Fifo!FifoNext]_Fifo!fifoVars
  BY QueueStepMaps
<1> QED
  BY <1>1, <1>2, <1>3, <1>4, PTL DEF RingSpec, FifoImplemented, Fifo!FifoSpec

-----------------------------------------------------------------------------
LEMMA LeastBounds ==
  ASSUME NEW a \in Nat, NEW b \in Nat
  PROVE  /\ Least(a, b) \in Nat /\ Least(a, b) =< a /\ Least(a, b) =< b
         /\ Least(a, b) = a \/ Least(a, b) = b
BY DEF Least

(* A packet or block of whole frames (codec.rs: chunks_exact, lib.rs:80).     *)
LEMMA InterleavedShape ==
  ASSUME NEW f \in Nat
  PROVE  /\ Interleaved(f) \in Seq(Channels)
         /\ Len(Interleaved(f)) = 2 * f
         /\ \A i \in 1 .. 2 * f : Interleaved(f)[i] = IF i % 2 = 1 THEN Left ELSE Right
BY DEF Interleaved, Channels

(* What a loop of pops hands out, and what it leaves.                         *)
LEMMA TakenShape ==
  ASSUME NEW ring \in Seq(Channels), NEW n \in Nat
  PROVE  /\ Taken(ring, n) \in Seq(Channels)
         /\ Len(Taken(ring, n)) = Least(n, Len(ring))
         /\ \A i \in 1 .. Least(n, Len(ring)) : Taken(ring, n)[i] = ring[i]
<1> DEFINE k == Least(n, Len(ring))
<1>1. Len(ring) \in Nat /\ \A i \in 1 .. Len(ring) : ring[i] \in Channels
  BY LenProperties, ElementOfSeq
<1>2. k \in Nat /\ k =< Len(ring) BY <1>1, LeastBounds
<1> HIDE DEF k
<1>3. \A i \in 1 .. k : ring[i] \in Channels BY <1>1, <1>2
<1>4. /\ SubSeq(ring, 1, k) \in Seq(Channels)
      /\ Len(SubSeq(ring, 1, k)) = IF 1 =< k THEN k - 1 + 1 ELSE 0
      /\ \A i \in 1 .. k - 1 + 1 : SubSeq(ring, 1, k)[i] = ring[1 + i - 1]
  BY <1>2, <1>3, SubSeqProperties
<1>5. Len(SubSeq(ring, 1, k)) = k BY <1>2, <1>4
<1>6. \A i \in 1 .. k : SubSeq(ring, 1, k)[i] = ring[i] BY <1>2, <1>4
<1> QED BY <1>4, <1>5, <1>6 DEF Taken, k

LEMMA RestShape ==
  ASSUME NEW ring \in Seq(Channels), NEW n \in Nat
  PROVE  /\ Rest(ring, n) \in Seq(Channels)
         /\ Len(Rest(ring, n)) = Len(ring) - Least(n, Len(ring))
         /\ \A i \in 1 .. Len(ring) - Least(n, Len(ring)) :
              Rest(ring, n)[i] = ring[Least(n, Len(ring)) + i]
<1> DEFINE k == Least(n, Len(ring))
           l == Len(ring)
<1>1. l \in Nat /\ \A i \in 1 .. l : ring[i] \in Channels
  BY LenProperties, ElementOfSeq
<1>2. k \in Nat /\ k =< l BY <1>1, LeastBounds
<1>3. Rest(ring, n) = SubSeq(ring, k + 1, l) BY DEF Rest
<1> HIDE DEF k, l
<1>4. \A i \in k + 1 .. l : ring[i] \in Channels BY <1>1, <1>2
<1>5. /\ SubSeq(ring, k + 1, l) \in Seq(Channels)
      /\ Len(SubSeq(ring, k + 1, l)) = IF k + 1 =< l THEN l - (k + 1) + 1 ELSE 0
      /\ \A i \in 1 .. l - (k + 1) + 1 : SubSeq(ring, k + 1, l)[i] = ring[(k + 1) + i - 1]
  BY <1>1, <1>2, <1>4, SubSeqProperties
<1>6. Len(SubSeq(ring, k + 1, l)) = l - k BY <1>1, <1>2, <1>5
<1>7. \A i \in 1 .. l - k : SubSeq(ring, k + 1, l)[i] = ring[k + i] BY <1>1, <1>2, <1>5
<1> QED BY <1>3, <1>5, <1>6, <1>7 DEF k, l

(* A loop of pushes never passes the capacity, and keeps everything unless it *)
(* overruns (codec.rs: push answers false).                                   *)
LEMMA PushedShape ==
  ASSUME NEW ring \in Seq(Channels), Len(ring) =< Capacity, NEW samples \in Seq(Channels)
  PROVE  /\ Pushed(ring, samples) \in Seq(Channels)
         /\ Len(Pushed(ring, samples)) =< Capacity
         /\ ~Overran(ring, samples) => Pushed(ring, samples) = ring \o samples
<1> DEFINE room == Capacity - Len(ring)
           k == Least(Len(samples), room)
<1>1. /\ Len(ring) \in Nat /\ Len(samples) \in Nat
      /\ \A i \in 1 .. Len(samples) : samples[i] \in Channels
  BY LenProperties, ElementOfSeq
<1>2. room \in Nat BY <1>1, CapacityAssumption
<1>3. k \in Nat /\ k =< Len(samples) /\ k =< room BY <1>1, <1>2, LeastBounds
<1>4. Pushed(ring, samples) = ring \o SubSeq(samples, 1, k) BY DEF Pushed
<1>5. ~Overran(ring, samples) => k = Len(samples)
  BY <1>1, CapacityAssumption DEF Overran, Least
<1>6. room = Capacity - Len(ring) OBVIOUS
<1> HIDE DEF k, room
<1>7. \A i \in 1 .. k : samples[i] \in Channels BY <1>1, <1>3
<1>8. /\ SubSeq(samples, 1, k) \in Seq(Channels)
      /\ Len(SubSeq(samples, 1, k)) = IF 1 =< k THEN k - 1 + 1 ELSE 0
  BY <1>3, <1>7, SubSeqProperties
<1>9. Len(SubSeq(samples, 1, k)) = k BY <1>3, <1>8
<1>10. /\ Pushed(ring, samples) \in Seq(Channels)
       /\ Len(Pushed(ring, samples)) = Len(ring) + k
  BY <1>4, <1>8, <1>9, ConcatProperties
<1>11. Len(ring) + k =< Capacity BY <1>1, <1>2, <1>3, <1>6, CapacityAssumption
<1>12. k = Len(samples) => SubSeq(samples, 1, k) = samples BY SubSeqFull
<1> QED BY <1>4, <1>5, <1>10, <1>11, <1>12

-----------------------------------------------------------------------------
(* The place of a sample says its channel.                                    *)
Placed(samples) ==
  \A i \in 1 .. Len(samples) : samples[i] = IF i % 2 = 1 THEN Left ELSE Right

LEMMA PlacedInterleaves ==
  ASSUME NEW samples \in Seq(Channels)
  PROVE  Interleaves(samples) <=> Placed(samples)
<1>1. DOMAIN samples = 1 .. Len(samples) BY LenProperties
<1>2. Len(samples) \in Nat BY LenProperties
<1>3. ASSUME NEW i \in 1 .. Len(samples)
      PROVE  Interleaved(i)[i] = IF i % 2 = 1 THEN Left ELSE Right
  <2>1. i \in Nat /\ i \in 1 .. 2 * i BY <1>2
  <2> QED BY <2>1, InterleavedShape
<1>4. \A i \in 1 .. Len(samples) : samples[i] # Silence
  BY ElementOfSeq DEF Channels, Left, Right, Silence
<1> QED BY <1>1, <1>3, <1>4 DEF Interleaves, Placed

LEMMA EvenShift ==
  ASSUME NEW a \in Nat, a % 2 = 0, NEW b \in Nat, b % 2 = 0, NEW i \in Nat
  PROVE  /\ (a + b) % 2 = 0 /\ (2 * i) % 2 = 0
         /\ a =< i => (i - a) % 2 = i % 2
         /\ (a + i) % 2 = i % 2
         /\ b =< a => (a - b) % 2 = 0
OBVIOUS

(* Whole frames behind whole frames are whole frames.                         *)
LEMMA ConcatWhole ==
  ASSUME NEW ring \in Seq(Channels), WholeFrames(ring),
         NEW f \in Nat
  PROVE  WholeFrames(ring \o Interleaved(f))
<1> DEFINE s == Interleaved(f)
           l == Len(ring)
           r == ring \o s
<1>1. /\ s \in Seq(Channels) /\ Len(s) = 2 * f
      /\ \A i \in 1 .. 2 * f : s[i] = IF i % 2 = 1 THEN Left ELSE Right
  BY InterleavedShape
<1>2. l \in Nat /\ l % 2 = 0 BY LenProperties DEF WholeFrames
<1>3. \A i \in 1 .. l : ring[i] = IF i % 2 = 1 THEN Left ELSE Right
  BY PlacedInterleaves DEF WholeFrames, Placed
<1> HIDE DEF s
<1>4. /\ r \in Seq(Channels) /\ Len(r) = l + 2 * f
      /\ \A i \in 1 .. l + 2 * f : r[i] = IF i =< l THEN ring[i] ELSE s[i - l]
  BY <1>1, ConcatProperties
<1> HIDE DEF l, r
<1>5. 2 * f \in Nat /\ (2 * f) % 2 = 0 BY EvenShift, <1>2
<1>6. Len(r) % 2 = 0 BY <1>2, <1>4, <1>5, EvenShift
<1>7. ASSUME NEW i \in 1 .. l + 2 * f
      PROVE  r[i] = IF i % 2 = 1 THEN Left ELSE Right
  <2>1. CASE i =< l
    <3>1. i \in 1 .. l BY <1>2, <2>1
    <3> QED BY <1>3, <1>4, <2>1, <3>1
  <2>2. CASE i > l
    <3>1. i - l \in 1 .. 2 * f /\ i \in Nat /\ ~(i =< l) BY <1>2, <1>5, <2>2
    <3>2. (i - l) % 2 = i % 2 BY <1>2, <2>2, <3>1, EvenShift
    <3> QED BY <1>1, <1>4, <3>1, <3>2
  <2>3. i =< l \/ i > l BY <1>2, <1>5
  <2> QED BY <2>1, <2>2, <2>3
<1>8. Placed(r) BY <1>4, <1>7 DEF Placed
<1> QED BY <1>4, <1>6, <1>8, PlacedInterleaves DEF WholeFrames, r, s

(* Taking whole frames, or everything, from the front leaves whole frames.    *)
LEMMA RestWhole ==
  ASSUME NEW ring \in Seq(Channels), WholeFrames(ring), NEW n \in Nat, n % 2 = 0
  PROVE  WholeFrames(Rest(ring, n))
<1> DEFINE k == Least(n, Len(ring))
           l == Len(ring)
           r == Rest(ring, n)
<1>1. l \in Nat /\ l % 2 = 0 BY LenProperties DEF WholeFrames
<1>2. k \in Nat /\ k =< l /\ k % 2 = 0 BY <1>1, LeastBounds
<1>3. \A i \in 1 .. l : ring[i] = IF i % 2 = 1 THEN Left ELSE Right
  BY PlacedInterleaves DEF WholeFrames, Placed
<1>4. /\ r \in Seq(Channels) /\ Len(r) = l - k
      /\ \A i \in 1 .. l - k : r[i] = ring[k + i]
  BY RestShape
<1> HIDE DEF k, l, r
<1>5. Len(r) % 2 = 0 BY <1>1, <1>2, <1>4, EvenShift
<1>6. ASSUME NEW i \in 1 .. l - k
      PROVE  r[i] = IF i % 2 = 1 THEN Left ELSE Right
  <2>1. k + i \in 1 .. l /\ i \in Nat BY <1>1, <1>2
  <2>2. (k + i) % 2 = i % 2 BY <1>2, <2>1, EvenShift
  <2> QED BY <1>3, <1>4, <2>1, <2>2
<1>7. Placed(r) BY <1>4, <1>6 DEF Placed
<1> QED BY <1>4, <1>5, <1>7, PlacedInterleaves DEF WholeFrames, r

LEMMA EmptyWhole == WholeFrames(<<>>)
<1>1. Len(<<>>) = 0 /\ DOMAIN <<>> = {} OBVIOUS
<1>2. 0 % 2 = 0 OBVIOUS
<1> QED BY <1>1, <1>2 DEF WholeFrames, Interleaves

LEMMA OutputShape ==
  ASSUME NEW ring \in Seq(Channels), NEW n \in Nat
  PROVE  /\ Output(ring, n) \in Seq(Channels \cup {Silence})
         /\ Len(Output(ring, n)) = n
<1> DEFINE t == Taken(ring, n)
           z == [i \in 1 .. n - Len(t) |-> Silence]
<1>1. /\ t \in Seq(Channels) /\ Len(t) \in Nat /\ Len(t) =< n
  BY TakenShape, LeastBounds, LenProperties
<1>2. t \in Seq(Channels \cup {Silence}) BY <1>1, SeqMonotonic
<1>3. Output(ring, n) = t \o z BY DEF Output
<1> HIDE DEF t
<1>4. z \in Seq(Channels \cup {Silence}) /\ Len(z) = n - Len(t) BY <1>1
<1> HIDE DEF z
<1>5. t \o z \in Seq(Channels \cup {Silence}) /\ Len(t \o z) = Len(t) + Len(z)
  BY <1>2, <1>4, ConcatProperties
<1> QED BY <1>1, <1>3, <1>4, <1>5

(* service_usb asks the capture ring for whole frames (main.rs: nudge by one  *)
(* stereo frame).                                                             *)
LEMMA CaptureSamplesEven ==
  ASSUME NEW fill \in Nat
  PROVE  /\ CaptureSamples(fill) \in Nat /\ CaptureSamples(fill) % 2 = 0
         /\ CaptureSamples(fill) =< 2 * (Nominal + 1)
<1>1. Nominal \in Nat /\ Nominal > 1 BY BlockAssumption
<1>2. CaptureSamples(fill) \in {2 * (Nominal + 1), 2 * (Nominal - 1), 2 * Nominal}
  BY DEF CaptureSamples
<1>3. /\ (2 * (Nominal + 1)) % 2 = 0 /\ (2 * (Nominal - 1)) % 2 = 0
      /\ (2 * Nominal) % 2 = 0
  BY <1>1
<1> QED BY <1>1, <1>2, <1>3

LEMMA HostFramesNat == ASSUME NEW f \in HostFrames PROVE f \in Nat
BY BlockAssumption DEF HostFrames

-----------------------------------------------------------------------------
(* The inductive invariant: parity needs no strengthening but the types.      *)
BridgeInv == BridgeTypeOK /\ ChannelsPaired

LEMMA BridgeInitInv == BridgeInit => BridgeInv
<1> SUFFICES ASSUME BridgeInit PROVE BridgeInv OBVIOUS
<1>1. <<>> \in Seq(Channels) /\ Len(<<>>) = 0 BY EmptySeq
<1>2. BridgeTypeOK
  BY <1>1, CapacityAssumption, BlockAssumption DEF BridgeInit, BridgeTypeOK
<1> QED
  BY <1>2, EmptyWhole
  DEF BridgeInit, BridgeInv, ChannelsPaired, PlaybackPaired, CapturePaired

(* One step: what each ring takes in and gives out are whole frames.          *)
LEMMA BridgeStepInv == BridgeInv /\ [BridgeNext]_bridgeVars => BridgeInv'
<1> SUFFICES ASSUME BridgeInv, [BridgeNext]_bridgeVars PROVE BridgeInv'
  OBVIOUS
<1>t. /\ playback \in Seq(Channels) /\ Len(playback) =< Capacity /\ Len(playback) \in Nat
      /\ capture \in Seq(Channels) /\ Len(capture) =< Capacity /\ Len(capture) \in Nat
      /\ overrun \in [out : BOOLEAN, in : BOOLEAN]
      /\ alt \in [out : 0 .. 1, in : 0 .. 1]
      /\ inPacket \in Seq(Channels) /\ Len(inPacket) =< 2 * (Nominal + 1)
      /\ dac = <<>> \/ (dac \in Seq(Channels \cup {Silence}) /\ Len(dac) = 2 * BlockFrames)
  BY LenProperties DEF BridgeInv, BridgeTypeOK
<1>w. /\ ~overrun.out => WholeFrames(playback)
      /\ ~overrun.in => WholeFrames(capture)
  BY DEF BridgeInv, ChannelsPaired, PlaybackPaired, CapturePaired
<1>e. WholeFrames(<<>>) /\ Len(<<>>) = 0 /\ <<>> \in Seq(Channels) BY EmptyWhole, EmptySeq
<1>b. BlockFrames \in Nat /\ Capacity \in Nat /\ Nominal \in Nat
  BY BlockAssumption, CapacityAssumption
<1>1. CASE AudioProcess
  <2> DEFINE n == 2 * BlockFrames
             input == Interleaved(BlockFrames)
  <2>1. n \in Nat /\ n % 2 = 0 /\ input \in Seq(Channels)
    BY <1>b, InterleavedShape
  <2>2. /\ dac' = Output(playback, n) /\ playback' = Rest(playback, n)
        /\ capture' = Pushed(capture, input)
        /\ overrun' = [out |-> overrun.out /\ playback' # <<>>,
                       in |-> overrun.in \/ Overran(capture, input)]
        /\ UNCHANGED <<alt, inPacket>>
    BY <1>1 DEF AudioProcess
  <2>3. /\ playback' \in Seq(Channels) /\ Len(playback') =< Capacity
    <3>1. /\ Len(playback') = Len(playback) - Least(n, Len(playback))
          /\ Least(n, Len(playback)) \in Nat /\ playback' \in Seq(Channels)
      BY <1>t, <2>1, <2>2, RestShape, LeastBounds
    <3> QED BY <1>t, <1>b, <3>1
  <2>4. capture' \in Seq(Channels) /\ Len(capture') =< Capacity
    BY <1>t, <2>1, <2>2, PushedShape
  <2>5. dac' \in Seq(Channels \cup {Silence}) /\ Len(dac') = n
    BY <1>t, <2>1, <2>2, OutputShape
  <2>6. overrun'.out = (overrun.out /\ playback' # <<>>) /\
        overrun'.in = (overrun.in \/ Overran(capture, input))
    BY <2>2
  <2>7. overrun' \in [out : BOOLEAN, in : BOOLEAN]
    BY <1>t, <2>2 DEF Overran
  <2>8. BridgeTypeOK'
    BY <1>t, <2>2, <2>3, <2>4, <2>5, <2>7 DEF BridgeTypeOK
  <2>9. PlaybackPaired'
    <3>1. ~overrun.out => WholeFrames(playback')
      BY <1>t, <1>w, <2>1, <2>2, RestWhole
    <3> QED BY <1>e, <2>6, <3>1 DEF PlaybackPaired
  <2>10. CapturePaired'
    <3>1. SUFFICES ASSUME ~overrun.in, ~Overran(capture, input)
                   PROVE  WholeFrames(capture')
      BY <2>6 DEF CapturePaired
    <3>2. capture' = capture \o input BY <1>t, <2>1, <2>2, <3>1, PushedShape
    <3> QED BY <1>t, <1>w, <1>b, <3>1, <3>2, ConcatWhole
  <2> QED BY <2>8, <2>9, <2>10 DEF BridgeInv, ChannelsPaired
<1>2. ASSUME NEW frames \in HostFrames, ServiceUsb(frames) PROVE BridgeInv'
  <2> DEFINE packet == Interleaved(frames)
             n == CaptureSamples(Len(capture))
  <2>1. /\ frames \in Nat /\ packet \in Seq(Channels)
        /\ n \in Nat /\ n % 2 = 0 /\ n =< 2 * (Nominal + 1)
    BY <1>t, HostFramesNat, InterleavedShape, CaptureSamplesEven
  <2>2. /\ playback' = Pushed(playback, packet)
        /\ overrun' = [out |-> overrun.out \/ Overran(playback, packet),
                       in |-> overrun.in /\ capture' # <<>>]
        /\ UNCHANGED <<alt, dac>>
    BY <1>2 DEF ServiceUsb, PlaybackService
  <2>3. \/ UNCHANGED <<capture, inPacket>>
        \/ /\ capture' = Rest(capture, n)
           /\ inPacket' = inPacket \/ inPacket' = Taken(capture, n)
    BY <1>2 DEF ServiceUsb, CaptureService
  <2> HIDE DEF n
  <2>4. playback' \in Seq(Channels) /\ Len(playback') =< Capacity
    BY <1>t, <2>1, <2>2, PushedShape
  <2>5. capture' \in Seq(Channels) /\ Len(capture') =< Capacity
    <3>1. CASE capture' = Rest(capture, n)
      <4>1. /\ Len(capture') = Len(capture) - Least(n, Len(capture))
            /\ Least(n, Len(capture)) \in Nat /\ capture' \in Seq(Channels)
        BY <1>t, <2>1, <3>1, RestShape, LeastBounds
      <4> QED BY <1>t, <1>b, <4>1
    <3> QED BY <1>t, <2>3, <3>1
  <2>6. inPacket' \in Seq(Channels) /\ Len(inPacket') =< 2 * (Nominal + 1)
    <3>1. CASE inPacket' = Taken(capture, n)
      <4>1. /\ Len(inPacket') = Least(n, Len(capture)) /\ inPacket' \in Seq(Channels)
            /\ Least(n, Len(capture)) \in Nat /\ Least(n, Len(capture)) =< n
        BY <1>t, <2>1, <3>1, TakenShape, LeastBounds
      <4> QED BY <1>b, <2>1, <4>1
    <3> QED BY <1>t, <2>3, <3>1
  <2>7. overrun' \in [out : BOOLEAN, in : BOOLEAN]
    BY <1>t, <2>2 DEF Overran
  <2>8. BridgeTypeOK'
    BY <1>t, <2>2, <2>4, <2>5, <2>6, <2>7 DEF BridgeTypeOK
  <2>9. /\ overrun'.out = (overrun.out \/ Overran(playback, packet))
        /\ overrun'.in = (overrun.in /\ capture' # <<>>)
    BY <2>2
  <2>10. PlaybackPaired'
    <3>1. SUFFICES ASSUME ~overrun.out, ~Overran(playback, packet)
                   PROVE  WholeFrames(playback')
      BY <2>9 DEF PlaybackPaired
    <3>2. playback' = playback \o packet BY <1>t, <2>1, <2>2, <3>1, PushedShape
    <3> QED BY <1>t, <1>w, <2>1, <3>1, <3>2, ConcatWhole
  <2>11. CapturePaired'
    <3>1. ~overrun.in => WholeFrames(capture')
      BY <1>t, <1>w, <2>1, <2>3, RestWhole
    <3> QED BY <1>e, <2>9, <3>1 DEF CapturePaired
  <2> QED BY <2>8, <2>10, <2>11 DEF BridgeInv, ChannelsPaired
<1>3. ASSUME NEW iface \in {"out", "in"}, NEW a \in 0 .. 1, SetAltSetting(iface, a)
      PROVE  BridgeInv'
  <2>1. alt' \in [out : 0 .. 1, in : 0 .. 1] BY <1>t, <1>3 DEF SetAltSetting
  <2>2. BridgeTypeOK' BY <1>t, <1>3, <2>1 DEF SetAltSetting, BridgeTypeOK
  <2> QED
    BY <1>3, <1>w, <2>2
    DEF SetAltSetting, BridgeInv, ChannelsPaired, PlaybackPaired, CapturePaired
<1>4. CASE BusReset
  <2>1. BridgeTypeOK' BY <1>t, <1>e, <1>b, <1>4 DEF BusReset, BridgeTypeOK
  <2> QED
    BY <1>4, <1>w, <2>1
    DEF BusReset, BridgeInv, ChannelsPaired, PlaybackPaired, CapturePaired
<1>5. CASE HostCollects
  <2>1. BridgeTypeOK' BY <1>t, <1>e, <1>b, <1>5 DEF HostCollects, BridgeTypeOK
  <2> QED
    BY <1>5, <1>w, <2>1
    DEF HostCollects, BridgeInv, ChannelsPaired, PlaybackPaired, CapturePaired
<1>6. CASE UNCHANGED bridgeVars
  <2>1. BridgeTypeOK' BY <1>t, <1>6 DEF bridgeVars, BridgeTypeOK
  <2> QED
    BY <1>6, <1>w, <2>1
    DEF bridgeVars, BridgeInv, ChannelsPaired, PlaybackPaired, CapturePaired
<1> QED BY <1>1, <1>2, <1>3, <1>4, <1>5, <1>6 DEF BridgeNext

(* The rings never pass their capacity, a packet fits the IN endpoint and the *)
(* block handed to the DMA is full, for every capacity and packet size.       *)
THEOREM BridgeTypeCorrect == BridgeSpec => []BridgeTypeOK
<1> QED BY BridgeInitInv, BridgeStepInv, PTL DEF BridgeSpec, BridgeInv

(* codec.rs:140-142 as far as it goes: underruns, size nudges, refused        *)
(* packets, bus resets and changes of the streams never exchange left and     *)
(* right; only an overrun can.                                                *)
THEOREM ChannelsStayPaired == BridgeSpec => []ChannelsPaired
<1> QED BY BridgeInitInv, BridgeStepInv, PTL DEF BridgeSpec, BridgeInv

-----------------------------------------------------------------------------
(* What leaves a ring of whole frames starts with a left sample, also when it *)
(* runs dry in the middle of a block.                                         *)
LEMMA TakenInterleaves ==
  ASSUME NEW ring \in Seq(Channels), WholeFrames(ring), NEW n \in Nat
  PROVE  Interleaves(Taken(ring, n)) /\ Interleaves(Output(ring, n))
<1> DEFINE t == Taken(ring, n)
           z == [i \in 1 .. n - Len(t) |-> Silence]
           o == Output(ring, n)
<1>1. /\ t \in Seq(Channels) /\ Len(t) \in Nat /\ Len(t) =< n /\ Len(t) =< Len(ring)
      /\ \A i \in 1 .. Len(t) : t[i] = ring[i]
  BY TakenShape, LeastBounds, LenProperties
<1>2. Placed(ring) /\ Len(ring) \in Nat
  BY PlacedInterleaves, LenProperties DEF WholeFrames
<1>3. Placed(t)
  <2>1. \A i \in 1 .. Len(t) : i \in 1 .. Len(ring) BY <1>1, <1>2
  <2> QED BY <1>1, <1>2, <2>1 DEF Placed
<1>4. o = t \o z BY DEF Output
<1>5. t \in Seq(Channels \cup {Silence}) BY <1>1, SeqMonotonic
<1>6. Interleaves(t) BY <1>1, <1>3, PlacedInterleaves
<1> HIDE DEF t
<1>7. /\ z \in Seq(Channels \cup {Silence}) /\ Len(z) = n - Len(t)
      /\ \A i \in 1 .. n - Len(t) : z[i] = Silence
  BY <1>1
<1> HIDE DEF z
<1>8. /\ o \in Seq(Channels \cup {Silence}) /\ Len(o) = n
      /\ \A i \in 1 .. n : o[i] = IF i =< Len(t) THEN t[i] ELSE z[i - Len(t)]
  <2>1. /\ t \o z \in Seq(Channels \cup {Silence})
        /\ Len(t \o z) = Len(t) + Len(z)
        /\ \A i \in 1 .. Len(t) + Len(z) :
             (t \o z)[i] = IF i =< Len(t) THEN t[i] ELSE z[i - Len(t)]
    BY <1>5, <1>7, ConcatProperties
  <2> QED BY <1>1, <1>4, <1>7, <2>1
<1> HIDE DEF o
<1>9. ASSUME NEW i \in 1 .. n
      PROVE  o[i] = Silence \/ o[i] = Interleaved(i)[i]
  <2>1. i \in Nat /\ i \in 1 .. 2 * i OBVIOUS
  <2>2. Interleaved(i)[i] = IF i % 2 = 1 THEN Left ELSE Right
    BY <2>1, InterleavedShape
  <2>3. CASE i =< Len(t)
    <3>1. i \in 1 .. Len(t) BY <1>1, <2>3
    <3> QED BY <1>3, <1>8, <2>2, <2>3, <3>1 DEF Placed
  <2>4. CASE ~(i =< Len(t))
    <3>1. i - Len(t) \in 1 .. n - Len(t) BY <1>1, <2>4
    <3> QED BY <1>7, <1>8, <2>4, <3>1
  <2> QED BY <2>3, <2>4
<1>10. DOMAIN o = 1 .. n BY <1>8, LenProperties
<1> QED BY <1>6, <1>9, <1>10 DEF Interleaves, t, o

(* As long as the ring it comes from has not overrun, every block handed to   *)
(* the codec and every packet handed to the host has its samples in their     *)
(* places: the exchange the overrun finding shows has no other cause.         *)
THEOREM StreamsLeaveInterleaved ==
  BridgeSpec => [][ /\ ~overrun.out => dac' = dac \/ Interleaves(dac')
                    /\ ~overrun.in => inPacket' = inPacket \/ Interleaves(inPacket') ]_bridgeVars
<1> DEFINE A == /\ ~overrun.out => dac' = dac \/ Interleaves(dac')
                /\ ~overrun.in => inPacket' = inPacket \/ Interleaves(inPacket')
<1>1. BridgeInv /\ [BridgeNext]_bridgeVars => [A]_bridgeVars
  <2> SUFFICES ASSUME BridgeInv, BridgeNext PROVE A OBVIOUS
  <2>1. /\ playback \in Seq(Channels) /\ capture \in Seq(Channels) /\ Len(capture) \in Nat
        /\ ~overrun.out => WholeFrames(playback)
        /\ ~overrun.in => WholeFrames(capture)
    BY LenProperties
    DEF BridgeInv, BridgeTypeOK, ChannelsPaired, PlaybackPaired, CapturePaired
  <2>2. Interleaves(<<>>) BY EmptyWhole DEF WholeFrames
  <2>3. CASE AudioProcess
    <3>1. /\ dac' = Output(playback, 2 * BlockFrames) /\ inPacket' = inPacket
          /\ 2 * BlockFrames \in Nat
      BY <2>3, BlockAssumption DEF AudioProcess
    <3> QED BY <2>1, <3>1, TakenInterleaves
  <2>4. ASSUME NEW frames \in HostFrames, ServiceUsb(frames) PROVE A
    <3> DEFINE n == CaptureSamples(Len(capture))
    <3>1. dac' = dac /\ (inPacket' = inPacket \/ inPacket' = Taken(capture, n))
      BY <2>4 DEF ServiceUsb, CaptureService
    <3>2. n \in Nat BY <2>1, CaptureSamplesEven
    <3> QED BY <2>1, <3>1, <3>2, TakenInterleaves
  <2>5. ASSUME NEW iface \in {"out", "in"}, NEW a \in 0 .. 1, SetAltSetting(iface, a)
        PROVE  A
    BY <2>5 DEF SetAltSetting
  <2>6. CASE BusReset BY <2>2, <2>6 DEF BusReset
  <2>7. CASE HostCollects BY <2>2, <2>7 DEF HostCollects
  <2> QED BY <2>3, <2>4, <2>5, <2>6, <2>7 DEF BridgeNext
<1> QED BY <1>1, BridgeInitInv, BridgeStepInv, PTL DEF BridgeSpec

-----------------------------------------------------------------------------
(* The SAI driver.                                                            *)
Pending == {h \in Halves : IF h = 0 THEN ht ELSE tc}
Written == rendered \cup (IF Serving THEN {isr.half} ELSE {})
Ahead   == IF txHalf = rxHalf THEN 1 - txHalf ELSE txHalf
OtherHalfWaits == txHalf = rxHalf /\ Pending = {1 - rxHalf}

(* A block nobody has read is announced by a flag or is being served.         *)
Sourced == unserved \subseteq Pending \cup (IF isr.pc = "convert" THEN {isr.half} ELSE {})

(* After one undelayed interrupt at most one flag is left over from the time  *)
(* before it.                                                                 *)
OneLeft ==
  calm >= 1 =>
    /\ unmasked /\ ~(ht /\ tc)
    /\ Serving => ~ht /\ (tc => isr.half = 0)
    /\ ~Serving /\ Pending # {} => rendered \cup Pending = Halves \/ OtherHalfWaits

(* After two, a flag is the one of the half that just filled, and the half    *)
(* the transmitter enters next has been written or is being written.          *)
CaughtUp ==
  calm >= 2 =>
    /\ Pending # {} => /\ ~Serving /\ OtherHalfWaits
                       /\ Pending \subseteq unserved /\ txHalf \in rendered
    /\ Pending = {} => Ahead \in Written

(* After three, the half being served is the one both streams have left.      *)
Settled ==
  calm >= 3 =>
    /\ Serving => txHalf = rxHalf /\ isr.half = 1 - rxHalf
    /\ isr.pc = "convert" => isr.half \in unserved
    /\ txHalf \in rendered

SaiInv == SaiTypeOK /\ Sourced /\ OneLeft /\ CaughtUp /\ Settled

LEMMA SaiInitInv == SaiInit => SaiInv
  <1> SUFFICES ASSUME SaiInit PROVE SaiInv
    OBVIOUS
  <1> USE DEF SaiInit, Halves, Off, Serving, Warm
  <1>0. isr \in [pc : {"off", "convert", "render"}, half : {0, 1}] /\ isr.pc = "off"
    BY DEF SaiInit
  <1>1. SaiTypeOK
    BY <1>0, ~unmasked, calm = 0, calm \in 0 .. 3 DEF SaiTypeOK
  <1>2. Sourced /\ OneLeft /\ CaughtUp /\ Settled
    BY DEF Sourced, OneLeft, CaughtUp, Settled
  <1> QED BY <1>1, <1>2 DEF SaiInv

LEMMA SaiStepType == SaiTypeOK /\ [SaiNext]_saiVars => SaiTypeOK'
  <1> SUFFICES ASSUME SaiTypeOK, [SaiNext]_saiVars PROVE SaiTypeOK'
    OBVIOUS
  <1> USE DEF SaiTypeOK, Halves, Off, Serving, Warm
  <1>1. CASE Start BY <1>1 DEF Start
  <1>2. CASE TxAdvance BY <1>2 DEF TxAdvance, CalmAfter, Late
  <1>3. CASE RxAdvance BY <1>3 DEF RxAdvance, CalmAfter, Late
  <1>4. CASE Drain
    <2>1. calm' \in 0 .. 3
      BY <1>4 DEF Drain
    <2>2. isr' \in [pc : {"off", "convert", "render"}, half : {0, 1}]
      BY <1>4 DEF Drain, DrainHalf, DrainComplete, Serve
    <2>3. ht' \in BOOLEAN /\ tc' \in BOOLEAN /\ unmasked /\ UNCHANGED <<rxHalf, txHalf, unmasked, unserved, rendered>>
      BY <1>4 DEF Drain, DrainHalf, DrainComplete, IrqTaken
    <2> QED BY <2>1, <2>2, <2>3
  <1>5. CASE Convert BY <1>5 DEF Convert
  <1>6. CASE Render BY <1>6 DEF Render, RenderInto
  <1>7. CASE UNCHANGED saiVars BY <1>7 DEF saiVars
  <1> QED BY <1>1, <1>2, <1>3, <1>4, <1>5, <1>6, <1>7 DEF SaiNext

LEMMA SaiStepInv == SaiInv /\ [SaiNext]_saiVars => SaiInv'
  <1> SUFFICES ASSUME SaiInv, [SaiNext]_saiVars PROVE SaiInv'
    OBVIOUS
  <1>t. SaiTypeOK'
    BY SaiStepType DEF SaiInv
  <1> USE DEF SaiInv, SaiTypeOK, Halves, Off, Serving, Warm, Sourced, OneLeft, CaughtUp, Settled,
              Pending, Written, Ahead, OtherHalfWaits
  <1>1. CASE Start BY <1>t, <1>1 DEF Start
  <1>2. CASE TxAdvance BY <1>t, <1>2 DEF TxAdvance, CalmAfter, Late
  <1>3. CASE RxAdvance
    <2> USE <1>t, <1>3 DEF RxAdvance, CalmAfter, Late
    <2>1. Sourced' OBVIOUS
    <2>2. OneLeft' OBVIOUS
    <2>3. CaughtUp' OBVIOUS
    <2>4. Settled' OBVIOUS
    <2> QED BY <2>1, <2>2, <2>3, <2>4
  <1>4. CASE Drain
    <2> USE <1>t, <1>4 DEF Drain, DrainHalf, DrainComplete, Serve, IrqTaken
    <2>1. Sourced' OBVIOUS
    <2>2. OneLeft' OBVIOUS
    <2>3. CaughtUp' OBVIOUS
    <2>4. Settled' OBVIOUS
    <2> QED BY <2>1, <2>2, <2>3, <2>4
  <1>5. CASE Convert BY <1>t, <1>5 DEF Convert
  <1>6. CASE Render BY <1>t, <1>6 DEF Render, RenderInto
  <1>7. CASE UNCHANGED saiVars BY <1>t, <1>7 DEF saiVars
  <1> QED BY <1>1, <1>2, <1>3, <1>4, <1>5, <1>6, <1>7 DEF SaiNext

(* Two interrupts after any delay, the interrupt serves the half both streams *)
(* have left, no captured block is overwritten unserved or served twice, and  *)
(* the codec hears no output block twice.                                     *)
THEOREM EachBlockServedOnce == SaiSpec => []BlocksServedOnce
  <1>1. SaiInv => BlocksServedOnce
    BY DEF SaiInv, SaiTypeOK, Sourced, OneLeft, CaughtUp, Settled, BlocksServedOnce, InStep,
           NoBlockLost, NoOutputRepeated, Warm, Halves, Pending, OtherHalfWaits, Serving
  <1> QED BY <1>1, SaiInitInv, SaiStepInv, PTL DEF SaiSpec
-----------------------------------------------------------------------------
(* The USB interrupt, for every set of builds and every depth of the receive  *)
(* FIFO. The invariant follows a packet through the FIFO: at most one SETUP   *)
(* is in it, and audio is in it only ahead of the SETUP that closes its       *)
(* stream, so the interrupt of the plain codec build always finds somewhere   *)
(* to put the head.                                                           *)

HostStates ==
  [conf : 0 .. 1, out : 0 .. 1, in : 0 .. 1, left : SUBSET Streams, asked : HostRequests \cup {None}]

LinkOK ==
  /\ rx \in Seq(Packets) /\ held \subseteq DataOut
  /\ build \in Builds
  /\ altOut \in 0 .. 1 /\ altIn \in 0 .. 1
  /\ inQueued \in BOOLEAN /\ inDone \in BOOLEAN /\ busReset \in BOOLEAN
  /\ host \in HostStates

(* The FIFO keeps room for one SETUP, which is there while the host waits.    *)
Room == Len(rx) =< RxDepth + 1 /\ (~busReset /\ host.asked = None => Len(rx) =< RxDepth)

SetupQueued ==
  ~busReset =>
    IF host.asked = None THEN \A i \in 1 .. Len(rx) : rx[i] # "setup"
    ELSE \E i \in 1 .. Len(rx) : \A j \in 1 .. Len(rx) : rx[j] = "setup" <=> j = i

AudioAhead ==
  ~busReset =>
    \A i \in 1 .. Len(rx) : rx[i] = "audio" =>
      host.out = 1 /\ (Closing => \E j \in i + 1 .. Len(rx) : rx[j] = "setup")

(* The interrupt of this build leaves no buffer full.                         *)
Drained == InterruptReadsAll => held = {}

(* A host that has reset the bus has forgotten its streams and its request.   *)
Forgotten == busReset => host = Unconfigured

UsbInv ==
  LinkOK /\ Room /\ SetupQueued /\ AudioAhead /\ Drained /\ Forgotten /\ AltsAgree

(* A host that knows nothing yet, and what each answer leaves it with.        *)
LEMMA UnconfiguredHost == Unconfigured \in HostStates /\ Unconfigured.asked = None
<1>1. /\ Unconfigured.conf = 0 /\ Unconfigured.out = 0 /\ Unconfigured.in = 0
      /\ Unconfigured.left = {} /\ Unconfigured.asked = None
  BY DEF Unconfigured
<1> QED BY <1>1 DEF Unconfigured, HostStates

LEMMA Answered ==
  ASSUME host \in HostStates, host.asked \in HostRequests, Setup
  PROVE  /\ HostAfter \in HostStates /\ HostAfter.asked = None
         /\ AltAfter("out", SettingOf("out")) = (IF "out" \in HostAfter.left THEN 1 ELSE HostAfter.out)
         /\ AltAfter("in", SettingOf("in")) = (IF "in" \in HostAfter.left THEN 1 ELSE HostAfter.in)
         /\ host.out = 1 /\ ~Closing => HostAfter.out = 1
<1> USE DEF HostStates
<1>1. CASE Configuring
  <2>1. /\ host.asked.value \in 0 .. 2 /\ host.asked \notin SetAlts
    BY <1>1 DEF Configuring, SetConfigs, SetAlts
  <2>2. AltAfter("out", SettingOf("out")) = SettingOf("out") /\ AltAfter("in", SettingOf("in")) = SettingOf("in")
    BY <2>1 DEF AltAfter
  <2>3. CASE host.asked.value =< 1
    <3>1. HostAfter = Configured(host.asked.value) BY <1>1, <2>3 DEF HostAfter
    <3>2. /\ HostAfter.conf = host.asked.value /\ HostAfter.out = 0 /\ HostAfter.in = 0 /\ HostAfter.asked = None
          /\ HostAfter.left = host.left \cup {s \in Streams : host[s] = 1}
      BY <3>1 DEF Configured
    <3>3. host.asked.value \in 0 .. 1 BY <2>1, <2>3
    <3>4. HostAfter \in HostStates BY <3>1, <3>3 DEF Configured, Streams
    <3>5. /\ "out" \in HostAfter.left <=> "out" \in host.left \/ host.out = 1
          /\ "in" \in HostAfter.left <=> "in" \in host.left \/ host.in = 1
      BY <3>2 DEF Streams
    <3> QED BY <1>1, <2>2, <3>2, <3>4, <3>5 DEF SettingOf, Closing
  <2>4. CASE ~(host.asked.value =< 1)
    <3>1. HostAfter = [host EXCEPT !.asked = None] BY <1>1, <2>4 DEF HostAfter
    <3> QED BY <1>1, <2>2, <3>1 DEF SettingOf, Closing
  <2> QED BY <2>3, <2>4
<1>2. CASE ~Configuring
  <2>1. host.asked \in SetAlts BY <1>2 DEF Configuring, HostRequests
  <2>2. host.asked.iface \in Streams /\ host.asked.alt \in 0 .. 2 BY <2>1 DEF SetAlts
  <2> DEFINE left == {s \in host.left : host.asked.iface # s \/ host.asked.alt > 1}
  <2>3. HostAfter = [host EXCEPT !.out = AltAfter("out", host.out), !.in = AltAfter("in", host.in),
                                 !.asked = None, !.left = left]
    BY <1>2 DEF HostAfter
  <2>4. AltAfter("out", host.out) \in 0 .. 1 /\ AltAfter("in", host.in) \in 0 .. 1
    BY <2>2 DEF AltAfter
  <2>5. /\ HostAfter.out = AltAfter("out", host.out) /\ HostAfter.in = AltAfter("in", host.in)
        /\ HostAfter.asked = None /\ HostAfter.left = left /\ HostAfter.conf = host.conf
    BY <2>3
  <2>6. HostAfter \in HostStates
    <3>1. left \in SUBSET Streams OBVIOUS
    <3> HIDE DEF left
    <3> QED BY <2>3, <2>4, <3>1
  <2>7. AltAfter("out", SettingOf("out")) = (IF "out" \in HostAfter.left THEN 1 ELSE HostAfter.out)
    BY <2>1, <2>2, <2>5 DEF AltAfter, SettingOf
  <2>8. AltAfter("in", SettingOf("in")) = (IF "in" \in HostAfter.left THEN 1 ELSE HostAfter.in)
    BY <2>1, <2>2, <2>5 DEF AltAfter, SettingOf
  <2>9. host.out = 1 /\ ~Closing => HostAfter.out = 1 BY <2>1, <2>5 DEF AltAfter, Closing
  <2> QED BY <2>5, <2>6, <2>7, <2>8, <2>9
<1> QED BY <1>1, <1>2

LEMMA UsbInitInv == UsbInit => UsbInv
<1> SUFFICES ASSUME UsbInit PROVE UsbInv OBVIOUS
<1>1. rx = <<>> /\ rx \in Seq(Packets) /\ Len(rx) = 0 BY DEF UsbInit
<1>2. host \in HostStates /\ host.asked = None /\ SettingOf("out") = 0 /\ SettingOf("in") = 0
  BY UnconfiguredHost DEF UsbInit, SettingOf, Unconfigured
<1>a. build \in Builds /\ held = {} /\ altOut = 0 /\ altIn = 0
  BY DEF UsbInit
<1>b. inQueued \in BOOLEAN /\ inDone \in BOOLEAN /\ busReset \in BOOLEAN
  BY DEF UsbInit
<1>c. held \subseteq DataOut /\ altOut \in 0 .. 1 /\ altIn \in 0 .. 1 BY <1>a
<1>3. LinkOK BY <1>1, <1>2, <1>a, <1>b, <1>c DEF LinkOK
<1>4. Room BY <1>1, DepthAssumption DEF Room
<1>5. SetupQueued /\ AudioAhead BY <1>1, <1>2 DEF SetupQueued, AudioAhead
<1>6. Drained /\ Forgotten /\ AltsAgree BY <1>2 DEF UsbInit, Drained, Forgotten, AltsAgree
<1> QED BY <1>3, <1>4, <1>5, <1>6 DEF UsbInv

(* A packet that arrives, and the head that leaves.                           *)
LEMMA Arrival ==
  ASSUME NEW s \in Seq(Packets), NEW p \in Packets
  PROVE  /\ Append(s, p) \in Seq(Packets) /\ Len(Append(s, p)) = Len(s) + 1 /\ Len(s) \in Nat
         /\ \A i \in 1 .. Len(s) : Append(s, p)[i] = s[i]
         /\ Append(s, p)[Len(s) + 1] = p
BY AppendProperties, LenProperties

LEMMA Departure ==
  ASSUME NEW s \in Seq(Packets), s # <<>>
  PROVE  /\ Tail(s) \in Seq(Packets) /\ Len(s) \in Nat \ {0} /\ Len(Tail(s)) = Len(s) - 1
         /\ \A i \in 1 .. Len(s) - 1 : Tail(s)[i] = s[i + 1]
         /\ Head(s) = s[1] /\ Head(s) \in Packets
BY HeadTailProperties, EmptySeq, LenProperties

(* The host.                                                                  *)
LEMMA UsbHostStep == UsbInv /\ Host => UsbInv'
<1> SUFFICES ASSUME UsbInv, Host PROVE UsbInv' OBVIOUS
<1> USE DEF LinkOK, Room, SetupQueued, AudioAhead, Drained, Forgotten,
            AltsAgree, SettingOf, UsbInv, InterruptReadsAll
<1>s. rx \in Seq(Packets) /\ Len(rx) \in Nat /\ RxDepth \in Nat \ {0}
  BY DepthAssumption, LenProperties
<1>1. ASSUME NEW p \in DataOut, rx' = Append(rx, p), Len(rx) < RxDepth, ~busReset,
             p = "audio" => host.out = 1 /\ ~Closing,
             UNCHANGED <<build, held, altOut, altIn, inQueued, inDone, busReset, host>>
      PROVE  UsbInv'
  <2>1. /\ rx' \in Seq(Packets) /\ Len(rx') = Len(rx) + 1
        /\ \A i \in 1 .. Len(rx) : rx'[i] = rx[i]
        /\ rx'[Len(rx) + 1] = p /\ p # "setup" /\ p \in Packets
    BY <1>s, <1>1, Arrival DEF Packets, DataOut
  <2>2. LinkOK' BY <1>1, <2>1
  <2>3. Room' BY <1>s, <1>1, <2>1
  <2>4. SetupQueued'
    <3>1. \A i \in 1 .. Len(rx') : rx'[i] = "setup" => i \in 1 .. Len(rx) BY <1>s, <2>1
    <3>2. CASE host.asked = None BY <1>1, <2>1, <3>1, <3>2
    <3>3. CASE host.asked # None
      <4>1. PICK i \in 1 .. Len(rx) : \A j \in 1 .. Len(rx) : rx[j] = "setup" <=> j = i
        BY <1>1, <3>3
      <4>2. i \in 1 .. Len(rx') BY <1>s, <2>1
      <4>3. \A j \in 1 .. Len(rx') : rx'[j] = "setup" <=> j = i BY <2>1, <3>1, <4>1
      <4> QED BY <1>1, <3>3, <4>2, <4>3
    <3> QED BY <3>2, <3>3
  <2>5. Closing' = Closing BY <1>1 DEF Closing, Configuring
  <2>6. AudioAhead' BY <1>s, <1>1, <2>1, <2>5
  <2>7. Drained' /\ Forgotten' /\ AltsAgree' BY <1>1
  <2> QED BY <2>2, <2>3, <2>4, <2>6, <2>7
<1>2. CASE HostSendsAudio BY <1>1, <1>2 DEF HostSendsAudio, DataOut
<1>3. CASE HostSendsCdc BY <1>1, <1>3 DEF HostSendsCdc, DataOut
<1>4. CASE \E r \in HostRequests : HostAsks(r)
  <2>1. PICK r \in HostRequests : HostAsks(r) BY <1>4
  <2>2. /\ host.asked = None /\ ~busReset /\ rx' = Append(rx, "setup")
        /\ host' = [host EXCEPT !.asked = r]
        /\ UNCHANGED <<build, held, altOut, altIn, inQueued, inDone, busReset>>
    BY <2>1 DEF HostAsks
  <2>3. /\ rx' \in Seq(Packets) /\ Len(rx') = Len(rx) + 1
        /\ \A i \in 1 .. Len(rx) : rx'[i] = rx[i]
        /\ rx'[Len(rx) + 1] = "setup"
    BY <1>s, <2>2, Arrival DEF Packets
  <2>4. /\ host' \in HostStates
        /\ host'.asked = r /\ host'.out = host.out /\ host'.in = host.in /\ host'.left = host.left
        /\ r # None
    <3>1. r # None BY DEF HostRequests, SetAlts, SetConfigs, None
    <3> QED BY <2>2, <3>1 DEF HostStates
  <2>5. LinkOK' BY <2>2, <2>3, <2>4
  <2>6. Room' BY <1>s, <2>2, <2>3, <2>4
  <2>7. SetupQueued'
    <3>1. \A j \in 1 .. Len(rx) : rx'[j] # "setup" BY <2>2, <2>3
    <3>2. \A j \in 1 .. Len(rx') : j \in 1 .. Len(rx) \/ j = Len(rx) + 1 BY <1>s, <2>3
    <3>3. Len(rx) + 1 \in 1 .. Len(rx') /\ Len(rx) + 1 \notin 1 .. Len(rx) BY <1>s, <2>3
    <3>4. \A j \in 1 .. Len(rx') : rx'[j] = "setup" <=> j = Len(rx) + 1
      BY <2>3, <3>1, <3>2, <3>3
    <3>5. host'.asked # None BY <2>4
    <3> QED BY <3>3, <3>4, <3>5
  <2>8. AudioAhead'
    <3> SUFFICES ASSUME NEW i \in 1 .. Len(rx'), rx'[i] = "audio"
                 PROVE  host'.out = 1 /\ \E j \in i + 1 .. Len(rx') : rx'[j] = "setup"
      OBVIOUS
    <3>1. i \in 1 .. Len(rx) /\ Len(rx') \in i + 1 .. Len(rx') BY <1>s, <2>3
    <3> QED BY <2>2, <2>3, <2>4, <3>1
  <2>9. Drained' /\ Forgotten' /\ AltsAgree' BY <2>2, <2>4
  <2> QED BY <2>5, <2>6, <2>7, <2>8, <2>9
<1>5. CASE HostTakesPacket
  <2>1. UNCHANGED <<build, rx, held, altOut, altIn, busReset, host>> /\ inQueued' \in BOOLEAN /\ inDone' \in BOOLEAN
    BY <1>5 DEF HostTakesPacket
  <2> QED BY <2>1 DEF Closing, Configuring
<1>6. CASE HostResetsBus
  <2>1. /\ busReset' = TRUE /\ host' = Unconfigured
        /\ UNCHANGED <<build, rx, held, altOut, altIn, inQueued, inDone>>
    BY <1>6 DEF HostResetsBus
  <2> QED BY <2>1, UnconfiguredHost
<1> QED BY <1>2, <1>3, <1>4, <1>5, <1>6 DEF Host

(* The interrupt on data.                                                     *)
LEMMA PollStep ==
  ASSUME UsbInv, OtgData
  PROVE  UsbInv'
<1> USE DEF LinkOK, Room, SetupQueued, AudioAhead, Drained, Forgotten, AltsAgree, SettingOf, UsbInv, InterruptReadsAll
<1>s. rx \in Seq(Packets) /\ Len(rx) \in Nat /\ RxDepth \in Nat \ {0}
  BY DepthAssumption, LenProperties
<1> DEFINE alts == [out |-> altOut', in |-> altIn']
<1>1. /\ ~busReset /\ rx' = RxAfter /\ host' = HostAfter
      /\ altOut' = AltAfter("out", altOut) /\ altIn' = AltAfter("in", altIn)
      /\ held' = HeldAfter \ (CdcRead(alts) \cup PlaybackRead(alts))
      /\ inQueued' \in {inQueued} \cup BOOLEAN /\ inDone' = FALSE
      /\ UNCHANGED <<build, busReset>>
  <2>1. inQueued' \in {inQueued} \cup BOOLEAN
    <3> DEFINE queued == IF inQueued \/ ~CaptureOffered(alts) THEN {inQueued}
                         ELSE IF build \in CodecBuilds THEN BOOLEAN ELSE {TRUE}
    <3>1. inQueued' \in queued BY DEF OtgData
    <3>2. queued \subseteq {inQueued} \cup BOOLEAN OBVIOUS
    <3> QED BY <3>1, <3>2
  <2> QED BY <2>1 DEF OtgData
<1>2. InterruptReadsAll => CdcRead(alts) = {"cdc"} /\ (altOut' = 1 => PlaybackRead(alts) = {"audio"})
  BY DEF CdcRead, PlaybackRead, TuiBuilds, CodecBuilds
<1> HIDE DEF alts
<1>3. inQueued' \in BOOLEAN /\ inDone' \in BOOLEAN BY <1>1
<1>4. CASE ~HeadMoves
  <2>1. ~Setup /\ rx' = rx /\ HeldAfter = held BY <1>1, <1>4 DEF Setup, RxAfter, HeldAfter
  <2>2. host' = host /\ altOut' = altOut /\ altIn' = altIn BY <1>1, <2>1 DEF HostAfter, AltAfter
  <2>3. held' \subseteq held BY <1>1, <2>1
  <2>4. LinkOK' BY <1>1, <1>3, <2>1, <2>2, <2>3
  <2>5. Drained' BY <1>1, <2>3
  <2> QED BY <1>1, <2>1, <2>2, <2>4, <2>5 DEF Closing, Configuring
<1>5. CASE HeadMoves
  <2>1. rx # <<>> /\ rx' = Tail(rx) BY <1>1, <1>5 DEF HeadMoves, RxAfter
  <2>2. /\ rx' \in Seq(Packets) /\ Len(rx) \in Nat \ {0} /\ Len(rx') = Len(rx) - 1
        /\ \A i \in 1 .. Len(rx) - 1 : rx'[i] = rx[i + 1]
        /\ Head(rx) = rx[1] /\ Head(rx) \in Packets
    BY <1>s, <2>1, Departure
  <2>3. \A i \in 1 .. Len(rx') : i + 1 \in 1 .. Len(rx) /\ rx'[i] = rx[i + 1] /\ i + 1 # 1 BY <2>2
  <2>4. \A i \in 2 .. Len(rx) : i - 1 \in 1 .. Len(rx') /\ rx'[i - 1] = rx[i]
    <3> SUFFICES ASSUME NEW i \in 2 .. Len(rx) PROVE i - 1 \in 1 .. Len(rx') /\ rx'[i - 1] = rx[i]
      OBVIOUS
    <3>1. i - 1 \in 1 .. Len(rx) - 1 /\ i - 1 + 1 = i BY <2>2
    <3> QED BY <2>2, <3>1
  <2>5. 1 \in 1 .. Len(rx) /\ Len(rx') =< RxDepth BY <1>s, <2>2
  <2>6. CASE Head(rx) # "setup"
    <3>1. ~Setup /\ HeldAfter = held \cup {Head(rx)} /\ Head(rx) \in DataOut
      BY <1>5, <2>2, <2>6 DEF Setup, HeldAfter, Packets
    <3>2. host' = host /\ altOut' = altOut /\ altIn' = altIn BY <1>1, <3>1 DEF HostAfter, AltAfter
    <3>3. held' \subseteq DataOut BY <1>1, <3>1
    <3>4. LinkOK' BY <1>1, <1>3, <2>2, <3>2, <3>3
    <3>5. Room' BY <1>s, <2>5
    <3>6. SetupQueued'
      <4>1. CASE host.asked = None BY <1>1, <2>3, <3>2, <4>1
      <4>2. CASE host.asked # None
        <5>1. PICK i \in 1 .. Len(rx) : \A j \in 1 .. Len(rx) : rx[j] = "setup" <=> j = i
          BY <1>1, <4>2
        <5>2. i # 1 BY <2>2, <2>5, <2>6, <5>1
        <5>3. i - 1 \in 1 .. Len(rx') BY <2>4, <5>2
        <5>4. \A j \in 1 .. Len(rx') : rx'[j] = "setup" <=> j = i - 1 BY <2>3, <5>1
        <5> QED BY <1>1, <3>2, <4>2, <5>3, <5>4
      <4> QED BY <4>1, <4>2
    <3>7. AudioAhead'
      <4> SUFFICES ASSUME NEW i \in 1 .. Len(rx'), rx'[i] = "audio"
                   PROVE  host'.out = 1 /\ (Closing' => \E j \in i + 1 .. Len(rx') : rx'[j] = "setup")
        OBVIOUS
      <4>1. i + 1 \in 1 .. Len(rx) /\ rx[i + 1] = "audio" BY <2>3
      <4>2. host.out = 1 /\ (Closing => \E j \in i + 1 + 1 .. Len(rx) : rx[j] = "setup")
        BY <1>1, <4>1
      <4>3. Closing' = Closing BY <3>2 DEF Closing, Configuring
      <4>4. ASSUME Closing PROVE \E j \in i + 1 .. Len(rx') : rx'[j] = "setup"
        <5>1. PICK j \in i + 1 + 1 .. Len(rx) : rx[j] = "setup" BY <4>2, <4>4
        <5>2. j \in 2 .. Len(rx) /\ j - 1 \in i + 1 .. Len(rx') BY <2>2, <5>1
        <5> QED BY <2>4, <5>1, <5>2
      <4> QED BY <3>2, <4>2, <4>3, <4>4
    <3>8. Drained'
      <4> SUFFICES ASSUME InterruptReadsAll PROVE held' = {} BY <1>1
      <4>1. held = {} /\ held' = {Head(rx)} \ ({"cdc"} \cup PlaybackRead(alts)) BY <1>1, <1>2, <3>1
      <4>2. CASE Head(rx) = "cdc" BY <4>1, <4>2
      <4>3. CASE Head(rx) = "audio"
        <5>1. altOut' = 1 BY <1>1, <2>2, <2>5, <3>2, <4>3
        <5> QED BY <1>2, <4>1, <4>3, <5>1
      <4> QED BY <3>1, <4>2, <4>3 DEF DataOut
    <3>9. Forgotten' /\ AltsAgree' BY <1>1, <3>2
    <3> QED BY <3>4, <3>5, <3>6, <3>7, <3>8, <3>9
  <2>7. CASE Head(rx) = "setup"
    <3>1. Setup /\ HeldAfter = held BY <1>5, <2>7 DEF Setup, HeldAfter
    <3>2. /\ host.asked \in HostRequests
          /\ \A j \in 1 .. Len(rx) : rx[j] = "setup" => j = 1
      <4>1. rx[1] = "setup" BY <2>2, <2>7
      <4>2. host.asked # None BY <1>1, <2>5, <4>1
      <4> QED BY <1>1, <2>5, <4>1, <4>2 DEF HostStates
    <3>3. /\ host' \in HostStates /\ host'.asked = None
          /\ AltAfter("out", SettingOf("out")) = (IF "out" \in host'.left THEN 1 ELSE host'.out)
          /\ AltAfter("in", SettingOf("in")) = (IF "in" \in host'.left THEN 1 ELSE host'.in)
          /\ host.out = 1 /\ ~Closing => host'.out = 1
      BY <1>1, <3>1, <3>2, Answered
    <3>4. altOut' = SettingOf("out")' /\ altIn' = SettingOf("in")' BY <1>1, <3>3
    <3>5. LinkOK'
      <4>1. altOut' \in 0 .. 1 /\ altIn' \in 0 .. 1 BY <3>3, <3>4 DEF HostStates
      <4> QED BY <1>1, <1>3, <2>2, <3>1, <3>3, <4>1
    <3>6. Room' BY <1>s, <2>5
    <3>7. SetupQueued' BY <2>3, <3>2, <3>3
    <3>8. AudioAhead'
      <4> SUFFICES ASSUME NEW i \in 1 .. Len(rx'), rx'[i] = "audio"
                   PROVE  host'.out = 1 /\ ~Closing'
        OBVIOUS
      <4>1. i + 1 \in 1 .. Len(rx) /\ rx[i + 1] = "audio" BY <2>3
      <4>2. host.out = 1 /\ (Closing => \E j \in i + 1 + 1 .. Len(rx) : rx[j] = "setup")
        BY <1>1, <4>1
      <4>3. ~Closing
        <5> SUFFICES ASSUME NEW j \in i + 1 + 1 .. Len(rx), rx[j] = "setup" PROVE FALSE BY <4>2
        <5>1. j \in 1 .. Len(rx) /\ j # 1 BY <2>2
        <5> QED BY <3>2, <5>1
      <4>4. None \notin SetAlts /\ None \notin SetConfigs BY DEF None, SetAlts, SetConfigs
      <4> QED BY <3>3, <4>2, <4>3, <4>4 DEF Closing, Configuring
    <3>9. Drained' /\ Forgotten' BY <1>1, <3>1
    <3>10. AltsAgree' BY <3>4
    <3> QED BY <3>5, <3>6, <3>7, <3>8, <3>9, <3>10
  <2> QED BY <2>6, <2>7
<1> QED BY <1>4, <1>5

LEMMA UsbStepInv == UsbInv /\ [UsbNext]_usbVars => UsbInv'
<1> SUFFICES ASSUME UsbInv, [UsbNext]_usbVars PROVE UsbInv' OBVIOUS
<1> USE DEF LinkOK, Room, SetupQueued, AudioAhead, Drained, Forgotten, AltsAgree, SettingOf, UsbInv, InterruptReadsAll
<1>1. CASE Host BY <1>1, UsbHostStep
<1>2. CASE OtgData BY <1>2, PollStep
<1>3. CASE OtgReset
  <2>1. /\ busReset /\ rx' = <<>> /\ altOut' = 0 /\ altIn' = 0 /\ inQueued' = FALSE
        /\ inDone' = FALSE /\ busReset' = FALSE /\ UNCHANGED <<build, held, host>>
    BY <1>3 DEF OtgReset
  <2>2. rx' \in Seq(Packets) /\ Len(rx') = 0 BY <2>1
  <2>3. host = Unconfigured BY <2>1
  <2>4. host.asked = None /\ SettingOf("out")' = 0 /\ SettingOf("in")' = 0
    BY <2>1, <2>3 DEF Unconfigured
  <2>5. Room' BY <2>2, DepthAssumption
  <2>6. altOut' \in 0 .. 1 /\ altIn' \in 0 .. 1 BY <2>1
  <2>7. LinkOK' BY <2>1, <2>2, <2>6
  <2>8. SetupQueued' /\ AudioAhead' BY <2>1, <2>2, <2>4
  <2>9. Drained' /\ Forgotten' BY <2>1
  <2>10. AltsAgree' BY <2>1, <2>4
  <2> QED BY <2>5, <2>7, <2>8, <2>9, <2>10
<1>4. CASE TuiReadsCdc
  <2>1. /\ held' = held \ {"cdc"} /\ UNCHANGED <<build, rx, altOut, altIn, inQueued, inDone, busReset, host>>
    BY <1>4 DEF TuiReadsCdc
  <2> QED BY <2>1 DEF Closing, Configuring
<1>5. CASE UNCHANGED usbVars BY <1>5 DEF usbVars, Closing, Configuring
<1> QED BY <1>1, <1>2, <1>3, <1>4, <1>5 DEF UsbNext, OtgFs
-----------------------------------------------------------------------------
(* The buffers, flags and settings keep their types, the FIFO its bound, and  *)
(* one SETUP packet is in it exactly while the host waits for an answer.      *)
THEOREM UsbTypeCorrect == UsbSpec => []UsbTypeOK
<1>1. UsbInv => UsbTypeOK
  <2> SUFFICES ASSUME UsbInv PROVE UsbTypeOK OBVIOUS
  <2> DEFINE at == {i \in DOMAIN rx : rx[i] = "setup"}
  <2>1. rx \in Seq(Packets) /\ DOMAIN rx = 1 .. Len(rx)
    BY LenProperties DEF UsbInv, LinkOK
  <2>2. ASSUME ~busReset PROVE Cardinality(at) = IF host.asked = None THEN 0 ELSE 1
    <3>1. CASE host.asked = None
      <4>1. at = {} BY <2>1, <2>2, <3>1 DEF UsbInv, SetupQueued
      <4> QED BY <3>1, <4>1, FS_EmptySet
    <3>2. CASE host.asked # None
      <4>1. PICK i \in 1 .. Len(rx) : \A j \in 1 .. Len(rx) : rx[j] = "setup" <=> j = i
        BY <2>2, <3>2 DEF UsbInv, SetupQueued
      <4>2. at = {i} BY <2>1, <4>1
      <4> QED BY <3>2, <4>2, FS_Singleton
    <3> QED BY <3>1, <3>2
  <2> QED BY <2>1, <2>2 DEF UsbInv, LinkOK, HostStates, Room, UsbTypeOK
<1> QED BY <1>1, UsbInitInv, UsbStepInv, PTL DEF UsbSpec

(* Outside a reset in progress each alternate setting is the one the host     *)
(* last selected for that stream since the last bus reset, whatever requests  *)
(* are stalled or overtaken by one; a configuration the host sets changes     *)
(* neither setting, so a stream then open stays open in the device although   *)
(* the host believes it closed.                                               *)
THEOREM SettingsAgree == UsbSpec => []AltsAgree
<1>1. UsbInv => AltsAgree BY DEF UsbInv
<1> QED BY <1>1, UsbInitInv, UsbStepInv, PTL DEF UsbSpec

(* The interrupt of the plain codec build can always take the packet at the   *)
(* head of the receive FIFO: no endpoint waits behind another.                *)
THEOREM FifoNeverStuck == UsbSpec => []RxNeverBlocked
<1>1. UsbInv => RxNeverBlocked BY DEF UsbInv, Drained, RxNeverBlocked
<1> QED BY <1>1, UsbInitInv, UsbStepInv, PTL DEF UsbSpec
=============================================================================
