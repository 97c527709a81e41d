------------------------------ MODULE Spatializer ------------------------------
(* The binaural render: two sources, each through a voice that reblocks the     *)
(* codec's chunks to the convolver's blocks, convolves with the impulse         *)
(* response of each ear and reblocks back, and one early reflection of the      *)
(* shared room. Chunk, block and queues are the code's 48, 64, 128 and 256 over *)
(* 16; an impulse response spans three partitions, as the 140 taps do.          *)
EXTENDS Samples, Sequences, FiniteSets

CONSTANTS SpTaps,       \* places of the first ear's impulse response
          SpCallbacks   \* bound: audio callbacks of a behaviour

VARIABLES spVoice,   \* per source: the reblocking queues and a convolver per ear
          spRoom,    \* the early reflections' delay buffer and its write position
          spHeard,   \* what the codec got, sample by sample and ear by ear
          spFed      \* the impulse responses, what was fed in, and samples a queue refused

spVars == <<spVoice, spRoom, spHeard, spFed>>

Frames == 3
BlockLen == 4
FftLen == 2 * BlockLen
IrLen == 9
Parts == (IrLen + BlockLen - 1) \div BlockLen
InCap == 8
OutCap == 16
FirstReflection == 24   \* 8 ms
RoomBuf == 32
Ears == {"l", "r"}
Sources == 1..2

\* SampleFifo: a buffer, the next index to read, and how many are there.
FifoNew(cap) == [buf |-> [i \in 0..cap - 1 |-> 0], head |-> 0, len |-> 0]
FifoCap(f) == Cardinality(DOMAIN f.buf)
Accepted(f, xs) == IF Len(xs) <= FifoCap(f) - f.len THEN Len(xs) ELSE FifoCap(f) - f.len
\* a slip: the tail is the count of samples, not that many past the head
ExtendFromZero(f, xs) ==
  [f EXCEPT !.len = @ + Accepted(f, xs),
            !.buf = [i \in DOMAIN @ |-> IF i - f.len \in 0..Accepted(f, xs) - 1 THEN xs[i - f.len + 1] ELSE @[i]]]
Extend(f, xs) ==
  LET at(i) == (i - f.head - f.len) % FifoCap(f)
  IN  [f EXCEPT !.len = @ + Accepted(f, xs),
                !.buf = [i \in DOMAIN @ |-> IF at(i) < Accepted(f, xs) THEN xs[at(i) + 1] ELSE @[i]]]
Front(f, n) == [i \in 1..n |-> f.buf[(f.head + i - 1) % FifoCap(f)]]
\* a slip: the read index runs on past the end
PoppedOnward(f, n) == [f EXCEPT !.head = @ + n, !.len = @ - n]
Popped(f, n) == [f EXCEPT !.head = (@ + n) % FifoCap(f), !.len = @ - n]

\* Convolver::new: each partition zero-padded to twice its length and transformed.
ConvNew(ir) ==
  [head |-> 0,
   ir |-> [p \in 0..Parts - 1 |->
             RealForward([i \in 0..FftLen - 1 |->
                            IF i < BlockLen /\ p * BlockLen + i < IrLen THEN ir[p * BlockLen + i] ELSE 0], FftLen)],
   past |-> [p \in 0..Parts - 1 |-> [k \in 0..BlockLen |-> Zero]],
   win |-> [i \in 0..FftLen - 1 |-> 0]]

\* a slip: the ring of past spectra is read in the direction it is written
PastSlotForward(head, p) == (head + p) % Parts
PastSlot(head, p) == ((head + Parts) - p) % Parts

\* process_block: overlap-save on the window, the sum over partitions, the second half.
Convolve(c, block) ==
  LET win == [i \in 0..FftLen - 1 |-> IF i < BlockLen THEN c.win[i + BlockLen] ELSE block[i - BlockLen + 1]]
      past == [c.past EXCEPT ![c.head] = RealForward(win, FftLen)]
      acc == Table(LAMBDA k :
               CSum(LAMBDA p : CMul(past[PastSlot(c.head, p)][k], c.ir[p][k]), Parts), BlockLen + 1)
      out == RealInverse(acc, FftLen)
  IN  [conv |-> [c EXCEPT !.win = win, !.past = past, !.head = (@ + 1) % Parts],
       out |-> <<>> \o [i \in 1..BlockLen |-> out[BlockLen + i - 1]]]

Silence == [f \in 1..Frames |-> 0]

\* Voice::process: the block loop (a second turn would need a chunk of a whole
\* block, so it runs at most once), then a chunk out if one is there.
VoiceProcess(v, mono) ==
  LET in == Extend(v.in, mono)
      ready == in.len >= BlockLen
      step == [e \in Ears |-> Convolve(v.conv[e], Front(in, BlockLen))]
      out == [e \in Ears |-> IF ready THEN Extend(v.out[e], step[e].out) ELSE v.out[e]]
      primed == out["l"].len >= Frames
  IN  [voice |-> [in |-> IF ready THEN Popped(in, BlockLen) ELSE in,
                  conv |-> [e \in Ears |-> IF ready THEN step[e].conv ELSE v.conv[e]],
                  out |-> [e \in Ears |-> IF primed THEN Popped(out[e], Frames) ELSE out[e]]],
       heard |-> [e \in Ears |-> IF primed THEN Front(out[e], Frames) ELSE Silence],
       refused |-> Accepted(v.in, mono) < Frames
                   \/ (ready /\ \E e \in Ears : Accepted(v.out[e], step[e].out) < BlockLen)]

SpInit == spVoice = <<>> /\ spRoom = <<>> /\ spHeard = <<>> /\ spFed = <<>>

\* init_dsp: four responses, an impulse each, at different taps and of different gains.
Response(tap, gain) == [i \in 0..IrLen - 1 |-> IF i = tap % IrLen THEN gain ELSE 0]
InitDsp ==
  /\ spFed = <<>>
  /\ \E a \in SpTaps :
       spFed' = [ir |-> <<[l |-> Response(a, 1), r |-> Response(a + 4, 2)],
                          [l |-> Response(a + 2, 3), r |-> Response(a + 7, 4)]>>,
                 input |-> <<>>, refused |-> FALSE, quiet |-> TRUE]
  /\ spVoice' = [s \in Sources |->
                   [in |-> FifoNew(InCap), out |-> [e \in Ears |-> FifoNew(OutCap)],
                    conv |-> [e \in Ears |-> ConvNew(spFed'.ir[s][e])]]]
  /\ spRoom' = [buf |-> [i \in 0..RoomBuf - 1 |-> 0], pos |-> 0]
  /\ UNCHANGED spHeard

\* The room's send, one reflection of it: write, then read FirstReflection back.
RoomWritten(x) ==
  [buf |-> [i \in DOMAIN spRoom.buf |->
              IF (i - spRoom.pos) % RoomBuf < Frames THEN x[((i - spRoom.pos) % RoomBuf) + 1] ELSE spRoom.buf[i]],
   pos |-> (spRoom.pos + Frames) % RoomBuf]
Reflection(f) == RoomWritten(Silence).buf[(spRoom.pos + f - 1 - FirstReflection) % RoomBuf]

\* The audio callback: both voices, the shared room, the mix.
Spatialize(input) ==
  LET done == [s \in Sources |-> VoiceProcess(spVoice[s], [f \in 1..Frames |-> input[f][s]])]
      send == [f \in 1..Frames |-> (Half * (input[f][1] + input[f][2])) % P]
  IN  /\ spVoice' = [s \in Sources |-> done[s].voice]
      /\ spRoom' = RoomWritten(send)
      /\ spHeard' = spHeard \o
           [f \in 1..Frames |->
              [e \in Ears |-> (done[1].heard[e][f] + done[2].heard[e][f] + Reflection(f)) % P]]
      /\ spFed' = [spFed EXCEPT !.input = @ \o input,
                                !.refused = @ \/ \E s \in Sources : done[s].refused,
                                !.quiet = @ /\ \A f \in 1..Frames : input[f] = <<0, 0>>]

\* One impulse, in either source, at any place of the 12 samples after which
\* chunks and blocks line up again; then the tail.
Chunks == {[f \in 1..Frames |-> IF f = at THEN x ELSE <<0, 0>>] : at \in 1..Frames, x \in {<<0, 0>>, <<1, 0>>, <<0, 1>>}}
SpCallback ==
  /\ spFed # <<>> /\ Len(spHeard) < Frames * SpCallbacks
  /\ \E input \in Chunks :
       /\ (\E f \in 1..Frames : input[f] # <<0, 0>>) => spFed.quiet /\ Len(spHeard) < 12
       /\ Len(spHeard) >= 9 /\ spFed.quiet => \E f \in 1..Frames : input[f] # <<0, 0>>
       /\ Spatialize(input)

SpNext == InitDsp \/ SpCallback

-----------------------------------------------------------------------------
SpTypeOK ==
  spFed # <<>> =>
    \A s \in Sources :
      /\ spVoice[s].in.len \in 0..BlockLen - 1 /\ spVoice[s].in.head \in 0..InCap - 1
      /\ \A e \in Ears : spVoice[s].out[e].len \in 0..OutCap /\ spVoice[s].conv[e].head \in 0..Parts - 1

Fed(s, t) == IF t \in 1..Len(spFed.input) THEN spFed.input[t][s] ELSE 0
Direct(e, t) ==
  Sum(LAMBDA i : spFed.ir[1][e][i] * Fed(1, t - i) + spFed.ir[2][e][i] * Fed(2, t - i), IrLen)

\* Every ear hears the direct convolution of both sources, one chunk late from
\* the first callback on, and the reflection of their mean; no queue, whose
\* refusals the code ignores, has ever refused a sample.
SpatialExact ==
  spFed # <<>> =>
    /\ ~spFed.refused
    /\ \A t \in DOMAIN spHeard, e \in Ears :
         t > Len(spHeard) - Frames =>
           spHeard[t][e] =
             (Direct(e, t - Frames)
              + Half * (Fed(1, t - FirstReflection) + Fed(2, t - FirstReflection))) % P

SpSpec == SpInit /\ [][SpNext]_spVars
=============================================================================
