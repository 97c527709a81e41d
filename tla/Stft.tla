--------------------------------- MODULE Stft ---------------------------------
(* The streaming short-time transform: a frame of StftLen samples that slides   *)
(* by a quarter of its length, windowed, transformed, rewritten, transformed    *)
(* back and overlapped; the spectral freeze that captures one spectrum and      *)
(* turns its bins from hop to hop; and the phase arithmetic of the pitch        *)
(* shifter. Transforms are their definitions, which module Fft justifies.       *)
EXTENDS Samples, Sequences

CONSTANTS StftLen,   \* samples of a frame, a power of two
          StftHops   \* bound: hops of a behaviour

VARIABLES stIn,      \* inbuf, the last StftLen samples
          stOla,     \* the overlap-add accumulator
          stOut,     \* what the last hop returned
          stFreeze,  \* frozen, captured, the bins, and how many hops ago they were captured
          stLog,     \* every input sample, and for each hop whether its spectrum was rewritten
          pv         \* the pitch shifter's phases, for one partial

stVars == <<stIn, stOla, stOut, stFreeze, stLog>>

FreezeMoves == 3   \* bound: changes of the freeze switch

Hop == StftLen \div 4
StFrame == 0..StftLen - 1
StBins == 0..StftLen \div 2

\* The periodic Hann window and the gain its square adds up to at this hop.
HannAt(i) == (Half * (1 - Root(StftLen, i)[1])) % P
Hann == [i \in StFrame |-> HannAt(i)]
\* a slip: the constant of the window itself, not of its square
NormOfWindow == Sum(LAMBDA r : Hann[r * Hop], 4)
Norm == Sum(LAMBDA r : Hann[r * Hop] * Hann[r * Hop], 4)
InvNorm == CHOOSE s \in Sample : (s * Norm) % P = 1

StftInit ==
  /\ stIn = [i \in StFrame |-> 0]
  /\ stOla = [i \in StFrame |-> 0]
  /\ stOut = [i \in 0..Hop - 1 |-> 0]
  /\ stFreeze = [frozen |-> FALSE, captured |-> FALSE, bins |-> <<>>, frame |-> <<>>, age |-> 0]
  /\ stLog = [input |-> [i \in StFrame |-> 0], hops |-> 0, plain |-> 0, quiet |-> TRUE, moves |-> 0]

\* Slide by a hop and append: the same move for the input and the accumulator.
Slid(x, new) == [i \in StFrame |-> IF i < StftLen - Hop THEN x[i + Hop] ELSE new[i - (StftLen - Hop)]]

\* set_frozen: only disarming forgets the captured spectrum.
SetFrozen(on) ==
  /\ stLog.hops \in 1..StftHops - 1 /\ stLog.moves < FreezeMoves
  /\ on # stFreeze.frozen
  /\ stLog' = [stLog EXCEPT !.moves = @ + 1]
  /\ stFreeze' = [stFreeze EXCEPT !.frozen = on, !.captured = IF on THEN @ ELSE FALSE]
  /\ UNCHANGED <<stIn, stOla, stOut>>

\* One hop of natural phase advance for bin k.
TurnedBy(bins, hops) == [k \in StBins |-> CMul(bins[k], Conj(Root(StftLen, k * hops * Hop)))]
\* a slip: the captured phases are played back without the advance
HeldBins(f) == f.bins
TurnedBins(f) == TurnedBy(f.bins, 1)

\* SpectralFreeze::process_hop on Stft::process_hop.
ProcessHop(in) ==
  LET inbuf == Slid(stIn, in)
      windowed == [i \in StFrame |-> (inbuf[i] * Hann[i]) % P]
      bins == RealForward(windowed, StftLen)
      held == stFreeze.frozen /\ stFreeze.captured
      out == IF held THEN TurnedBins(stFreeze) ELSE bins
      frame == RealInverse(out, StftLen)
      ola == Slid(stOla, [i \in 0..Hop - 1 |-> 0])
  IN  /\ stIn' = inbuf
      /\ stOla' = [i \in StFrame |-> (ola[i] + frame[i] * Hann[i] * InvNorm) % P]
      /\ stOut' = [i \in 0..Hop - 1 |-> stOla'[i]]
      /\ stFreeze' =
           IF ~stFreeze.frozen THEN stFreeze
           ELSE IF held THEN [stFreeze EXCEPT !.bins = out, !.age = @ + 1]
           ELSE [stFreeze EXCEPT !.captured = TRUE, !.bins = bins, !.frame = windowed, !.age = 0]
      /\ stLog' = [stLog EXCEPT !.input = Slid(@, in), !.hops = @ + 1,
                                !.plain = IF held THEN 0 ELSE @ + 1,
                                !.quiet = @ /\ \A i \in DOMAIN in : in[i] = 0]

\* The input is an impulse in any place of the first frame: both the filter and
\* the freeze are linear in what they capture.
StftHop ==
  /\ stLog.hops < StftHops
  /\ \E in \in [0..Hop - 1 -> {0, 1}] :
       /\ \A i, j \in DOMAIN in : in[i] = 1 /\ in[j] = 1 => i = j
       /\ (\E i \in DOMAIN in : in[i] = 1) => stLog.quiet /\ stLog.hops < 2
       /\ ProcessHop(in)

-----------------------------------------------------------------------------
(* Phases in 32nds of a turn. A partial near bin k advances by 8k + drift per   *)
(* hop in every bin of its main lobe.                                           *)
Turn == 32
Drifts == {-6, -2, 0, 4, 6}
Ratios == {<<1, 2>>, <<1, 1>>, <<2, 1>>}   \* numerator, denominator

\* a slip: the deviation is left in [0, turn)
UnwrappedPhase(x) == x % Turn
WrapPhase(x) ==   \* roundf takes a half turn away from zero
  LET turns == IF x >= 0 THEN (2 * x + Turn) \div (2 * Turn) ELSE -((Turn - 2 * x) \div (2 * Turn))
  IN  x - Turn * turns

Expected(k) == (k * Hop * Turn) \div StftLen
Remap(k, ratio) == (2 * k * ratio[1] + ratio[2]) \div (2 * ratio[2])   \* roundf

PitchInit == pv = [hops |-> 0]

PitchStart ==
  /\ pv.hops = 0
  /\ \E k \in StBins \ {0}, drift \in Drifts, ratio \in Ratios, start \in {0, 12} :
       /\ Remap(k, ratio) \in StBins
       /\ pv' = [hops |-> 1, k |-> k, drift |-> drift, ratio |-> ratio,
                 prev |-> [b \in StBins |-> 0], sum |-> [j \in StBins |-> 0],
                 phase |-> [b \in StBins |-> (start + (b * Turn) \div 2) % Turn],
                 heard |-> <<>>]

\* One hop: the true advance of every bin, the bins moved to ratio * k (the last
\* one to arrive decides the frequency), the phases accumulated there.
PitchHop ==
  /\ pv.hops \in 1..4
  /\ LET advance == [b \in StBins |-> Expected(b) + WrapPhase(pv.phase[b] - pv.prev[b] - Expected(b))]
         Sources(j) == {b \in StBins : Remap(b, pv.ratio) = j}
         Last(j) == CHOOSE b \in Sources(j) : \A c \in Sources(j) : c <= b
         step == [j \in StBins |->
                    IF Sources(j) = {} THEN 0 ELSE (advance[Last(j)] * pv.ratio[1]) \div pv.ratio[2]]
         j == Remap(pv.k, pv.ratio)
     IN  pv' = [pv EXCEPT !.hops = @ + 1, !.prev = pv.phase,
                          !.sum = [i \in StBins |-> (@[i] + step[i]) % Turn],
                          !.phase = [b \in StBins |-> (@[b] + Expected(pv.k) + pv.drift) % Turn],
                          !.heard = Append(@, (pv.sum[j] + step[j]) % Turn)]

StftNext == StftHop \/ (\E on \in BOOLEAN : SetFrozen(on))
PitchNext == PitchStart \/ PitchHop

-----------------------------------------------------------------------------
StftTypeOK ==
  /\ stIn \in [StFrame -> Sample] /\ stOla \in [StFrame -> Sample]
  /\ stFreeze.captured => stFreeze.frozen /\ DOMAIN stFreeze.bins = StBins

\* With no frozen hop in the overlap the output is the input, latency() samples late.
Reconstructs ==
  stLog.plain >= 4 => \A i \in 0..Hop - 1 : stOut[i] = stLog.input[i]

\* Once every overlapped frame comes from the captured spectrum the output is the
\* captured frame, repeated without a seam, whatever has been fed in since.
FrozenToneSeamless ==
  stFreeze.captured /\ stFreeze.age >= 3 =>
    \A i \in 0..Hop - 1 :
      (3 * stOut[i]) % P = (4 * stFreeze.frame[(i + stFreeze.age * Hop) % StftLen]) % P

\* The shifted partial advances by ratio times the true advance from hop to hop,
\* however far it lies from the centre of its bin.
PitchTracked ==
  pv.hops > 0 =>
    \A m \in DOMAIN pv.heard \ {1} :
      (pv.ratio[2] * (pv.heard[m] - pv.heard[m - 1]) - pv.ratio[1] * (Expected(pv.k) + pv.drift))
        % (pv.ratio[2] * Turn) = 0

StftSpec == StftInit /\ [][StftNext]_stVars
PitchSpec == PitchInit /\ [][PitchNext]_pv
=============================================================================
