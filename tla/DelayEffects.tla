----------------------------- MODULE DelayEffects -----------------------------
(* The delay line of daisy-dsp, the effects that read it at a moving fractional *)
(* delay (chorus, flanger, time-domain pitch shifter, early reflections), and   *)
(* the feedback delay network of the reverb with its rings in one buffer.       *)
(* Delays are counted in quarters of a sample; lengths are scaled down.         *)
EXTENDS Samples, FiniteSets

CONSTANTS DlTicks,   \* bound: samples of a behaviour of an effect
          RvTicks    \* bound: samples of a behaviour of the reverb

VARIABLES dl,   \* an effect: which, its line, phase and feedback, and what it has heard
          rv    \* the reverb: rings, positions, and what was written to each line

-----------------------------------------------------------------------------
(* DelayLine                                                                  *)
LineLen == 8
LineNew == [buf |-> [i \in 0..LineLen - 1 |-> 0], write |-> 0]

\* a slip: the head wraps one cell early
WrittenShort(line, x) ==
  [buf |-> [line.buf EXCEPT ![line.write] = x], write |-> (line.write + 1) % (LineLen - 1)]
Written(line, x) ==
  [buf |-> [line.buf EXCEPT ![line.write] = x], write |-> (line.write + 1) % LineLen]
Clamp(x, lo, hi) == IF x < lo THEN lo ELSE IF x > hi THEN hi ELSE x
Read(line, delay) == line.buf[(line.write + LineLen - 1 - Clamp(delay, 0, LineLen - 1)) % LineLen]
ReadFrac(line, quarters) ==
  LET d == Clamp(quarters, 0, 4 * (LineLen - 1))
      a == Read(line, d \div 4)
      b == Read(line, (d \div 4) + 1)
  IN  (a + (b - a) * (d % 4) * Over(4)) % P

-----------------------------------------------------------------------------
(* The effects on it                                                          *)
Base == 12         \* quarters: the centre of the chorus and the flanger
Depth == 10
Feedback == Half
Reflections == {[delay |-> 6, l |-> 1, r |-> 2], [delay |-> 21, l |-> 2, r |-> 1], [delay |-> 40, l |-> 1, r |-> 3]}
PitchBase == 8     \* two samples
Window == 16       \* half of the line
PitchRatios == {2, 4, 6, 8}   \* quarters
Cycle == 16        \* phases of the crossfade and of the sweep

\* Lfo: a triangle over the cycle, -4..4; tick returns the value before the step.
Triangle(phase) == 4 - (IF phase >= 8 THEN phase - 8 ELSE 8 - phase)
SweepDelay(phase) == Clamp(Base + ((Depth * Triangle(phase)) \div 4), 4, Base + Depth)
SinPi(phase) == (-Root(2 * Cycle, phase)[2]) % P
\* The phase steps by (1 - ratio) / window.
PitchStepReversed(ratio) == ((ratio - 4) * Cycle) \div Window  \* a slip: the ramp falls
PitchStep(ratio) == ((4 - ratio) * Cycle) \div Window

DelayInit == dl = [kind |-> "none"]

EffectNew ==
  /\ dl.kind = "none"
  /\ \E kind \in {"early", "chorus", "flanger", "pitch"}, ratio \in PitchRatios :
       dl' = [kind |-> kind, ratio |-> ratio, line |-> LineNew, phase |-> 0, last |-> 0,
              n |-> 0, past |-> <<>>, heard |-> 0, delay |-> 0, resets |-> 0]

\* One sample: the n-th value of a ramp.
EffectTick ==
  /\ dl.kind # "none" /\ dl.n < DlTicks
  /\ LET x == IF dl.kind = "flanger" THEN dl.n + 1 + Feedback * dl.last ELSE dl.n + 1
         line == Written(dl.line, x % P)
         p2 == (dl.phase + Cycle \div 2) % Cycle
         delay == IF dl.kind = "pitch" THEN PitchBase + ((dl.phase * Window) \div Cycle) ELSE SweepDelay(dl.phase)
         wet == ReadFrac(line, delay)
         out == CASE dl.kind = "early" ->
                       LET heard == {<<t, ReadFrac(line, t.delay)>> : t \in Reflections}
                           Ear(G(_)) == LET s[h \in SUBSET heard] ==
                                              IF h = {} THEN 0
                                              ELSE LET one == CHOOSE z \in h : TRUE
                                                   IN  (G(one[1]) * one[2] + s[h \ {one}]) % P
                                        IN  s[heard]
                       IN  <<Ear(LAMBDA t : t.l), Ear(LAMBDA t : t.r)>>
                  [] dl.kind = "pitch" ->
                       (SinPi(dl.phase) * wet
                        + SinPi(p2) * ReadFrac(line, PitchBase + ((p2 * Window) \div Cycle))) % P
                  [] OTHER -> (Half * (dl.n + 1) + Half * wet) % P
     IN  dl' = [dl EXCEPT !.line = line, !.n = @ + 1, !.last = wet, !.heard = out, !.delay = delay,
                          !.past = Append(@, x % P),
                          !.phase = (@ + (IF dl.kind = "pitch" THEN PitchStep(dl.ratio) ELSE 3)) % Cycle]

EffectReset ==
  /\ dl.kind # "none" /\ dl.n \in {5, 11} /\ dl.resets = 0
  /\ dl' = [dl EXCEPT !.line = LineNew, !.phase = 0, !.last = 0, !.n = 0, !.past = <<>>, !.resets = 1]

DelayNext == EffectNew \/ EffectTick \/ EffectReset

-----------------------------------------------------------------------------
(* The reverb                                                                 *)
Lines == 0..7
LineDelay == [i \in Lines |-> <<3, 4, 5, 6, 7, 8, 9, 10>>[i + 1]]
Diffusers == 0..3
DiffDelay == [k \in Diffusers |-> <<1, 2, 3, 4>>[k + 1]]
DiffG == 7
Total(f(_), n) == LET s[i \in 0..n] == IF i = 0 THEN 0 ELSE s[i - 1] + f(i - 1) IN s[n]
Start(i) == Total(LAMBDA j : LineDelay[j], i)
DiffStart(k) == Start(8) + Total(LAMBDA j : DiffDelay[j], k)
RequiredBuf == DiffStart(4)

\* Schroeder's all-pass, one after the other.
Diffused(r, x) ==
  LET Cell(k) == DiffStart(k) + r.diffPos[k]
      chain[k \in 0..4] ==
        IF k = 0 THEN [buf |-> r.buf, x |-> x]
        ELSE LET old == r.buf[Cell(k - 1)]
                 v == (chain[k - 1].x + DiffG * old) % P
             IN  [buf |-> [chain[k - 1].buf EXCEPT ![Cell(k - 1)] = v], x |-> (old - DiffG * v) % P]
  IN  chain[4]

\* The read position wobbles ahead of the write position by up to two samples.
Wobble(r, i) == IF r.wobble THEN (i + r.n) % 9 ELSE 0   \* quarters
\* a slip: the second tap of the interpolation runs over the end of the segment
TapsUnwrapped(r, i) ==
  LET i0 == (r.pos[i] + Wobble(r, i) \div 4) % LineDelay[i]
  IN  <<Start(i) + i0, Start(i) + i0 + 1>>
Taps(r, i) ==
  LET i0 == (r.pos[i] + Wobble(r, i) \div 4) % LineDelay[i]
  IN  <<Start(i) + i0, Start(i) + (IF i0 + 1 >= LineDelay[i] THEN 0 ELSE i0 + 1)>>
LineOut(r, i) ==
  LET t == Taps(r, i)
  IN  (r.buf[t[1]] + (r.buf[t[2]] - r.buf[t[1]]) * (Wobble(r, i) % 4) * Over(4)) % P

\* Householder: v = t - (2 / N) sum t.
\* a slip: the reflection is scaled for an orthogonal projection
HouseholderHalf(t) == Over(8) * Sum(LAMBDA i : t[i], 8)
Householder(t) == Over(4) * Sum(LAMBDA i : t[i], 8)

Advanced(pos, len) == [i \in DOMAIN pos |-> (pos[i] + 1) % len[i]]

ReverbInit == rv = [n |-> 0]

ReverbNew ==
  /\ rv.n = 0
  /\ \E wobble \in BOOLEAN :
       rv' = [n |-> 1, wobble |-> wobble, buf |-> [c \in 0..RequiredBuf - 1 |-> 0],
              pos |-> [i \in Lines |-> 0], diffPos |-> [k \in Diffusers |-> 0],
              past |-> [i \in Lines |-> [age \in 1..LineDelay[i] |-> 0]], in |-> 0, heard |-> <<0, 0>>]

\* One sample through diffusers, rings and feedback; lossless decay and damping.
ReverbTick(x) ==
  LET diff == Diffused(rv, x)
      s == [i \in Lines |-> LineOut(rv, i)]
      h == Householder(s)
      new == [i \in Lines |-> (diff.x + s[i] - h) % P]
      Line(c) == CHOOSE i \in Lines : c = Start(i) + rv.pos[i]
      cells == {Start(i) + rv.pos[i] : i \in Lines}
  IN  rv' = [rv EXCEPT !.n = @ + 1, !.in = x,
               !.buf = [c \in DOMAIN @ |-> IF c \in cells THEN new[Line(c)] ELSE diff.buf[c]],
               !.pos = Advanced(@, LineDelay), !.diffPos = Advanced(@, DiffDelay),
               !.past = [i \in Lines |->
                           [age \in 1..LineDelay[i] |-> IF age = 1 THEN new[i] ELSE @[i][age - 1]]],
               !.heard = <<Sum(LAMBDA i : IF i < 4 THEN s[i] ELSE P - s[i], 8),
                           Sum(LAMBDA i : IF i \in {0, 2, 5, 7} THEN s[i] ELSE P - s[i], 8)>>]

ReverbStep ==
  /\ rv.n \in 1..RvTicks
  /\ \E x \in {0, 1} : (rv.n > 2 => x = 0) /\ ReverbTick(x)

ReverbReset ==
  /\ rv.n = 9
  /\ rv' = [rv EXCEPT !.buf = [c \in DOMAIN @ |-> 0], !.pos = [i \in Lines |-> 0],
              !.diffPos = [k \in Diffusers |-> 0], !.n = @ + 1, !.in = 0,
              !.past = [i \in Lines |-> [age \in 1..LineDelay[i] |-> 0]]]

ReverbNext == ReverbNew \/ ReverbStep \/ ReverbReset

-----------------------------------------------------------------------------
DelayTypeOK ==
  /\ dl.kind # "none" => dl.line.write \in 0..LineLen - 1 /\ dl.phase \in 0..Cycle - 1
  /\ rv.n > 0 => \A i \in Lines : rv.pos[i] \in 0..LineDelay[i] - 1

\* The ramp as it was, a number of quarters ago: nothing before the start, and no
\* older than the line is long.
RampBack(quarters) ==
  LET at == 4 * dl.n - Clamp(quarters, 0, 4 * (LineLen - 1)) IN IF at > 0 THEN (at * Over(4)) % P ELSE 0

\* At every fractional delay, through the wrap of the ring and after a reset, each
\* effect hears the input as it was that long ago; the flanger its own feedback.
DelayedExactly ==
  dl.kind # "none" /\ dl.n > 0 =>
    CASE dl.kind = "early" ->
           LET Ears(G(_)) == LET d == {<<t, RampBack(t.delay)>> : t \in Reflections}
                                 s[h \in SUBSET d] == IF h = {} THEN 0
                                                      ELSE LET one == CHOOSE z \in h : TRUE
                                                           IN  G(one[1]) * one[2] + s[h \ {one}]
                             IN  s[d] % P
           IN  dl.heard = <<Ears(LAMBDA t : t.l), Ears(LAMBDA t : t.r)>>
      [] dl.kind \in {"chorus", "pitch"} -> dl.last = RampBack(dl.delay)
      [] OTHER -> \A d \in 0..LineLen - 1 :
                    Read(dl.line, d) = IF d < Len(dl.past) THEN dl.past[Len(dl.past) - d] ELSE 0

\* The pitch shifter reads ratio samples further for every sample written, except
\* where its tap jumps, which is within a step of the phase where it is silent.
PitchRatio ==
  [][dl.kind = "pitch" /\ dl.n > 2 * LineLen /\ dl'.n > dl.n
       => IF dl'.delay - dl.delay = PitchStep(dl.ratio)
          THEN (4 * (dl'.last - dl.last) - dl.ratio) % P = 0
          ELSE dl.phase < PitchStep(dl.ratio) \/ dl.phase >= Cycle + PitchStep(dl.ratio)]_dl

\* The cells of each line are its own last writes, in order: no other line and no
\* diffuser reaches into it, and a moving tap reads between its neighbours in time.
LinesKeepApart ==
  rv.n > 0 =>
    \A i \in Lines :
      /\ \A k \in 0..LineDelay[i] - 1 :
           rv.buf[Start(i) + ((rv.pos[i] + k) % LineDelay[i])] = rv.past[i][LineDelay[i] - k]
      /\ LET w == Wobble(rv, i)
             Aged(a) == rv.past[i][IF a > 0 THEN a ELSE LineDelay[i]]
             a == Aged(LineDelay[i] - (w \div 4))
             b == Aged(LineDelay[i] - (w \div 4) - 1)
         IN  LineOut(rv, i) = (a + (b - a) * (w % 4) * Over(4)) % P

\* What the rings and, less g^2 of it, the diffusers hold.
Energy(r) ==
  (Total(LAMBDA c : (r.buf[c] * r.buf[c]) % P, Start(8))
   + (1 - DiffG * DiffG) * Total(LAMBDA c : (r.buf[Start(8) + c] * r.buf[Start(8) + c]) % P, RequiredBuf - Start(8))) % P

\* With unit gains and still taps the feedback neither adds nor loses energy: the
\* balance of a sample is what comes in through the diffusers alone.
ReverbConserves ==
  [][rv.n > 0 /\ rv'.n > rv.n /\ ~rv.wobble /\ ~(rv.n = 9 /\ rv'.pos = [i \in Lines |-> 0])
       => LET xd == Diffused(rv, rv'.in).x
              outs == Sum(LAMBDA i : LineOut(rv, i), 8)
          IN  (Energy(rv') - Energy(rv)
               - (rv'.in * rv'.in - xd * xd - 2 * xd * outs + 8 * xd * xd)) % P = 0]_rv

DelaySpec == DelayInit /\ [][DelayNext]_dl
ReverbSpec == ReverbInit /\ [][ReverbNext]_rv
=============================================================================
