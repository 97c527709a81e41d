------------------------------- MODULE Filters -------------------------------
(* The recursive filters of daisy-dsp: a one-pole, an RBJ biquad run as        *)
(* Transposed Direct Form II, and the zero-delay state-variable filter. The    *)
(* state they keep is not the history a filter is defined by; the properties   *)
(* hold the outputs against that history, across resets, in the field of       *)
(* Samples.                                                                    *)
EXTENDS Samples

CONSTANTS FlInputs,    \* sample values fed to a filter
          FlLength     \* bound: samples since construction or reset

ASSUME FiltersAssumption == FlInputs \subseteq Sample /\ FlLength \in Nat \ {0}

VARIABLE fl  \* the filter under test: coefficients, state, and what it was fed

Rest == <<0, 0>>

\* --- coefficients, as the constructors compute them ---------------------------
OnePoleNew(a, high) == [kind |-> "onepole", pole |-> a, feed |-> (1 - a) % P, high |-> high]

\* cw, alpha and a stand for cos(w0), sin(w0)/2q and the peaking amplitude.
Cookbook(shape, cw, alpha, a) ==
  CASE shape = "Lowpass" ->
         [b |-> <<(1 - cw) * Half, 1 - cw, (1 - cw) * Half>>,
          a |-> <<1 + alpha, -2 * cw, 1 - alpha>>]
    [] shape = "Highpass" ->
         [b |-> <<(1 + cw) * Half, -(1 + cw), (1 + cw) * Half>>,
          a |-> <<1 + alpha, -2 * cw, 1 - alpha>>]
    [] shape = "Bandpass" ->
         [b |-> <<alpha, 0, -alpha>>, a |-> <<1 + alpha, -2 * cw, 1 - alpha>>]
    [] shape = "Peaking" ->
         [b |-> <<1 + alpha * a, -2 * cw, 1 - alpha * a>>,
          a |-> <<1 + alpha * Over(a), -2 * cw, 1 - alpha * Over(a)>>]

BiquadNew(shape, cw, alpha, a) ==
  LET r == Cookbook(shape, cw, alpha, a)
      inv == Over(r.a[1] % P)
      Normal(v) == (v * inv) % P
  IN  [kind |-> "biquad", shape |-> shape,
       b |-> <<Normal(r.b[1]), Normal(r.b[2]), Normal(r.b[3])>>,
       a |-> <<Normal(r.a[2]), Normal(r.a[3])>>]

\* g is the prewarped integrator gain, k the damping 1/Q.
SvfNew(g, k) ==
  LET a1 == Over((1 + g * (g + k)) % P)
      a2 == (g * a1) % P
  IN  [kind |-> "svf", g |-> g, k |-> k, a1 |-> a1, a2 |-> a2, a3 |-> (g * a2) % P]

Coefficients ==
  {OnePoleNew(a, high) : a \in {3}, high \in BOOLEAN}
    \cup {BiquadNew(shape, 5, 2, 3) : shape \in {"Lowpass", "Highpass", "Bandpass", "Peaking"}}
    \cup {SvfNew(4, k) : k \in {1, 2}}

\* --- one sample: the new state and the outputs ---------------------------------
OnePoleTick(c, z, x) ==
  LET low == (c.feed * x + c.pole * z[1]) % P
  IN  [z |-> <<low, 0>>, y |-> <<IF c.high THEN (x - low) % P ELSE low>>]

\* a slip: the second delay is advanced first, and the first one reads it
BiquadTickReordered(c, z, x) ==
  LET y == (c.b[1] * x + z[1]) % P
      z2 == (c.b[3] * x - c.a[2] * y) % P
  IN  [z |-> <<(c.b[2] * x - c.a[1] * y + z2) % P, z2>>, y |-> <<y>>]
BiquadTick(c, z, x) ==
  LET y == (c.b[1] * x + z[1]) % P
  IN  [z |-> <<(c.b[2] * x - c.a[1] * y + z[2]) % P, (c.b[3] * x - c.a[2] * y) % P>>,
       y |-> <<y>>]

\* a slip: the second integrator is fed the first one's already advanced state
SvfTickAdvanced(c, z, x) ==
  LET v3 == (x - z[2]) % P
      v1 == (c.a1 * z[1] + c.a2 * v3) % P
      ic1eq == (2 * v1 - z[1]) % P
      v2 == (z[2] + c.a2 * ic1eq + c.a3 * v3) % P
      hp == (x - c.k * v1 - v2) % P
  IN  [z |-> <<ic1eq, (2 * v2 - z[2]) % P>>, y |-> <<v2, v1, hp, (v2 + hp) % P>>]
SvfTick(c, z, x) ==
  LET v3 == (x - z[2]) % P
      v1 == (c.a1 * z[1] + c.a2 * v3) % P
      v2 == (z[2] + c.a2 * z[1] + c.a3 * v3) % P
      hp == (x - c.k * v1 - v2) % P
  IN  [z |-> <<(2 * v1 - z[1]) % P, (2 * v2 - z[2]) % P>>,
       y |-> <<v2, v1, hp, (v2 + hp) % P>>]

Tick(c, z, x) ==
  CASE c.kind = "onepole" -> OnePoleTick(c, z, x)
    [] c.kind = "biquad" -> BiquadTick(c, z, x)
    [] c.kind = "svf" -> SvfTick(c, z, x)

FilterFed(f, x) ==
  LET t == Tick(f.c, f.z, x)
  IN  [f EXCEPT !.z = t.z, !.xs = Append(@, x), !.ys = Append(@, t.y)]

Built(c) == [c |-> c, z |-> Rest, xs |-> <<>>, ys |-> <<>>]

FiltersInit == fl = Built(OnePoleNew(3, FALSE))

FilterNew == \E c \in Coefficients : fl' = Built(c)

FilterTick ==
  /\ Len(fl.xs) < FlLength
  /\ \E x \in FlInputs : fl' = FilterFed(fl, x)

\* process: a block in place, each output written over the input just read.
FilterProcess ==
  /\ Len(fl.xs) + 2 <= FlLength
  /\ \E x1, x2 \in FlInputs : fl' = FilterFed(FilterFed(fl, x1), x2)

\* a slip: only the first state variable is flushed
FirstFlushed(z) == <<0, z[2]>>
Flushed(z) == Rest

FilterReset ==
  fl' = [fl EXCEPT !.z = Flushed(@), !.xs = <<>>, !.ys = <<>>]

FiltersNext == FilterNew \/ FilterTick \/ FilterProcess \/ FilterReset

\* The filter's state is two samples and its history is bounded.
FiltersTypeOK ==
  /\ fl.c \in Coefficients /\ fl.z \in Sample \X Sample
  /\ fl.xs \in UNION {[1..n -> FlInputs] : n \in 0..FlLength}
  /\ Len(fl.ys) = Len(fl.xs)

\* --- the definitions ------------------------------------------------------------
In(n) == IF n \in 1..Len(fl.xs) THEN fl.xs[n] ELSE 0
Out(i, n) == IF n \in 1..Len(fl.ys) THEN fl.ys[n][i] ELSE 0
Power(a, k) == LET p[i \in 0..k] == IF i = 0 THEN 1 ELSE (p[i - 1] * a) % P IN p[k]

\* The convolution with feed * pole^k, and its complement for the high-pass.
OnePoleExact(c, n) ==
  LET low == Sum(LAMBDA k : c.feed * Power(c.pole, k) * In(n - k), n)
  IN  Out(1, n) = IF c.high THEN (In(n) - low) % P ELSE low

\* The difference equation over the last two inputs and outputs.
BiquadExact(c, n) ==
  Out(1, n) = (c.b[1] * In(n) + c.b[2] * In(n - 1) + c.b[3] * In(n - 2)
                 - c.a[1] * Out(1, n - 1) - c.a[2] * Out(1, n - 2)) % P

\* Two trapezoidal integrators in a loop without delay, and the sum that closes it.
SvfExact(c, n) ==
  /\ Out(3, n) = (In(n) - c.k * Out(2, n) - Out(1, n)) % P
  /\ Out(2, n) = (Out(2, n - 1) + c.g * (Out(3, n) + Out(3, n - 1))) % P
  /\ Out(1, n) = (Out(1, n - 1) + c.g * (Out(2, n) + Out(2, n - 1))) % P
  /\ Out(4, n) = (In(n) - c.k * Out(2, n)) % P

\* What a shape promises at the two ends of the spectrum: gain in lowest and highest.
EndsRight(c) ==
  LET dcIn == (c.b[1] + c.b[2] + c.b[3]) % P
      dcOut == (1 + c.a[1] + c.a[2]) % P
      topIn == (c.b[1] - c.b[2] + c.b[3]) % P
      topOut == (1 - c.a[1] + c.a[2]) % P
  IN  /\ c.shape \in {"Lowpass", "Peaking"} => dcIn = dcOut
      /\ c.shape \in {"Highpass", "Peaking"} => topIn = topOut
      /\ c.shape \in {"Highpass", "Bandpass"} => dcIn = 0
      /\ c.shape \in {"Lowpass", "Bandpass"} => topIn = 0

\* Every output of every filter is the one its definition gives from what it was
\* fed since it was built or last reset, sample by sample or in blocks, and a
\* biquad's coefficients have the gain its shape promises at both ends.
FiltersExact ==
  LET c == fl.c
      n == Len(fl.xs)
  IN  /\ c.kind = "biquad" => EndsRight(c)
      /\ n > 0 => CASE c.kind = "onepole" -> OnePoleExact(c, n)
                    [] c.kind = "biquad" -> BiquadExact(c, n) /\ BiquadExact(c, n - 1)
                    [] c.kind = "svf" -> SvfExact(c, n) /\ SvfExact(c, n - 1)
=============================================================================
