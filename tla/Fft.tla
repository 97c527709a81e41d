--------------------------------- MODULE Fft ---------------------------------
(* The mixed radix-4 / radix-2 FFT of daisy-dsp and the real-input transform   *)
(* around it, one action per pass over the data. The invariant of the passes   *)
(* is the one its comments rely on: after a pass of block size q every block    *)
(* holds the DFT of the samples that the bit reversal has gathered there.      *)
EXTENDS Samples

CONSTANT FftSizes   \* complex lengths, powers of two

ASSUME FftAssumption == FftSizes \subseteq Nat /\ \A l \in FftSizes : TwMaster % (2 * l) = 0

VARIABLES fftJob,    \* the call: transform, direction, complex length, its input
          fftData,   \* the planar arrays in place, or the bins on the way out
          fftPhase,  \* what the next pass is
          fftQ       \* size of the finished sub-transforms

fftVars == <<fftJob, fftData, fftPhase, fftQ>>

Transforms == {"complex", "real"}
Spectrum(l) == 0..l

\* The transforms are linear: an impulse of each kind in each place is a basis.
Impulse(n, at, v) == [i \in 0..n - 1 |-> IF i = at THEN v ELSE Zero]

\* What a real signal's half spectrum has to look like: n/2 + 1 bins, the first
\* and the last one real.
HalfBasis(l) ==
  {[k \in Spectrum(l) |-> IF k = at THEN v ELSE Zero] : at \in Spectrum(l), v \in {One}}
  \cup {[k \in Spectrum(l) |-> IF k = at THEN ImUnit ELSE Zero] : at \in 1..l - 1}

FftInit ==
  /\ fftJob = [what |-> "none"]
  /\ fftData = <<>>
  /\ fftPhase = "idle"
  /\ fftQ = 1

FftCall ==
  /\ fftPhase = "idle"
  /\ fftPhase' = "prepare"
  /\ UNCHANGED fftQ
  /\ \E l \in FftSizes, inverse \in BOOLEAN :
       \/ \E at \in 0..l - 1, v \in {One, ImUnit} :
            /\ fftData' = Impulse(l, at, v)
            /\ fftJob' = [what |-> "complex", inv |-> inverse, l |-> l, input |-> fftData']
       \/ /\ ~inverse
          /\ \E at \in 0..2 * l - 1 :
               /\ fftData' = Impulse(2 * l, at, One)
               /\ fftJob' = [what |-> "real", inv |-> FALSE, l |-> l, input |-> fftData']
       \/ /\ inverse
          /\ \E bins \in HalfBasis(l) :
               /\ fftData' = bins
               /\ fftJob' = [what |-> "real", inv |-> TRUE, l |-> l, input |-> bins]

\* real_forward packs even samples as real and odd ones as imaginary parts.
Pack(x, l) == [i \in 0..l - 1 |-> <<x[2 * i][1], x[2 * i + 1][1]>>]
\* a slip: the mirror of bin 0 taken modulo l, which misses the Nyquist bin
UnsplitConjModulo(x, l, k) == Conj(x[(l - k) % l])
UnsplitConj(x, l, k) == Conj(x[l - k])
Unsplit(x, l) ==
  [k \in 0..l - 1 |->
     LET y == UnsplitConj(x, l, k)
         even == Scaled(Half, CAdd(x[k], y))
         odd == CMul(Scaled(Half, CSub(x[k], y)), Conj(Root(2 * l, k)))
     IN  CAdd(even, CMul(ImUnit, odd))]

FftPrepare ==
  /\ fftPhase = "prepare"
  /\ LET l == fftJob.l
         packed == IF fftJob.what = "complex" THEN fftData
                   ELSE IF fftJob.inv THEN Unsplit(fftData, l) ELSE Pack(fftData, l)
     IN  \* ifft(x) = conj(fft(conj(x))) / L
         /\ fftData' = IF fftJob.inv /\ l > 1 THEN [i \in 0..l - 1 |-> Conj(packed[i])] ELSE packed
         /\ fftPhase' = IF l > 1 THEN "reverse" ELSE "finish"
  /\ UNCHANGED <<fftJob, fftQ>>

\* The counter that runs backwards: clear the leading ones, set the next bit.
BitClear(j, b) == (j \div b) % 2 = 0
NextReversed(j, n) ==
  LET b == CHOOSE b \in {n \div (2 ^ k) : k \in 1..n} \ {0} :
             /\ BitClear(j, b)
             /\ \A c \in (b + 1)..(n \div 2) : n % c = 0 => ~BitClear(j, c)
  IN  (j % b) + b

Swapped(x, i, j) == [x EXCEPT ![i] = x[j], ![j] = x[i]]
\* a slip: without the test i < j every pair is swapped back again
BitReverseUnguarded(x, n) == x
BitReverse(x, n) ==
  LET pass[i \in 0..n - 1] ==
        IF i = 0 THEN [j |-> 0, x |-> x]
        ELSE LET j == NextReversed(pass[i - 1].j, n)
             IN  [j |-> j, x |-> IF i < j THEN Swapped(pass[i - 1].x, i, j) ELSE pass[i - 1].x]
  IN  pass[n - 1].x

Log2(l) == CHOOSE k \in 0..l : 2 ^ k = l

FftBitReverse ==
  /\ fftPhase = "reverse"
  /\ fftData' = BitReverse(fftData, fftJob.l)
  /\ fftPhase' = IF Log2(fftJob.l) % 2 = 1 THEN "radix2" ELSE "radix4"
  /\ fftQ' = 1
  /\ UNCHANGED fftJob

FftRadix2 ==
  /\ fftPhase = "radix2"
  /\ fftData' = [p \in DOMAIN fftData |->
                   IF p % 2 = 0 THEN CAdd(fftData[p], fftData[p + 1])
                   ELSE CSub(fftData[p - 1], fftData[p])]
  /\ fftQ' = 2
  /\ fftPhase' = IF fftQ' < fftJob.l THEN "radix4" ELSE "finish"
  /\ UNCHANGED fftJob

\* Two fused levels: W_2q on the odd members, then W_4q, and -j W_4q for the
\* second half of the block.
Butterfly(x, q, p) ==
  LET member == (p \div q) % 4
      k == p % q
      p0 == p - member * q
      b == CMul(x[p0 + q], Root(2 * q, k))
      d == CMul(x[p0 + 3 * q], Root(2 * q, k))
      u0 == CAdd(x[p0], b)
      u1 == CSub(x[p0], b)
      c2 == CMul(CAdd(x[p0 + 2 * q], d), Root(4 * q, k))
      e3 == CMul(CSub(x[p0 + 2 * q], d), Root(4 * q, k))
  IN  CASE member = 0 -> CAdd(u0, c2)
        [] member = 2 -> CSub(u0, c2)
        [] member = 1 -> CAdd(u1, MulNegJ(e3))
        [] member = 3 -> CSub(u1, MulNegJ(e3))

FftRadix4 ==
  /\ fftPhase = "radix4"
  /\ fftData' = [p \in DOMAIN fftData |-> Butterfly(fftData, fftQ, p)]
  /\ fftQ' = 4 * fftQ
  /\ fftPhase' = IF fftQ' < fftJob.l THEN "radix4" ELSE "finish"
  /\ UNCHANGED fftJob

\* The split step: bins 0..l of the real signal from the packed transform.
Split(z, l) ==
  [k \in Spectrum(l) |->
     LET a == z[IF k = l THEN 0 ELSE k]
         b == Conj(z[IF k = 0 THEN 0 ELSE l - k])
         even == Scaled(Half, CAdd(a, b))
         odd == Scaled(Half, MulNegJ(CSub(a, b)))
     IN  CAdd(even, CMul(odd, Root(2 * l, k)))]
Unpack(z, l) == [i \in 0..2 * l - 1 |-> <<z[i \div 2][1 + (i % 2)], 0>>]

FftFinish ==
  /\ fftPhase = "finish"
  /\ LET l == fftJob.l
         scaled == IF fftJob.inv /\ l > 1 THEN [i \in 0..l - 1 |-> Scaled(Over(l), Conj(fftData[i]))]
                   ELSE fftData
     IN  fftData' = CASE fftJob.what = "complex" -> scaled
                      [] fftJob.what = "real" /\ fftJob.inv -> Unpack(scaled, l)
                      [] OTHER -> Split(scaled, l)
  /\ fftPhase' = "done"
  /\ UNCHANGED <<fftJob, fftQ>>

\* The caller has its answer.
FftReturn ==
  /\ fftPhase = "done"
  /\ fftPhase' = "idle"
  /\ fftJob' = [what |-> "none"]
  /\ fftData' = <<>>
  /\ fftQ' = 1

FftNext ==
  \/ FftCall \/ FftPrepare \/ FftBitReverse \/ FftRadix2 \/ FftRadix4
  \/ FftFinish \/ FftReturn

-----------------------------------------------------------------------------
FftTypeOK ==
  /\ fftPhase \in {"idle", "prepare", "reverse", "radix2", "radix4", "finish", "done"}
  /\ fftPhase # "idle" => fftJob.l \in FftSizes /\ fftQ <= fftJob.l

\* The block that starts at base, of size q, holds samples base/q reversed,
\* that plus l/q, and so on.
Gathered(l, q, m) ==
  CHOOSE r \in 0..(l \div q) - 1 :
    \A k \in 0..l : (2 ^ (k + 1) <= l \div q) =>
       ((r \div 2 ^ k) % 2) = ((m \div ((l \div q) \div 2 ^ (k + 1))) % 2)

\* The transform of the block the passes have finished.
BlockDft(x, l, q, base) ==
  LET r == Gathered(l, q, base \div q)
  IN  Dft([t \in 0..q - 1 |-> x[r + t * (l \div q)]], q)

\* What the passes compute on: the conjugate for an inverse transform, the
\* packed samples for a real one.
FftOperand ==
  LET x == fftJob.input
      packed == IF fftJob.what = "complex" THEN x
                ELSE IF fftJob.inv THEN Unsplit(x, fftJob.l) ELSE Pack(x, fftJob.l)
  IN  IF fftJob.inv THEN [i \in 0..fftJob.l - 1 |-> Conj(packed[i])] ELSE packed

\* Every pass leaves in each block the transform of the samples gathered in it:
\* the loop invariant of the network, at both radices.
PassesGather ==
  fftPhase \in {"radix2", "radix4", "finish"} /\ fftJob.l > 1 =>
    \A p \in DOMAIN fftData :
       LET base == p - (p % fftQ)
       IN  fftData[p] = BlockDft(FftOperand, fftJob.l, fftQ, base)[p - base]

\* The full spectrum that a half spectrum stands for.
Mirrored(bins, l) ==
  [k \in 0..2 * l - 1 |-> IF k <= l THEN bins[k] ELSE Conj(bins[2 * l - k])]

\* Each of the four transforms returns what its definition says.
TransformsExact ==
  fftPhase = "done" =>
    LET l == fftJob.l
        x == fftJob.input
    IN  CASE fftJob.what = "complex" /\ ~fftJob.inv -> fftData = Dft(x, l)
          [] fftJob.what = "complex" /\ fftJob.inv -> fftData = InverseDft(x, l)
          [] fftJob.what = "real" /\ ~fftJob.inv ->
               \A k \in Spectrum(l) : fftData[k] = Dft(x, 2 * l)[k]
          [] OTHER -> fftData = InverseDft(Mirrored(x, l), 2 * l)

FftSpec == FftInit /\ [][FftNext]_fftVars
=============================================================================
