-------------------------------- MODULE FftQ15 --------------------------------
(* The fixed-point FFT, bit for bit: halfwords, halving adds and the saturating *)
(* complex multiply, with the table's own values at the eighths of the circle.  *)
EXTENDS Fft

VARIABLES qIn,     \* the packed input
          qData,   \* the array in place
          qM       \* block size of the next stage; 0 before the call, 1 before the reversal

qVars == <<qIn, qData, qM>>

Q15Len == 8
Eighth == 23170   \* round(32768 cos(pi / 4))
CosQ15 == <<32767, Eighth, 0, -Eighth, -32768, -Eighth, 0, Eighth>>
SinQ15 == <<0, -Eighth, -32768, -Eighth, 0, Eighth, 32767, Eighth>>
TwQ15(k, m) == LET i == ((k * (Q15Len \div m)) % Q15Len) + 1 IN <<CosQ15[i], SinQ15[i]>>

Sat16(v) == IF v > 32767 THEN 32767 ELSE IF v < -32768 THEN -32768 ELSE v

\* SMUSD and SMUADX are exact for a factor on the unit circle; >> 15 rounds down.
Smusd(a, b) == a[1] * b[1] - a[2] * b[2]
Smuadx(a, b) == a[1] * b[2] + a[2] * b[1]
CMulQ15(x, w) == <<Sat16(Smusd(x, w) \div 32768), Sat16(Smuadx(x, w) \div 32768)>>
Shadd16(a, b) == <<(a[1] + b[1]) \div 2, (a[2] + b[2]) \div 2>>
\* a slip: the difference is not halved, as in the unscaled transform
Ssub16(a, b) == <<Sat16(a[1] - b[1]), Sat16(a[2] - b[2])>>
Shsub16(a, b) == <<(a[1] - b[1]) \div 2, (a[2] - b[2]) \div 2>>

\* Tones at every bin, inside the unit circle, at full scale and at half of it,
\* and a full-scale impulse: what the transform of a real signal is made of.
FullScale == {32767, 16384}
Q15Tone(bin, s) ==
  [t \in 0..Q15Len - 1 |->
     LET w == TwQ15(Q15Len - ((bin * t) % Q15Len), Q15Len)
     IN  <<(s * w[1]) \div 32768, (s * w[2]) \div 32768>>]
Q15Inputs ==
  {Q15Tone(bin, s) : bin \in 0..Q15Len - 1, s \in FullScale}
  \cup {[t \in 0..Q15Len - 1 |-> IF t = at THEN <<s, 0>> ELSE Zero] :
          at \in 0..Q15Len - 1, s \in FullScale \cup {-32768}}

Q15Init == qIn = <<>> /\ qData = <<>> /\ qM = 0

Q15Call ==
  /\ qM = 0
  /\ \E x \in Q15Inputs : qIn' = x /\ qData' = x
  /\ qM' = 1

Q15Reverse ==
  /\ qM = 1
  /\ qData' = BitReverse(qData, Q15Len)
  /\ qM' = 2
  /\ UNCHANGED qIn

\* One radix-2 stage: (a + t)/2 and (a - t)/2 in place.
Q15Stage ==
  /\ qM \in 2..Q15Len
  /\ LET half == qM \div 2
         Pair(p) == <<qData[p - (p % qM) + (p % half)],
                      CMulQ15(qData[p - (p % qM) + (p % half) + half], TwQ15(p % half, qM))>>
     IN  qData' = [p \in DOMAIN qData |->
                     IF p % qM < half THEN Shadd16(Pair(p)[1], Pair(p)[2])
                     ELSE Shsub16(Pair(p)[1], Pair(p)[2])]
  /\ qM' = 2 * qM
  /\ UNCHANGED qIn

Q15Return == qM > Q15Len /\ qM' = 0 /\ qIn' = <<>> /\ qData' = <<>>

Q15Next == Q15Call \/ Q15Reverse \/ Q15Stage \/ Q15Return

Q15TypeOK ==
  /\ qM \in {0, 1, 2, 4, 8, 16}
  /\ qM > 0 => \A p \in 0..Q15Len - 1 : \A c \in 1..2 : qData[p][c] \in -32768..32767

\* The transform over L, term by term with the division first so that the sum fits.
ScaledDftQ15(x, k, c) ==
  LET Term(t) == LET w == TwQ15(k * t, Q15Len)
                 IN  (IF c = 1 THEN Smusd(x[t], w) ELSE Smuadx(x[t], w)) \div 32768
      s[t \in 0..Q15Len] == IF t = 0 THEN 0 ELSE s[t - 1] + Term(t - 1)
  IN  s[Q15Len] \div Q15Len

\* Inside the unit circle the fixed-point transform is the DFT over L up to
\* rounding, one unit per stage: no stage wraps and no multiply saturates.
Q15Rounded ==
  qM > Q15Len =>
    \A k \in 0..Q15Len - 1, c \in 1..2 :
      qData[k][c] - ScaledDftQ15(qIn, k, c) \in -4..4

Q15Spec == Q15Init /\ [][Q15Next]_qVars
=============================================================================
