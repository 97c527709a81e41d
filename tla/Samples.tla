------------------------------- MODULE Samples -------------------------------
(* Audio samples as residues modulo a prime, complex ones as pairs <<re, im>>  *)
(* with im^2 = -1, and the twiddle factors as the powers of one element of     *)
(* order TwMaster on the unit circle re^2 + im^2 = 1. In this field every      *)
(* identity between sums, products and rotations that the signal code relies   *)
(* on holds exactly, so an algorithm is checked for equality with its          *)
(* definition; what the abstraction leaves out is the rounding of an f32.      *)
EXTENDS Integers, Sequences

CONSTANTS P,         \* the prime modulus, 3 modulo 4
          TwMaster,  \* points of the twiddle table
          TwCos1,    \* exp(-j 2 pi / TwMaster), its real part
          TwSin1     \* and its imaginary part, which carries the forward sign

ASSUME SamplesAssumption ==
  /\ P \in Nat /\ P > 2 /\ TwMaster \in Nat \ {0}
  /\ TwCos1 \in 0..(P - 1) /\ TwSin1 \in 0..(P - 1)

Sample == 0..(P - 1)
Zero == <<0, 0>>
One == <<1, 0>>
ImUnit == <<0, 1>>

CAdd(a, b) == <<(a[1] + b[1]) % P, (a[2] + b[2]) % P>>
CSub(a, b) == <<(a[1] - b[1]) % P, (a[2] - b[2]) % P>>
CMul(a, b) == <<(a[1] * b[1] - a[2] * b[2]) % P, (a[1] * b[2] + a[2] * b[1]) % P>>
Conj(a) == <<a[1], (-a[2]) % P>>
Scaled(s, a) == <<(s * a[1]) % P, (s * a[2]) % P>>
MulNegJ(a) == <<a[2], (-a[1]) % P>>

\* One over a small power of two, the only divisor the code divides by.
Over(n) == CHOOSE s \in Sample : (s * n) % P = 1 % P
Half == Over(2)

\* The table the build script writes.
TwiddleTable ==
  LET power[i \in 0..TwMaster - 1] ==
        IF i = 0 THEN One ELSE CMul(power[i - 1], <<TwCos1, TwSin1>>)
  IN  [i \in 0..TwMaster - 1 |-> power[i]]

Tw(index) == TwiddleTable[index % TwMaster]

\* W_m^k for any m that divides the table.
Root(m, k) == Tw(k * (TwMaster \div m))

\* Sums over 0..n-1, of samples and of complex values.
Sum(Term(_), n) ==
  LET s[i \in 0..n] == IF i = 0 THEN 0 ELSE (s[i - 1] + Term(i - 1)) % P IN s[n]
CSum(Term(_), n) ==
  LET s[i \in 0..n] == IF i = 0 THEN Zero ELSE CAdd(s[i - 1], Term(i - 1)) IN s[n]

\* The terms 0..n-1 as a function, by way of a sequence: each is computed once.
Table(Term(_), n) ==
  LET s == <<>> \o [i \in 1..n |-> Term(i - 1)] IN [i \in 0..n - 1 |-> s[i + 1]]

\* The definition the transforms are held against.
Dft(x, n) == Table(LAMBDA k : CSum(LAMBDA t : CMul(x[t], Root(n, k * t)), n), n)
InverseDft(x, n) ==
  Table(LAMBDA t : Scaled(Over(n), CSum(LAMBDA k : CMul(x[k], Conj(Root(n, k * t))), n)), n)

\* The real-input pair: the half spectrum of a real frame, and the frame back.
RealForward(x, n) ==
  Table(LAMBDA k : CSum(LAMBDA t : Scaled(x[t], Root(n, k * t)), n), n \div 2 + 1)
RealInverse(bins, n) ==
  LET full == [k \in 0..n - 1 |-> IF 2 * k <= n THEN bins[k] ELSE Conj(bins[n - k])]
      x == InverseDft(full, n)
  IN  [i \in 0..n - 1 |-> x[i][1]]
=============================================================================
