------------------------------- MODULE Dynamics -------------------------------
(* The level processors of daisy-dsp: the compressor, the noise gate with its  *)
(* envelope follower, and the lookahead limiter. Levels are magnitudes, in     *)
(* units small enough that the halvings of DyTicks ticks stay whole; a         *)
(* ballistic coefficient is 0 (instant) or 1/2.                                *)
EXTENDS Integers, Sequences, FiniteSets, FiniteSetsExt

CONSTANTS DyTicks,      \* bound: ticks since a reset
          GateHold,     \* hold_samples of the gate
          Lookahead     \* LA of the limiter

ASSUME DynamicsAssumption ==
  DyTicks \in Nat \ {0} /\ GateHold \in Nat /\ Lookahead \in Nat \ {0}

VARIABLES cmp,   \* Compressor
          gate,  \* Gate
          lim    \* Limiter

Unit == 2 ^ DyTicks
Magnitudes == {0, 1, 2, 4}
Coefs == {0, 1}     \* halves

\* target + coef * (current - target)
Toward(target, coef, current) == target + ((coef * (current - target)) \div 2)

\* ------------------------------- the compressor --------------------------------
\* Levels in dB relative to the threshold; a ratio of 4 and a knee of 0 or 4 dB.
\* Gains in units of 1/(32 Unit) dB.
Decibel == 32 * Unit
Overs == -5..6

\* a slip: the knee is taken to reach a full width either side of the threshold
WideGain(knee, over) ==
  IF knee > 0 /\ over > -knee /\ over < knee
  THEN -(3 * Decibel * (over + (knee \div 2)) ^ 2) \div (8 * knee)
  ELSE IF over <= 0 THEN 0 ELSE -(3 * Decibel * over) \div 4
compute_gain_db(knee, over) ==
  IF knee > 0 /\ 2 * over > -knee /\ 2 * over < knee
  THEN -(3 * Decibel * (over + (knee \div 2)) ^ 2) \div (8 * knee)
  ELSE IF over <= 0 THEN 0 ELSE -(3 * Decibel * over) \div 4

\* a slip: attack and release are taken the wrong way round
SwappedCoef(c, target) == IF target < c.yl THEN c.rel ELSE c.att
BallisticCoef(c, target) == IF target < c.yl THEN c.att ELSE c.rel

CompressorTick ==
  /\ cmp.n < DyTicks
  /\ \E over \in Overs :
       LET target == compute_gain_db(cmp.knee, over)
       IN  cmp' = [cmp EXCEPT !.yl = Toward(target, BallisticCoef(cmp, target), @),
                              !.n = @ + 1, !.over = over,
                              !.deepest = Min({@, target})]

CompressorReset == cmp.n > 0 /\ cmp' = [cmp EXCEPT !.yl = 0, !.n = 0, !.deepest = 0]

\* The static curve never turns a louder input into a quieter output.
CurveRises(knee) ==
  \A over \in Overs : (over + 1) \in Overs =>
    LET step == compute_gain_db(knee, over + 1) - compute_gain_db(knee, over)
    IN  -(3 * Decibel) <= 4 * step /\ step <= 0

\* Attack is instant in the instances below: a level is answered on its own sample,
\* with at least the reduction the curve asks for, and no reduction outlives the
\* deepest one asked for since the reset; both curves keep the order of levels.
CompressorSound ==
  /\ CurveRises(cmp.knee)
  /\ cmp.deepest <= cmp.yl /\ cmp.yl <= 0
  /\ cmp.n > 0 /\ cmp.att = 0 => cmp.yl <= compute_gain_db(cmp.knee, cmp.over)

\* ---------------------------------- the gate -----------------------------------
Threshold == 1
Floor == 0

\* EnvelopeFollower::tick.
Envelope(att, rel, env, a) == Toward(a, IF a > env THEN att ELSE rel, env)

\* a slip: the hold starts when the gate opens, and is not renewed while it is open
HeldFromOpening(g, open) ==
  IF open /\ g.quiet > 0 THEN GateHold ELSE IF g.held > 0 THEN g.held - 1 ELSE 0
Held(g, open) == IF open THEN GateHold ELSE IF g.held > 0 THEN g.held - 1 ELSE 0

\* The detector attacks at once and releases by halves; gate.quiet counts the ticks
\* since it was last above the threshold.
GateTick ==
  /\ gate.n < DyTicks
  /\ \E x \in Magnitudes :
       LET det == Envelope(0, 1, gate.det, x * Unit)
           open == det > Threshold * Unit
           held == Held(gate, open)
           target == IF open \/ held > 0 THEN Unit ELSE Floor
       IN  gate' = [gate EXCEPT
             !.det = det, !.held = held, !.n = @ + 1, !.x = x,
             !.gain = Toward(target, IF target > @ THEN gate.att ELSE gate.rel, @),
             !.quiet = IF open THEN 0 ELSE Min({@ + 1, DyTicks + GateHold})]

GateReset ==
  /\ gate.n > 0
  /\ gate' = [gate EXCEPT !.gain = 0, !.held = 0, !.det = 0, !.n = 0,
                          !.quiet = DyTicks + GateHold]

\* A sample above the threshold opens the gate at once, and the gain starts down
\* only when GateHold ticks in a row, this one included, were not open.
GateHolds ==
  [][gate'.n = gate.n + 1 =>
       /\ gate'.x > Threshold => gate'.quiet = 0
       /\ gate'.gain < gate.gain => gate'.quiet >= Max({GateHold, 1})
       /\ gate.gain > Floor /\ gate'.quiet >= Max({GateHold, 1}) => gate'.gain < gate.gain]_gate

\* --------------------------------- the limiter ---------------------------------
Ceiling == 1

\* Limiter::tick: the oldest sample leaves the ring before the peak is taken.
LimiterTick ==
  /\ lim.n < DyTicks
  /\ \E x \in Magnitudes :
       LET ring == [lim.ring EXCEPT ![lim.pos] = x]
           peak == Max({ring[i] : i \in 0..(Lookahead - 1)})
           target == IF peak > Ceiling THEN (Ceiling * 4 * Unit) \div peak ELSE 4 * Unit
           gain == IF target < lim.gain THEN target
                   ELSE Min({Toward(target, lim.rel, lim.gain), target})
       IN  lim' = [lim EXCEPT !.ring = ring, !.gain = gain, !.n = @ + 1,
                              !.pos = IF @ + 1 = Lookahead THEN 0 ELSE @ + 1,
                              !.out = lim.ring[lim.pos] * gain, !.fed = Append(@, x)]

EmptyRing == [i \in 0..(Lookahead - 1) |-> 0]
LimiterReset ==
  /\ lim.n > 0
  /\ lim' = [lim EXCEPT !.ring = EmptyRing, !.pos = 0, !.gain = 4 * Unit, !.n = 0,
                        !.out = 0, !.fed = <<>>]

\* The documented guarantee: no output is louder than the ceiling.
LimiterCeiling == lim.out <= Ceiling * 4 * Unit

\* What does hold: the output is the input Lookahead ticks ago under a gain that
\* is never above one, nor above what any sample still in the window asks for.
LimiterDelays ==
  /\ \A i \in 0..(Lookahead - 1) : lim.ring[i] * lim.gain <= Max({Ceiling, lim.ring[i]}) * 4 * Unit
  /\ \A i \in 0..(Lookahead - 1) : lim.ring[i] > Ceiling => lim.ring[i] * lim.gain <= Ceiling * 4 * Unit
  /\ lim.n > 0 =>
       lim.out = lim.gain * (IF lim.n > Lookahead THEN lim.fed[lim.n - Lookahead] ELSE 0)

\* -------------------------------------------------------------------------------
\* The constructors.
CompressorNew ==
  \E att, rel \in Coefs, knee \in {0, 4} :
    cmp' = [att |-> att, rel |-> rel, knee |-> knee, yl |-> 0, n |-> 0, over |-> 0, deepest |-> 0]

GateOf(att, rel) ==
  [att |-> att, rel |-> rel, gain |-> 0, held |-> 0, det |-> 0, n |-> 0, x |-> 0,
   quiet |-> DyTicks + GateHold]
GateNew == \E att, rel \in Coefs : gate' = GateOf(att, rel)

LimiterOf(rel) ==
  [rel |-> rel, ring |-> EmptyRing, pos |-> 0, gain |-> 4 * Unit, n |-> 0, out |-> 0, fed |-> <<>>]
LimiterNew == \E rel \in Coefs : lim' = LimiterOf(rel)

DynamicsInit ==
  /\ cmp = [att |-> 0, rel |-> 1, knee |-> 0, yl |-> 0, n |-> 0, over |-> 0, deepest |-> 0]
  /\ gate = GateOf(0, 1)
  /\ lim = LimiterOf(1)

CompressorNext == CompressorNew \/ CompressorTick \/ CompressorReset
GateNext == GateNew \/ GateTick \/ GateReset
LimiterNext == LimiterNew \/ LimiterTick \/ LimiterReset

\* Reductions, gains and counters stay in range.
DynamicsTypeOK ==
  /\ cmp.yl \in -(6 * Decibel)..0 /\ cmp.n \in 0..DyTicks
  /\ gate.gain \in 0..Unit /\ gate.held \in 0..GateHold /\ gate.det \in 0..(4 * Unit)
  /\ lim.gain \in 0..(4 * Unit) /\ lim.pos \in 0..(Lookahead - 1)
=============================================================================
