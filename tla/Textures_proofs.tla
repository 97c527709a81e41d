--------------------------- MODULE Textures_proofs ---------------------------
(* Theorems about the pad's engines, for every length of the freeze buffer    *)
(* and of its crossfade, of the granular ring and of its grains, every pitch  *)
(* and every draw of the spray, and for sounds of every length.               *)
(*                                                                            *)
(* Both rings hold at each index the sample that was recorded there last: its *)
(* age is how far the index lies behind the head.  A grain lags behind the    *)
(* head by so many half samples; what it may lag before a sample is read      *)
(* (Aimed) and after (Trails) follows from the backoff it started with, and   *)
(* that a lag between one sample and a ring's length reads what is contiguous.*)
EXTENDS Textures, TLAPS

Age(cap, write, i) == IF i < write THEN write - 1 - i ELSE write - 1 - i + cap

\* Freeze: the samples since the last release are in the buffer, the loop is whole.
Taped(f) == ~f.frozen => \A i \in 0 .. FrzCap - 1 :
  Age(FrzCap, f.write, i) < f.fresh => f.buf[i] = Level(f.newest - Age(FrzCap, f.write, i))
Looped(f) == f.frozen /\ f.fresh = FrzCap => \A i \in 0 .. Period - 1 :
  f.buf[i] = Level(f.newest - FrzCap + 1 + i) + (IF i < Xfade THEN (Xfade - i) * Period ELSE 0)

FrzStates == [buf : [0 .. FrzCap - 1 -> Int], write : 0 .. FrzCap - 1, play : 0 .. Period - 1,
              frozen : BOOLEAN, fresh : 0 .. FrzCap, newest : Int, heard : Int]
FrzInv(f) == f \in FrzStates /\ Taped(f) /\ Looped(f)

\* Granular: the ring, and where a grain is, before and after it has read a sample.
GrainStates == [on : BOOLEAN, pos : Nat, rate : Nat \ {0}, prog : 0 .. GrainLen, held : BOOLEAN,
                read : Int, first : Int]
RingHolds(g) == \A i \in 0 .. GranCap - 1 : g.buf[i] = g.newest - Age(GranCap, g.write, i)

Lag(g, x) == 2 * (g.newest + 1) - (x.first + x.rate * x.prog)
Behind(write, lag) == IF 2 * write >= lag THEN 2 * write - lag ELSE 2 * write - lag + 2 * GranCap
Roomy == 3 * GrainLen <= GranCap
Nearest(x, held) == 2 * GrainLen + (IF held THEN 0 ELSE 2 * x.prog)
Farthest(x) == 2 * GrainLen + GranCap + 2 * x.prog

Aimed(g, x) ==
  LET held == x.held \/ g.frozen  lag == Lag(g, x)  gone == x.rate * x.prog
  IN  /\ x.prog < GrainLen
      /\ Reaches(x.rate, held) =>
           /\ x.pos = Behind(g.write, lag)
           /\ IF Roomy THEN Nearest(x, held) - gone <= lag /\ lag <= Farthest(x) - 2 - gone
              ELSE lag \in 2 .. 2 * GranCap
Trails(g, x) ==
  LET lag == Lag(g, x)  gone == x.rate * x.prog
  IN  /\ x.prog \in 1 .. GrainLen - 1
      /\ Reaches(x.rate, x.held) =>
           /\ x.pos = Behind(g.write, lag)
           /\ IF Roomy THEN Nearest(x, x.held) - (IF x.held THEN 0 ELSE 2) - gone <= lag /\ lag <= Farthest(x) - 4 - gone
              ELSE lag \in 0 .. 2 * GranCap - 2
ReadsOn(x) == x.prog > 0 /\ Reaches(x.rate, x.held) => x.read = x.first + x.rate * (x.prog - 1)

GranStates == [buf : [0 .. GranCap - 1 -> Int], newest : Int, write : 0 .. GranCap - 1, frozen : BOOLEAN,
               timer : Nat, next : Nat, pitch : Nat \ {0}, grains : [1 .. MaxGrains -> GrainStates \cup {NoGrain}]]
GranMid(g) ==
  /\ g \in GranStates /\ RingHolds(g)
  /\ \A k \in 1 .. MaxGrains : IF g.grains[k].on THEN Aimed(g, g.grains[k]) ELSE ReadsOn(g.grains[k])
GranInv(g) ==
  /\ g \in GranStates /\ RingHolds(g)
  /\ \A k \in 1 .. MaxGrains : ReadsOn(g.grains[k]) /\ (g.grains[k].on => Trails(g, g.grains[k]))

\* The engine last spoken to is held exactly while the swell is open; the engine that is
\* not heard is never held, unless the mode was changed under a hold.
HoldInv ==
  /\ IF pad.last = "freeze" THEN frz.frozen = pad.gate ELSE gran.frozen = pad.gate
  /\ ~pad.switched =>
       IF pad.mode = "freeze" THEN frz.frozen = pad.gate /\ ~gran.frozen ELSE gran.frozen = pad.gate /\ ~frz.frozen

TexturesInv == PadTypeOK /\ FrzInv(frz) /\ GranInv(gran) /\ HoldInv

(* The remainder of a number below 2n, without a division.                    *)
LEMMA Around ==
  ASSUME NEW n \in Nat, n > 0, NEW x \in 0 .. 2 * n - 1
  PROVE  x % n = IF x < n THEN x ELSE x - n
OBVIOUS

LEMMA Remains ==
  ASSUME NEW n \in Nat \ {0}, NEW x \in Nat
  PROVE  x % n \in 0 .. n - 1
OBVIOUS

LEMMA DividesOut ==
  ASSUME NEW n \in Nat \ {0}, NEW k \in Int
  PROVE  (n * k) \div n = k
OBVIOUS

(* Ages in a ring of n, behind a head at w.                                   *)
LEMMA Ages ==
  ASSUME NEW n \in Nat \ {0}, NEW w \in 0 .. n - 1, NEW i \in 0 .. n - 1
  PROVE  Age(n, w, i) \in 0 .. n - 1
BY DEF Age

LEMMA AgesTurned ==
  ASSUME NEW n \in Nat \ {0}, NEW w \in 0 .. n - 1, NEW i \in 0 .. n - 1
  PROVE  (i + w) % n \in 0 .. n - 1 /\ Age(n, w, (i + w) % n) = n - 1 - i
<1>1. n \in Nat /\ n > 0 /\ i + w \in 0 .. 2 * n - 1 OBVIOUS
<1>2. (i + w) % n = IF i + w < n THEN i + w ELSE i + w - n BY <1>1, Around
<1> QED BY <1>2 DEF Age

Onward(n, w) == IF w + 1 = n THEN 0 ELSE w + 1
LEMMA AgesGrow ==
  ASSUME NEW n \in Nat \ {0}, NEW w \in 0 .. n - 1, NEW i \in 0 .. n - 1
  PROVE  /\ Onward(n, w) \in 0 .. n - 1
         /\ Age(n, Onward(n, w), w) = 0
         /\ i # w => Age(n, Onward(n, w), i) = Age(n, w, i) + 1
BY DEF Age, Onward

-----------------------------------------------------------------------------
(* Freeze.                                                                    *)

LEMMA FreezeSizes ==
  /\ FrzCap \in Nat \ {0} /\ Xfade \in Nat \ {0} /\ Period \in Nat \ {0}
  /\ Xfade <= Period /\ Period + Xfade = FrzCap
BY FreezeAssumption DEF Period

LEMMA LevelType == ASSUME NEW n \in Int PROVE Level(n) \in Int
BY FreezeSizes DEF Level

(* Between the two weights the sum comes out whole.                           *)
LEMMA FadeExact ==
  ASSUME NEW n \in Int, NEW i \in 0 .. Xfade
  PROVE  (i * Level(n) + (Xfade - i) * Level(n + Period)) \div Xfade = Level(n) + (Xfade - i) * Period
<1>1. i \in Int /\ Xfade \in Nat \ {0} /\ Period \in Int BY FreezeSizes
<1> DEFINE k == Xfade * n + (Xfade - i) * Period
<1>2. k \in Int BY <1>1
<1>3. i * Level(n) + (Xfade - i) * Level(n + Period) = Xfade * k BY <1>1 DEF Level
<1>4. (Xfade * k) \div Xfade = k BY <1>1, <1>2, DividesOut
<1> QED BY <1>3, <1>4 DEF Level

FrzOf(buf, write, play, frozen, fresh, newest, heard) ==
  [buf |-> buf, write |-> write, play |-> play, frozen |-> frozen, fresh |-> fresh, newest |-> newest, heard |-> heard]
LEMMA FrzParts ==
  ASSUME NEW f \in FrzStates
  PROVE  /\ f = FrzOf(f.buf, f.write, f.play, f.frozen, f.fresh, f.newest, f.heard)
         /\ f.buf \in [0 .. FrzCap - 1 -> Int] /\ f.write \in 0 .. FrzCap - 1 /\ f.play \in 0 .. Period - 1
         /\ f.frozen \in BOOLEAN /\ f.fresh \in 0 .. FrzCap /\ f.newest \in Int /\ f.heard \in Int
BY DEF FrzStates, FrzOf

LEMMA FrzNewInv == FrzInv(FrzNew)
<1>1. FrzNew \in FrzStates BY FreezeSizes, LevelType DEF FrzNew, FrzStates
<1>2. Taped(FrzNew)
  <2>1. SUFFICES ASSUME NEW i \in 0 .. FrzCap - 1
                 PROVE  FrzNew.buf[i] = Level(FrzNew.newest - Age(FrzCap, FrzNew.write, i))
    BY DEF Taped
  <2>2. FrzNew.newest - Age(FrzCap, FrzNew.write, i) = i - FrzCap
    BY FreezeSizes, <2>1 DEF FrzNew, Age
  <2> QED BY <2>1, <2>2 DEF FrzNew
<1> QED BY <1>1, <1>2 DEF FrzInv, Looped, FrzNew

LEMMA UnfreezeInv == ASSUME NEW f, FrzInv(f) PROVE FrzInv(Unfreeze(f))
<1>1. f \in FrzStates BY DEF FrzInv
<1>2. CASE f.frozen
  <2> DEFINE u == FrzOf(f.buf, f.write, f.play, FALSE, 0, f.newest, f.heard)
  <2>1. Unfreeze(f) = [f EXCEPT !.frozen = FALSE, !.fresh = 0] BY <1>2 DEF Unfreeze
  <2>2. Unfreeze(f) = u BY <1>1, <2>1 DEF FrzOf, FrzStates
  <2>3. u \in FrzStates BY <1>1, FrzParts, FreezeSizes DEF FrzOf, FrzStates
  <2>4. Taped(u)
    <3>1. \A i \in 0 .. FrzCap - 1 : Age(FrzCap, f.write, i) \in 0 .. FrzCap - 1 BY <1>1, FrzParts, FreezeSizes, Ages
    <3>2. \A i \in 0 .. FrzCap - 1 : ~(Age(FrzCap, f.write, i) < 0) BY <3>1, FreezeSizes
    <3> QED BY <3>2 DEF FrzOf, Taped
  <2> QED BY <2>2, <2>3, <2>4 DEF FrzInv, Looped, FrzOf
<1>3. CASE ~f.frozen
  <2>1. Unfreeze(f) = [f EXCEPT !.frozen = FALSE, !.fresh = f.fresh] BY <1>3 DEF Unfreeze
  <2>2. Unfreeze(f) = f BY <1>1, <1>3, <2>1 DEF FrzStates
  <2> QED BY <2>2
<1> QED BY <1>2, <1>3

(* Turned, the buffer is in the order of recording.                           *)
LEMMA Turned ==
  ASSUME NEW f \in FrzStates, Taped(f), ~f.frozen, f.fresh = FrzCap, NEW i \in 0 .. FrzCap - 1
  PROVE  f.buf[(i + f.write) % FrzCap] = Level(f.newest - FrzCap + 1 + i)
<1> DEFINE j == (i + f.write) % FrzCap
<1>1. j \in 0 .. FrzCap - 1 /\ Age(FrzCap, f.write, j) = FrzCap - 1 - i BY FrzParts, FreezeSizes, AgesTurned
<1>2. Age(FrzCap, f.write, j) < f.fresh BY <1>1, FreezeSizes
<1>3. f.buf[j] = Level(f.newest - (FrzCap - 1 - i)) BY <1>1, <1>2 DEF Taped
<1>4. f.newest - (FrzCap - 1 - i) = f.newest - FrzCap + 1 + i
  <2>1. f.newest \in Int /\ FrzCap \in Int /\ i \in Int BY FrzParts, FreezeSizes
  <2> QED BY <2>1
<1> QED BY <1>3, <1>4

LEMMA FreezeInv == ASSUME NEW f, FrzInv(f) PROVE FrzInv(Freeze(f))
<1>1. f \in FrzStates /\ Taped(f) BY DEF FrzInv
<1>2. CASE f.frozen BY <1>2 DEF Freeze
<1>3. CASE ~f.frozen
  <2> DEFINE turned == [i \in 0 .. FrzCap - 1 |-> f.buf[(i + f.write) % FrzCap]]
  <2>1. DOMAIN f.buf = 0 .. FrzCap - 1 /\ DOMAIN turned = 0 .. FrzCap - 1 BY <1>1 DEF FrzStates
  <2>2. Freeze(f) = [f EXCEPT !.buf = Faded(turned), !.play = 0, !.frozen = TRUE] BY <1>3, <2>1 DEF Freeze
  <2>3. ASSUME NEW i \in 0 .. FrzCap - 1 PROVE turned[i] \in Int
    <3>1. (i + f.write) % FrzCap \in 0 .. FrzCap - 1 BY <1>1, FrzParts, FreezeSizes, AgesTurned
    <3> QED BY <1>1, <3>1, FrzParts
  <2>4. Faded(turned) \in [0 .. FrzCap - 1 -> Int]
    <3>1. ASSUME NEW i \in 0 .. FrzCap - 1, i < Xfade
          PROVE  (i * turned[i] + (Xfade - i) * turned[Period + i]) \div Xfade \in Int
      <4>1. Period + i \in 0 .. FrzCap - 1 /\ i \in Int BY <3>1, FreezeSizes
      <4>2. turned[i] \in Int /\ turned[Period + i] \in Int BY <2>3, <4>1
      <4> HIDE DEF turned
      <4> QED BY <4>1, <4>2, FreezeSizes
    <3> QED BY <2>1, <2>3, <3>1 DEF Faded
  <2> HIDE DEF turned
  <2>5. Freeze(f) \in FrzStates
    <3>1. Freeze(f) = FrzOf(Faded(turned), f.write, 0, TRUE, f.fresh, f.newest, f.heard) BY <1>1, <2>2 DEF FrzOf, FrzStates
    <3> QED BY <1>1, <2>4, <3>1, FrzParts, FreezeSizes DEF FrzOf, FrzStates
  <2>6. Looped(Freeze(f))
    <3>1. SUFFICES ASSUME f.fresh = FrzCap, NEW i \in 0 .. Period - 1
                   PROVE  Faded(turned)[i] = Level(f.newest - FrzCap + 1 + i)
                                             + (IF i < Xfade THEN (Xfade - i) * Period ELSE 0)
      BY <1>1, <2>2 DEF Looped, FrzStates
    <3> DEFINE n == f.newest - FrzCap + 1 + i
    <3>2. i \in 0 .. FrzCap - 1 /\ i \in Int /\ n \in Int /\ f.newest \in Int BY <1>1, FreezeSizes DEF FrzStates
    <3>3. turned[i] = Level(n) BY <1>1, <1>3, <3>1, <3>2, Turned DEF turned
    <3>4. CASE i < Xfade
      <4>1. Period + i \in 0 .. FrzCap - 1 BY <3>2, <3>4, FreezeSizes
      <4>2. turned[Period + i] = Level(f.newest - FrzCap + 1 + (Period + i)) BY <1>1, <1>3, <3>1, <4>1, Turned DEF turned
      <4>3. f.newest - FrzCap + 1 + (Period + i) = n + Period BY <3>2, FreezeSizes
      <4>4. Faded(turned)[i] = (i * Level(n) + (Xfade - i) * Level(n + Period)) \div Xfade
        BY <2>1, <3>2, <3>3, <3>4, <4>2, <4>3 DEF Faded
      <4>5. i \in 0 .. Xfade BY <3>2, <3>4, FreezeSizes
      <4> QED BY <3>2, <3>4, <4>4, <4>5, FadeExact
    <3>5. CASE ~(i < Xfade)
      <4>1. Faded(turned)[i] = Level(n) BY <2>1, <3>2, <3>3, <3>5 DEF Faded
      <4> QED BY <3>2, <3>5, <4>1, LevelType
    <3> QED BY <3>4, <3>5
  <2>7. Taped(Freeze(f)) BY <1>1, <2>2 DEF Taped, FrzStates
  <2> QED BY <2>5, <2>6, <2>7 DEF FrzInv
<1> QED BY <1>2, <1>3

LEMMA FrzTickInv == ASSUME NEW f, FrzInv(f) PROVE FrzInv(FrzTick(f))
<1>1. f \in FrzStates /\ Taped(f) /\ Looped(f) BY DEF FrzInv
<1>2. CASE f.frozen
  <2>1. FrzTick(f) = [f EXCEPT !.heard = f.buf[f.play], !.play = IF @ + 1 = Period THEN 0 ELSE @ + 1]
    BY <1>2 DEF FrzTick
  <2>2. f.play \in 0 .. FrzCap - 1 BY <1>1, FreezeSizes DEF FrzStates
  <2>3. FrzTick(f) \in FrzStates
    <3>1. FrzTick(f) = FrzOf(f.buf, f.write, IF f.play + 1 = Period THEN 0 ELSE f.play + 1, f.frozen, f.fresh,
                             f.newest, f.buf[f.play])
      BY <1>1, <2>1 DEF FrzOf, FrzStates
    <3>2. f.buf[f.play] \in Int BY <1>1, <2>2, FrzParts
    <3>3. (IF f.play + 1 = Period THEN 0 ELSE f.play + 1) \in 0 .. Period - 1
      <4>1. f.play \in 0 .. Period - 1 BY <1>1, FrzParts
      <4> QED BY <4>1, FreezeSizes
    <3> QED BY <1>1, <3>1, <3>2, <3>3, FrzParts DEF FrzOf, FrzStates
  <2>4. FrzTick(f).buf = f.buf /\ FrzTick(f).frozen = f.frozen /\ FrzTick(f).fresh = f.fresh
        /\ FrzTick(f).newest = f.newest
    BY <1>1, <2>1 DEF FrzStates
  <2> QED BY <1>1, <1>2, <2>3, <2>4 DEF FrzInv, Taped, Looped
<1>3. CASE ~f.frozen
  <2> DEFINE w == f.write
             t == FrzTick(f)
  <2>1. t = [f EXCEPT !.buf[w] = Level(f.newest + 1), !.write = IF @ + 1 = FrzCap THEN 0 ELSE @ + 1,
                      !.heard = Level(f.newest + 1), !.newest = @ + 1,
                      !.fresh = IF @ < FrzCap THEN @ + 1 ELSE @]
    BY <1>3 DEF FrzTick
  <2>2. f.newest \in Int /\ w \in 0 .. FrzCap - 1 /\ f.fresh \in 0 .. FrzCap BY <1>1 DEF FrzStates
  <2>3. Level(f.newest + 1) \in Int BY <2>2, LevelType
  <2>4. t.write = (IF w + 1 = FrzCap THEN 0 ELSE w + 1) /\ t.newest = f.newest + 1 /\ t.frozen = f.frozen
        /\ t.fresh = (IF f.fresh < FrzCap THEN f.fresh + 1 ELSE f.fresh)
        /\ t.buf = [f.buf EXCEPT ![w] = Level(f.newest + 1)]
    BY <1>1, <2>1 DEF FrzStates
  <2>5. t \in FrzStates
    <3>1. t = FrzOf([f.buf EXCEPT ![w] = Level(f.newest + 1)], Onward(FrzCap, w), f.play, f.frozen,
                    IF f.fresh < FrzCap THEN f.fresh + 1 ELSE f.fresh, f.newest + 1, Level(f.newest + 1))
      BY <1>1, <2>1 DEF Onward, FrzOf, FrzStates
    <3>2. Onward(FrzCap, w) \in 0 .. FrzCap - 1 BY <2>2, FreezeSizes, AgesGrow
    <3>3. [f.buf EXCEPT ![w] = Level(f.newest + 1)] \in [0 .. FrzCap - 1 -> Int] BY <1>1, <2>3, FrzParts
    <3>4. (IF f.fresh < FrzCap THEN f.fresh + 1 ELSE f.fresh) \in 0 .. FrzCap BY <2>2, FreezeSizes
    <3> QED BY <1>1, <2>2, <2>3, <3>1, <3>2, <3>3, <3>4, FrzParts DEF FrzOf, FrzStates
  <2>6. Taped(t)
    <3>1. SUFFICES ASSUME NEW i \in 0 .. FrzCap - 1, Age(FrzCap, t.write, i) < t.fresh
                   PROVE  t.buf[i] = Level(t.newest - Age(FrzCap, t.write, i))
      BY DEF Taped
    <3>2. t.write = Onward(FrzCap, w) BY <2>4 DEF Onward
    <3>3. CASE i = w
      <4>1. Age(FrzCap, t.write, i) = 0 BY <2>2, <3>2, <3>3, FreezeSizes, AgesGrow
      <4>2. t.newest - Age(FrzCap, t.write, i) = f.newest + 1 BY <2>2, <2>4, <4>1
      <4>3. t.buf[i] = Level(f.newest + 1) BY <1>1, <2>4, <3>3, FrzParts
      <4> QED BY <4>2, <4>3
    <3>4. CASE i # w
      <4>1. Age(FrzCap, t.write, i) = Age(FrzCap, w, i) + 1 BY <2>2, <3>2, <3>4, FreezeSizes, AgesGrow
      <4>2. Age(FrzCap, w, i) \in 0 .. FrzCap - 1 BY <2>2, FreezeSizes, Ages
      <4>3. Age(FrzCap, w, i) < f.fresh BY <2>2, <2>4, <3>1, <4>1, <4>2, FreezeSizes
      <4>4. t.buf[i] = Level(f.newest - Age(FrzCap, w, i)) BY <1>1, <1>3, <2>4, <3>4, <4>3, FrzParts DEF Taped
      <4>5. t.newest - Age(FrzCap, t.write, i) = f.newest - Age(FrzCap, w, i) BY <2>2, <2>4, <4>1, <4>2
      <4> QED BY <4>4, <4>5
    <3> QED BY <3>3, <3>4
  <2>7. Looped(t) BY <1>3, <2>4 DEF Looped
  <2> QED BY <2>5, <2>6, <2>7 DEF FrzInv
<1> QED BY <1>2, <1>3

-----------------------------------------------------------------------------
(* Granular.                                                                  *)

LEMMA GrainSizes ==
  /\ GranCap \in Nat \ {0} /\ GrainLen \in Nat \ {0} /\ SpawnMean \in Nat \ {0}
  /\ Pitches \subseteq Nat \ {0} /\ SpawnGaps \subseteq Nat \ {0}
  /\ \A b \in Backoffs : b \in Nat /\ GrainLen <= b /\ 2 * b <= 2 * GrainLen + GranCap - 2
<1>1. \A spray \in Sprays : spray \in Nat /\ 2 * spray <= GranCap - 2 BY GranularAssumption
<1> QED BY <1>1, GranularAssumption DEF Backoffs

GrainOf(on, pos, rate, prog, held, read, first) ==
  [on |-> on, pos |-> pos, rate |-> rate, prog |-> prog, held |-> held, read |-> read, first |-> first]
LEMMA GrainParts ==
  ASSUME NEW x \in GrainStates
  PROVE  /\ x = GrainOf(x.on, x.pos, x.rate, x.prog, x.held, x.read, x.first)
         /\ x.on \in BOOLEAN /\ x.pos \in Nat /\ x.rate \in Nat \ {0} /\ x.prog \in 0 .. GrainLen
         /\ x.held \in BOOLEAN /\ x.read \in Int /\ x.first \in Int
BY DEF GrainStates, GrainOf

GranOf(buf, newest, write, frozen, timer, next, pitch, grains) ==
  [buf |-> buf, newest |-> newest, write |-> write, frozen |-> frozen, timer |-> timer, next |-> next,
   pitch |-> pitch, grains |-> grains]
LEMMA GranParts ==
  ASSUME NEW g \in GranStates
  PROVE  /\ g = GranOf(g.buf, g.newest, g.write, g.frozen, g.timer, g.next, g.pitch, g.grains)
         /\ g.buf \in [0 .. GranCap - 1 -> Int] /\ g.newest \in Int /\ g.write \in 0 .. GranCap - 1
         /\ g.frozen \in BOOLEAN /\ g.timer \in Nat /\ g.next \in Nat /\ g.pitch \in Nat \ {0}
         /\ g.grains \in [1 .. MaxGrains -> GrainStates \cup {NoGrain}]
BY DEF GranStates, GranOf

LEMMA OnIsGrain ==
  ASSUME NEW g \in GranStates, NEW k \in 1 .. MaxGrains, g.grains[k].on
  PROVE  g.grains[k] \in GrainStates
<1>1. g.grains[k] \in GrainStates \cup {NoGrain} BY GranParts
<1>2. ~NoGrain.on BY DEF NoGrain
<1> QED BY <1>1, <1>2

LEMMA SilentReads == ReadsOn(NoGrain)
BY DEF ReadsOn, NoGrain

LEMMA GranNewInv == GranInv(GranNew)
<1> DEFINE ring == [i \in 0 .. GranCap - 1 |-> i - GranCap]
           pool == [k \in 1 .. MaxGrains |-> NoGrain]
<1>1. GranNew = GranOf(ring, -1, 0, FALSE, 0, SpawnMean, 2, pool) BY DEF GranNew, GranOf
<1>2. GranNew \in GranStates
  <2>1. ring \in [0 .. GranCap - 1 -> Int] /\ pool \in [1 .. MaxGrains -> GrainStates \cup {NoGrain}] BY GrainSizes
  <2> HIDE DEF ring, pool
  <2> QED BY <1>1, <2>1, GrainSizes DEF GranOf, GranStates
<1>3. GranNew.buf = ring /\ GranNew.newest = -1 /\ GranNew.write = 0 /\ GranNew.grains = pool BY DEF GranNew
<1>4. RingHolds(GranNew)
  <2>1. ASSUME NEW i \in 0 .. GranCap - 1 PROVE ring[i] = -1 - Age(GranCap, 0, i) BY GrainSizes DEF Age
  <2> HIDE DEF ring
  <2> QED BY <1>3, <2>1 DEF RingHolds
<1>5. ASSUME NEW k \in 1 .. MaxGrains PROVE ReadsOn(GranNew.grains[k]) /\ ~GranNew.grains[k].on
  <2>1. GranNew.grains[k] = NoGrain BY <1>3
  <2> QED BY <2>1, SilentReads DEF NoGrain
<1> QED BY <1>2, <1>4, <1>5 DEF GranInv

LEMMA PitchInv ==
  ASSUME NEW g, GranInv(g), NEW p \in Nat \ {0}
  PROVE  GranInv([g EXCEPT !.pitch = p])
<1> DEFINE h == [g EXCEPT !.pitch = p]
<1>1. g \in GranStates BY DEF GranInv
<1>2. h = GranOf(g.buf, g.newest, g.write, g.frozen, g.timer, g.next, p, g.grains) BY <1>1 DEF GranOf, GranStates
<1> HIDE DEF h
<1>3. h \in GranStates BY <1>1, <1>2, GranParts DEF GranOf, GranStates
<1>4. h.buf = g.buf /\ h.newest = g.newest /\ h.write = g.write /\ h.frozen = g.frozen /\ h.grains = g.grains
  BY <1>2 DEF GranOf
<1>5. GranInv(h) BY <1>3, <1>4 DEF GranInv, RingHolds, Trails, Lag
<1> QED BY <1>5 DEF h

(* A live head goes on one sample and writes there; every lag grows by two.   *)
LEMMA RecordedRing ==
  ASSUME NEW g, GranInv(g)
  PROVE  LET r == Recorded(g)
         IN  /\ r \in GranStates /\ RingHolds(r) /\ r.grains = g.grains /\ r.frozen = g.frozen
             /\ r.pitch = g.pitch
             /\ g.frozen => r = g
             /\ ~g.frozen => r.newest = g.newest + 1 /\ r.write = Onward(GranCap, g.write)
<1> DEFINE r == Recorded(g)
           w == g.write
           v == Onward(GranCap, w)
           ring == [g.buf EXCEPT ![w] = g.newest + 1]
<1>1. g \in GranStates /\ RingHolds(g) BY DEF GranInv
<1>2. CASE g.frozen BY <1>1, <1>2 DEF Recorded
<1>3. CASE ~g.frozen
  <2>1. w \in 0 .. GranCap - 1 /\ g.newest \in Int /\ GranCap \in Nat /\ GranCap > 0 BY <1>1, GranParts, GrainSizes
  <2>2. (w + 1) % GranCap = v
    <3>1. w + 1 \in 0 .. 2 * GranCap - 1 BY <2>1
    <3>2. (w + 1) % GranCap = IF w + 1 < GranCap THEN w + 1 ELSE w + 1 - GranCap BY <2>1, <3>1, Around
    <3> QED BY <2>1, <3>2 DEF Onward
  <2>3. r = [g EXCEPT !.buf[w] = g.newest + 1, !.newest = @ + 1, !.write = (@ + 1) % GranCap] BY <1>3 DEF Recorded
  <2>4. r = GranOf(ring, g.newest + 1, v, g.frozen, g.timer, g.next, g.pitch, g.grains)
    <3> HIDE DEF v
    <3> QED BY <1>1, <2>2, <2>3 DEF GranOf, GranStates
  <2>5. v \in 0 .. GranCap - 1 BY <2>1, GrainSizes, AgesGrow
  <2>6. ring \in [0 .. GranCap - 1 -> Int] BY <1>1, <2>1, GranParts
  <2> HIDE DEF ring, v, r
  <2>7. r \in GranStates BY <1>1, <2>1, <2>4, <2>5, <2>6, GranParts DEF GranOf, GranStates
  <2>8. r.buf = ring /\ r.newest = g.newest + 1 /\ r.write = v /\ r.grains = g.grains /\ r.frozen = g.frozen
        /\ r.pitch = g.pitch
    BY <2>4 DEF GranOf
  <2>9. ASSUME NEW i \in 0 .. GranCap - 1 PROVE ring[i] = g.newest + 1 - Age(GranCap, v, i)
    <3>1. CASE i = w
      <4>1. Age(GranCap, v, i) = 0 BY <2>1, <3>1, GrainSizes, AgesGrow DEF v
      <4>2. ring[i] = g.newest + 1 BY <1>1, <3>1, GranParts DEF ring
      <4> QED BY <2>1, <4>1, <4>2
    <3>2. CASE i # w
      <4>1. Age(GranCap, v, i) = Age(GranCap, w, i) + 1 BY <2>1, <3>2, GrainSizes, AgesGrow DEF v
      <4>2. Age(GranCap, w, i) \in Int
        <5>1. Age(GranCap, w, i) \in 0 .. GranCap - 1 BY <2>1, GrainSizes, Ages
        <5> QED BY <5>1
      <4>3. ring[i] = g.newest - Age(GranCap, w, i) BY <1>1, <3>2, GranParts DEF ring, RingHolds
      <4> QED BY <2>1, <4>1, <4>2, <4>3
    <3> QED BY <3>1, <3>2
  <2>10. RingHolds(r)
    <3>1. SUFFICES ASSUME NEW i \in 0 .. GranCap - 1 PROVE r.buf[i] = r.newest - Age(GranCap, r.write, i)
      BY DEF RingHolds
    <3>2. ring[i] = g.newest + 1 - Age(GranCap, v, i) BY <2>9
    <3>3. r.buf[i] = ring[i] BY <2>8
    <3>4. Age(GranCap, r.write, i) = Age(GranCap, v, i) BY <2>8
    <3>5. Age(GranCap, v, i) \in 0 .. GranCap - 1 BY <2>5, GrainSizes, Ages
    <3> QED BY <2>1, <2>8, <3>2, <3>3, <3>4, <3>5
  <2> QED BY <1>3, <2>7, <2>8, <2>10 DEF r, v
<1> QED BY <1>2, <1>3

(* What lies a lag behind the head is the sample that is a lag behind the     *)
(* newest, between two samples as well.                                       *)
LEMMA ReadBack ==
  ASSUME NEW g \in GranStates, RingHolds(g), NEW lag \in 2 .. 2 * GranCap
  PROVE  ReadHalf(g.buf, Behind(g.write, lag)) = 2 * (g.newest + 1) - lag
<1> DEFINE w == g.write
           n == g.newest
<1>1. w \in 0 .. GranCap - 1 /\ n \in Int /\ GranCap \in Nat /\ GranCap > 0 BY GranParts, GrainSizes
<1>2. PICK m \in 1 .. GranCap : lag = 2 * m \/ (lag = 2 * m - 1 /\ m > 1)
  <2>1. CASE lag % 2 = 0
    <3>1. lag = 2 * (lag \div 2) /\ lag \div 2 \in 1 .. GranCap BY <1>1, <2>1
    <3> QED BY <3>1
  <2>2. CASE lag % 2 # 0
    <3>1. lag = 2 * ((lag + 1) \div 2) - 1 /\ (lag + 1) \div 2 \in 2 .. GranCap BY <1>1, <2>2
    <3> QED BY <3>1
  <2> QED BY <2>1, <2>2
<1> DEFINE At(d) == IF w >= d THEN w - d ELSE w - d + GranCap
<1>3. ASSUME NEW d \in 1 .. GranCap
      PROVE  At(d) \in 0 .. GranCap - 1 /\ At(d) % GranCap = At(d) /\ g.buf[At(d)] = n + 1 - d
  <2>1. At(d) \in 0 .. GranCap - 1 BY <1>1
  <2>2. At(d) % GranCap = At(d) BY <1>1, <2>1
  <2>3. Age(GranCap, w, At(d)) = d - 1 BY <1>1 DEF Age
  <2>4. g.buf[At(d)] = n - (d - 1) BY <2>1, <2>3 DEF RingHolds
  <2>5. n - (d - 1) = n + 1 - d BY <1>1
  <2> QED BY <2>1, <2>2, <2>4, <2>5
<1>4. CASE lag = 2 * m
  <2>1. Behind(w, lag) = 2 * At(m) BY <1>1, <1>4 DEF Behind
  <2>2. (2 * At(m)) \div 2 = At(m) /\ (2 * At(m)) % 2 = 0 BY <1>3
  <2>3. ReadHalf(g.buf, 2 * At(m)) = 2 * (n + 1 - m) BY <1>3, <2>2 DEF ReadHalf
  <2> HIDE DEF At
  <2> QED BY <1>1, <1>4, <2>1, <2>3
<1>5. CASE lag = 2 * m - 1 /\ m > 1
  <2>1. Behind(w, lag) = 2 * At(m) + 1 BY <1>1, <1>5 DEF Behind
  <2>2. (2 * At(m) + 1) \div 2 = At(m) /\ (2 * At(m) + 1) % 2 = 1 BY <1>3
  <2>3. (At(m) + 1) % GranCap = At(m - 1)
    <3>1. At(m) + 1 \in 0 .. 2 * GranCap - 1 BY <1>1, <1>3
    <3>2. (At(m) + 1) % GranCap = IF At(m) + 1 < GranCap THEN At(m) + 1 ELSE At(m) + 1 - GranCap
      BY <1>1, <3>1, Around
    <3>3. At(m - 1) = IF At(m) + 1 < GranCap THEN At(m) + 1 ELSE At(m) + 1 - GranCap BY <1>1, <1>5
    <3> QED BY <3>2, <3>3
  <2>4. m - 1 \in 1 .. GranCap BY <1>1, <1>5
  <2>5. ReadHalf(g.buf, 2 * At(m) + 1) = g.buf[At(m)] + g.buf[At(m - 1)]
    BY <1>3, <2>2, <2>3 DEF ReadHalf
  <2>6. g.buf[At(m)] = n + 1 - m /\ g.buf[At(m - 1)] = n + 1 - (m - 1) BY <1>3, <2>4
  <2> HIDE DEF At
  <2> QED BY <1>1, <1>5, <2>1, <2>5, <2>6
<1> QED BY <1>2, <1>4, <1>5

(* The rates at which a grain stays behind the head.                          *)
LEMMA ReachesRate ==
  ASSUME NEW rate \in Nat \ {0}, NEW held \in BOOLEAN, Reaches(rate, held)
  PROVE  /\ rate \in 1 .. 4 /\ Reaches(rate, FALSE)
         /\ held => Roomy /\ rate <= 2
         /\ ~Roomy => rate = 2
BY GrainSizes DEF Reaches, Roomy

LEMMA Gone ==
  ASSUME NEW rate \in 1 .. 4, NEW prog \in Nat
  PROVE  /\ rate * prog \in Nat /\ prog <= rate * prog /\ rate * prog <= 4 * prog
         /\ rate <= 2 => rate * prog <= 2 * prog
         /\ rate * (prog + 1) = rate * prog + rate
<1>1. rate = 1 \/ rate = 2 \/ rate = 3 \/ rate = 4 OBVIOUS
<1> QED BY <1>1

LEMMA LagType ==
  ASSUME NEW g \in GranStates, NEW x \in GrainStates
  PROVE  Lag(g, x) \in Int /\ x.rate * x.prog \in Int /\ x.prog \in Nat /\ x.prog <= GrainLen
<1>1. x.rate \in Int /\ x.prog \in 0 .. GrainLen /\ x.first \in Int /\ g.newest \in Int BY GrainParts, GranParts
<1>2. x.prog \in Nat /\ x.prog <= GrainLen BY <1>1, GrainSizes
<1>3. x.rate * x.prog \in Int BY <1>1, <1>2
<1> QED BY <1>1, <1>2, <1>3 DEF Lag

(* A grain never reads at the head, nor a whole ring behind it.               *)
LEMMA TrailsInRing ==
  ASSUME NEW g \in GranStates, NEW x \in GrainStates, Trails(g, x), Reaches(x.rate, x.held)
  PROVE  Lag(g, x) \in 0 .. 2 * GranCap - 2
<1> DEFINE lag == Lag(g, x)
           gone == x.rate * x.prog
<1>1. lag \in Int /\ gone \in Int /\ x.prog \in 1 .. GrainLen - 1 BY LagType DEF Trails
<1>2. x.rate \in 1 .. 4 /\ x.held \in BOOLEAN /\ (x.held => x.rate <= 2)
  <2>1. x.held \in BOOLEAN /\ x.rate \in Nat \ {0} BY GrainParts
  <2> QED BY <2>1, ReachesRate
<1>3. x.prog <= gone /\ gone <= 4 * x.prog /\ (x.held => gone <= 2 * x.prog) BY <1>1, <1>2, Gone
<1>4. IF Roomy THEN Nearest(x, x.held) - (IF x.held THEN 0 ELSE 2) - gone <= lag /\ lag <= Farthest(x) - 4 - gone
      ELSE lag \in 0 .. 2 * GranCap - 2
  BY DEF Trails
<1> HIDE DEF lag, gone
<1>5. CASE Roomy
  <2>1. 3 * GrainLen <= GranCap BY <1>5 DEF Roomy
  <2>2. (IF x.held THEN 2 * GrainLen ELSE 2 * GrainLen + 2 * x.prog - 2) - gone <= lag BY <1>1, <1>2, <1>4, <1>5, GrainSizes DEF Nearest
  <2>3. lag <= 2 * GrainLen + GranCap + 2 * x.prog - 4 - gone BY <1>1, <1>4, <1>5, GrainSizes DEF Farthest
  <2>4. lag >= 0 BY <1>1, <1>2, <1>3, <2>2, GrainSizes
  <2>5. lag <= 2 * GranCap - 2 BY <1>1, <1>3, <2>1, <2>3, GrainSizes
  <2>6. lag \in 0 .. 2 * GranCap - 2 BY <1>1, <2>4, <2>5, GrainSizes
  <2> QED BY <2>6 DEF lag
<1>6. CASE ~Roomy BY <1>4, <1>6 DEF lag
<1> QED BY <1>5, <1>6

LEMMA AimedInRing ==
  ASSUME NEW g \in GranStates, NEW x \in GrainStates, Aimed(g, x), Reaches(x.rate, x.held \/ g.frozen)
  PROVE  Lag(g, x) \in 2 .. 2 * GranCap
<1> DEFINE lag == Lag(g, x)
           gone == x.rate * x.prog
           held == x.held \/ g.frozen
<1>1. lag \in Int /\ gone \in Int /\ x.prog \in 0 .. GrainLen - 1 BY LagType, GrainSizes DEF Aimed
<1>2. held \in BOOLEAN BY GrainParts, GranParts
<1>3. x.rate \in 1 .. 4 /\ (held => x.rate <= 2)
  <2> HIDE DEF held
  <2>1. Reaches(x.rate, held) BY DEF held
  <2> QED BY <1>2, <2>1, GrainParts, ReachesRate
<1>4. x.prog <= gone /\ gone <= 4 * x.prog /\ (held => gone <= 2 * x.prog)
  <2> HIDE DEF held
  <2> QED BY <1>1, <1>3, Gone
<1>5. IF Roomy THEN Nearest(x, held) - gone <= lag /\ lag <= Farthest(x) - 2 - gone ELSE lag \in 2 .. 2 * GranCap
  BY DEF Aimed
<1> HIDE DEF lag, gone, held
<1>6. CASE Roomy
  <2>1. 3 * GrainLen <= GranCap BY <1>6 DEF Roomy
  <2>2. 2 * GrainLen + (IF held THEN 0 ELSE 2 * x.prog) - gone <= lag BY <1>1, <1>2, <1>5, <1>6, GrainSizes DEF Nearest
  <2>3. lag <= 2 * GrainLen + GranCap + 2 * x.prog - 2 - gone BY <1>1, <1>5, <1>6, GrainSizes DEF Farthest
  <2>4. lag >= 2 BY <1>1, <1>2, <1>4, <2>2, GrainSizes
  <2>5. lag <= 2 * GranCap BY <1>1, <1>4, <2>1, <2>3, GrainSizes
  <2>6. lag \in 2 .. 2 * GranCap BY <1>1, <2>4, <2>5, GrainSizes
  <2> QED BY <2>6 DEF lag
<1>7. CASE ~Roomy BY <1>5, <1>7 DEF lag
<1> QED BY <1>6, <1>7

LEMMA BehindOn ==
  ASSUME NEW w \in 0 .. GranCap - 1, NEW lag \in 0 .. 2 * GranCap - 2
  PROVE  Behind(Onward(GranCap, w), lag + 2) = Behind(w, lag)
BY GrainSizes DEF Behind, Onward

LEMMA RecordedAims ==
  ASSUME NEW g, GranInv(g), NEW x \in GrainStates, Trails(g, x)
  PROVE  Aimed(Recorded(g), x)
<1> DEFINE r == Recorded(g)
           held == x.held \/ r.frozen
           lag == Lag(g, x)
           gone == x.rate * x.prog
<1>1. g \in GranStates /\ r \in GranStates /\ r.frozen = g.frozen /\ (g.frozen => r = g)
      /\ (~g.frozen => r.newest = g.newest + 1 /\ r.write = Onward(GranCap, g.write))
  BY RecordedRing DEF GranInv
<1> HIDE DEF r
<1>2. x.prog \in 1 .. GrainLen - 1 /\ x.prog < GrainLen BY GrainSizes DEF Trails
<1>3. SUFFICES ASSUME Reaches(x.rate, held)
               PROVE  /\ x.pos = Behind(r.write, Lag(r, x))
                      /\ IF Roomy THEN Nearest(x, held) - gone <= Lag(r, x) /\ Lag(r, x) <= Farthest(x) - 2 - gone
                         ELSE Lag(r, x) \in 2 .. 2 * GranCap
  BY <1>2 DEF Aimed, r
<1>4. lag \in Int /\ gone \in Int BY <1>1, LagType
<1>5. x.held \in BOOLEAN /\ g.frozen \in BOOLEAN /\ x.rate \in Nat \ {0} BY <1>1, GrainParts, GranParts
<1>6. Reaches(x.rate, x.held) /\ (held => Roomy)
  <2>1. held \in BOOLEAN BY <1>1, <1>5
  <2>2. (held => Roomy) /\ Reaches(x.rate, FALSE)
    <3> HIDE DEF held
    <3> QED BY <1>3, <1>5, <2>1, ReachesRate
  <2>3. ASSUME x.held PROVE Reaches(x.rate, x.held) BY <1>3, <1>5, <2>3
  <2>4. ASSUME ~x.held PROVE Reaches(x.rate, x.held)
    <3>1. x.held = FALSE BY <1>5, <2>4
    <3> QED BY <2>2, <3>1
  <2>5. Reaches(x.rate, x.held) BY <2>3, <2>4
  <2> HIDE DEF held
  <2> QED BY <2>2, <2>5
<1>7. x.pos = Behind(g.write, lag)
      /\ IF Roomy THEN Nearest(x, x.held) - (IF x.held THEN 0 ELSE 2) - gone <= lag /\ lag <= Farthest(x) - 4 - gone
         ELSE lag \in 0 .. 2 * GranCap - 2
  BY <1>6 DEF Trails
<1>8. lag \in 0 .. 2 * GranCap - 2 BY <1>1, <1>6, TrailsInRing
<1>9. CASE g.frozen
  <2>1. r = g /\ held /\ Roomy BY <1>1, <1>6, <1>9
  <2>2. Nearest(x, held) - gone <= lag
    <3>1. (IF x.held THEN 2 * GrainLen ELSE 2 * GrainLen + 2 * x.prog - 2) - gone <= lag
      BY <1>2, <1>4, <1>5, <1>7, <2>1, GrainSizes DEF Nearest
    <3>2. Nearest(x, held) = 2 * GrainLen BY <2>1, GrainSizes DEF Nearest
    <3> HIDE DEF held, lag, gone
    <3> QED BY <1>2, <1>4, <1>5, <3>1, <3>2, GrainSizes
  <2>3. lag <= Farthest(x) - 2 - gone
    <3>1. Farthest(x) \in Int BY <1>2, GrainSizes DEF Farthest
    <3> HIDE DEF lag, gone
    <3> QED BY <1>4, <1>7, <2>1, <3>1
  <2> HIDE DEF held, gone
  <2> QED BY <1>7, <2>1, <2>2, <2>3
<1>10. CASE ~g.frozen
  <2>1. held = x.held BY <1>1, <1>5, <1>10
  <2>2. Lag(r, x) = lag + 2
    <3>1. r.newest = g.newest + 1 /\ g.newest \in Int BY <1>1, <1>10, GranParts
    <3>2. x.first \in Int BY GrainParts
    <3> HIDE DEF r
    <3> QED BY <1>4, <3>1, <3>2 DEF Lag
  <2>3. Behind(r.write, lag + 2) = Behind(g.write, lag)
    <3>1. g.write \in 0 .. GranCap - 1 BY <1>1, GranParts
    <3> HIDE DEF lag
    <3> QED BY <1>1, <1>8, <1>10, <3>1, BehindOn
  <2>4. CASE Roomy
    <3>1. Farthest(x) \in Int BY <1>2, GrainSizes DEF Farthest
    <3>2. lag + 2 <= Farthest(x) - 2 - gone
      <4> HIDE DEF lag, gone
      <4> QED BY <1>4, <1>7, <2>4, <3>1
    <3>3. Nearest(x, x.held) \in Int BY <1>2, <1>5, GrainSizes DEF Nearest
    <3>4. Nearest(x, x.held) - (IF x.held THEN 0 ELSE 2) - gone <= lag BY <1>7, <2>4
    <3>5. Nearest(x, x.held) - gone <= lag + 2
      <4> HIDE DEF lag, gone
      <4> QED BY <1>4, <1>5, <3>3, <3>4
    <3> HIDE DEF held, lag, gone
    <3> QED BY <1>7, <2>1, <2>2, <2>3, <2>4, <3>2, <3>5
  <2>5. CASE ~Roomy
    <3>1. lag + 2 \in 2 .. 2 * GranCap
      <4> HIDE DEF lag
      <4> QED BY <1>8, GrainSizes
    <3> HIDE DEF held, lag, gone
    <3> QED BY <1>7, <2>2, <2>3, <2>5, <3>1
  <2> QED BY <2>4, <2>5
<1> QED BY <1>9, <1>10

(* A new grain: the sample of its backoff is where it starts, and a backoff   *)
(* that is a multiple of the ring starts it at the head, a ring behind.       *)
Started(g, start) == GrainOf(TRUE, 2 * start, g.pitch, 0, g.frozen, 2 * g.buf[start], 2 * g.buf[start])

LEMMA StartLag ==
  ASSUME NEW g \in GranStates, RingHolds(g), NEW b \in Backoffs
  PROVE  LET start == StartAt(g, b)
             lag == 2 * (g.newest + 1) - 2 * g.buf[start]
         IN  /\ start \in 0 .. GranCap - 1 /\ 2 * start = Behind(g.write, lag) /\ lag \in 2 .. 2 * GranCap
             /\ Roomy => lag = 2 * b
<1> DEFINE w == g.write
           c == b % GranCap
           start == StartAt(g, b)
           lag == IF c = 0 THEN 2 * GranCap ELSE 2 * c
<1>1. w \in 0 .. GranCap - 1 /\ g.newest \in Int /\ GranCap \in Nat /\ GranCap > 0 /\ GranCap \in Nat \ {0} BY GranParts, GrainSizes
<1>2. b \in Nat /\ GrainLen <= b /\ 2 * b <= 2 * GrainLen + GranCap - 2 BY GrainSizes
<1>3. c \in 0 .. GranCap - 1 BY <1>1, <1>2, Remains
<1>4. Roomy => c = b /\ b > 0
  <2>1. ASSUME Roomy PROVE b \in 0 .. 2 * GranCap - 1 /\ b < GranCap /\ b > 0 BY <1>1, <1>2, <2>1, GrainSizes DEF Roomy
  <2>2. ASSUME Roomy PROVE c = b BY <1>1, <2>1, <2>2, Around
  <2> QED BY <2>1, <2>2
<1> DEFINE y == w + GranCap - c
<1>5. start = y % GranCap BY <1>1, <1>2 DEF StartAt
<1>13. y \in 0 .. 2 * GranCap - 1 BY <1>1, <1>3
<1> HIDE DEF c
<1>6. start = IF c > w THEN w + GranCap - c ELSE w - c
  <2> HIDE DEF y
  <2>1. y % GranCap = IF y < GranCap THEN y ELSE y - GranCap BY <1>1, <1>13, Around
  <2> QED BY <1>1, <1>3, <1>5, <2>1 DEF y
<1> HIDE DEF start
<1>7. start \in 0 .. GranCap - 1 BY <1>1, <1>3, <1>6
<1>8. 2 * (Age(GranCap, w, start) + 1) = lag BY <1>1, <1>3, <1>6 DEF Age
<1>9. 2 * (g.newest + 1) - 2 * g.buf[start] = lag
  <2>1. g.buf[start] = g.newest - Age(GranCap, w, start) BY <1>7 DEF RingHolds
  <2>2. Age(GranCap, w, start) \in 0 .. GranCap - 1 BY <1>1, <1>7, Ages
  <2> HIDE DEF lag
  <2> QED BY <1>1, <1>8, <2>1, <2>2
<1>10. 2 * start = Behind(w, lag) BY <1>1, <1>3, <1>6 DEF Behind
<1>11. lag \in 2 .. 2 * GranCap BY <1>1, <1>3
<1>12. Roomy => lag = 2 * b BY <1>4
<1> HIDE DEF lag
<1> QED BY <1>7, <1>9, <1>10, <1>11, <1>12 DEF start

LEMMA StartedAims ==
  ASSUME NEW g \in GranStates, RingHolds(g), NEW b \in Backoffs
  PROVE  Started(g, StartAt(g, b)) \in GrainStates /\ Aimed(g, Started(g, StartAt(g, b)))
<1> DEFINE start == StartAt(g, b)
           x == Started(g, start)
           lag == 2 * (g.newest + 1) - 2 * g.buf[start]
<1>1. start \in 0 .. GranCap - 1 /\ 2 * start = Behind(g.write, lag) /\ lag \in 2 .. 2 * GranCap
      /\ (Roomy => lag = 2 * b)
  BY StartLag
<1> HIDE DEF start
<1>2. g.buf[start] \in Int BY <1>1, GranParts
<1>3. x \in GrainStates
  <2>1. 2 * start \in Nat /\ 2 * g.buf[start] \in Int /\ 0 \in 0 .. GrainLen BY <1>1, <1>2, GrainSizes
  <2> QED BY <2>1, GranParts DEF Started, GrainOf, GrainStates
<1>4. x.pos = 2 * start /\ x.rate = g.pitch /\ x.prog = 0 /\ x.held = g.frozen /\ x.first = 2 * g.buf[start]
  BY DEF Started, GrainOf
<1> HIDE DEF x
<1>5. x.rate * x.prog = 0
  <2>1. x.rate \in Int /\ x.prog = 0 BY <1>3, <1>4, GrainParts
  <2> QED BY <2>1
<1>6. Lag(g, x) = lag
  <2>1. x.first \in Int BY <1>3, GrainParts
  <2> QED BY <1>2, <1>4, <1>5, <2>1 DEF Lag
<1> HIDE DEF lag
<1>7. ASSUME Roomy, NEW held \in BOOLEAN
      PROVE  Nearest(x, held) - x.rate * x.prog <= lag /\ lag <= Farthest(x) - 2 - x.rate * x.prog
  <2>1. b \in Nat /\ GrainLen <= b /\ 2 * b <= 2 * GrainLen + GranCap - 2 BY GrainSizes
  <2>2. Nearest(x, held) = 2 * GrainLen /\ Farthest(x) = 2 * GrainLen + GranCap
    BY <1>4, <1>7, GrainSizes DEF Nearest, Farthest
  <2> QED BY <1>1, <1>5, <1>7, <2>1, <2>2, GrainSizes
<1>8. (x.held \/ g.frozen) \in BOOLEAN BY <1>3, GrainParts, GranParts
<1>9. x.prog < GrainLen BY <1>4, GrainSizes
<1>10. Aimed(g, x) BY <1>1, <1>4, <1>6, <1>7, <1>8, <1>9 DEF Aimed
<1> QED BY <1>3, <1>10 DEF x, start

LEMMA RecordedMid == ASSUME NEW g, GranInv(g) PROVE GranMid(Recorded(g))
<1> DEFINE r == Recorded(g)
<1>1. r \in GranStates /\ RingHolds(r) /\ r.grains = g.grains BY RecordedRing
<1>2. ASSUME NEW k \in 1 .. MaxGrains
      PROVE  IF r.grains[k].on THEN Aimed(r, r.grains[k]) ELSE ReadsOn(r.grains[k])
  <2>1. CASE r.grains[k].on
    <3>1. r.grains[k] \in GrainStates BY <1>1, <2>1, OnIsGrain
    <3>2. Trails(g, r.grains[k]) BY <1>1, <2>1 DEF GranInv
    <3> QED BY <2>1, <3>1, <3>2, RecordedAims
  <2>2. CASE ~r.grains[k].on
    <3>1. ReadsOn(r.grains[k]) BY <1>1 DEF GranInv
    <3> QED BY <2>2, <3>1
  <2> QED BY <2>1, <2>2
<1> HIDE DEF r
<1>3. GranMid(r) BY <1>1, <1>2 DEF GranMid
<1> QED BY <1>3 DEF r

LEMMA SpawnMid ==
  ASSUME NEW g, GranMid(g), NEW b \in Backoffs
  PROVE  GranMid(Spawn(g, b)) /\ Spawn(g, b).frozen = g.frozen
<1> DEFINE free == {k \in 1 .. MaxGrains : ~g.grains[k].on}
           slot == CHOOSE k \in free : \A j \in free : k <= j
           x == Started(g, StartAt(g, b))
           pool == [g.grains EXCEPT ![slot] = x]
           s == Spawn(g, b)
<1>1. g \in GranStates /\ RingHolds(g) BY DEF GranMid
<1>2. CASE free = {} BY <1>2 DEF Spawn
<1>3. CASE free # {}
  <2>1. s = [g EXCEPT !.grains[slot] = x] BY <1>3 DEF Spawn, Started, GrainOf
  <2>2. x \in GrainStates /\ Aimed(g, x) /\ x.on
    <3>1. x \in GrainStates /\ Aimed(g, x) BY <1>1, StartedAims
    <3>2. x.on BY DEF Started, GrainOf
    <3> QED BY <3>1, <3>2
  <2> HIDE DEF slot, x, s
  <2>3. s = GranOf(g.buf, g.newest, g.write, g.frozen, g.timer, g.next, g.pitch, pool)
    BY <1>1, <2>1 DEF GranOf, GranStates
  <2>4. pool \in [1 .. MaxGrains -> GrainStates \cup {NoGrain}] BY <1>1, <2>2, GranParts
  <2>5. ASSUME NEW k \in 1 .. MaxGrains PROVE pool[k] = x \/ pool[k] = g.grains[k] BY <1>1, GranParts
  <2> HIDE DEF pool
  <2>6. s \in GranStates BY <1>1, <2>3, <2>4, GranParts DEF GranOf, GranStates
  <2>7. s.buf = g.buf /\ s.newest = g.newest /\ s.write = g.write /\ s.frozen = g.frozen /\ s.grains = pool
    BY <2>3 DEF GranOf
  <2>8. RingHolds(s) BY <1>1, <2>7 DEF RingHolds
  <2>9. ASSUME NEW y, Aimed(g, y) PROVE Aimed(s, y) BY <2>7, <2>9 DEF Aimed, Lag
  <2>10. ASSUME NEW k \in 1 .. MaxGrains
         PROVE  IF s.grains[k].on THEN Aimed(s, s.grains[k]) ELSE ReadsOn(s.grains[k])
    <3>1. CASE pool[k] = x BY <2>2, <2>7, <2>9, <3>1
    <3>2. CASE pool[k] = g.grains[k]
      <4>1. IF g.grains[k].on THEN Aimed(g, g.grains[k]) ELSE ReadsOn(g.grains[k]) BY DEF GranMid
      <4> QED BY <2>7, <2>9, <3>2, <4>1
    <3> QED BY <2>5, <3>1, <3>2
  <2> QED BY <2>6, <2>7, <2>8, <2>10 DEF GranMid, s
<1> QED BY <1>2, <1>3

LEMMA ClockedMid ==
  ASSUME NEW g, GranMid(g), NEW t \in Nat, NEW n \in Nat,
         NEW h, h = GranOf(g.buf, g.newest, g.write, g.frozen, t, n, g.pitch, g.grains)
  PROVE  GranMid(h) /\ h.frozen = g.frozen
<1>1. g \in GranStates BY DEF GranMid
<1>2. h \in GranStates BY <1>1, GranParts DEF GranOf, GranStates
<1>3. h.buf = g.buf /\ h.newest = g.newest /\ h.write = g.write /\ h.frozen = g.frozen /\ h.grains = g.grains
  BY DEF GranOf
<1>4. RingHolds(h) BY <1>3 DEF GranMid, RingHolds
<1>5. ASSUME NEW y, Aimed(g, y) PROVE Aimed(h, y) BY <1>3, <1>5 DEF Aimed, Lag
<1> QED BY <1>2, <1>3, <1>4, <1>5 DEF GranMid

LEMMA HeldInv == ASSUME NEW g, GranInv(g), NEW on \in BOOLEAN PROVE GranInv([g EXCEPT !.frozen = on])
<1> DEFINE h == [g EXCEPT !.frozen = on]
<1>1. g \in GranStates BY DEF GranInv
<1>2. h = GranOf(g.buf, g.newest, g.write, on, g.timer, g.next, g.pitch, g.grains) BY <1>1 DEF GranOf, GranStates
<1> HIDE DEF h
<1>3. h \in GranStates BY <1>1, <1>2, GranParts DEF GranOf, GranStates
<1>4. h.buf = g.buf /\ h.newest = g.newest /\ h.write = g.write /\ h.grains = g.grains BY <1>2 DEF GranOf
<1>5. GranInv(h) BY <1>3, <1>4 DEF GranInv, RingHolds, Trails, Lag
<1> QED BY <1>5 DEF h

(* One sample of a grain: it reads what lies at its lag, and goes on.         *)
LEMMA GrainTicked ==
  ASSUME NEW g \in GranStates, RingHolds(g), NEW x \in GrainStates, x.on, Aimed(g, x)
  PROVE  LET y == GrainTick(g, x) IN y \in GrainStates /\ ReadsOn(y) /\ (y.on => Trails(g, y))
<1> DEFINE pos == IF x.pos + x.rate >= 2 * GranCap THEN x.pos + x.rate - 2 * GranCap ELSE x.pos + x.rate
           held == x.held \/ g.frozen
           on == x.prog + 1 < GrainLen
           read == ReadHalf(g.buf, x.pos)
           y == GrainTick(g, x)
           lag == Lag(g, x)
           gone == x.rate * x.prog
<1>1. x.pos \in Nat /\ x.rate \in Nat \ {0} /\ x.prog \in Nat /\ x.prog < GrainLen /\ x.held \in BOOLEAN /\ x.first \in Int
      /\ g.frozen \in BOOLEAN /\ g.write \in 0 .. GranCap - 1 /\ g.newest \in Int
      /\ GranCap \in Nat \ {0} /\ GrainLen \in Nat \ {0}
  BY GrainParts, GranParts, GrainSizes DEF Aimed
<1>2. lag \in Int /\ gone \in Int BY LagType
<1>3. y = [x EXCEPT !.read = read, !.prog = @ + 1, !.on = on, !.held = held, !.pos = pos] BY DEF GrainTick
<1>4. y = GrainOf(on, pos, x.rate, x.prog + 1, held, read, x.first) BY <1>3 DEF GrainOf, GrainStates
<1>5. read \in Int
  <2>1. x.pos \div 2 \in Nat /\ x.pos \div 2 + 1 \in Nat BY <1>1
  <2>2. (x.pos \div 2) % GranCap \in 0 .. GranCap - 1 /\ (x.pos \div 2 + 1) % GranCap \in 0 .. GranCap - 1
    BY <1>1, <2>1, Remains
  <2>3. g.buf[(x.pos \div 2) % GranCap] \in Int /\ g.buf[(x.pos \div 2 + 1) % GranCap] \in Int BY <2>2, GranParts
  <2> QED BY <2>3 DEF ReadHalf
<1>6. held \in BOOLEAN /\ on \in BOOLEAN /\ pos \in Nat /\ x.prog + 1 \in 0 .. GrainLen BY <1>1
<1> HIDE DEF read, held, on, y
<1>7. y \in GrainStates
  <2> HIDE DEF pos
  <2> QED BY <1>1, <1>4, <1>5, <1>6 DEF GrainOf, GrainStates
<1>8. y.pos = pos /\ y.rate = x.rate /\ y.prog = x.prog + 1 /\ y.held = held /\ y.read = read /\ y.first = x.first /\ y.on = on
  BY <1>4 DEF GrainOf
<1> HIDE DEF pos
<1>9. SUFFICES ASSUME Reaches(x.rate, held)
               PROVE  /\ read = x.first + gone
                      /\ on => /\ pos = Behind(g.write, Lag(g, y))
                               /\ IF Roomy THEN /\ Nearest(y, held) - (IF held THEN 0 ELSE 2) - x.rate * (x.prog + 1) <= Lag(g, y)
                                                /\ Lag(g, y) <= Farthest(y) - 4 - x.rate * (x.prog + 1)
                                  ELSE Lag(g, y) \in 0 .. 2 * GranCap - 2
  <2>1. y.rate * (y.prog - 1) = gone
    <3>1. y.prog - 1 = x.prog BY <1>1, <1>8
    <3> QED BY <1>8, <3>1
  <2>2. on => x.prog + 1 \in 1 .. GrainLen - 1 BY <1>1 DEF on
  <2>3. ReadsOn(y)
    <3> HIDE DEF gone
    <3>1. Reaches(y.rate, y.held) => y.read = y.first + gone BY <1>8, <1>9
    <3> QED BY <2>1, <3>1 DEF ReadsOn
  <2>4. y.on => Trails(g, y) BY <1>8, <1>9, <2>2 DEF Trails
  <2> QED BY <1>7, <2>3, <2>4 DEF y
<1>10. Reaches(x.rate, x.held \/ g.frozen) BY <1>9 DEF held
<1>11. /\ x.pos = Behind(g.write, lag)
       /\ IF Roomy THEN Nearest(x, held) - gone <= lag /\ lag <= Farthest(x) - 2 - gone ELSE lag \in 2 .. 2 * GranCap
  BY <1>9 DEF Aimed, held
<1>12. lag \in 2 .. 2 * GranCap BY <1>10, AimedInRing
<1>13. x.rate \in 1 .. 4 /\ (~Roomy => x.rate = 2) BY <1>1, <1>6, <1>9, ReachesRate
<1>14. x.rate * (x.prog + 1) = gone + x.rate BY <1>1, <1>13, Gone
<1>15. read = x.first + gone
  <2>1. read = 2 * (g.newest + 1) - lag
    <3> HIDE DEF lag
    <3> QED BY <1>11, <1>12, ReadBack DEF read
  <2> QED BY <1>1, <1>2, <2>1 DEF Lag
<1>16. Lag(g, y) = lag - x.rate BY <1>1, <1>2, <1>8, <1>14 DEF Lag
<1> HIDE DEF lag, gone
<1>17. ASSUME lag >= x.rate PROVE pos = Behind(g.write, lag - x.rate)
  BY <1>1, <1>11, <1>12, <1>13, <1>17 DEF pos, Behind
<1>18. ASSUME on PROVE lag >= x.rate
  <2>1. x.prog + 1 <= GrainLen - 1 BY <1>1, <1>18 DEF on
  <2>2. gone <= 4 * x.prog /\ (held => x.rate <= 2 /\ gone <= 2 * x.prog) BY <1>1, <1>6, <1>9, <1>13, Gone, ReachesRate DEF gone
  <2>3. CASE Roomy
    <3>1. 2 * GrainLen + (IF held THEN 0 ELSE 2 * x.prog) - gone <= lag
      BY <1>1, <1>2, <1>6, <1>11, <2>3 DEF Nearest
    <3> QED BY <1>1, <1>2, <1>6, <1>13, <2>1, <2>2, <3>1
  <2>4. CASE ~Roomy BY <1>1, <1>12, <1>13, <2>4
  <2> QED BY <2>3, <2>4
<1>19. CASE Roomy
  <2>1. Nearest(y, held) - (IF held THEN 0 ELSE 2) = Nearest(x, held) /\ Nearest(x, held) \in Int
    BY <1>1, <1>6, <1>8 DEF Nearest
  <2>2. Farthest(y) = Farthest(x) + 2 /\ Farthest(x) \in Int BY <1>1, <1>8 DEF Farthest
  <2>3. Nearest(x, held) - (gone + x.rate) <= lag - x.rate /\ lag - x.rate <= Farthest(y) - 4 - (gone + x.rate)
    BY <1>1, <1>2, <1>11, <1>19, <2>1, <2>2
  <2> QED BY <1>14, <1>15, <1>16, <1>17, <1>18, <1>19, <2>1, <2>3
<1>20. CASE ~Roomy
  <2>1. lag - x.rate \in 0 .. 2 * GranCap - 2 BY <1>1, <1>12, <1>13, <1>20
  <2> QED BY <1>15, <1>16, <1>17, <1>18, <1>20, <2>1
<1> QED BY <1>19, <1>20

LEMMA TickedInv == ASSUME NEW g, GranMid(g) PROVE GranInv(Ticked(g)) /\ Ticked(g).frozen = g.frozen
<1> DEFINE pool == [k \in 1 .. MaxGrains |-> GrainTick(g, g.grains[k])]
           t == Ticked(g)
<1>1. g \in GranStates /\ RingHolds(g) BY DEF GranMid
<1>2. t = [g EXCEPT !.grains = pool] BY DEF Ticked
<1>3. ASSUME NEW k \in 1 .. MaxGrains
      PROVE  /\ pool[k] \in GrainStates \cup {NoGrain}
             /\ ReadsOn(pool[k]) /\ (pool[k].on => Trails(g, pool[k]))
  <2>1. pool[k] = GrainTick(g, g.grains[k]) OBVIOUS
  <2>2. CASE g.grains[k].on
    <3>1. g.grains[k] \in GrainStates /\ Aimed(g, g.grains[k]) BY <1>1, <2>2, OnIsGrain DEF GranMid
    <3> HIDE DEF pool
    <3> QED BY <1>1, <2>1, <2>2, <3>1, GrainTicked
  <2>3. CASE ~g.grains[k].on
    <3>1. pool[k] = g.grains[k] BY <2>1, <2>3 DEF GrainTick
    <3>2. g.grains[k] \in GrainStates \cup {NoGrain} /\ ReadsOn(g.grains[k]) BY <1>1, <2>3, GranParts DEF GranMid
    <3> HIDE DEF pool
    <3> QED BY <2>3, <3>1, <3>2
  <2> QED BY <2>2, <2>3
<1>4. pool \in [1 .. MaxGrains -> GrainStates \cup {NoGrain}] BY <1>3
<1> HIDE DEF pool, t
<1>5. t = GranOf(g.buf, g.newest, g.write, g.frozen, g.timer, g.next, g.pitch, pool) BY <1>1, <1>2 DEF GranOf, GranStates
<1>6. t \in GranStates BY <1>1, <1>4, <1>5, GranParts DEF GranOf, GranStates
<1>7. t.buf = g.buf /\ t.newest = g.newest /\ t.write = g.write /\ t.frozen = g.frozen /\ t.grains = pool BY <1>5 DEF GranOf
<1>8. RingHolds(t) BY <1>1, <1>7 DEF RingHolds
<1>9. ASSUME NEW y, Trails(g, y) PROVE Trails(t, y) BY <1>7, <1>9 DEF Trails, Lag
<1>10. ASSUME NEW k \in 1 .. MaxGrains PROVE ReadsOn(t.grains[k]) /\ (t.grains[k].on => Trails(t, t.grains[k]))
  BY <1>3, <1>7, <1>9
<1>11. GranInv(t) BY <1>6, <1>8, <1>10 DEF GranInv
<1> QED BY <1>7, <1>11 DEF t

LEMMA GranTickInv == ASSUME GranInv(gran), GranTick PROVE GranInv(gran') /\ gran'.frozen = gran.frozen
<1>1. gran \in GranStates BY DEF GranInv
<1>2. CASE gran.timer + 1 < gran.next
  <2> DEFINE r == Recorded(gran)
           t == [r EXCEPT !.timer = @ + 1]
  <2>1. gran' = Ticked(t) BY <1>2 DEF GranTick
  <2>2. GranMid(r) /\ r.frozen = gran.frozen BY RecordedMid, RecordedRing
  <2> HIDE DEF r
  <2>3. r \in GranStates /\ r.timer + 1 \in Nat /\ r.next \in Nat BY <2>2, GranParts DEF GranMid
  <2>4. t = GranOf(r.buf, r.newest, r.write, r.frozen, r.timer + 1, r.next, r.pitch, r.grains)
    BY <2>3 DEF GranOf, GranStates
  <2> HIDE DEF t
  <2>5. ASSUME NEW clock \in Nat, clock = r.timer + 1 PROVE GranMid(t) /\ t.frozen = r.frozen
    <3>1. t = GranOf(r.buf, r.newest, r.write, r.frozen, clock, r.next, r.pitch, r.grains) BY <2>4, <2>5
    <3> QED BY <2>2, <2>3, <3>1, ClockedMid
  <2>6. GranMid(t) /\ t.frozen = gran.frozen BY <2>2, <2>3, <2>5
  <2> QED BY <2>1, <2>6, TickedInv
<1>3. CASE ~(gran.timer + 1 < gran.next)
  <2>1. PICK backoff \in Backoffs, gap \in SpawnGaps :
          gran' = Ticked([Spawn(Recorded(gran), backoff) EXCEPT !.timer = 0, !.next = gap])
    BY <1>3 DEF GranTick
  <2> DEFINE s == Spawn(Recorded(gran), backoff)
             u == [s EXCEPT !.timer = 0]
             t == [u EXCEPT !.next = gap]
  <2>2. GranMid(s) /\ s.frozen = gran.frozen BY RecordedMid, RecordedRing, SpawnMid
  <2>3. 0 \in Nat /\ gap \in Nat BY GrainSizes
  <2>4. [Spawn(Recorded(gran), backoff) EXCEPT !.timer = 0, !.next = gap] = t OBVIOUS
  <2> HIDE DEF s
  <2>5. u = GranOf(s.buf, s.newest, s.write, s.frozen, 0, s.next, s.pitch, s.grains)
    BY <2>2 DEF GranMid, GranOf, GranStates
  <2> HIDE DEF u
  <2>6. t = GranOf(s.buf, s.newest, s.write, s.frozen, 0, gap, s.pitch, s.grains) BY <2>5 DEF GranOf
  <2> HIDE DEF t
  <2>7. ASSUME NEW zero \in Nat, zero = 0 PROVE GranMid(t) /\ t.frozen = s.frozen
    <3>1. t = GranOf(s.buf, s.newest, s.write, s.frozen, zero, gap, s.pitch, s.grains) BY <2>6, <2>7
    <3> QED BY <2>2, <2>3, <3>1, ClockedMid
  <2>8. GranMid(t) /\ t.frozen = gran.frozen BY <2>2, <2>3, <2>7
  <2> QED BY <2>1, <2>4, <2>8, TickedInv
<1> QED BY <1>2, <1>3

-----------------------------------------------------------------------------
(* The pad.                                                                   *)

PadStates == [mode : Modes, gate : BOOLEAN, level : 0 .. Swell, now : 0 .. PadTicks, moves : 0 .. PadMoves,
              switched : BOOLEAN, last : Modes]

LEMMA PadInit == ASSUME TexturesInit PROVE TexturesInv
<1>1. FrzInv(frz) /\ GranInv(gran) BY FrzNewInv, GranNewInv DEF TexturesInit
<1>2. pad \in PadStates BY PadAssumption DEF TexturesInit, PadStates, Modes
<1>3. HoldInv BY DEF TexturesInit, HoldInv, FrzNew, GranNew
<1> QED BY <1>1, <1>2, <1>3 DEF TexturesInv, PadTypeOK, FrzInv, GranInv, FrzStates, GranStates, GrainStates, PadStates, Grain

LEMMA PadStep == ASSUME TexturesInv, [TexturesNext]_padVars PROVE TexturesInv'
<1>1. FrzInv(frz) /\ GranInv(gran) /\ pad \in PadStates /\ HoldInv BY DEF TexturesInv, PadTypeOK, PadStates
<1>2. /\ pad.gate \in BOOLEAN /\ frz.frozen \in BOOLEAN /\ gran.frozen \in BOOLEAN /\ pad.mode \in Modes /\ pad.switched \in BOOLEAN
      /\ pad.last \in Modes
  BY <1>1 DEF PadStates, FrzInv, FrzStates, GranInv, GranStates
<1>3. SUFFICES FrzInv(frz') /\ GranInv(gran') /\ pad' \in PadStates /\ HoldInv'
  BY DEF TexturesInv, PadTypeOK, FrzInv, GranInv, FrzStates, GranStates, GrainStates, PadStates, Grain
<1>4. ASSUME SetMode PROVE FrzInv(frz') /\ GranInv(gran') /\ pad' \in PadStates /\ HoldInv'
  <2>1. frz' = frz /\ gran' = gran BY <1>4 DEF SetMode
  <2>2. PICK m \in Modes \ {pad.mode} :
          pad' = [pad EXCEPT !.mode = m, !.moves = @ + 1, !.switched = @ \/ pad.gate]
    BY <1>4 DEF SetMode
  <2>3. pad.moves + 1 \in 0 .. PadMoves BY <1>1, <1>4, PadAssumption DEF SetMode, Move, PadStates
  <2>4. pad' \in PadStates BY <1>1, <1>2, <2>2, <2>3 DEF PadStates
  <2>5. /\ pad'.mode # pad.mode /\ pad'.mode \in Modes /\ pad'.gate = pad.gate /\ pad'.switched = (pad.switched \/ pad.gate)
        /\ pad'.last = pad.last
    BY <1>1, <2>2 DEF PadStates
  <2>6. HoldInv' BY <1>1, <1>2, <2>1, <2>5 DEF HoldInv, Modes
  <2> QED BY <1>1, <2>1, <2>4, <2>6
<1>5. ASSUME SetFreeze PROVE FrzInv(frz') /\ GranInv(gran') /\ pad' \in PadStates /\ HoldInv'
  <2>1. PICK on \in BOOLEAN :
          HeldEngines(on) /\ pad' = [pad EXCEPT !.gate = on, !.moves = @ + 1, !.last = pad.mode]
    BY <1>5 DEF SetFreeze
  <2>2. pad.moves + 1 \in 0 .. PadMoves BY <1>1, <1>5, PadAssumption DEF SetFreeze, Move, PadStates
  <2>3. pad' \in PadStates BY <1>1, <1>2, <2>1, <2>2 DEF PadStates
  <2>4. pad'.mode = pad.mode /\ pad'.gate = on /\ pad'.switched = pad.switched /\ pad'.last = pad.mode BY <1>1, <2>1 DEF PadStates
  <2>5. CASE pad.mode = "freeze"
    <3>1. gran' = gran /\ frz' = (IF on THEN Freeze(frz) ELSE Unfreeze(frz)) BY <2>1, <2>5 DEF HeldEngines
    <3>2. FrzInv(frz') BY <1>1, <3>1, FreezeInv, UnfreezeInv
    <3>3. frz'.frozen = on BY <1>1, <1>2, <3>1 DEF Freeze, Unfreeze, FrzInv, FrzStates
    <3>4. HoldInv' BY <1>1, <2>4, <2>5, <3>1, <3>3 DEF HoldInv
    <3> QED BY <1>1, <2>3, <3>1, <3>2, <3>4
  <2>6. CASE pad.mode = "granular"
    <3>1. frz' = frz /\ gran' = [gran EXCEPT !.frozen = on] BY <2>1, <2>6 DEF HeldEngines
    <3>2. GranInv(gran') BY <1>1, <3>1, HeldInv
    <3>3. gran'.frozen = on BY <1>1, <3>1 DEF GranInv, GranStates
    <3>4. HoldInv' BY <1>1, <2>4, <2>6, <3>1, <3>3 DEF HoldInv
    <3> QED BY <1>1, <2>3, <3>1, <3>2, <3>4
  <2> QED BY <1>2, <2>5, <2>6 DEF Modes
<1>6. ASSUME SetPitch PROVE FrzInv(frz') /\ GranInv(gran') /\ pad' \in PadStates /\ HoldInv'
  <2>1. frz' = frz /\ pad' = [pad EXCEPT !.moves = @ + 1] BY <1>6 DEF SetPitch
  <2>2. PICK p \in Pitches : gran' = [gran EXCEPT !.pitch = p] BY <1>6 DEF SetPitch
  <2>3. GranInv(gran') BY <1>1, <2>2, GrainSizes, PitchInv
  <2>4. gran'.frozen = gran.frozen BY <1>1, <2>2 DEF GranInv, GranStates
  <2>5. pad.moves + 1 \in 0 .. PadMoves BY <1>1, <1>6, PadAssumption DEF SetPitch, Move, PadStates
  <2>6. pad' \in PadStates BY <1>1, <2>1, <2>5 DEF PadStates
  <2>7. pad'.mode = pad.mode /\ pad'.gate = pad.gate /\ pad'.switched = pad.switched /\ pad'.last = pad.last
    BY <1>1, <2>1 DEF PadStates
  <2>8. HoldInv' BY <1>1, <2>1, <2>4, <2>7 DEF HoldInv
  <2> QED BY <1>1, <2>1, <2>3, <2>6, <2>8
<1>7. ASSUME PadTick PROVE FrzInv(frz') /\ GranInv(gran') /\ pad' \in PadStates /\ HoldInv'
  <2> DEFINE level == IF pad.gate THEN (IF pad.level < Swell THEN pad.level + 1 ELSE pad.level)
                      ELSE IF pad.level > 0 THEN pad.level - 1 ELSE pad.level
  <2>1. pad' = [pad EXCEPT !.now = @ + 1, !.level = level] BY <1>7 DEF PadTick
  <2>2. pad.now + 1 \in 0 .. PadTicks BY <1>1, <1>7, PadAssumption DEF PadTick, PadStates
  <2>3. level \in 0 .. Swell BY <1>1, <1>2, PadAssumption DEF PadStates
  <2> HIDE DEF level
  <2>4. pad' \in PadStates BY <1>1, <2>1, <2>2, <2>3 DEF PadStates
  <2>5. pad'.mode = pad.mode /\ pad'.gate = pad.gate /\ pad'.switched = pad.switched /\ pad'.last = pad.last
    BY <1>1, <2>1 DEF PadStates
  <2>6. CASE pad.mode = "freeze"
    <3>1. frz' = FrzTick(frz) /\ gran' = gran BY <1>7, <2>6 DEF PadTick
    <3>2. FrzInv(frz') BY <1>1, <3>1, FrzTickInv
    <3>3. frz'.frozen = frz.frozen BY <1>1, <3>1 DEF FrzTick, FrzInv, FrzStates
    <3>4. HoldInv' BY <1>1, <2>5, <3>1, <3>3 DEF HoldInv
    <3> QED BY <1>1, <2>4, <3>1, <3>2, <3>4
  <2>7. CASE pad.mode = "granular"
    <3>1. frz' = frz /\ GranTick BY <1>7, <2>7 DEF PadTick
    <3>2. GranInv(gran') BY <1>1, <3>1, GranTickInv
    <3>3. gran'.frozen = gran.frozen BY <1>1, <3>1, GranTickInv
    <3>4. HoldInv' BY <1>1, <2>5, <3>1, <3>3 DEF HoldInv
    <3> QED BY <1>1, <2>4, <3>1, <3>2, <3>4
  <2> QED BY <1>2, <2>6, <2>7 DEF Modes
<1>8. ASSUME PadReset PROVE FrzInv(frz') /\ GranInv(gran') /\ pad' \in PadStates /\ HoldInv'
  <2>1. frz' = FrzNew /\ gran' = [GranNew EXCEPT !.pitch = gran.pitch]
        /\ pad' = [pad EXCEPT !.gate = FALSE, !.level = 0, !.switched = FALSE, !.moves = @ + 1]
    BY <1>8 DEF PadReset
  <2>2. gran.pitch \in Nat \ {0} BY <1>1, GranParts DEF GranInv
  <2>3. GranInv(gran') BY <2>1, <2>2, GranNewInv, PitchInv
  <2>4. pad.moves + 1 \in 0 .. PadMoves BY <1>1, <1>8, PadAssumption DEF PadReset, Move, PadStates
  <2>5. pad' \in PadStates
    <3>1. 0 \in 0 .. Swell BY PadAssumption
    <3> QED BY <1>1, <2>1, <2>4, <3>1 DEF PadStates
  <2>6. frz'.frozen = FALSE /\ gran'.frozen = FALSE /\ pad'.gate = FALSE BY <1>1, <2>1 DEF FrzNew, GranNew, PadStates
  <2>7. HoldInv' BY <2>6 DEF HoldInv
  <2> QED BY <2>1, <2>3, <2>5, <2>7, FrzNewInv
<1>9. ASSUME UNCHANGED padVars PROVE FrzInv(frz') /\ GranInv(gran') /\ pad' \in PadStates /\ HoldInv'
  BY <1>1, <1>9 DEF padVars, HoldInv
<1> QED BY <1>4, <1>5, <1>6, <1>7, <1>8, <1>9 DEF TexturesNext

LEMMA PadSound == ASSUME TexturesInv PROVE PadTypeOK /\ TexturesSound
<1>1. LoopContiguous BY DEF TexturesInv, FrzInv, Looped, LoopContiguous
<1>2. GrainsContiguous BY DEF TexturesInv, GranInv, ReadsOn, GrainsContiguous
<1>3. frz.frozen \in BOOLEAN /\ gran.frozen \in BOOLEAN BY DEF TexturesInv, PadTypeOK
<1>4. HoldAgrees BY <1>3 DEF TexturesInv, HoldInv, HoldAgrees, EngineHeld, PadTypeOK, Modes
<1> QED BY <1>1, <1>2, <1>4 DEF TexturesInv, TexturesSound

(* Of Freeze, Granular and PadDrone of daisy-dsp, for every size: a held loop *)
(* plays, place by place, the samples that were heard, and goes on over its   *)
(* seam as the sound did, if the whole buffer was recorded since it was last  *)
(* released; no grain of the rates Reaches names reads across the head; and   *)
(* the engine that was heard when the hold was last given or withdrawn is     *)
(* held exactly while the swell is open, whatever the mode was changed to.    *)
(* That this is the engine that is heard now, and that the other is not held, *)
(* is so until the mode is changed under a hold.                              *)
THEOREM TexturesProved == TexturesSpec => [](PadTypeOK /\ TexturesSound)
<1>1. TexturesInit => TexturesInv BY PadInit
<1>2. TexturesInv /\ [TexturesNext]_padVars => TexturesInv' BY PadStep
<1>3. TexturesInv => PadTypeOK /\ TexturesSound BY PadSound
<1> QED BY <1>1, <1>2, <1>3, PTL DEF TexturesSpec
=============================================================================
