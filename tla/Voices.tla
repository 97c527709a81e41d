-------------------------------- MODULE Voices --------------------------------
(* Four generators and analysers of daisy-dsp: the antialiased waveshaper, the *)
(* polyBLEP oscillator, the YIN pitch detector and the singer bank of the      *)
(* choir. Fractions are kept over common denominators, so every comparison of  *)
(* two of them is one of whole numbers; transcendental curves (tanh, sine) are *)
(* left out.                                                                   *)
EXTENDS Integers, Sequences, FiniteSets, FiniteSetsExt

CONSTANTS ShTicks,      \* bound: samples shaped since a reset
          OscCycle,     \* phase units in a cycle, even
          OscSteps,     \* phase increments a frequency may give, below half a cycle
          YinLags,      \* length of cmndf
          YinValues,    \* sample values of the analysed signal
          MaxSingers, MaxPartials,
          ChoirNotes    \* harmonics the vowel keeps for a note -> MaxSingers and
                        \* MaxPartials are met by short chords of them

ASSUME VoicesAssumption ==
  /\ ShTicks \in Nat /\ OscCycle \in Nat /\ OscCycle % 2 = 0
  /\ \A d \in OscSteps : d \in Nat \ {0} /\ 2 * d < OscCycle
  /\ YinLags \in Nat /\ YinLags > 3 /\ YinValues \subseteq Int
  /\ MaxSingers \in Nat \ {0} /\ MaxPartials \in Nat \ {0} /\ ChoirNotes \subseteq Nat \ {0}

VARIABLES shp, osc, yin, cho

Abs(x) == IF x < 0 THEN -x ELSE x

\* -------------------------------- the waveshaper -------------------------------
\* A driven sample counts quarters; f is in units of 1/512 and its antiderivative
\* in units of 1/2048, so that F over a distance in quarters is again in f's units.
f(shape, u) ==
  CASE shape = "HardClip" -> 128 * (IF u < -4 THEN -4 ELSE IF u > 4 THEN 4 ELSE u)
    [] shape = "Cubic" -> IF u <= -4 THEN -512 ELSE IF u >= 4 THEN 512 ELSE 192 * u - 4 * u ^ 3

\* a slip: beyond the knee the cubic continues from the hard clip's constant
OneConstant(shape, u) ==
  CASE shape = "HardClip" -> IF Abs(u) <= 4 THEN 64 * u ^ 2 ELSE 512 * Abs(u) - 1024
    [] shape = "Cubic" -> IF Abs(u) <= 4 THEN 96 * u ^ 2 - u ^ 4 ELSE 512 * Abs(u) - 1024
big_f(shape, u) ==
  CASE shape = "HardClip" -> IF Abs(u) <= 4 THEN 64 * u ^ 2 ELSE 512 * Abs(u) - 1024
    [] shape = "Cubic" -> IF Abs(u) <= 4 THEN 96 * u ^ 2 - u ^ 4 ELSE 512 * Abs(u) - 768

ShaperOf(shape, drive, adaa) ==
  [shape |-> shape, drive |-> drive, adaa |-> adaa, x1 |-> 0, f1 |-> 0, n |-> 0,
   num |-> 0, over |-> 1, from |-> 0, area |-> 0]

ShaperNew ==
  \E shape \in {"HardClip", "Cubic"}, drive \in {1, 3}, adaa \in BOOLEAN :
    shp' = ShaperOf(shape, drive, adaa)

SetDrive == \E drive \in {1, 3} : shp' = [shp EXCEPT !.drive = drive]

\* Waveshaper::tick: num/over is the output; from, the sample before, and area, the
\* outputs times the distances they stand for, record the history.
ShaperTick ==
  /\ shp.n < ShTicks
  /\ \E x \in {-3, -1, 0, 2} :
       LET xin == x * shp.drive
           d == xin - shp.x1
           far == shp.adaa /\ d # 0
           num == IF far THEN big_f(shp.shape, xin) - shp.f1 ELSE f(shp.shape, xin)
       IN  shp' = [shp EXCEPT
             !.n = @ + 1, !.num = num, !.over = IF far THEN d ELSE 1,
             !.from = IF shp.adaa THEN shp.x1 ELSE xin,
             !.x1 = IF shp.adaa THEN xin ELSE @,
             !.f1 = IF shp.adaa THEN big_f(shp.shape, xin) ELSE @,
             !.area = IF far THEN @ + num ELSE @]

\* a slip: the remembered antiderivative survives the reset
ShaperSilencedHalf(s) == [s EXCEPT !.x1 = 0, !.n = 0, !.num = 0, !.over = 1, !.from = 0, !.area = 0]
ShaperSilenced(s) == [ShaperSilencedHalf(s) EXCEPT !.f1 = 0]
ShaperReset == shp.n > 0 /\ shp' = ShaperSilenced(shp)

\* Antialiasing averages the curve: an output lies between the curve's values at
\* the two samples it spans, whatever drive each was given, and the outputs summed
\* over the path since the reset give the antiderivative where it stands.
ShaperAverages ==
  /\ shp.n > 0 /\ shp.adaa =>
       LET low == f(shp.shape, Min({shp.from, shp.x1}))
           high == f(shp.shape, Max({shp.from, shp.x1}))
           sign == IF shp.over < 0 THEN -1 ELSE 1
       IN  low * Abs(shp.over) <= sign * shp.num /\ sign * shp.num <= high * Abs(shp.over)
  /\ shp.adaa => shp.area = big_f(shp.shape, shp.x1)

\* -------------------------------- the oscillator -------------------------------
\* Outputs are over OscCycle * d^2.
\* a slip: the second half of the correction is taken from the wrong side
poly_blep_mirrored(t, d) ==
  IF t < d THEN OscCycle * (2 * t * d - t ^ 2 - d ^ 2)
  ELSE IF t > OscCycle - d
  THEN LET q == OscCycle - t IN OscCycle * (q ^ 2 + 2 * q * d + d ^ 2)
  ELSE 0
poly_blep(t, d) ==
  IF t < d THEN OscCycle * (2 * t * d - t ^ 2 - d ^ 2)
  ELSE IF t > OscCycle - d
  THEN LET q == t - OscCycle IN OscCycle * (q ^ 2 + 2 * q * d + d ^ 2)
  ELSE 0

Saw(p, d) == (2 * p - OscCycle) * d ^ 2 - poly_blep(p, d)
Square(p, d) ==
  (IF 2 * p < OscCycle THEN 1 ELSE -1) * OscCycle * d ^ 2
    + poly_blep(p, d) - poly_blep((p + (OscCycle \div 2)) % OscCycle, d)

OscillatorNew ==
  \E d \in OscSteps, wave \in {"Saw", "Square"} :
    osc' = [p |-> 0, d |-> d, wave |-> wave, y |-> 0, sum |-> 0, whole |-> TRUE]

\* Retuning keeps the phase; osc.whole says that the running sum covers one pitch.
SetFreq == \E d \in OscSteps : osc' = [osc EXCEPT !.d = d, !.sum = 0, !.whole = (osc.p = 0), !.y = 0]

OscillatorTick ==
  LET y == IF osc.wave = "Saw" THEN Saw(osc.p, osc.d) ELSE Square(osc.p, osc.d)
      next == osc.p + osc.d
      phase == IF next >= OscCycle THEN next - OscCycle ELSE next
      again == osc.p = 0     \* a cycle starts with this sample
  IN  osc' = [osc EXCEPT !.p = phase, !.y = y, !.whole = @ \/ again,
                         !.sum = IF again THEN y ELSE @ + y]

OscillatorReset == osc' = [osc EXCEPT !.p = 0, !.y = 0, !.sum = 0, !.whole = TRUE]

\* The phase stays in the cycle across retunings, the corrected wave stays within
\* full scale, and over whole cycles at one pitch it carries no direct current.
OscillatorCentred ==
  /\ osc.p \in 0..(OscCycle - 1)
  /\ Abs(osc.y) <= OscCycle * osc.d ^ 2
  /\ osc.p = 0 /\ osc.whole => osc.sum = 0

\* ----------------------------------- YIN ---------------------------------------
\* cmndf[tau] is the fraction num/den; the threshold is 0.15 and the fallback 0.3.
Periodic(cycle) == [j \in 0..(2 * YinLags - 1) |-> cycle[(j % Len(cycle)) + 1]]

SumOver(Term(_), from, to) ==
  LET s[i \in (from - 1)..to] == IF i < from THEN 0 ELSE s[i - 1] + Term(i) IN s[to]

Difference(x, tau) == SumOver(LAMBDA j : (x[j] - x[j + tau]) ^ 2, 0, YinLags - 1)

Cmndf(x) ==
  LET d == <<>> \o [tau \in 1..(YinLags - 1) |-> Difference(x, tau)]
      At(tau) == LET running == SumOver(LAMBDA k : d[k], 1, tau)
                 IN  IF tau > 0 /\ running > 0 THEN [num |-> d[tau] * tau, den |-> running]
                     ELSE [num |-> 1, den |-> 1]
      s == <<>> \o [i \in 1..YinLags |-> At(i - 1)]
  IN  [tau \in 0..(YinLags - 1) |-> s[tau + 1]]

Below(a, b) == a.num * b.den < b.num * a.den

\* The bottom of the dip the scan came to first.
\* a slip: the first lag below the threshold is taken without descending further
DipEdge(c, t) == t
DipBottom(c, t) ==
  CHOOSE u \in t..(YinLags - 1) :
    /\ \A v \in t..(u - 1) : Below(c[v + 1], c[v])
    /\ u + 1 < YinLags => ~Below(c[u + 1], c[u])

\* detect's lag, 0 for None.
Detect(x) ==
  LET c == Cmndf(x)
      dips == {t \in 2..(YinLags - 2) : Below(c[t], [num |-> 15, den |-> 100])}
      best == CHOOSE k \in 1..(YinLags - 1) :
                \A j \in 1..(YinLags - 1) : Below(c[k], c[j]) \/ (~Below(c[j], c[k]) /\ k <= j)
  IN  IF dips # {} THEN DipBottom(c, Min(dips))
      ELSE IF Below([num |-> 3, den |-> 10], c[best]) THEN 0 ELSE best

YinDetect ==
  yin.cycle = <<>> /\
  \E T \in 1..YinLags : \E cycle \in [1..T -> YinValues] :
    LET x == Periodic(cycle) IN yin' = [cycle |-> cycle, tau |-> Detect(x)]

Repeats(x, T) == \A j \in 0..(2 * YinLags - 1 - T) : x[j] = x[j + T]

\* A lag is reported for every signal with a period inside the scan, and it is never
\* past the shortest such period; a constant signal is given none. Every lag
\* reported is a local minimum of the normalised difference.
YinHearsPeriod ==
  yin.cycle # <<>> =>
    LET x == Periodic(yin.cycle)
        periods == {T \in 1..(YinLags - 1) : Repeats(x, T)}
        heard == periods \cap 2..(YinLags - 2)
    IN  /\ 1 \in periods => yin.tau = 0
        /\ 1 \notin periods /\ heard # {} => yin.tau \in 2..Min(heard)
        /\ yin.tau # 0 => LET c == Cmndf(x)
                          IN  /\ yin.tau > 1 => ~Below(c[yin.tau - 1], c[yin.tau])
                              /\ yin.tau + 1 < YinLags => ~Below(c[yin.tau + 1], c[yin.tau])

\* --------------------------------- the choir -----------------------------------
\* A note is the number of harmonics its vowel keeps; cho.voice counts chords, so a
\* partial or a singer carries the chord it was built for.
EmptyBank == [singers |-> <<>>, partials |-> <<>>, full |-> FALSE]
SilentChoir == [bank |-> EmptyBank, chord |-> 0, notes |-> <<>>, each |-> 1,
                vib |-> [s \in 0..(MaxSingers - 1) |-> 0]]

\* set_chord: notes in order, singers per note, harmonics per singer, until a bank
\* is full; 'notes is left from either loop.
\* a slip: the partial bank is checked by the singers' capacity
PartialRoomMisread(bank) == MaxSingers - Len(bank.partials)
PartialRoom(bank) == MaxPartials - Len(bank.partials)

Sing(bank, note, chord) ==
  IF bank.full \/ Len(bank.singers) >= MaxSingers THEN [bank EXCEPT !.full = TRUE]
  ELSE LET singer == Len(bank.singers)
           kept == Min({note, PartialRoom(bank)})
       IN  [singers |-> Append(bank.singers, chord),
            partials |-> bank.partials \o [h \in 1..kept |-> [singer |-> singer, h |-> h, chord |-> chord]],
            full |-> kept < note]

Voiced(notes, each, chord) ==
  LET n == Len(notes) * each
      bank[i \in 0..n] ==
        IF i = 0 THEN EmptyBank
        ELSE Sing(bank[i - 1], notes[((i - 1) \div each) + 1], chord)
  IN  bank[n]

Chords == UNION {[1..n -> ChoirNotes] : n \in 0..2}

SetChord ==
  /\ cho.chord < 2
  /\ \E notes \in Chords, each \in 1..2 :
       LET bank == Voiced(notes, each, cho.chord + 1)
       IN  cho' = [bank |-> bank, chord |-> cho.chord + 1, notes |-> notes, each |-> each,
                   vib |-> [s \in DOMAIN cho.vib |-> IF s < Len(bank.singers) THEN 0 ELSE cho.vib[s]]]

\* process: the control tick moves every live singer's vibrato; each partial then
\* takes the increment of its singer.
ChoirProcess ==
  LET live == Len(cho.bank.singers)
  IN  cho' = [cho EXCEPT !.vib = [s \in DOMAIN @ |-> IF s < live THEN (@[s] + s + 1) % 4 ELSE @[s]]]

ChoirClear ==
  cho' = [cho EXCEPT !.bank = EmptyBank, !.notes = <<>>]

\* No partial belongs to a singer of an earlier chord or to none; a singer's partials
\* are its lowest harmonics without a gap; and a note is cut short only when a bank
\* is full, and then nothing after it is sung.
ChoirWhole ==
  LET b == cho.bank
      wanted == Len(cho.notes) * cho.each
      Mine(s) == {p \in DOMAIN b.partials : b.partials[p].singer = s}
      Note(s) == cho.notes[(s \div cho.each) + 1]
  IN  /\ Len(b.singers) <= MaxSingers /\ Len(b.partials) <= MaxPartials
      /\ \A p \in DOMAIN b.partials :
           /\ b.partials[p].singer < Len(b.singers)
           /\ b.partials[p].chord = b.singers[b.partials[p].singer + 1]
      /\ \A s \in 0..(Len(b.singers) - 1) :
           /\ {b.partials[p].h : p \in Mine(s)} = 1..Cardinality(Mine(s))
           /\ Cardinality(Mine(s)) < Note(s) =>
                Len(b.partials) = MaxPartials /\ s = Len(b.singers) - 1
      /\ Len(b.singers) < wanted =>
           Len(b.singers) = MaxSingers \/ Len(b.partials) = MaxPartials

\* -------------------------------------------------------------------------------
VoicesInit ==
  /\ shp = ShaperOf("HardClip", 1, TRUE)
  /\ osc = [p |-> 0, d |-> Min(OscSteps), wave |-> "Saw", y |-> 0, sum |-> 0, whole |-> TRUE]
  /\ yin = [cycle |-> <<>>, tau |-> 0]
  /\ cho = SilentChoir

ShaperNext == ShaperNew \/ SetDrive \/ ShaperTick \/ ShaperReset
OscillatorNext == OscillatorNew \/ SetFreq \/ OscillatorTick \/ OscillatorReset
YinNext == YinDetect
ChoirNext == SetChord \/ ChoirProcess \/ ChoirClear

\* Counters and phases are in range and a chord's bank never outgrows its arrays.
VoicesTypeOK ==
  /\ shp.n \in 0..ShTicks /\ shp.over # 0 /\ osc.d \in OscSteps
  /\ yin.tau \in 0..(YinLags - 1)
  /\ cho.vib \in [0..(MaxSingers - 1) -> 0..3] /\ cho.chord \in 0..2
=============================================================================
