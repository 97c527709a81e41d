------------------------------- MODULE Textures -------------------------------
(* The pad's sources of sustained sound: the freeze loop, the granular cloud    *)
(* and the PadDrone that owns both and a swell envelope; and the multisampled   *)
(* pad. A sample is its place in the order of recording, so that "contiguous"    *)
(* and "seamless" are statements about numbers; the silence of a new buffer is   *)
(* the samples before the first. Positions and read values are in half samples. *)
EXTENDS Integers, Sequences, FiniteSets

CONSTANTS FrzCap, Xfade,        \* Freeze: cap_len and xfade
          GranCap, GrainLen,    \* Granular: length of the ring, grain_len
          Sprays, SpawnGaps,    \* what its random draws give: spray, and spawn intervals
          SpawnMean,            \* spawn_interval
          MaxGrains,            \* MAX_GRAINS
          Pitches,              \* rates of a grain, in half samples per sample
          Swell,                \* samples of attack and release of the envelope
          PadTicks,             \* bound: samples of a behaviour of the pad
          PadMoves,             \* bound: changes of its mode and of its hold, and resets
          PitchTimes, ResetTimes   \* bounds: where the pitch is changed, where it is reset

ASSUME FreezeAssumption == FrzCap \in Nat /\ FrzCap >= 8 /\ Xfade \in 1..(FrzCap \div 4)

ASSUME GranularAssumption ==
  /\ GranCap \in Nat \ {0} /\ GrainLen \in Nat \ {0} /\ MaxGrains \in Nat
  /\ Sprays # {} /\ Sprays \subseteq 0..(GranCap \div 2 - 1) /\ SpawnGaps # {} /\ SpawnGaps \subseteq Nat \ {0}
  /\ SpawnMean \in Nat \ {0} /\ Pitches \subseteq Nat \ {0}

ASSUME PadAssumption == Swell \in Nat /\ PadTicks \in Nat /\ PadMoves \in Nat

VARIABLES frz,    \* Freeze
          gran,   \* Granular
          pad,    \* mode, envelope, and what the player did
          smp     \* one voice of a SamplePad

padVars == <<frz, gran, pad>>

-----------------------------------------------------------------------------
(* Freeze: the loop is the whole buffer less the crossfade.                   *)
Period == FrzCap - Xfade

\* A sample's place, in the fractions the crossfade needs.
Level(n) == Xfade * n

\* fresh counts the samples recorded since the last release, or since ever.
FrzNew == [buf |-> [i \in 0..FrzCap - 1 |-> Level(i - FrzCap)], write |-> 0, play |-> 0,
           frozen |-> FALSE, fresh |-> FrzCap, newest |-> -1, heard |-> 0]

\* The head of the loop fades in from the tail that continues it.
Faded(x) == [i \in DOMAIN x |-> IF i < Xfade THEN (i * x[i] + (Xfade - i) * x[Period + i]) \div Xfade ELSE x[i]]
\* a slip: the buffer is not turned so that its oldest sample comes first
FreezeUnrotated(f) == [f EXCEPT !.buf = Faded(@), !.play = 0, !.frozen = TRUE]
Freeze(f) ==
  IF f.frozen THEN f
  ELSE [f EXCEPT !.buf = Faded([i \in DOMAIN @ |-> @[(i + f.write) % FrzCap]]), !.play = 0, !.frozen = TRUE]
Unfreeze(f) == [f EXCEPT !.frozen = FALSE, !.fresh = IF f.frozen THEN 0 ELSE @]
FrzTick(f) ==
  IF f.frozen THEN [f EXCEPT !.heard = f.buf[f.play], !.play = IF @ + 1 = Period THEN 0 ELSE @ + 1]
  ELSE [f EXCEPT !.buf[f.write] = Level(f.newest + 1), !.write = IF @ + 1 = FrzCap THEN 0 ELSE @ + 1,
                 !.heard = Level(f.newest + 1), !.newest = @ + 1, !.fresh = IF @ < FrzCap THEN @ + 1 ELSE @]

-----------------------------------------------------------------------------
(* Granular: a ring of GranCap samples, a pool of grains.                     *)
Backoffs == {GrainLen + spray : spray \in Sprays}
NoGrain == [on |-> FALSE, prog |-> 0]

GranNew == [buf |-> [i \in 0..GranCap - 1 |-> i - GranCap], newest |-> -1, write |-> 0, frozen |-> FALSE,
            timer |-> 0, next |-> SpawnMean, pitch |-> 2, grains |-> [g \in 1..MaxGrains |-> NoGrain]]

\* a slip: the backoff is taken from the front of the buffer, not from the head
StartAbsolute(g, backoff) == (GranCap - (backoff % GranCap)) % GranCap
StartAt(g, backoff) == ((g.write + GranCap) - (backoff % GranCap)) % GranCap
ReadHalf(buf, pos) ==
  LET i == pos \div 2
  IN  IF pos % 2 = 0 THEN 2 * buf[i % GranCap] ELSE buf[i % GranCap] + buf[(i + 1) % GranCap]

\* spawn: the first free slot, or nothing.
Spawn(g, backoff) ==
  LET free == {k \in 1..MaxGrains : ~g.grains[k].on}
      slot == CHOOSE k \in free : \A j \in free : k <= j
      start == StartAt(g, backoff)
  IN  IF free = {} THEN g
      ELSE [g EXCEPT !.grains[slot] =
              [on |-> TRUE, pos |-> 2 * start, rate |-> g.pitch, prog |-> 0, held |-> g.frozen, read |-> 2 * g.buf[start],
               first |-> 2 * g.buf[start]]]

\* One sample of one grain: read, move, fold, and fall silent at the window's end.
GrainTick(g, grain) ==
  IF ~grain.on THEN grain
  ELSE [grain EXCEPT !.read = ReadHalf(g.buf, grain.pos), !.prog = @ + 1, !.on = grain.prog + 1 < GrainLen,
                     !.held = @ \/ g.frozen,
                     !.pos = IF @ + grain.rate >= 2 * GranCap THEN @ + grain.rate - 2 * GranCap ELSE @ + grain.rate]

\* process: record, spawn when the interval is over, then a sample of every grain.
Recorded(g) ==
  IF g.frozen THEN g
  ELSE [g EXCEPT !.buf[g.write] = g.newest + 1, !.newest = @ + 1, !.write = (@ + 1) % GranCap]
Ticked(g) == [g EXCEPT !.grains = [k \in 1..MaxGrains |-> GrainTick(g, @[k])]]
GranTick ==
  IF gran.timer + 1 < gran.next THEN gran' = Ticked([Recorded(gran) EXCEPT !.timer = @ + 1])
  ELSE \E backoff \in Backoffs, gap \in SpawnGaps :
         gran' = Ticked([Spawn(Recorded(gran), backoff) EXCEPT !.timer = 0, !.next = gap])

-----------------------------------------------------------------------------
(* PadDrone; switched: the mode was changed under a hold since the last       *)
(* reset, last: the mode in which the hold was last given or withdrawn.       *)
Modes == {"freeze", "granular"}

TexturesInit ==
  /\ frz = FrzNew /\ gran = GranNew
  /\ pad = [mode |-> "freeze", gate |-> FALSE, level |-> 0, now |-> 0, moves |-> 0, switched |-> FALSE,
            last |-> "freeze"]

Move == pad.moves < PadMoves /\ pad.now < PadTicks

SetMode ==
  /\ Move
  /\ \E m \in Modes \ {pad.mode} :
       pad' = [pad EXCEPT !.mode = m, !.moves = @ + 1, !.switched = @ \/ pad.gate]
  /\ UNCHANGED <<frz, gran>>

\* set_freeze reaches the active engine only; the envelope's gate always moves.
\* a slip: the hold is passed to the loop whatever the mode
HeldEnginesFixed(on) ==
  /\ frz' = IF on THEN Freeze(frz) ELSE Unfreeze(frz)
  /\ UNCHANGED gran
HeldEngines(on) ==
  /\ frz' = IF pad.mode # "freeze" THEN frz ELSE IF on THEN Freeze(frz) ELSE Unfreeze(frz)
  /\ gran' = IF pad.mode = "granular" THEN [gran EXCEPT !.frozen = on] ELSE gran
SetFreeze ==
  /\ Move
  /\ \E on \in BOOLEAN :
       /\ HeldEngines(on)
       /\ pad' = [pad EXCEPT !.gate = on, !.moves = @ + 1, !.last = pad.mode]

\* set_pitch on the engine granular_mut gives out.
SetPitch ==
  /\ Move /\ pad.now \in PitchTimes /\ pad.mode = "granular"
  /\ \E p \in Pitches \ {gran.pitch} : gran' = [gran EXCEPT !.pitch = p]
  /\ pad' = [pad EXCEPT !.moves = @ + 1]
  /\ UNCHANGED frz

\* process, a sample at a time: the active engine alone, then the swell.
PadTick ==
  /\ pad.now < PadTicks
  /\ pad' = [pad EXCEPT !.now = @ + 1,
               !.level = IF pad.gate THEN (IF @ < Swell THEN @ + 1 ELSE @) ELSE IF @ > 0 THEN @ - 1 ELSE @]
  /\ IF pad.mode = "freeze" THEN frz' = FrzTick(frz) /\ UNCHANGED gran
     ELSE GranTick /\ UNCHANGED frz

\* reset leaves the mode, and the engines' settings, as they are.
PadReset ==
  /\ Move /\ pad.now \in ResetTimes
  /\ frz' = FrzNew /\ gran' = [GranNew EXCEPT !.pitch = gran.pitch]
  /\ pad' = [pad EXCEPT !.gate = FALSE, !.level = 0, !.switched = FALSE, !.moves = @ + 1]

TexturesNext == SetMode \/ SetFreeze \/ SetPitch \/ PadTick \/ PadReset

-----------------------------------------------------------------------------
(* SamplePad: the sustain loop of a zone, read at a fractional rate.          *)
ZoneLoops == {[start |-> 0, len |-> 12], [start |-> 3, len |-> 8]}
SampleLen == 12
SmpRates == {1, 2, 3}   \* half samples
SmpFade(z) == LET q == z.len \div 4 IN IF q < 4 THEN q ELSE 4   \* half samples of 2

SampleInit == smp = [on |-> FALSE]
PadSetChord ==
  /\ ~smp.on
  /\ \E z \in ZoneLoops, r \in SmpRates : \E phase \in {0, 5, 2 * z.len} :
       smp' = [on |-> TRUE, zone |-> z, rate |-> r, phase |-> phase, at |-> phase, read |-> 0, prev |-> 0, ticks |-> 0]

\* interp on the sample whose value is its place, in halves; the last one beyond the end.
Interp(p) == IF (p \div 2) + 1 >= SampleLen THEN 2 * (SampleLen - 1) ELSE p
\* In units of 1 / (2 fade) so that the crossfade weights are whole numbers.
VoiceRead(v) ==
  LET xf == 2 * SmpFade(v.zone)
      tailOff == 2 * (v.zone.start + v.zone.len) - xf
      main == Interp(2 * v.zone.start + v.phase)
  IN  IF v.phase < xf THEN (xf - v.phase) * Interp(tailOff + v.phase) + v.phase * main ELSE xf * main
VoiceTick ==
  /\ smp.on /\ smp.ticks < 30
  /\ smp' = [smp EXCEPT !.read = VoiceRead(smp), !.prev = smp.read, !.at = smp.phase, !.ticks = @ + 1,
               !.phase = IF @ + smp.rate >= 2 * smp.zone.len THEN @ + smp.rate - 2 * smp.zone.len ELSE @ + smp.rate]
ClearChord == smp.on /\ smp.ticks = 30 /\ smp' = [on |-> FALSE]
SampleNext == PadSetChord \/ VoiceTick \/ ClearChord

-----------------------------------------------------------------------------
\* The types of the pad and of one voice.
Grain == [on : BOOLEAN, pos : Nat, rate : Nat \ {0}, prog : 0..GrainLen, held : BOOLEAN, read : Int, first : Int]
PadTypeOK ==
  /\ frz \in [buf : [0..FrzCap - 1 -> Int], write : 0..FrzCap - 1, play : 0..Period - 1, frozen : BOOLEAN,
              fresh : 0..FrzCap, newest : Int, heard : Int]
  /\ gran \in [buf : [0..GranCap - 1 -> Int], newest : Int, write : 0..GranCap - 1, frozen : BOOLEAN,
               timer : Nat, next : Nat, pitch : Nat \ {0}, grains : [1..MaxGrains -> Grain \cup {NoGrain}]]
  /\ pad \in [mode : Modes, gate : BOOLEAN, level : 0..Swell, now : 0..PadTicks, moves : 0..PadMoves, switched : BOOLEAN,
              last : Modes]
TexturesTypeOK == PadTypeOK /\ (smp.on => smp.phase \in 0..2 * smp.zone.len)

\* A frozen loop is the last FrzCap samples in the order they were played, and the
\* crossfaded head continues its tail, so that each sample follows the last of a lap
\* as smoothly as the sound did: from buf[Period - 1] to buf[0] it is one place; if
\* the whole buffer has been recorded since it was last frozen.
LoopContiguous ==
  frz.frozen /\ frz.fresh = FrzCap =>
    \A i \in 0..Period - 1 :
      frz.buf[i] = Level(frz.newest - FrzCap + 1 + i) + (IF i < Xfade THEN (Xfade - i) * Period ELSE 0)

\* The documented order of every frozen loop: the oldest sample is first, and past
\* the crossfade each sample continues the one before it.
LoopOldestFirst == frz.frozen => \A i \in Xfade..FrzCap - 2 : frz.buf[i] < frz.buf[i + 1]

\* A grain reads forward from where it started at its own rate, whatever the head
\* writes and wherever the ring wraps: it never reads across the head. In a ring of
\* three grains or more that is so for every rate up to the recorded pitch, and up
\* to an octave above it as long as the buffer is not held; in a shorter one, where
\* the backoff wraps, for the recorded pitch alone and not when held.
Reaches(rate, held) ==
  \/ 3 * GrainLen <= GranCap /\ (rate <= 2 \/ (rate <= 4 /\ ~held))
  \/ rate = 2 /\ ~held
GrainsContiguous ==
  \A k \in 1..MaxGrains :
    LET g == gran.grains[k]
    IN  g.prog > 0 /\ Reaches(g.rate, g.held) => g.read = g.first + g.rate * (g.prog - 1)

\* Whatever the mode was changed to since, the engine that was heard when the hold
\* was last given or withdrawn is held exactly while the swell is open. An engine that
\* is heard live under an open swell, or left held with the swell closed, needs a change
\* of the mode under a hold: without one the engine heard is held exactly while the
\* swell is open, and the other is not.
EngineHeld(m) == IF m = "freeze" THEN frz.frozen ELSE gran.frozen
HoldAgrees ==
  /\ EngineHeld(pad.last) = pad.gate
  /\ ~pad.switched => EngineHeld(pad.mode) = pad.gate /\ ~(frz.frozen /\ gran.frozen)

\* The frozen loop and every grain play samples that were next to each other when
\* they were heard, and both engines agree with the hold of the pad.
TexturesSound == LoopContiguous /\ GrainsContiguous /\ HoldAgrees

\* "A short live crossfade at the loop seam keeps the sustain click-free at any
\* rate": a voice that wraps to the very start of its loop goes on from where it was.
SampleSeamless ==
  smp.on /\ smp.ticks > 1 /\ smp.at = 0 => smp.read - smp.prev = 2 * SmpFade(smp.zone) * smp.rate

TexturesSpec == TexturesInit /\ [][TexturesNext]_padVars
SampleSpec == SampleInit /\ [][SampleNext]_smp
=============================================================================
