------------------------------ MODULE UsbClasses ------------------------------
(* What the USB classes tell the host and what the host sets through them: the *)
(* descriptors of the audio class (daisy-usb-audio/src/uac.rs) and of the MIDI *)
(* class (daisy-midi/src/class.rs), the requests to the two Feature Units, the *)
(* gain they stand for as the samples pass it (main.rs, codec.rs), and the     *)
(* rate loop of the codec build.                                               *)
EXTENDS Integers, Sequences

CONSTANTS Top,             \* samples are -Top..Top-1, and Top stands for 1.0: 32768 in the code
          RingTarget,      \* RING_CAPACITY / 2, in samples
          FillBound        \* bound: fill of a ring that is looked at

ASSUME ClassesAssumption ==
  Top \in Nat \ {0} /\ RingTarget \in Nat /\ FillBound \in Nat

VARIABLES fu,     \* mute and volume of the two Feature Units
          belief, \* what the host last set and saw accepted, unit by unit
          reply   \* the last answer to a GET_CUR: unit, selector, data

unitVars == <<fu, belief, reply>>

\* -------------------------------- descriptors ----------------------------------
\* A class-specific unit: its kind, id, source, terminal type and the bytes after
\* the two that every descriptor starts with.
Unit(kind, id, source, type, data) ==
  [kind |-> kind, id |-> id, source |-> source, type |-> type, len |-> data + 2]

\* a slip: the header still carries the length it had without the Feature Units
AudioTotalBefore == 52
AudioTotal == 72

\* get_configuration_descriptors of the audio class: the control interface.
AudioControl ==
  <<Unit("header", 0, 0, "none", 8),
    Unit("input", 1, 0, "usb", 10), Unit("feature", 5, 1, "none", 8), Unit("output", 2, 5, "speaker", 7),
    Unit("input", 3, 0, "mic", 10), Unit("feature", 6, 3, "none", 8), Unit("output", 4, 6, "usb", 7)>>

\* and its streams: interface, alternate setting, the terminal AS_GENERAL links,
\* the direction of its data endpoint and the endpoint its bSynchAddress names.
AudioStreams ==
  {[iface |-> "out", alt |-> 0, link |-> 0, eps |-> {}, sync |-> "none"],
   [iface |-> "out", alt |-> 1, link |-> 1, eps |-> {"ep_out", "ep_fb"}, sync |-> "ep_fb"],
   [iface |-> "in", alt |-> 0, link |-> 0, eps |-> {}, sync |-> "none"],
   [iface |-> "in", alt |-> 1, link |-> 4, eps |-> {"ep_in"}, sync |-> "none"]}
Collected == {"out", "in"}

\* The MIDI class: jacks, and the jack each bulk endpoint is bound to.
MidiTotal == 37
MidiStreaming ==
  <<Unit("header", 0, 0, "none", 5),
    Unit("input", 1, 0, "embedded", 4), Unit("input", 2, 0, "external", 4),
    Unit("output", 3, 2, "embedded", 7), Unit("output", 4, 1, "external", 7)>>
MidiJacks == [ep_out |-> 1, ep_in |-> 3]

\* The bytes of the units, header included.
Lengths(units) ==
  LET sum[n \in 0..Len(units)] == IF n = 0 THEN 0 ELSE sum[n - 1] + units[n].len
  IN  sum[Len(units)]
Members(units) == {i \in DOMAIN units : units[i].kind # "header"}
Ids(units) == {units[i].id : i \in Members(units)}
UnitOf(units, id) == units[CHOOSE i \in Members(units) : units[i].id = id]

\* Upstream from a unit, and from an output terminal to the terminal its signal
\* comes from, with a Feature Unit between them or not.
Upstream(units, id) == LET u == UnitOf(units, id) IN IF u.source = 0 THEN id ELSE u.source
Origin(units, id) == Upstream(units, Upstream(units, id))

\* The lengths the headers announce are those of the units that follow, every
\* source exists, playback runs from the host to the speaker and capture from the
\* microphone to the host, each through its own Feature Unit, a stream's endpoints
\* belong to its active setting alone, and a synchronisation address names one of them.
DescriptorsSound ==
  /\ AudioTotal = Lengths(AudioControl)
  /\ MidiTotal = Lengths(MidiStreaming)
  /\ \A units \in {AudioControl, MidiStreaming} :
       /\ \A i, j \in Members(units) : units[i].id = units[j].id => i = j
       /\ \A i \in DOMAIN units : units[i].source \in Ids(units) \cup {0}
  /\ Origin(AudioControl, 2) = 1 /\ UnitOf(AudioControl, 1).type = "usb"
  /\ UnitOf(AudioControl, Origin(AudioControl, 4)).type = "mic"
  /\ UnitOf(AudioControl, 2).source # UnitOf(AudioControl, 4).source
  /\ \A s \in AudioStreams :
       /\ s.iface \in Collected /\ (s.eps = {} <=> s.alt = 0)
       /\ s.sync \in s.eps \cup {"none"}
       /\ s.alt = 1 => UnitOf(AudioControl, s.link).type = "usb"
  /\ UnitOf(MidiStreaming, MidiJacks["ep_out"]) = UnitOf(MidiStreaming, Origin(MidiStreaming, 4))
  /\ UnitOf(MidiStreaming, Origin(MidiStreaming, MidiJacks["ep_in"])).type = "external"

\* ------------------------------- Feature Units ---------------------------------
\* Volumes the host may set, in the 1/256 dB of the class: the sentinel for silence,
\* one inside the announced range of -60 to 0 dB, its top, and one above it, which
\* control_out accepts as well.
Silence16 == -32768
Volumes == {Silence16, -1280, 0, 512}
Units == {5, 6}
Requests ==
  [recipient : {"interface", "endpoint"}, iface : {"control", "other"}, entity : Units \cup {1},
   selector : {"mute", "volume"}, len : {0, 1, 2}]

\* fu_selector.
Ours(r) == r.recipient = "interface" /\ r.iface = "control" /\ r.entity \in Units

FieldBytes(selector) == IF selector = "mute" THEN 1 ELSE 2

\* a slip: both units' requests land on the speaker
SpeakerOnly(entity) == 5
Addressed(entity) == entity

\* control_out: accepted only for a unit of ours with enough data; anything else is
\* left to usb-device, which stalls it.
SetCur ==
  \E r \in Requests : \E mute \in BOOLEAN, volume \in Volumes :
    LET accepted == Ours(r) /\ r.len >= FieldBytes(r.selector)
        With(state, e) == IF r.selector = "mute" THEN [state EXCEPT ![e].mute = mute]
                          ELSE [state EXCEPT ![e].volume = volume]
    IN  /\ fu' = IF accepted THEN With(fu, Addressed(r.entity)) ELSE fu
        /\ belief' = IF accepted THEN With(belief, r.entity) ELSE belief
        /\ reply' = [reply EXCEPT !.kind = "none"]

\* control_in.
GetCur ==
  \E r \in Requests :
    /\ Ours(r)
    /\ reply' = [kind |-> r.selector, unit |-> r.entity,
                 mute |-> fu[r.entity].mute, volume |-> fu[r.entity].volume]
    /\ UNCHANGED <<fu, belief>>

\* UsbClass::reset leaves both units as they are.
UnitsReset == UNCHANGED <<fu, belief>> /\ reply' = [reply EXCEPT !.kind = "none"]

Fresh == [e \in Units |-> [mute |-> FALSE, volume |-> 0]]
UnitsInit == fu = Fresh /\ belief = Fresh
             /\ reply = [kind |-> "none", unit |-> 5, mute |-> FALSE, volume |-> 0]
UnitsNext == SetCur \/ GetCur \/ UnitsReset
UnitsSpec == UnitsInit /\ [][UnitsNext]_unitVars

\* gain_of, as a fraction of GainFull: monotone in the volume, nothing at silence.
GainFull == 4
gain_of(mute, volume) ==
  IF mute \/ volume = Silence16 THEN 0
  ELSE IF volume >= 256 THEN 2 * GainFull ELSE IF volume >= 0 THEN GainFull
  ELSE IF volume >= -2560 THEN 2 ELSE 1

\* The host and the device agree about both units after any requests, refused ones
\* included, and a read answers what that unit was last set to.
FeatureUnitsAgree ==
  /\ fu = belief
  /\ reply.kind = "mute" => reply.mute = belief[reply.unit].mute
  /\ reply.kind = "volume" => reply.volume = belief[reply.unit].volume

\* ------------------------------ samples under a gain ---------------------------
I16 == -Top..(Top - 1)
Clamped(x, low, high) == IF x < low THEN low ELSE IF x > high THEN high ELSE x
Trunc(n, d) == IF n < 0 THEN -((-n) \div d) ELSE n \div d

\* a slip: the product is brought to an integer without the clamp
ToSampleWrapped(num, den) == ((Trunc(num * (Top - 1), den) + Top) % (2 * Top)) - Top
ToSample(num, den) == Trunc(Clamped(num, -den, den) * (Top - 1), den)

\* push_playback_bytes then the ring; apply_gain_i16le, with its early return.
GainedUp(s, gain) == s * gain                       \* over Top * GainFull
Popped(num, gain) == ToSample(num * gain, Top * GainFull * GainFull)
apply_gain_i16le(s, gain) ==
  IF gain = GainFull * GainFull THEN s ELSE ToSample(s * gain, Top * GainFull * GainFull)

\* The two ways of a sample from the host to the host: through both rings of the
\* codec build, and the loopback's one pass.
Captured(s, out, in) == Popped(GainedUp(s, out), in)
Looped(s, out, in) == apply_gain_i16le(s, out * in)

\* What two gains may do to a sample: it keeps its sign or goes to zero, a louder one
\* comes out no quieter, a muted path is silent, and the two ways differ by one step
\* at most; whatever saturates is still a sample.
GainKept(out, in, muted) ==
  /\ \A s \in I16 :
       /\ Captured(s, out, in) \in I16 /\ Looped(s, out, in) \in I16
       /\ s >= 0 => Captured(s, out, in) >= 0 /\ Looped(s, out, in) >= 0
       /\ s <= 0 => Captured(s, out, in) <= 0 /\ Looped(s, out, in) <= 0
       /\ muted => Captured(s, out, in) = 0 /\ Looped(s, out, in) = 0
       /\ Captured(s, out, in) - Looped(s, out, in) \in -1..1
  /\ \A s \in I16 \ {Top - 1} :
       /\ Captured(s, out, in) <= Captured(s + 1, out, in)
       /\ Looped(s, out, in) <= Looped(s + 1, out, in)

\* For any setting of the two units the samples keep what GainKept says.
GainSound ==
  \A muteOut, muteIn \in BOOLEAN : \A volumeOut, volumeIn \in Volumes :
    GainKept(gain_of(muteOut, volumeOut), gain_of(muteIn, volumeIn), muteOut \/ muteIn)

\* --------------------------------- the rate loop -------------------------------
\* a sample in the 10.14 format of the feedback, and what its three bytes hold
OneSample == 128 * 128
FeedbackRange == 256 * 256 * 256
Nominal1014 == 48 * OneSample
PacketBytes == 49 * 4

\* slips: eight times the gain; a whole sample either way
FeedbackSteep(fill) == Nominal1014 + Clamped((RingTarget - fill) * 512, -OneSample, OneSample)
FeedbackAllOrNothing(fill) == Nominal1014 + (IF fill < RingTarget THEN OneSample ELSE -OneSample)
\* a slip: the nudge pushes away from half full
FeedbackReversed(fill) == Nominal1014 + Clamped((fill - RingTarget) * 64, -OneSample, OneSample)
Feedback(fill) == Nominal1014 + Clamped((RingTarget - fill) * 64, -OneSample, OneSample)

CaptureBytes(fill) ==
  IF fill > RingTarget + 24 THEN 49 * 4 ELSE IF fill + 24 < RingTarget THEN 47 * 4 ELSE 48 * 4

\* Both loops pull the right way from any fill and never past one sample a frame:
\* what they ask for fits the three feedback bytes and the packet the descriptors
\* announce, and a fuller ring is never asked to be filled faster.
RateLoopSound ==
  /\ \A fill \in 0..FillBound :
       /\ Feedback(fill) \in (Nominal1014 - OneSample)..(Nominal1014 + OneSample)
       /\ Feedback(fill) < FeedbackRange
       /\ (fill < RingTarget <=> Feedback(fill) > Nominal1014)
       /\ CaptureBytes(fill) <= PacketBytes /\ CaptureBytes(fill) % 4 = 0
  /\ \A fill \in 0..(FillBound - 1) :
       Feedback(fill + 1) <= Feedback(fill) /\ CaptureBytes(fill) <= CaptureBytes(fill + 1)

\* Units and replies have their types.
ClassesTypeOK ==
  /\ fu \in [Units -> [mute : BOOLEAN, volume : Volumes]]
  /\ reply \in [kind : {"none", "mute", "volume"}, unit : Units, mute : BOOLEAN, volume : Volumes]

\* Everything the host is told, sets and hears through the classes.
ClassesSound == DescriptorsSound /\ FeatureUnitsAgree /\ GainSound /\ RateLoopSound
=============================================================================
