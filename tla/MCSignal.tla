------------------------------- MODULE MCSignal -------------------------------
(* The way of the sound on one bench: the DSP library and the USB link that    *)
(* carries what it is fed. Each behaviour picks one part, runs it and leaves   *)
(* the rest at rest, for the parts share no state. Lengths are small; samples  *)
(* are numbers modulo 31, where the twiddles are exact; the receive FIFO takes *)
(* three packets: one stuck at its head, and a control request behind it.      *)
EXTENDS Fft, FftQ15, Stft, Spatializer, DelayEffects, Textures, Filters, Dynamics, Voices, UsbAudio

CONSTANT Subjects   \* the parts a behaviour may pick

ASSUME SubjectsAssumption ==
  Subjects \subseteq {"fft", "q15", "stft", "pitch", "spatial", "delay", "reverb", "pad", "sample",
                      "filter", "compressor", "gate", "limiter", "shaper", "oscillator", "yin", "choir",
                      "usb"}

VARIABLE subject

levelVars == <<fl, cmp, gate, lim>>
voiceVars == <<shp, osc, yin, cho>>
textureVars == <<frz, gran, pad, smp>>
signalVars == <<fftVars, qVars, stVars, pv, spVars, dl, rv, textureVars, levelVars, voiceVars, usbVars, subject>>

LinkInit == UsbInit /\ (subject # "usb" => build = "codec")

SignalInit ==
  /\ subject \in Subjects
  /\ FftInit /\ Q15Init /\ StftInit /\ PitchInit /\ SpInit /\ DelayInit /\ ReverbInit
  /\ TexturesInit /\ SampleInit /\ FiltersInit /\ DynamicsInit /\ VoicesInit /\ LinkInit

Transforming ==
  /\ \/ subject = "fft" /\ FftNext /\ UNCHANGED <<qVars, stVars, pv>>
     \/ subject = "q15" /\ Q15Next /\ UNCHANGED <<fftVars, stVars, pv>>
     \/ subject = "stft" /\ StftNext /\ UNCHANGED <<fftVars, qVars, pv>>
     \/ subject = "pitch" /\ PitchNext /\ UNCHANGED <<fftVars, qVars, stVars>>
  /\ UNCHANGED <<spVars, dl, rv, textureVars, levelVars, voiceVars, usbVars, subject>>

Rendering ==
  /\ \/ subject = "spatial" /\ SpNext /\ UNCHANGED <<dl, rv, textureVars>>
     \/ subject = "delay" /\ DelayNext /\ UNCHANGED <<spVars, rv, textureVars>>
     \/ subject = "reverb" /\ ReverbNext /\ UNCHANGED <<spVars, dl, textureVars>>
     \/ subject = "pad" /\ TexturesNext /\ UNCHANGED <<spVars, dl, rv, smp>>
     \/ subject = "sample" /\ SampleNext /\ UNCHANGED <<spVars, dl, rv, padVars>>
  /\ UNCHANGED <<fftVars, qVars, stVars, pv, levelVars, voiceVars, usbVars, subject>>

Levelling ==
  /\ \/ subject = "filter" /\ FiltersNext /\ UNCHANGED <<cmp, gate, lim>>
     \/ subject = "compressor" /\ CompressorNext /\ UNCHANGED <<fl, gate, lim>>
     \/ subject = "gate" /\ GateNext /\ UNCHANGED <<fl, cmp, lim>>
     \/ subject = "limiter" /\ LimiterNext /\ UNCHANGED <<fl, cmp, gate>>
  /\ UNCHANGED <<fftVars, qVars, stVars, pv, spVars, dl, rv, textureVars, voiceVars, usbVars, subject>>

Voicing ==
  /\ \/ subject = "shaper" /\ ShaperNext /\ UNCHANGED <<osc, yin, cho>>
     \/ subject = "oscillator" /\ OscillatorNext /\ UNCHANGED <<shp, yin, cho>>
     \/ subject = "yin" /\ YinNext /\ UNCHANGED <<shp, osc, cho>>
     \/ subject = "choir" /\ ChoirNext /\ UNCHANGED <<shp, osc, yin>>
  /\ UNCHANGED <<fftVars, qVars, stVars, pv, spVars, dl, rv, textureVars, levelVars, usbVars, subject>>

Linking ==
  /\ subject = "usb" /\ UsbNext
  /\ UNCHANGED <<fftVars, qVars, stVars, pv, spVars, dl, rv, textureVars, levelVars, voiceVars, subject>>

(* A behaviour at its bound.                                                   *)
Heard ==
  /\ \/ subject = "stft" /\ stLog.hops = StftHops
     \/ subject = "pitch" /\ pv.hops > 4
     \/ subject = "spatial" /\ Len(spHeard) = Frames * SpCallbacks
     \/ subject = "delay" /\ dl.kind # "none" /\ dl.n = DlTicks
     \/ subject = "reverb" /\ rv.n > RvTicks
     \/ subject = "pad" /\ pad.now = PadTicks
     \/ subject = "yin" /\ yin.cycle # <<>>
  /\ UNCHANGED signalVars

SignalNext == Transforming \/ Rendering \/ Levelling \/ Voicing \/ Linking \/ Heard
SignalSpec == SignalInit /\ [][SignalNext]_signalVars /\ UsbFairness

-------------------------------------------------------------------------------
(* The types of every part.                                                    *)
SignalTypeOK ==
  /\ FftTypeOK /\ Q15TypeOK /\ StftTypeOK /\ SpTypeOK /\ DelayTypeOK
  /\ TexturesTypeOK /\ FiltersTypeOK /\ DynamicsTypeOK /\ VoicesTypeOK /\ UsbTypeOK

(* The in-place passes of both FFTs leave the transform the reference defines, *)
(* the 16-bit one within its rounding; the short-time transform gives back     *)
(* what went in, a frozen spectrum repeats without a seam, and the phase       *)
(* vocoder turns every partial at its shifted rate.                            *)
TransformsSound ==
  PassesGather /\ TransformsExact /\ Q15Rounded /\ Reconstructs /\ FrozenToneSeamless /\ PitchTracked

(* What reaches the ears is the direct convolution of what was played, one     *)
(* block late, through queues that refuse nothing; each delay effect hears the *)
(* samples its taps name; no line of the reverb reaches into another.          *)
RenderSound == SpatialExact /\ DelayedExactly /\ LinesKeepApart

(* The filters follow their difference equations through any mix of ticks,     *)
(* blocks and resets; the compressor's curve rises and its gain stays below;   *)
(* the limiter plays every sample its lookahead late; the shaper averages its  *)
(* curve, the oscillator stays centred, YIN hears the period, and a chord has  *)
(* every partial there is room for.                                            *)
LevelsSound ==
  /\ FiltersExact /\ CompressorSound /\ LimiterDelays
  /\ ShaperAverages /\ OscillatorCentred /\ YinHearsPeriod /\ ChoirWhole

(* What a single step may do: the pitch shifter's tap moves at its ratio, the  *)
(* gate closes only after its hold, the reverb's feedback conserves energy.    *)
StepsSound == PitchRatio /\ GateHolds /\ ReverbConserves
=============================================================================
