----------------------------- MODULE AudioBridge -----------------------------
(* The codec build of daisy-usb-audio: two sample rings between the audio     *)
(* callback (src/codec.rs, run by the DMA interrupt) and the USB service      *)
(* (src/main.rs, run by the OTG_FS interrupt with interrupts disabled). Both  *)
(* interrupts keep their reset priority, so neither runs inside the other and *)
(* each is one step here; SpscRing refines the rings themselves. A sample is  *)
(* the channel it belongs to: what matters is whether left stays left.        *)
EXTENDS Integers, Sequences

CONSTANTS Capacity,     \* RING_CAPACITY: one less than the (even) ring length
          BlockFrames,  \* daisy_audio::BLOCK_SIZE
          Nominal,      \* frames of a nominal USB packet
          Slack         \* samples around the target before the size is nudged

ASSUME CapacityAssumption == Capacity \in Nat /\ Capacity % 2 = 1
ASSUME BlockAssumption == BlockFrames \in Nat \ {0} /\ Nominal \in Nat \ {0, 1}
ASSUME SlackAssumption == Slack \in Nat

VARIABLES playback,   \* host to codec ring
          capture,    \* codec to host ring
          alt,        \* [out, in]: the streams the host has opened
          inPacket,   \* the capture packet in the IN FIFO, or <<>>
          dac,        \* the block the callback returned last
          overrun     \* [out, in]: samples dropped since the ring was last empty

bridgeVars == <<playback, capture, alt, inPacket, dac, overrun>>

Left == "L"
Right == "R"
Silence == "0"
Interleaved(frames) == [i \in 1 .. 2 * frames |-> IF i % 2 = 1 THEN Left ELSE Right]
Least(a, b) == IF a < b THEN a ELSE b

(* push in a loop until the packet or block ends: once full, a ring stays     *)
(* full for the rest of it.                                                   *)
Pushed(ring, samples) ==
  ring \o SubSeq(samples, 1, Least(Len(samples), Capacity - Len(ring)))

(* pop in a loop of at most n.                                                *)
Taken(ring, n) == SubSeq(ring, 1, Least(n, Len(ring)))
RestPastEnd(ring, n) == SubSeq(ring, Least(n + 1, Len(ring)) + 1, Len(ring))   \* a slip
Rest(ring, n) == SubSeq(ring, Least(n, Len(ring)) + 1, Len(ring))

Overran(ring, samples) == Len(ring) + Len(samples) > Capacity

BridgeInit ==
  /\ playback = <<>> /\ capture = <<>>
  /\ alt = [out |-> 0, in |-> 0]
  /\ inPacket = <<>> /\ dac = <<>>
  /\ overrun = [out |-> FALSE, in |-> FALSE]

-----------------------------------------------------------------------------
(* audio_process: each output sample is popped, or silence; each input sample *)
(* is pushed, or dropped.                                                     *)
StopAtUnderrun(ring, n) == Taken(ring, n)       \* a slip: no silence after the end
Output(ring, n) ==
  Taken(ring, n) \o [i \in 1 .. n - Len(Taken(ring, n)) |-> Silence]

AudioProcess ==
  LET n == 2 * BlockFrames
      input == Interleaved(BlockFrames)
  IN /\ dac' = Output(playback, n)
     /\ playback' = Rest(playback, n)
     /\ capture' = Pushed(capture, input)
     /\ overrun' = [out |-> overrun.out /\ playback' # <<>>,
                    in |-> overrun.in \/ Overran(capture, input)]
     /\ UNCHANGED <<alt, inPacket>>

-----------------------------------------------------------------------------
(* service_usb. bytes/2 samples are asked of the capture ring: one frame more *)
(* or less than nominal while the fill is off its target.                     *)
Target == Capacity \div 2
OneSampleStep(fill) ==                          \* a slip: a sample, not a frame
  IF fill > Target + Slack THEN 2 * Nominal + 1
  ELSE IF fill + Slack < Target THEN 2 * Nominal - 1
  ELSE 2 * Nominal
CaptureSamples(fill) ==
  IF fill > Target + Slack THEN 2 * (Nominal + 1)
  ELSE IF fill + Slack < Target THEN 2 * (Nominal - 1)
  ELSE 2 * Nominal

(* What the host may have delivered since the last service: no packet, or one *)
(* of the sizes the feedback asks for.                                        *)
HostFrames == IF alt.out = 1 THEN {0} \cup (Nominal - 1 .. Nominal + 1) ELSE {0}

PlaybackService(frames) ==
  LET packet == Interleaved(frames) IN
  /\ playback' = Pushed(playback, packet)
  /\ overrun' = [out |-> overrun.out \/ Overran(playback, packet),
                 in |-> overrun.in /\ capture' # <<>>]

(* The samples are popped before write_capture is tried: with a packet still  *)
(* in the IN FIFO it answers WouldBlock and they are gone.                    *)
CaptureService ==
  IF alt.in = 0 THEN UNCHANGED <<capture, inPacket>>
  ELSE LET n == CaptureSamples(Len(capture)) IN
       /\ capture' = Rest(capture, n)
       /\ inPacket' = IF inPacket = <<>> THEN Taken(capture, n) ELSE inPacket

ServiceUsb(frames) ==
  /\ CaptureService
  /\ PlaybackService(frames)
  /\ UNCHANGED <<alt, dac>>

(* SET_INTERFACE and bus reset. The rings keep what is in them.               *)
SetAltSetting(iface, a) ==
  /\ alt' = [alt EXCEPT ![iface] = a]
  /\ UNCHANGED <<playback, capture, inPacket, dac, overrun>>

BusReset ==
  /\ alt' = [out |-> 0, in |-> 0] /\ inPacket' = <<>>
  /\ UNCHANGED <<playback, capture, dac, overrun>>

HostCollects ==
  /\ inPacket # <<>> /\ alt.in = 1
  /\ inPacket' = <<>>
  /\ UNCHANGED <<playback, capture, alt, dac, overrun>>

BridgeNext ==
  \/ AudioProcess
  \/ \E frames \in HostFrames : ServiceUsb(frames)
  \/ \E iface \in {"out", "in"}, a \in 0 .. 1 : SetAltSetting(iface, a)
  \/ BusReset
  \/ HostCollects

BridgeSpec == BridgeInit /\ [][BridgeNext]_bridgeVars

-----------------------------------------------------------------------------
Channels == {Left, Right}

(* Types and the sizes of what leaves: a block for the DMA is always full.    *)
BridgeTypeOK ==
  /\ playback \in Seq(Channels) /\ Len(playback) =< Capacity
  /\ capture \in Seq(Channels) /\ Len(capture) =< Capacity
  /\ alt \in [out : 0 .. 1, in : 0 .. 1]
  /\ inPacket \in Seq(Channels) /\ Len(inPacket) =< 2 * (Nominal + 1)
  /\ dac = <<>> \/ (dac \in Seq(Channels \cup {Silence}) /\ Len(dac) = 2 * BlockFrames)
  /\ overrun \in [out : BOOLEAN, in : BOOLEAN]

(* Every left or right sample is in its place, counting from the left.        *)
Interleaves(samples) ==
  \A i \in DOMAIN samples : samples[i] = Silence \/ samples[i] = Interleaved(i)[i]
WholeFrames(samples) == Len(samples) % 2 = 0 /\ Interleaves(samples)

(* As long as a ring has not overrun since it was last empty it holds whole   *)
(* frames, left first: underruns, size nudges, refused packets, resets and    *)
(* changes of the streams cannot swap the channels, only an overrun can.      *)
PlaybackPaired == ~overrun.out => WholeFrames(playback)
CapturePaired == ~overrun.in => WholeFrames(capture)

(* Until one of its rings overruns, neither direction of the USB audio stream *)
(* exchanges its channels.                                                    *)
ChannelsPaired == PlaybackPaired /\ CapturePaired

(* codec.rs:140-142: a capture packet is interleaved, as the callback's input *)
(* is (daisy-audio lib.rs:80).                                                *)
CaptureInterleaved == Interleaves(inPacket)
=============================================================================
