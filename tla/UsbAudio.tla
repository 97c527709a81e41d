------------------------------ MODULE UsbAudio ------------------------------
(* The USB side of daisy-usb-audio: the OTG receive FIFO and the one-packet   *)
(* buffers behind it (vendor/synopsys-usb-otg), the dispatch of usb-device,   *)
(* the alternate settings of the audio class (src/uac.rs) and service_usb     *)
(* (src/main.rs), which the OTG_FS interrupt runs with interrupts disabled.   *)
(* A received packet leaves the shared FIFO only while its endpoint's buffer  *)
(* is empty, so a class that does not read blocks every endpoint behind it.   *)
(* The MIDI endpoint is read in every build as the serial one is without      *)
(* "tui"; the serial endpoint stands for both.                                *)
EXTENDS Naturals, Sequences, FiniteSets

CONSTANTS Builds,       \* the feature sets the firmware may have been built with
          RxDepth       \* data packets the receive FIFO holds (bound)

(* Feature "codec" bridges to the rings, without it playback is looped back;  *)
(* with "tui" the main loop, not the interrupt, reads the serial endpoint.    *)
CodecBuilds == {"codec", "codec_tui"}
TuiBuilds == {"codec_tui", "loopback_tui"}

ASSUME BuildAssumption == Builds \subseteq CodecBuilds \cup TuiBuilds \cup {"loopback"}
ASSUME DepthAssumption == RxDepth \in Nat \ {0}

VARIABLES build,
          rx,          \* the receive FIFO, oldest first
          held,        \* OUT endpoints whose buffer holds an unread packet
          altOut, altIn,
          inQueued,    \* a capture packet waits in the IN FIFO
          inDone,      \* transfer-complete flag of the IN endpoint
          busReset,    \* reset flag of the controller
          host         \* what the host believes and waits for

usbVars == <<build, rx, held, altOut, altIn, inQueued, inDone, busReset, host>>

Streams == {"out", "in"}
None == [kind |-> "none"]
SetAlts == [kind : {"set_alt"}, iface : Streams, alt : 0 .. 2]
SetConfigs == [kind : {"set_config"}, value : 0 .. 2]
HostRequests == SetAlts \cup SetConfigs

(* The configuration and the settings the host believes in, the streams it    *)
(* has left open since the last bus reset when it set the configuration, and  *)
(* the request it waits for.                                                  *)
Unconfigured == [conf |-> 0, out |-> 0, in |-> 0, left |-> {}, asked |-> None]
DataOut == {"audio", "cdc"}
Packets == DataOut \cup {"setup"}

UsbInit ==
  /\ build \in Builds
  /\ rx = <<>> /\ held = {}
  /\ altOut = 0 /\ altIn = 0
  /\ inQueued = FALSE /\ inDone = FALSE /\ busReset = FALSE
  /\ host = Unconfigured

-----------------------------------------------------------------------------
(* The host. It uses the interfaces of a device it has configured and is not  *)
(* configuring, sends audio only on a stream it has opened and has not asked  *)
(* to close, one control transfer at a time; the FIFO keeps room for a SETUP. *)

Configuring == host.asked \in SetConfigs
Closing == Configuring \/ (host.asked \in SetAlts /\ host.asked.iface = "out")

HostSendsAudio ==
  /\ host.out = 1 /\ ~Closing
  /\ Len(rx) < RxDepth /\ ~busReset
  /\ rx' = Append(rx, "audio")
  /\ UNCHANGED <<build, held, altOut, altIn, inQueued, inDone, busReset, host>>

HostSendsCdc ==
  /\ host.conf = 1 /\ ~Configuring
  /\ Len(rx) < RxDepth /\ ~busReset
  /\ rx' = Append(rx, "cdc")
  /\ UNCHANGED <<build, held, altOut, altIn, inQueued, inDone, busReset, host>>

HostAsks(r) ==
  /\ host.asked = None /\ ~busReset
  /\ r \in SetAlts => host.conf = 1
  /\ rx' = Append(rx, "setup")
  /\ host' = [host EXCEPT !.asked = r]
  /\ UNCHANGED <<build, held, altOut, altIn, inQueued, inDone, busReset>>

HostTakesPacket ==
  /\ inQueued /\ host.in = 1 /\ ~busReset
  /\ inQueued' = FALSE /\ inDone' = TRUE
  /\ UNCHANGED <<build, rx, held, altOut, altIn, busReset, host>>

HostResetsBus ==
  /\ ~busReset
  /\ busReset' = TRUE
  /\ host' = Unconfigured
  /\ UNCHANGED <<build, rx, held, altOut, altIn, inQueued, inDone>>

Host ==
  \/ HostSendsAudio \/ HostSendsCdc
  \/ \E r \in HostRequests : HostAsks(r)
  \/ HostTakesPacket \/ HostResetsBus

-----------------------------------------------------------------------------
(* The interrupt. The FIFO's flag is a level: it stays up while a packet is   *)
(* at its head, taken or not.                                                 *)

IrqPending == rx # <<>> \/ inDone \/ busReset

KeepsCapture ==                          \* a slip: one interface left streaming
  /\ busReset
  /\ busReset' = FALSE /\ rx' = <<>>
  /\ altOut' = 0 /\ altIn' = altIn
  /\ inQueued' = FALSE /\ inDone' = FALSE
  /\ UNCHANGED <<build, held, host>>

(* bus.poll() on a reset: FIFOs flushed, endpoint buffers kept, every class   *)
(* reset; UsbDevice::poll then answers false and nothing is serviced.         *)
OtgReset ==
  /\ busReset
  /\ busReset' = FALSE /\ rx' = <<>>
  /\ altOut' = 0 /\ altIn' = 0
  /\ inQueued' = FALSE /\ inDone' = FALSE
  /\ UNCHANGED <<build, held, host>>

(* bus.poll() on data: the head of the FIFO moves to its buffer if that is    *)
(* empty. A SETUP packet is consumed at once by the control pipe.             *)
HeadMoves == rx # <<>> /\ Head(rx) \notin held
RxAfter == IF HeadMoves THEN Tail(rx) ELSE rx
HeldAfter == IF HeadMoves /\ Head(rx) # "setup" THEN held \cup {Head(rx)} ELSE held
Setup == HeadMoves /\ Head(rx) = "setup"

(* set_alt_setting: only 0 and 1 exist; usb-device stalls the rest.           *)
AnyAlt(iface, current) ==                \* a slip: no check of the number
  IF Setup /\ host.asked \in SetAlts /\ host.asked.iface = iface
    THEN host.asked.alt ELSE current
AltAfter(iface, current) ==
  IF Setup /\ host.asked \in SetAlts /\ host.asked.iface = iface /\ host.asked.alt =< 1
    THEN host.asked.alt ELSE current

(* What the host believes once the control transfer has completed: a stalled  *)
(* request changes nothing; a configuration that was set has every interface  *)
(* back in setting 0, so it believes. The device only latches its state and   *)
(* calls no class: a stream that was open is left open.                       *)
Configured(value) ==
  [conf |-> value, out |-> 0, in |-> 0, asked |-> None,
   left |-> host.left \cup {s \in Streams : host[s] = 1}]
HostAfter ==
  CASE ~Setup -> host
    [] Setup /\ Configuring ->
         IF host.asked.value =< 1 THEN Configured(host.asked.value)
         ELSE [host EXCEPT !.asked = None]
    [] OTHER ->
         [host EXCEPT !.out = AltAfter("out", @), !.in = AltAfter("in", @), !.asked = None,
                      !.left = {s \in @ : host.asked.iface # s \/ host.asked.alt > 1}]

(* service_usb after poll: CDC echo, then the audio bridge. read_playback     *)
(* empties the buffer; write_capture is refused while a packet is queued.     *)
NoEcho(alts) == {}                       \* a slip: the echo left out
CdcRead(alts) == IF build \in TuiBuilds THEN {} ELSE {"cdc"}
GatedOnCapture(alts) == IF alts.in = 1 THEN {"audio"} ELSE {}   \* a slip
PlaybackRead(alts) ==
  IF build \in CodecBuilds
    THEN IF alts.out = 1 THEN {"audio"} ELSE {}
    ELSE IF alts.out = 1 /\ alts.in = 1 THEN {"audio"} ELSE {}
CaptureOffered(alts) ==
  IF build \in CodecBuilds
    THEN alts.in = 1
    ELSE alts.out = 1 /\ alts.in = 1 /\ "audio" \in HeldAfter

(* The whole interrupt on data: one packet per poll, then the services, with  *)
(* the settings the poll has just latched.                                    *)
OtgData ==
  /\ ~busReset /\ IrqPending
  /\ rx' = RxAfter
  /\ altOut' = AltAfter("out", altOut) /\ altIn' = AltAfter("in", altIn)
  /\ host' = HostAfter
  /\ LET alts == [out |-> altOut', in |-> altIn'] IN
       /\ held' = HeldAfter \ (CdcRead(alts) \cup PlaybackRead(alts))
       /\ inQueued' \in IF inQueued \/ ~CaptureOffered(alts) THEN {inQueued}
                        ELSE IF build \in CodecBuilds THEN BOOLEAN   \* the ring may be empty
                        ELSE {TRUE}
  /\ inDone' = FALSE
  /\ UNCHANGED <<build, busReset>>

OtgFs == OtgReset \/ OtgData

(* The main loop of the tui build: it runs only when no interrupt is pending. *)
TuiReadsCdc ==
  /\ build \in TuiBuilds /\ ~IrqPending /\ "cdc" \in held
  /\ held' = held \ {"cdc"}
  /\ UNCHANGED <<build, rx, altOut, altIn, inQueued, inDone, busReset, host>>

UsbNext == Host \/ OtgFs \/ TuiReadsCdc

UsbSpec == UsbInit /\ [][UsbNext]_usbVars

(* A pending interrupt is taken; an uninterrupted main loop makes progress.   *)
UsbFairness == WF_usbVars(OtgFs) /\ WF_usbVars(TuiReadsCdc)
UsbFairSpec == UsbSpec /\ UsbFairness

-----------------------------------------------------------------------------
(* Types; at most one SETUP packet is in the FIFO, and only for a request the *)
(* host still waits for.                                                      *)
UsbTypeOK ==
  /\ rx \in Seq(Packets) /\ Len(rx) =< RxDepth + 1
  /\ held \subseteq DataOut
  /\ altOut \in 0 .. 1 /\ altIn \in 0 .. 1
  /\ inQueued \in BOOLEAN /\ inDone \in BOOLEAN /\ busReset \in BOOLEAN
  /\ host \in [conf : 0 .. 1, out : 0 .. 1, in : 0 .. 1, left : SUBSET Streams,
               asked : HostRequests \cup {None}]
  /\ ~busReset =>
       Cardinality({i \in DOMAIN rx : rx[i] = "setup"}) = (IF host.asked = None THEN 0 ELSE 1)

(* The build whose interrupt reads every endpoint the host may send to.       *)
InterruptReadsAll == build = "codec"

(* The receive FIFO is never stuck behind an endpoint nobody reads: whatever  *)
(* the host may legally send, the packet at its head has an empty buffer.     *)
RxNeverBlocked == InterruptReadsAll /\ rx # <<>> /\ ~busReset => Head(rx) \notin held

(* Outside a reset in progress each alternate setting is the one the host has *)
(* last selected, in whatever order requests, stalls and resets came; but a   *)
(* stream open when the host set the configuration stays open in the device   *)
(* until the host selects its setting anew or resets the bus.                 *)
SettingOf(stream) == IF stream \in host.left THEN 1 ELSE host[stream]
AltsAgree == ~busReset => altOut = SettingOf("out") /\ altIn = SettingOf("in")

(* uac.rs:115-117 and 526-527 say more: SET_CONFIGURATION returns both        *)
(* interfaces to setting 0 as a bus reset does, so that the device streams    *)
(* only what the host has selected.                                           *)
SettingsReset == ~busReset => altOut = host.out /\ altIn = host.in

(* Every control request the host makes is answered, unless it resets the     *)
(* bus: the control endpoint shares the FIFO with the streams.                *)
SetupServed == InterruptReadsAll /\ host.asked # None ~> host.asked = None

(* main.rs:454-457 says so of every build: the interrupt services USB on      *)
(* every event and never waits for the main loop.                             *)
SetupServedInEveryBuild == host.asked # None ~> host.asked = None
=============================================================================
