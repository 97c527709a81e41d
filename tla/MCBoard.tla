------------------------------- MODULE MCBoard -------------------------------
(* The parts of the board around the flash and the USB core, on one bench:     *)
(* each behaviour picks one, runs it and leaves the rest at rest, for in these *)
(* modules the parts share no state. A ring of four cells holds every          *)
(* alignment of its indices; rings of nine samples, blocks of two frames and   *)
(* packets of one to three overrun and underrun within a few services.         *)
EXTENDS SpscRing, AudioBridge, SaiDma, Midi, RateLoop, TuiSerial, SdramTest, SdramInit, Controls, CacheChecker

CONSTANT Subjects   \* the parts a behaviour may pick

ASSUME SubjectsAssumption ==
  Subjects \subseteq {"ring", "bridge", "sai", "midi", "classes", "rate", "terminal", "reports",
                      "sdram", "fmc", "pedal", "pod", "switch", "handoff", "exerciser", "checker"}

VARIABLE subject

audioVars == <<ringVars, bridgeVars, saiVars>>
classVars == <<midiVars, unitVars, loop>>
memoryVars == <<sdramVars, fmcVars>>
memVars == <<coherencyVars, checkerVars>>
boardVars == <<audioVars, classVars, tuiVars, memoryVars, pedalVars, memVars, subject>>

(* At rest a part starts in one of its initial states.                         *)
TerminalInit == TuiInit /\ (subject # "terminal" => ui.attaches = 0 /\ term.size = TuiAssumed)
MemoryInit == SdramTestInit /\ (subject # "sdram" => sdram.fault = NoFault /\ sdram.mem = v_zero)
ControllerInit == FmcInit /\ (subject # "fmc" => ~fmc.stuck /\ fmc.we = <<7, 5>>)
ControlsInit == PanelInit /\ (subject # "pod" => pod.turn = 1)
RateInit == LoopInit /\ (subject # "rate" => loop.drift = 0 /\ loop.refresh = 1)
CoherencyInit ==
  /\ MemInit(subject \in {"exerciser", "checker"}) /\ HandInit /\ ExerInit /\ CheckerInit
  /\ (subject # "handoff" => hand.rev = "480") /\ (subject # "exerciser" => exer.name = "mpu")

BoardInit ==
  /\ subject \in Subjects
  /\ RingInit /\ BridgeInit /\ SaiInit /\ MidiInit /\ UnitsInit /\ RateInit
  /\ TerminalInit /\ MemoryInit /\ ControllerInit /\ ControlsInit /\ CoherencyInit

AudioPart ==
  /\ \/ subject = "ring" /\ RingNext /\ UNCHANGED <<bridgeVars, saiVars>>
     \/ subject = "bridge" /\ BridgeNext /\ UNCHANGED <<ringVars, saiVars>>
     \/ subject = "sai" /\ SaiNext /\ UNCHANGED <<ringVars, bridgeVars>>
  /\ UNCHANGED <<classVars, tuiVars, memoryVars, pedalVars, memVars, subject>>

ClassPart ==
  /\ \/ subject = "midi" /\ MidiNext /\ UNCHANGED <<unitVars, loop>>
     \/ subject = "classes" /\ UnitsNext /\ UNCHANGED <<midiVars, loop>>
     \/ subject = "rate" /\ LoopNext /\ UNCHANGED <<midiVars, unitVars>>
  /\ UNCHANGED <<audioVars, tuiVars, memoryVars, pedalVars, memVars, subject>>

TerminalPart ==
  /\ \/ subject = "terminal" /\ TuiNext
     \/ subject = "reports" /\ CprNext
  /\ UNCHANGED <<audioVars, classVars, memoryVars, pedalVars, memVars, subject>>

MemoryPart ==
  /\ \/ subject = "sdram" /\ SdramTestNext /\ UNCHANGED fmcVars
     \/ subject = "fmc" /\ FmcNext /\ UNCHANGED sdramVars
  /\ UNCHANGED <<audioVars, classVars, tuiVars, pedalVars, memVars, subject>>

ControlsPart ==
  /\ \/ subject = "pedal" /\ PanelNext
     \/ subject = "pod" /\ PodNext
     \/ subject = "switch" /\ SwitchNext
  /\ UNCHANGED <<audioVars, classVars, tuiVars, memoryVars, memVars, subject>>

CoherencyPart ==
  /\ \/ subject = "handoff" /\ HandNext /\ UNCHANGED checkerVars
     \/ subject = "exerciser" /\ ExerNext /\ UNCHANGED checkerVars
     \/ subject = "checker" /\ CheckerNext
  /\ UNCHANGED <<audioVars, classVars, tuiVars, memoryVars, pedalVars, subject>>

(* A part that has stopped: a reboot never returns, init has returned, or a    *)
(* bound on passes or frames is reached.                                       *)
Halted ==
  /\ \/ subject = "sdram" /\ (test.status \in {"Reboot", "Bootloader"} \/ test.pass = SdPasses)
     \/ subject = "fmc" /\ fmc.at > Len(Sequence)
     \/ subject = "pedal" /\ pedal.dfu
     \/ subject = "rate" /\ LoopEnded
     \/ subject = "exerciser" /\ exer.pc > Len(ProgramOf(exer))
  /\ UNCHANGED boardVars

BoardNext == AudioPart \/ ClassPart \/ TerminalPart \/ MemoryPart \/ ControlsPart \/ CoherencyPart \/ Halted
BoardSpec == BoardInit /\ [][BoardNext]_boardVars
-------------------------------------------------------------------------------
(* The types of every part.                                                    *)
BoardTypeOK ==
  CASE subject = "ring" -> RingTypeOK
    [] subject = "bridge" -> BridgeTypeOK
    [] subject = "sai" -> SaiTypeOK
    [] subject = "midi" -> MidiTypeOK
    [] subject \in {"classes", "rate"} -> ClassesTypeOK
    [] subject \in {"terminal", "reports"} -> TuiTypeOK
    [] subject = "sdram" -> SdramTestTypeOK
    [] subject = "fmc" -> FmcTypeOK
    [] subject \in {"handoff", "exerciser", "checker"} -> CoherencyTypeOK
    [] OTHER -> PanelTypeOK

(* The feedback holds the playback ring near half full whatever the codec's    *)
(* clock does, without a gap in a stream that has settled (see RateHolds).     *)
RateHeld == subject = "rate" => RateHolds

(* Once its queue has drained the terminal shows the frame that was drawn, and *)
(* a size report is found wherever it hides among keys and broken reports.     *)
TerminalSound ==
  /\ subject = "terminal" => ScreenDrawn
  /\ subject = "reports" => ReportsFound

(* What crosses a reset or a master of the bus arrives: the DFU request, the   *)
(* frozen clocks, the DMA buffers, the memory test's reads, and the markers of *)
(* the cache and region exercisers; and the emulator's cache checker, which    *)
(* the firmware is tested under, reports whatever would not. The SDRAM under   *)
(* the caches was brought up in its chip's order and times.                    *)
MemoryCoherent ==
  /\ subject = "fmc" => ChipReady /\ DatasheetKept
  /\ subject = "handoff" => HandoffKept /\ OneMemory
  /\ subject = "exerciser" => MarkersExpected
  /\ subject = "checker" => CheckerTells
=============================================================================
