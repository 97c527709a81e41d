# Verification of daisy-rs

daisy-rs is bare-metal Rust for the Electrosmith Daisy Seed (STM32H750): a USB
DFU bootloader that runs applications in place from an external QSPI flash, a
board support crate, USB audio and MIDI firmware, a DSP library, host tools, and
a set of Renode peripheral models that the tests run against. This directory
holds TLA+ models of the parts whose correctness depends on order, on resets and
on interrupts, the TLC runs that check them and the TLAPS proofs about them.
Paths are relative to the repository root; `crates/` stands for `src/crates/`.

## 1. Inventory

### 1.1 Components

| Component | State | Operations | Modelled in |
|---|---|---|---|
| QUADSPI driver, `daisy-boot/src/qspi.rs` | none of its own: the controller's mode and the chip's latched modes | recover, erase 4K sector, program page, enter/exit memory-mapped | `QspiFlash` |
| IS25LP064A, `renode/peripherals/IS25LP064A.cs` | cells, WEL, QE, dummy-cycle parameter, continuous-read latch, reset-enable latch | one frame at a time; power-on | `IS25LP064A` |
| QUADSPI controller, `renode/peripherals/STM32H7_QuadSPI.cs` | functional mode, BUSY, send-instruction-once latch | CCR write, abort, window fetch, reset | `QspiFlash` |
| DFU memory, `daisy-boot/src/dfu_mem.rs` | block buffer, `in_mm_mode`, write/activity flags | read, program, erase, erase_all, manifestation | `DfuMem` |
| Boot flow, `daisy-boot/src/main.rs` | stage of `main()`, the boot window's clock, the plausibility verdict | take request, judge, poll window, serve, jump | `Bootloader` |
| Request mailbox, `daisy-bsp/src/reset.rs` | one magic word in Backup SRAM | `reboot_to_bootloader`, `take_dfu_request` | `Bootloader` |
| Clock hand-off, `daisy-bsp/src/clocks.rs` | the frozen `CoreClocks` and two guard words in Backup SRAM | stash, restore | `Coherency` |
| Sample rings, `daisy-usb-audio/src/codec.rs` | two 512-cell rings, each shared by two interrupts | push, pop, len | `SpscRing` |
| USB audio bridge, `daisy-usb-audio/src/{main,codec}.rs` | receive FIFO and endpoint buffers, ring contents, the feedback value | OTG_FS interrupt, audio callback, main loop of the terminal build | `UsbAudio`, `AudioBridge`, `RateLoop` |
| USB audio and MIDI classes, `daisy-usb-audio/src/uac.rs`, `daisy-midi/src/class.rs` | alternate settings, mute and volume of two Feature Units | descriptors, control requests | `UsbAudio`, `UsbClasses` |
| MIDI encoder, `daisy-midi/src/lib.rs`, `pod-midi` | running status, the bytes of a message or of SysEx under way | push; the loop that forwards packets | `Midi` |
| Audio DMA, `daisy-audio/src/lib.rs` | two-half DMA buffers, half/complete flags, the callback | start, DMA interrupt | `SaiDma` |
| Terminal back end, `ratatui-serial` and the three `tui.rs` | tracked cursor and style, queued bytes, the reply parser | draw, clear, resize, drain, parse | `TuiSerial` |
| SDRAM bring-up, `daisy-bsp/src/sdram.rs` | the controller's registers, the chip's power-up state | pins, registers, command sequence | `SdramInit` |
| SDRAM memory test, `sdram-march`, `daisy-sdram-test` | error counts, log ring, phase and pass of a run | the march suite, the key loop | `SdramTest` |
| Front panels, `daisy-bsp/src/pod.rs`, `daisy-hothouse` | shift registers, quadrature state, hold timers | debounce, decode, the DFU gesture | `Controls` |
| Protection regions and caches, every application's `configure_mpu_and_caches`; the exercisers | region table, cache control | set-up; the exercisers' straight programs | `Coherency` |
| Emulated cache checker, `renode/peripherals/CacheCoherencyChecker.cs` | three flags per line of data and of code | bus accesses, maintenance, execution hooks | `CacheChecker` |
| DSP library, `daisy-dsp` | buffers, heads, filter and envelope states | block and sample processing, resets, mode changes | nine modules, section 2.5 |
| Spatializer, `daisy-spatializer` | reblocking queues, convolver rings, the room | the audio callback | `Spatializer` |

`PROJECT.json` lists every component, the unmodelled ones with the reason.

### 1.2 How they interact

`main()` calls the QSPI driver directly (before the probe and before the jump)
and hands it to `QspiDfuMem`, which the vendored DFU class calls back from
`usb_dev.poll()`. The driver turns each call into a sequence of SPI frames; the
controller sits between it and the chip. The MCU and its controller restart on a
reset, **the chip does not**: it keeps the mode it was in, which is what most of
`qspi.rs` is about. The application reboots into the loader through a magic word
in Backup SRAM that survives a reset and is lost in a power cut.

In the audio firmware the DMA interrupt converts the half of the ring that has
just been captured and runs the audio callback, which exchanges samples with the
USB interrupt through two single-producer single-consumer rings without a lock.
The USB interrupt polls the vendored device stack, which moves at most one packet
from the controller's shared FIFO into its endpoint's buffer, and then serves
every class. In the terminal build the main loop reads one of the endpoints. The
fill of the playback ring goes back to the host as a feedback value, which it reads
at its own pace: ring, endpoint, host and codec clock form a control loop.

The core and the DMA controllers share Backup SRAM, the DMA pool and the SDRAM. The
core sees them through a write-back cache that nothing snoops, unless a protection
region says otherwise; what the application hands the loader (the DFU request), what
the loader hands the application (the clocks), and every DMA buffer depends on those
regions or on cache maintenance. The DSP library has no concurrency: its objects are
called from the audio callback, one block at a time.

### 1.3 What is hard here

* a reset or power cut between any two SPI frames, leaving the chip in a mode
  that the next boot's first frames misread;
* the mode shadow `in_mm_mode`, and mode changes made behind it by `main()`;
* a block programmed page by page from one buffer that uploads overwrite;
* a boot window timed by a wrapping cycle counter sampled between slow polls;
* requests that must be consumed exactly once across a reset;
* two contexts sharing rings without a lock, with drops on overflow, and stereo
  frames pushed and popped one sample at a time;
* one receive FIFO in front of every endpoint, so that a class that does not read
  stops all the others;
* an audio interrupt that may overrun its block, with flags that merge;
* a rate loop whose measurement is a frame old and whose actuator is read every 32 ms;
* memory that looks different from the core and from a DMA, across resets too;
* a terminal that is opened, closed and resized behind the back of a program that
  tracks its cursor;
* keys and switches sampled between the chunks of something else;
* in-place algorithms and ring buffers whose index errors give plausible noise, and
  modes that change while a note is held.

The hazards in `PROJECT.json` give each at its line, with the properties that
cover it or the reason why none does.

### 1.4 What makes each component correct

| Component | Properties |
|---|---|
| QSPI driver | a mapped window reads the flash as it is; an erase or a program is executed, once, on the addressed cells only; nothing can write behind a mapped window |
| DFU memory | whatever the host asks for in whatever order, the flash holds what it downloaded and an upload returns what the flash holds; every request is answered |
| Boot flow | the jump is only to a plausible image, faithfully read, that this boot has not been rewriting; a request to stay is honoured once; the board always settles |
| Sample ring | a bounded FIFO queue, without a data race |
| USB interrupt | the shared FIFO is never stuck, control requests are answered, a stream is open exactly when the host last opened it since the last bus reset (a new configuration, which the host takes for a reset of both, changes nothing in the device: section 4) |
| Audio bridge | blocks are always full, left stays left |
| Rate loop | against any drift the ring stays near half full; one disturbance leaves no gap |
| Audio DMA | after any delay the interrupt finds its way back in step: no block lost, none repeated |
| USB classes | lengths, ids and links of the descriptors add up; host and device agree about mute and volume; a gain does to a sample what it stands for |
| MIDI encoder | the packets carry the messages of the wire, whatever real-time bytes interrupt them |
| Shared memory | a request and the clocks cross a reset whole; core and DMA see one memory where they share it |
| Cache checker | it reports every program that would read stale data on silicon, and no other |
| Terminal back end | when its queue has drained the screen shows the frame drawn |
| SDRAM bring-up and test | the chip gets its commands in order and time; a single fault is found, where it is |
| Front panels | a reboot needs an unbroken hold; turns are counted; every press is told |
| DSP library | transforms equal their definitions; no sample is lost, doubled or exchanged; loops and grains play what was contiguous; curves and envelopes keep their bounds |

## 2. Modules

| Module | Models | Extends or instantiates |
|---|---|---|
| `IS25LP064A` | the chip: latched modes, one operator per effect of a frame | |
| `QspiFlash` | driver and controller, one action per SPI frame | `IS25LP064A`; `NorStore` as abstract specification |
| `NorStore` | abstract: one erase or program pending, applied once, or torn by a crash | |
| `DfuMem` | the five DFU methods as driver calls and buffer operations | `QspiFlash`; `DfuStore` |
| `DfuStore` | abstract: the image, the block handed over, the answer | |
| `Bootloader` | `main()` up to the jump, with the mailbox and the timer | `DfuMem` |
| `SpscRing` | push, pop and len, one action per load or store | `SpscFifo` |
| `SpscFifo` | abstract: a bounded queue | |
| `UsbAudio` | FIFO, endpoint buffers, poll and `service_usb`, the terminal's main loop | |
| `AudioBridge` | both rings as sequences of channels, callback and packet services | |
| `SaiDma` | the two DMA streams, their flags and the interrupt | |
| `Midi` | the encoder, the forwarding loop and a one-packet endpoint | |
| `UsbClasses` | descriptors, Feature Unit requests, gains, the two size rules | |
| `RateLoop` | service, host and codec clock as a loop, at the sizes of the code | `UsbClasses` |
| `TuiSerial` | back end, both front ends' output queues, the reply parser, a terminal | |
| `SdramTest`, `SdramInit` | the memory test over a memory with one fault; the bring-up | |
| `Controls` | debouncers, quadrature decoder, hold gesture | |
| `Coherency` | regions, caches, Backup SRAM across boots, three exercisers | |
| `CacheChecker` | the emulator's checker beside those caches | `Coherency` |
| `Samples` | samples as residues, twiddles exact; reference DFT | |
| `Fft`, `FftQ15` | the transforms, one action per pass | `Samples` |
| `Stft` | sliding frames, spectral freeze, phase arithmetic | `Samples` |
| `Spatializer` | reblocking, partitioned convolution, the early reflection | `Samples` |
| `DelayEffects`, `Filters` | delay line, chorus, flanger, pitch, reverb; filters | `Samples` |
| `Textures` | freeze, granular cloud, pad, sample player | |
| `Dynamics`, `Voices` | compressor, gate, limiter; shaper, oscillator, YIN, choir | |
| `MCBoard`, `MCSignal` | the benches: one part per behaviour | the parts above |
| `QspiFlash_proofs` | theorems about the driver and its refinement of `NorStore` | `QspiFlash` |
| `DfuMem_proofs`, `DfuStore_proofs` | about the DFU methods; their refinement of `DfuStore` | `DfuMem`; the proofs before |
| `Bootloader_proofs` | about the boot flow | `Bootloader`, `DfuMem_proofs` |
| `Audio_proofs` | about the sample ring, the bridge, the audio DMA and the USB interrupt | `SpscRing`, `AudioBridge`, `SaiDma`, `UsbAudio` |
| `Peripherals_proofs` | about the front panels, the MIDI encoder and the USB classes | `Controls`, `Midi`, `UsbClasses` |
| `Sdram_proofs` | about the memory test | `SdramTest` |
| `Textures_proofs` | about the freeze loop, the granular cloud and the pad | `Textures` |
| the other `MC...` | the instance TLC checks | the module named after `MC` |

A bench picks one part per behaviour and leaves the others at rest: the parts of a
bench share no state and no interrupt, so a product of them would show nothing that
one at a time does not. Where parts do interact there is a module that composes them.

Definitions keep the source's names where they have one (`exit_continuous_read`
is `ExitContinuousRead`). A comment "a slip" marks a variant that no
specification uses: it is a plausible bug kept beside the definition it would
replace, to show that a property notices it. `PROJECT.json` maps every definition
to its lines.

### 2.1 The flash stack

A routine of `qspi.rs` is a walk of `drv` through the frames it sends, `job`
telling which routine it is and `call` what it writes. `Reset` restarts the
controller and the driver and leaves the chip alone except for its reset-enable
latch; `PowerCycle` returns the chip to its power-on state. Both are enabled
between any two frames. A power cut tears the operation the chip is carrying out,
from its frame (`write`) to the end of the wait for it (`wip`). An MCU reset does not
reach the chip: it cuts short a program frame that is still being clocked, and an
operation whose frame is complete is finished, as in the repository's emulation, by
the time the next program sends a frame.
`QspiInit` allows every latched mode of the chip, because the previous program
may have left any. `CcrLocked` chooses between the silicon, which drops a CCR
write while BUSY, and the emulated controller, which takes it. The chip is modelled
from the repository's own emulation, frame by frame rather than byte by byte; a
cell is one bit, which is enough to tell an erase from a program and either from
a torn one.

`DfuMem` adds the methods of `DFUMemIO`: `method` is the call in progress and
`pos` the counter of its loop, so that power can fail in the middle of a block.
The host is the vendored DFU class: one call at a time, and a program request
only after the block it names. `hostBlock` is a history variable, the block as
the host sent it. `Bootloader` adds `stage`, the mailbox, the window's timer in
ticks of 2^30 cycles, and the history variables `owed`, `wrote` and `launch`.
A reset keeps Backup SRAM and a power cut clears it.

### 2.2 The audio stack

`SpscRing` splits each call at its atomic accesses; since each side stores its
own index with Release and loads the other's with Acquire, program order is
what the memory model guarantees and the interleavings of these accesses are
all there is. `AudioBridge` uses the ring as the queue `SpscRing` is proved to
be, which is sound because neither interrupt preempts the other (both keep the
priority they reset to, and the USB service runs with interrupts disabled), and
follows each sample's channel only. `overrun` remembers, per ring, whether a sample
was dropped since the ring was last empty.

`UsbAudio` has the controller's receive FIFO as a sequence of packets, the
one-packet buffers as the set `held`, and the interrupt as one action: poll, then the
services, with the settings that poll has just latched. The firmware's features
are the variable `build`, chosen once. The host configures and deconfigures the device,
selects settings (one of which does not exist), streams, and resets the bus; a
configuration it has set puts its own picture of both streams back to closed, and
`left` remembers those the device, which calls no class then, has left open. `SaiDma` has the half each stream is in; the
transmitter crosses into a half shortly before the receiver does because its FIFO
was filled first. `calm` counts the interrupts begun since the last advance that came
while one was pending.

`RateLoop` closes the playback side: one step is one USB frame, with its packet, its
service and the blocks the codec has taken, in either order when the service is late.
Sizes are the code's (511 samples, blocks of 48 frames, a 10.14 value); the codec is off
by `DriftStep`/256 frame per millisecond. The feedback endpoint holds the value it was
given until the host reads it, every frame or every 32 as `bRefresh` announces. `calm`
counts the frames since the last disturbance: a late service, a lost packet, or the slip
of a whole block when the two clocks have drifted that far apart.

### 2.3 The rest of the board

* `Midi`: `enc` is `UsbMidiEncoder`, `mtx` the endpoint, `mlog` the wire since its last
  status byte; the property reads that wire on its own and asks for the packets due.
* `UsbClasses`: the descriptors as records of length, id and link, recounted against the
  totals the code writes by hand; `belief` is what the host saw accepted. Gains are
  brought to whole ratios and `Top` stands for the sample that means 1.0, 32768 in the code.
  `Captured` and `Looped` are the two ways of a sample back to the host.
* `TuiSerial`: `ui` holds the tracked cursor and style and the queued tokens (an escape
  sequence or a character each), `term` the host's terminal with the same tokens applied.
  It attaches, leaves, reads a part, and has a size of its own. It may attach between two
  bytes of an escape sequence, whose rest it then prints (`Cut`). `cpr` is the parser of size
  replies, fed every short string.
* `SdramTest`: the suite over `sdram`, word by word, in chunks with the key loop between
  them. The memory may hold one fault: a bit that is stuck or cannot make one transition, a
  cell whose transition forces or inverts a bit of another, an address that reaches another
  cell. A word is the set of its bits that are 1, as wide as `SdWidth` says; what it holds at
  power-up is any value of `SdPowerUp`. `SdramInit`: `SEED` and the register values
  derived from it, the pins against the board's wiring, the command sequence against a
  controller that stays busy and a chip that counts.
* `Controls`: each board's main loop with its debouncers; the Hothouse measures the hold
  on a counter that wraps at `CycleWrap`; the Pod's knob turns one way, a quarter turn at a time
  with two samples or more in each. A register is the set of its taps, the newest first.

### 2.4 Shared memory

`Coherency` has ten named places of memory, one line each, and per place the backing
word, a line of the data cache and one of the instruction cache, which may be filled,
evicted or written back at any moment (`CacheMoves`). A region table decides, by the
architecture's rules, whether a store stays in the cache. The hand-off runs loader and
application over it, step by step, with resets, power cuts, and a loader built with
another layout of the clocks: `restore` compares one word, so three layouts are enough for
a mismatch that moves that word, one that leaves it in place, and one that puts another
field of the same frequency there. The exercisers are their source's programs as sequences of
operations. `CacheChecker` puts the emulated checker's flags beside those caches and lets
any program run: `judge` knows the newest value of each line.

### 2.5 The DSP library

`Samples` replaces f32 by residues modulo a prime with an exact root of unity, so that an
algorithm can be compared for equality with its definition: the FFT passes with the DFT
(`Fft`), overlap-add with its input and a frozen spectrum with itself (`Stft`), the
reblocked, partitioned convolution with the direct one (`Spatializer`), the filters with
their difference equations (`Filters`), delay taps and reverb lines with what was written
(`DelayEffects`). `FftQ15` is the fixed-point transform bit for bit. `Textures` numbers
samples in the order of recording, so that contiguous is a statement about numbers; its sizes
are constants (both buffers, the crossfade, a grain, what the spray and the spawn timer can
draw, the rates), positions and read values are in half samples, and a sample of the freeze
buffer is `Level` of its number so that the crossfade's weighted sum stays whole.
`Dynamics` and `Voices` count levels and phases in whole fractions.

### 2.6 Divergences between code and documentation

Seven are shown by a run (section 4). The others were met while modelling; the modules
follow the code:

* `dfu_mem.rs:110-112` says `read()` "drops back to indirect"; it returns mapped, and
  the next program or erase leaves the mode.
* `lib.rs:130-131` of `daisy-audio` calls the half `drain()` answers "the half
  that just filled"; `start()` does not clear the flags the running streams have
  left, so the first two interrupts may serve a half that is being filled.
  `InStep` says from when on the comment is true.
* `main.rs:521` of `daisy-usb-audio` pops a capture packet on every service and drops it
  when the endpoint is still full. The interrupt is taken for every USB event, so with
  playback open too the ring is emptied faster than once a frame, and line 510's "hold the
  capture ring near half full" cannot be relied on. The playback loop has no such fault:
  a value the endpoint refuses is replaced by a fresher one. The clamp of line 505 never
  bites with a ring of 512.
* MIDI packets are dropped silently while the bulk IN is busy. `control_out` accepts
  volumes above `VOL_MAX`.
* `pod.rs:40-44` calls 0x7F and 0x80 "the clean edges"; a contact closed for one sample
  gives 0x80, a release that no press preceded. The Hothouse's decoder is exact for turns
  that do not reverse between detents.
* `clocks.rs:104-105` and 157-158 say that a layout mismatch makes the guard fail. It does
  only where the application reads another frequency in the place of `sys_ck`; any other
  mismatch is believed, and the caller is told to rule it out (167-169). `LayoutsAgree`, the
  claim, is stated and not run: with it as an INVARIANT of `MCBoard.cfg` TLC finds a loader of
  `hal3` whose clocks an application of `hal1` accepts. `HandoffKept` says what is true.
* The terminal of `daisy-usb-audio` repaints nothing for a terminal that attaches late.
* The memory test documents `group_errs` as "(this pass)" and adds it up over passes; its
  LED comment says blinking where the LED goes off; two toggles of pause in one read cancel; `wait_fmc_ready`
  gives up after its bound and goes on. `mode_register` calls 0b010 a burst of one.
* The cache checker keeps `Dirty` when a line is invalidated, takes every write of code for
  a cached one, does not count DCCMVAC as cleaning code, and watches the first word of a
  code line; it is silent when another master writes over a dirty line.
* `stft.rs` documents the wrapped phase as (-pi, pi]; both half turns wrap to either side.
  The comment of `FftQ15` that halving every stage prevents overflow does not hold for
  complex samples beyond the unit circle. Bins that map to one bin in
  `SpectralPitchShifter` overwrite each other; the choir drops the notes its bank has no
  room for.
* `gate.rs`'s gain is documented "in [floor, 1]" and starts at 0. `sampler.rs:12` promises a
  seamless loop; the crossfade ends one step before the seam (`SampleSeamless`, stated and
  not run). `PadDrone` changes texture under a hold and releases the wrong engine's, and its
  reset leaves mode, random state and reverb phase. A grain read faster than it was recorded
  crosses the head of the frozen buffer. `Granular::new` asks for a ring of 4096 samples; at
  48 kHz a grain is 3840 of them, and a backoff of up to half a ring more wraps by the mask: a
  ring shorter than three grains keeps grains clear of the head only at the recorded pitch and
  while it records (`Reaches`).
* `flash.rs` checks an image's first address and not its last.

## 3. Plan

Done, in this order: the chip and the driver with their proofs, the DFU memory, the boot
flow, the sample ring with its proofs, the USB services, the audio bridge, the audio DMA;
then the USB classes and the MIDI encoder, the rate loop, the terminal back end, the
memory test and bring-up, the front panels, the shared memory with its exercisers and
their checker, and the DSP library with the spatializer.

`SaiDma` and `AudioBridge` are not composed: the bridge already lets the callback and the
packets come in every order and at every rate, which includes any late interrupt.

The proofs followed the stacks from below: the driver and its store, the DFU memory and its
store, the boot flow; the ring, the bridge, the audio DMA, the USB interrupt; the panels and
the MIDI encoder; the memory test; the pad's engines; the USB classes. Proofs still worth having: `ChipReady`
of `SdramInit` for every bound of the ready loop, and `LevelsSound`'s dynamics for every
lookahead and hold.

Worth modelling next: a chip that stays busy past the driver's 3 s, and the host's ELF
tools against the loader's plausibility check.

## 4. Runs

| Run | Shows | Size |
|---|---|---|
| `qspi_driver` | frames, resets and power cuts in every order; refinement of `NorStore` | two sectors of one two-cell page |
| `dfu_memory` | the DFU methods on top of it; refinement of `DfuStore`; liveness | the same, blocks of two cells |
| `boot_flow` | the boot flow on top of that; liveness | one-cell pages, two restarts |
| `boot_jump_busy` | violation: the jump through a window entered while BUSY | as `boot_flow`, `CcrLocked` |
| `usb_loopback_wedged`, `usb_tui_livelock` | violations: builds whose FIFO gets stuck | FIFO of two packets and a SETUP |
| `usb_config_kept` | violation: a stream outlives a new configuration | the same, `codec` |
| `audio_swapped` | violation: channels exchanged after an overrun | nine samples, blocks and packets of two frames |
| `board_bench` | the sample ring and its refinement of `SpscFifo`, the bridge, the DMA driver, sections 2.3 and 2.4 and the rate loop | `MCBoard.cfg`; 1.0 million states |
| `signal_bench` | section 2.5; the USB interrupt in all four builds, with its liveness | `MCSignal.cfg`, FIFO of three packets and a SETUP; 0.4 million states |
| `limiter_overshoot` | violation: a lone peak leaves above the ceiling | the limiter of `signal_bench` |
| `freeze_again` | violation: a second hold loops across a cut | the pad of `signal_bench` |

Why the bounds are enough. Two sectors separate "the addressed sector" from "the
rest", two cells per page let a page program and a sector erase reach different
sets, and a two-cell block at an odd address straddles two pages. In the boot flow the
vector table's two words are in different sectors, so one can be erased without the
other; two restarts cover a reset while recovering from a reset. A window of three
ticks on a counter that wraps at four, with polls of two, is the code's ratio
(8 s of 10.7 s, with a 3 s wait rounded up). A ring of four cells wraps, fills and
empties, and the proofs cover the other sizes. A FIFO of two packets and a SETUP
is the smallest in which a stuck packet has one in front and one behind. Nine
samples let the capture ring reach both nudges and overrun by half a frame, as 511
does with 96-sample blocks. `MaxRestarts`, `RxDepth` and `Warm` are the only bounds on behaviours in these runs; the
other constants are sizes.

On the board bench the wire carries a status byte of each length, SysEx, system common and
real time; five bytes after a status byte cover a message, its running repeat and an
interruption. A screen of two or three columns and one row already has a last column, a
wrap and a scroll. Three words of two bits and chunks of two put a chunk boundary inside a
phase and an aggressor on either side of its victim; two bits are what three addresses take,
power-up contents of all zeros or all ones give each transition, and two passes separate what
is per pass from what accumulates. A counter that wraps at 16,
sampled every 2, with a hold of 6 and passes of up to 3, keeps the order of the code's own
periods; nine quarter turns are two full turns and the edges on either side. Samples of the
gains have five bits, and the proof covers sixteen. The rate loop is followed for 860 ms at the code's sizes with a codec 2000 ppm fast,
slow or exact, twenty times what its crystal allows, which lets whole blocks slip within
that time; one fault is tried every 5 ms, hence at each phase of the 32 ms reading. It has
250 ms to come back to within 40 samples of half full, and does so at 200 ms as well.
Memory places are one line; coherence is a matter between one line and its copies, and
the exercisers touch at most three at once.

On the signal bench a length of 8 has a radix-4 and a radix-2 pass and 1 and 2 are the
special paths of the code; eight hops fill and empty an overlap of four; thirteen callbacks
take the reblocking queues through every alignment of chunk and block and the convolver
through its three partitions; the prime 31 has an exact circle of 32 points, which is all
the transforms ask of it. A ring of four grains, sprays from none to nearly half the ring, a pool of two
and rates of half, one and two let a grain start anywhere, wrap, and be held on its way; the
loop of eight turns at any head. The pitch is changed before the first sample
(`PitchTimes`) and the pad reset at the seventh (`ResetTimes`), which keeps the run short; the
proof puts them anywhere. `StftHops`, `SpCallbacks`, `DlTicks`, `RvTicks`, `PadTicks`,
`PadMoves`, `FlLength`, `DyTicks`, `ShTicks`, `MidiLength`, `QuarterTurns`, `TuiAttaches`,
`TuiMops`, `TuiTail`, `SdPasses` and `RateHorizon` bound behaviours; a part that has reached its bound, has
rebooted or has returned takes the step `Halted` or `Heard`, so that any other stop is
reported as a deadlock.

A counterexample of a violation run is a behaviour of the code:

* `boot_jump_busy`: an upload in the boot window leaves the window mapped and busy; the
  CCR write that should start the recovery is dropped, the chip keeps its
  continuous-read mode and the jump loads words that are not the image's.
* `usb_loopback_wedged`: the host opens playback and not capture. The loopback
  build reads playback only while both are open, so one packet sits in the endpoint
  buffer, the next at the head of the FIFO, and SETUP packets behind it.
* `usb_tui_livelock`: two serial packets arrive before the main loop reads. The flag
  of the FIFO is a level, the interrupt is taken for ever and the main loop never is.
* `usb_config_kept`: the host configures the device, opens playback and sets a configuration
  again (the same, or none). It believes both streams closed; `alt_out` is still 1.
* `audio_swapped`: the capture ring is full six blocks after power-up, when no host
  has opened the stream; it holds a left sample without its right one, and the next
  block is appended behind it.
* `limiter_overshoot`: a quiet stretch, one loud sample, quiet again. When the loud sample is due
  its cell is overwritten before the peak is taken, the gain begins its release and the
  sample is played above the ceiling.
* `freeze_again`: hold, release, record a few samples, hold. The buffer was turned at the first hold
  and the head was not; the second turn starts at a sample that is not the oldest.

## 5. Fairness

* `dfu_memory`: weak fairness of `Serve`, the steps of a method in progress. The code is a
  loop that never waits for the host; a wait for the chip always ends
  (`wait_while_wip` gives up after 3 s, but the model does not follow that path). The
  host has no fairness.
* `boot_flow`: weak fairness of `LoaderStep`, the steps of `main()`, which is one thread
  and only polls. Resets, power cuts, the host and the application are not fair.
  `RequestReachesService` lets a further restart excuse the board.
* `signal_bench` and the three `usb_` runs: weak fairness of the USB interrupt
  (`UsbFairness`), which is enabled and the only one of its kind
  while pending, and of the main loop's read, which runs only while no interrupt is
  pending. That the second is enough only in builds where the interrupt reads everything
  is what the two violations show. The host is not fair.

Of everything else on the benches only safety is checked: those parts are called by a loop, an interrupt or a callback
that owes nothing to anyone, and what they must come to in the end is stated of the state
in which they get there (a drained queue, a whole pass, a settled ring). Deadlock is checked
in every run.

## 6. Proofs

All proofs hold for every value of the constants, under the named assumptions on them,
which every run's values satisfy: a geometry of at least one sector, page and cell; a
transfer size of at least one; a boot counter and a longest poll of at least one
tick; a ring of at least two cells; an odd number of usable samples in the bridge's rings;
a cycle counter that does not wrap within one hold and one pass; a word of the SDRAM wide
enough for the index of every word (`AddressAssumption`; 32 bits for 2^24 words); a freeze
buffer of at least eight samples with a crossfade of at most a quarter, as `Freeze::new`
asserts and clamps; a spray below half the granular ring, as `Granular::new` sets it.
`MaxRestarts`, `MidiLength`, `QuarterTurns`, `SdPasses`, `PadTicks` and `PadMoves` bound only
the runs: they are constants too, hence arbitrary.

An invariant that a run checks is hardly ever inductive as it stands. Each proof module
begins with the invariant that is; TLC checked it, on the instance of the run, before it was
proved. What it adds is the argument.

*Driver.* `DriverInv` is inductive with the type invariant. It says, for each
value of `drv`, what the frames sent so far have established, from any chip mode: the
controller is never busy when CCR is written; after `exit` the chip is out of
continuous-read mode, if the framing of that read agrees or one was in
progress; between `wren` and `write` the latch is set; a mapped window has its
dummy cycles and no latch set. `XipFramed` alone is not inductive: it says nothing while
the routine is on its way. `WindowFaithful`, `WritesExecuted` and `WindowWriteProtected` follow.
`DriverImplementsStore` is a step simulation: each frame maps to a step of `NorStore` or
to a stutter, with `pending` the call and `applied` true while its wait runs; a reset
maps to the store's crash, torn within `Touched(call)`.

*DFU memory.* `DfuInv` adds to the driver's invariant which routine may run for which method
(`JobInv`), what the mode flag is worth at each point of a mode change (`ModeInv`), and how
far a method's loop can be (`MethodInv`). `ModeShadow` speaks of idle moments only; what is
inductive is that the flag is right whenever the driver is idle inside a method too, and what
each step of a mode change has left to do. From `DfuInv` every call meets the preconditions of
`qspi.rs`, so that `DriverUsedProperly` is `DfuSpec => QspiSpec`, and whatever is proved of the
driver holds under the DFU methods without a second proof (`DriverSoundUnderDfu`).
`ProgramPageAsserts` says that the debug assertions on a page's chunk cannot fire: the loop's
`min` with the space left in the page is what keeps them quiet.

`DfuImplementsStore` is the second refinement. `StoreInv` ties the one block buffer to the
block the host sent for as long as a program request may need it (an upload uses the same
buffer, and afterwards nothing is claimed), and the call in progress to the part of the block
that ends where the loop is (`ChunkSent`). A frame that writes maps to the settling of its
cells; everything between is a stutter; a restart in the middle of a block leaves the cells
still to be settled (`Left`) torn and the rest as they were.

*Boot flow.* `LoaderInv` has one conjunct for each thing `main()` relies on: until the jump the
DFU memory's invariant (`MemoryInv`), in the jump what is left of it (`LaunchInv`), which part
of the DFU object's life each stage is (`StageInv`), who owes a request (`RequestInv`), that
`DFU_SAW_WRITE` knows of every write (`WroteInv`), that the verdict of the probe is still true
(`ImageInv`), and what the jump has loaded (`VectorInv`). `NeverJumpsAfterWrite` needs
`WroteInv` because the window looks at the flag and not at the flash. `JumpIsSound` and
`DriverUsedByLoader` assume `~CcrLocked`, a controller that takes a CCR write while BUSY, as the
emulated one does. The hypothesis is needed: with the silicon's rule the run
`boot_jump_busy` violates `JumpSound`. Every other theorem of the module holds with both
controllers, and so does `ImageStaysPlausible`: with the silicon's rule, too, it is not the
image that is wrong but what the window shows of it.

*Ring.* `RingInv` (types, `ClaimsHold`, `LenSound` and what a `len` between its two loads
has seen) is inductive. `ClaimsHold` is needed because
`NoSharedCell` relates two calls in progress: what keeps the cells apart is that each
side has checked the other's index earlier and the other can only move away since. The
indices live modulo N; `ModOnce` turns `x % n` for x < 2n into a case split, after which
every step is linear arithmetic. `RingImplementsFifo` maps the queue to the cells from head to tail: the
two stores that publish are its steps, everything else a stutter.
`RingTypeCorrect` and `OnlySamplesQueued` state the ring's types, which the bench checks as
part of `BoardTypeOK`.

*Bridge.* `ChannelsPaired` needs no strengthening but the types, `BridgeInv`: what is pushed
and what is popped are whole frames, so a ring that took all of it holds an even number of
samples, left first. The proof never uses that the capacity is odd: that is what lets a
full ring split a frame, and `overrun` sets those states aside.
`StreamsLeaveInterleaved` is the action property that carries this from the rings to the
blocks and packets that leave them, and names the exception: the exchange the run `audio_swapped` shows has no other cause.

*Audio DMA.* `SaiInv` says what each further undelayed interrupt restores after a delay: a
conjunct for each of the first three (`OneLeft`, `CaughtUp`, `Settled`), beside what holds
always (`Sourced`). `BlocksServedOnce` is what it says from the third, which is `Warm`, on.

*USB interrupt.* `UsbInv` explains `AltsAgree` by what is in the FIFO: exactly one SETUP packet
while the host waits (`SetupQueued`), no audio packet behind a closing or a configuring request
(`AudioAhead`), and nothing remembered by a host that has reset the bus (`Forgotten`).
`SettingOf` is what the device should have: what the host believes, except for the streams
it left open when it set a configuration (`left`). `Answered` is the one step in which both
sides change: what each answer makes of `SettingOf` is what it makes of the device's setting.
`RxNeverBlocked` follows from `Drained`, that the interrupt leaves no buffer full.

*Front panels.* `PedalInv`: a start time is kept exactly while both switches read as pressed,
and the difference on the wrapping counter is the true time since then. It is true because a
hold that is long enough ends the loop, which is the assumption `DfuHold + d < CycleWrap`;
`WrapAdds` is the arithmetic. `PodInv`: the two samples of each phase are the levels of the
quarter the knob is in or has just left. `SwitchInv`: a register that reads as the rising edge
has told of the press, one sample before it reads as pressed.

*MIDI.* `Follows` says what the encoder remembers of the wire: which status byte began the
message under way, how many bytes it takes and has, and in a dump that the packet being
filled is the end of the wire. `PushFollows` is the step, a case for each routine of the
encoder; `MidiFaithful` then holds of the endpoint too, because a refused packet of a dump marks
it as lost.

*USB classes.* That host and device agree needs no more than the types: both records start
alike and take the same writes. The argument is in the arithmetic. `TruncMonotone` and
`TruncWhole` say what the cast to an integer keeps; `PathSound` draws from them what any two
gains, not only those of the table, do to a sample, and `UnityWithinOne` that bringing 32768
steps to 32767 costs one step at most. The descriptors are tables: `UnitFound` reads one by
its numbers, and the total of a table is a recursive sum whose solution the proof exhibits.

*Memory test.* `TestInv` follows a fault through a pass. `Held`: every word the phase has
passed, or will read, is what the suite wrote there, but for the cells a fault can spoil
(`Suspects`) and in the one bit it can spoil. `Detected` says the rest per kind of fault. The
march's elements 12 to 15 write ones, zeros, ones, zeros, the first two upwards; for a fault
between an aggressor and its victim, `Sense` is the element whose write at the aggressor turns
the victim wrong before the victim is read and rewritten, `See` the one that reads it then
(a table over the direction of the edge, the side of the victim, and what it is forced to).
From the word that senses to the word that sees, the victim holds the wrong bit; before,
`VictimPoised` that it still holds the other; after, group 5 is accused. A cell behind a
wrong address is overwritten by its twin in the own-address pattern (`AliasOwned`), and two
words never own the same address because a word is wide enough. A sound memory is never
accused because `Held` has then no suspects. What is logged is at a suspect and in that bit
(`FaultsLocated`); the log ring holds the last `SdErrLogCap` failures by the arithmetic of one
head modulo its length, without induction over the sequence. The code saturates its counts at
2^32 - 1; the model's are naturals.

*Pad.* A ring is described by ages: index i holds the sample that was recorded
`Age(cap, write, i)` samples before the newest (`RingHolds`, `Taped`). For the freeze buffer
that makes turning it a statement about ages (`AgesTurned`), and the crossfade comes out
whole between two levels a period apart (`FadeExact`). For a grain, the lag behind the head in
half samples says what it reads (`ReadBack`): between one sample and the ring's length,
a grain reads at its own place in the order of recording, on whole samples and between two.
`Trails` bounds the lag between two samples by what the backoff gave it, what the head has gone
since and what the grain has; `Aimed` is the same bound after the head has written and before
the grain reads, which is where it must not have left the ring. The two are inductive
together, through `Recorded`, `Spawn` and `Ticked` in the order of `process`. `Reaches` is as
wide as the bound allows: outside each of its limits some ring and spray let a grain cross
the head. `HoldInv` says
of the engine that was last given or denied the hold (`last`) that it is held exactly while
the swell is open, and of the engine that is not heard that it is never held, as long as the
mode was not changed under a hold. What `TexturesProved` says of the loop presumes that the
whole buffer was recorded since the last release (`fresh`): without that the run
`freeze_again` shows it false.

Model-checked only, and why:

* all liveness: `RequestsAnswered`, `RequestReachesService`, `BoardSettles`, `SetupServed` (the
  prover has no ENABLED);
* `MemoryCoherent`: `Coherency` and `CacheChecker` have a finite set of states and no
  parameter, so that TLC's run of them is complete, and `SdramInit` only the bound of its
  ready loop;
* `RateHolds`: a fact about 860 steps with the code's numbers;
* `TransformsSound`, `RenderSound`, most of `LevelsSound`, and the screen and the parser in
  `TerminalSound`: they compute over data by folds and recursive functions and would need
  induction over it;
* `BoardTypeOK` and `SignalTypeOK` are sums over the parts of a bench; the parts proved above
  have their types within their invariants.

## 7. What is left out, and what is assumed

* The chip answers: a wait for WIP ends, and status reads are correct. The timeout path of
  `wait_while_wip` is listed as a hazard.
* A host stops its audio stream before it asks to close it or sets a configuration, uses
  no interface of a device it has not configured, and sends one control request at a time.
  A bus reset and the addressing that follows it are one event.
* `VectorSamples` lets a misframed window return any words; a faithful one returns the flash.
* Pin, clock-tree and codec register set-up, LED patterns, the knobs and toggles of the
  panels, fault handlers.
* The rounding of f32, `tanh` and the sine tables: a property over `Samples` says that the
  algorithm is right, not how accurate it is.
* The caches of `Coherency` hold every place on its own, never fault, and fill no more than the
  place asked for. The exercisers run under the emulator, which has no caches; they are judged as
  if it had. Of the fills, `CacheChecker` has those its program causes: a checker that sees
  accesses cannot know of speculative ones. Its promise also assumes that no line is dirty
  when it is dropped or overwritten by another master.
* In `RateLoop` the host obeys the value it read exactly, and the capture direction is not
  closed into a loop (section 2.6).
* `DFU_SAW_ACTIVITY`'s effect on the window is the code's; the time a poll takes is short or
  `SlowTicks`.
* Components listed as not modelled in `PROJECT.json`, with the reason there.
