----------------------------- MODULE Bootloader -----------------------------
(***************************************************************************)
(* daisy-boot's main(): from an MCU reset to service mode or to the         *)
(* application.  It takes the "stay in DFU" request an application left in   *)
(* Backup SRAM, maps the flash, reads the first two words of the image,      *)
(* keeps a boot window open for a DFU host and jumps.                        *)
(*                                                                           *)
(*   reset -> probe -> bringup -> service                                    *)
(*                             -> window <-> polling -> service              *)
(*                                       -> reenter -> jump -> app -> reset  *)
(*                                                                           *)
(* A reset or a power cut can come at every step.  The renode_test build of  *)
(* main() is not modelled.                                                   *)
(***************************************************************************)
EXTENDS DfuMem

CONSTANTS
  WindowTicks,  \* BOOT_WINDOW_CYCLES, in ticks of 2^30 cycles: 3
  WrapTicks,    \* the 32-bit cycle counter wraps: 4
  SlowTicks,    \* longest poll(), one that waits out WIP_TIMEOUT_US: 2
  MaxRestarts   \* bound on the resets and power cuts of a behaviour

ASSUME TimerAssumption ==
  /\ WindowTicks \in Nat /\ WrapTicks \in Nat \ {0} /\ SlowTicks \in Nat \ {0}
  /\ MaxRestarts \in Nat

VARIABLES
  stage,       \* where main() is
  dfuRequest,  \* the magic word in Backup SRAM
  forceDfu,    \* take_dfu_request()'s result
  looksValid,  \* qspi_looks_valid
  elapsed,     \* cycle count since the window opened
  slow,        \* this poll() entered memory-mapped mode
  launch,      \* history: the vectors the jump loaded
  owed,        \* history: a request was made and service mode not entered since
  wrote,       \* history: an erase or program frame was sent in this boot
  restarts     \* resets and power cuts so far

bootVars == <<stage, dfuRequest, forceDfu, looksValid, elapsed, slow, launch, owed, wrote,
              restarts>>
loaderVars == <<dfuVars, bootVars>>

InWindow == {"window", "polling"}
Leaving  == {"reenter", "jump", "app"}
Stages   == {"reset", "probe", "bringup", "service"} \cup InWindow \cup Leaving

BootTypeOK ==
  /\ DfuTypeOK
  /\ stage \in Stages
  /\ dfuRequest \in BOOLEAN /\ forceDfu \in BOOLEAN /\ looksValid \in BOOLEAN
  /\ elapsed \in 0 .. WrapTicks - 1 /\ slow \in BOOLEAN
  /\ launch \in {"none", "sound", "unsound"} /\ owed \in BOOLEAN /\ wrote \in BOOLEAN
  /\ restarts \in 0 .. MaxRestarts

(* The vector table: two words, each plausible when programmed.             *)
VectorCells == 0 .. 1
IsPlausibleImage(v) == \A x \in VectorCells : v[x] = 0
Image == [x \in VectorCells |-> cells[x]]
VectorSamples == IF FetchFaithful THEN {Image} ELSE [VectorCells -> Bit]

BootInit ==
  /\ DfuInit
  /\ stage = "reset" /\ dfuRequest = FALSE /\ forceDfu = FALSE /\ looksValid = FALSE
  /\ elapsed = 0 /\ slow = FALSE /\ launch = "none" /\ owed = FALSE /\ wrote = FALSE
  /\ restarts = 0
-----------------------------------------------------------------------------
TakeUncleared ==
  /\ stage = "reset" /\ stage' = "probe"
  /\ forceDfu' = dfuRequest
  /\ UNCHANGED <<dfuVars, dfuRequest, looksValid, elapsed, slow, launch, owed, wrote, restarts>>

ClearBeforeTake ==
  /\ stage = "reset" /\ stage' = "probe"
  /\ dfuRequest' = FALSE /\ forceDfu' = dfuRequest'
  /\ UNCHANGED <<dfuVars, looksValid, elapsed, slow, launch, owed, wrote, restarts>>

TakeDfuRequest ==
  /\ stage = "reset" /\ stage' = "probe"
  /\ forceDfu' = dfuRequest /\ dfuRequest' = FALSE
  /\ UNCHANGED <<dfuVars, looksValid, elapsed, slow, launch, owed, wrote, restarts>>

MapForProbe == stage = "probe" /\ BootMap /\ UNCHANGED bootVars

ReadVectorTable ==
  /\ stage = "probe" /\ stage' = "bringup"
  /\ BootReadVectors
  /\ \E v \in VectorSamples : looksValid' = IsPlausibleImage(v)
  /\ UNCHANGED <<dfuRequest, forceDfu, elapsed, slow, launch, owed, wrote, restarts>>

RecoverForDfu == stage = "bringup" /\ NewRecover /\ UNCHANGED bootVars

OnlyOnRequest == forceDfu
StayInService == forceDfu \/ ~looksValid

Decide ==
  /\ stage = "bringup" /\ NewDone
  /\ IF StayInService THEN stage' = "service" /\ owed' = FALSE
                      ELSE stage' = "window"  /\ UNCHANGED owed
  /\ elapsed' = 0
  /\ UNCHANGED <<dfuRequest, forceDfu, looksValid, slow, launch, wrote, restarts>>

(* One turn of the window loop: the timer, then usb_dev.poll(), which may   *)
(* carry one host request, then the test for a flash write.                 *)
ExpiredAfter ==
  /\ stage = "window" /\ elapsed > WindowTicks
  /\ stage' = "reenter"
  /\ UNCHANGED <<dfuVars, dfuRequest, forceDfu, looksValid, elapsed, slow, launch, owed, wrote, restarts>>

WindowExpired ==
  /\ stage = "window" /\ elapsed >= WindowTicks
  /\ stage' = "reenter"
  /\ UNCHANGED <<dfuVars, dfuRequest, forceDfu, looksValid, elapsed, slow, launch, owed, wrote, restarts>>

Poll ==
  /\ stage = "window" /\ elapsed < WindowTicks
  /\ stage' = "polling" /\ slow' = FALSE
  /\ Host \/ UNCHANGED dfuVars
  /\ UNCHANGED <<dfuRequest, forceDfu, looksValid, elapsed, launch, owed, wrote, restarts>>

PollStep ==
  /\ stage = "polling" /\ Serve
  /\ slow' = (slow \/ drv = "exit") /\ wrote' = (wrote \/ drv = "write")
  /\ UNCHANGED <<stage, dfuRequest, forceDfu, looksValid, elapsed, launch, owed, restarts>>

NoWrap ==
  /\ stage = "polling" /\ Idle
  /\ \E k \in 1 .. (IF slow THEN SlowTicks ELSE 1) : elapsed' = elapsed + k
  /\ IF sawWrite THEN stage' = "service" /\ owed' = FALSE
                 ELSE stage' = "window"  /\ UNCHANGED owed
  /\ UNCHANGED <<dfuVars, dfuRequest, forceDfu, looksValid, slow, launch, wrote, restarts>>

PollDone ==
  /\ stage = "polling" /\ Idle
  /\ \E k \in 1 .. (IF slow THEN SlowTicks ELSE 1) : elapsed' = (elapsed + k) % WrapTicks
  /\ IF sawWrite THEN stage' = "service" /\ owed' = FALSE
                 ELSE stage' = "window"  /\ UNCHANGED owed
  /\ UNCHANGED <<dfuVars, dfuRequest, forceDfu, looksValid, slow, launch, wrote, restarts>>

ServiceHost == stage = "service" /\ Host /\ UNCHANGED bootVars
ServiceStep ==
  /\ stage = "service" /\ Serve
  /\ wrote' = (wrote \/ drv = "write")
  /\ UNCHANGED <<stage, dfuRequest, forceDfu, looksValid, elapsed, slow, launch, owed, restarts>>

(* release() does not touch the mode; enter_memory_mapped follows it        *)
(* whatever the mode is, and the jump loads the vectors again.              *)
Reenter ==
  /\ stage = "reenter" /\ stage' = "jump"
  /\ CallEnter
  /\ UNCHANGED <<memVars, dfuRequest, forceDfu, looksValid, elapsed, slow, launch, owed, wrote, restarts>>

JumpToApp ==
  /\ stage = "jump" /\ drv = "idle" /\ stage' = "app"
  /\ Fetched
  /\ \E v \in VectorSamples :
       launch' = IF v = Image /\ IsPlausibleImage(v) THEN "sound" ELSE "unsound"
  /\ UNCHANGED <<cells, drv, job, call, memVars>>
  /\ UNCHANGED <<dfuRequest, forceDfu, looksValid, elapsed, slow, owed, wrote, restarts>>

LoaderDriverStep ==
  /\ stage \in {"probe", "bringup", "jump"}
  /\ MemDriverStep
  /\ UNCHANGED bootVars

AppFetch == stage = "app" /\ Fetch /\ UNCHANGED <<memVars, bootVars>>
-----------------------------------------------------------------------------
(* Resets.  Backup SRAM survives an MCU reset and not a power cut.          *)
RestartMain ==
  /\ restarts < MaxRestarts /\ restarts' = restarts + 1
  /\ stage' = "reset" /\ forceDfu' = FALSE /\ looksValid' = FALSE
  /\ elapsed' = 0 /\ slow' = FALSE /\ launch' = "none" /\ wrote' = FALSE

BoardReset == RestartMain /\ MemReset /\ UNCHANGED <<dfuRequest, owed>>

RebootToBootloader ==
  /\ stage = "app"
  /\ RestartMain /\ MemReset
  /\ dfuRequest' = TRUE /\ owed' = TRUE

PowerLoss == RestartMain /\ MemPowerCycle /\ dfuRequest' = FALSE /\ owed' = FALSE

LoaderStep ==
  \/ TakeDfuRequest \/ MapForProbe \/ ReadVectorTable \/ RecoverForDfu \/ Decide
  \/ WindowExpired \/ Poll \/ PollStep \/ PollDone \/ ServiceStep
  \/ Reenter \/ JumpToApp \/ LoaderDriverStep

LoaderNext ==
  \/ LoaderStep \/ ServiceHost \/ AppFetch
  \/ BoardReset \/ RebootToBootloader \/ PowerLoss

LoaderSpec     == BootInit /\ [][LoaderNext]_loaderVars

(* main() is a single thread that never blocks on the host.                 *)
LoaderFairSpec == LoaderSpec /\ WF_loaderVars(LoaderStep)
-----------------------------------------------------------------------------
(* The CPU is handed to the application only with the stack pointer and the *)
(* reset vector that are in the flash, and only if they are plausible; the  *)
(* plausibility test was made a whole boot window, and any number of        *)
(* uploads, before the jump loads the words again.                          *)
JumpSound == stage = "app" => launch = "sound"

(* Once a host wrote to the flash in this boot, the board does not leave    *)
(* service mode: a half-flashed image is never started by the boot that was *)
(* flashing it.                                                             *)
NeverJumpsAfterWrite == stage \in Leaving => ~wrote

(* The board is pinned in service mode only for a reason: a request nobody  *)
(* honoured yet, a flash write, or an image that is implausible in the      *)
(* flash itself.  In particular a request is honoured at most once, and     *)
(* uploads and a stale chip mode never keep a good application from booting.*)
NoSpuriousService ==
  [][(stage # "service" /\ stage' = "service") =>
       owed \/ sawWrite \/ ~IsPlausibleImage(Image)]_loaderVars

(* A request left in Backup SRAM brings the board into service mode, unless *)
(* another reset or a power cut comes in between.                           *)
RequestReachesService ==
  \A k \in 0 .. MaxRestarts :
    (stage = "reset" /\ dfuRequest /\ restarts = k) ~> (stage = "service" \/ restarts > k)

(* A board left alone ends in the application or in service mode: the boot  *)
(* window closes although the cycle counter wraps and polls are long.       *)
BoardSettles == <>[](stage \in {"service", "app"})
=============================================================================
