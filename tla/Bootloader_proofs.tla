-------------------------- MODULE Bootloader_proofs --------------------------
(***************************************************************************)
(* Theorems about daisy-boot's main(), for every flash geometry, block size, *)
(* boot window and number of restarts.  Up to the jump DfuMem's invariant   *)
(* holds; the jump itself re-enters memory-mapped mode without QspiDfuMem,  *)
(* and only a controller that takes the CCR write while BUSY keeps the      *)
(* driver's invariant there.                                                *)
(***************************************************************************)
EXTENDS Bootloader, DfuMem_proofs

Launching == {"jump", "app"}

MemoryInv == stage \notin Launching => DfuInv

LaunchInv ==
  stage \in Launching =>
    /\ DfuTypeOK /\ PendingInv
    /\ drv \notin WriteSteps /\ method.op = "none"
    /\ ~CcrLocked => DriverInv

(* Which part of QspiDfuMem's life each stage of main() is.                 *)
StageInv ==
  /\ stage \in {"reset", "probe"} => method.op = "boot"
  /\ stage = "bringup" => method.op = "new"
  /\ stage = "service" \/ stage \in InWindow => method.op \notin {"boot", "new"}
  /\ stage \in {"window", "reenter"} => Idle

(* A request in Backup SRAM is one nobody honoured, and so is the one taken. *)
RequestInv ==
  /\ dfuRequest => owed /\ stage = "reset"
  /\ forceDfu /\ stage \in {"probe", "bringup"} => owed

(* DFU_SAW_WRITE knows of every write, and keeps the board from leaving.    *)
WroteInv ==
  /\ wrote => sawWrite /\ stage \notin {"reset", "probe", "bringup"}
  /\ stage = "window" \/ stage \in Leaving => ~sawWrite

(* What was tested in the probe is still in the flash, unless a host wrote. *)
ImageInv ==
  /\ stage = "bringup" => (looksValid <=> IsPlausibleImage(Image))
  /\ stage \in InWindow \cup Leaving /\ ~sawWrite => IsPlausibleImage(Image)

VectorInv == ~CcrLocked /\ stage = "app" => launch = "sound"

BootOK ==
  /\ stage \in Stages
  /\ dfuRequest \in BOOLEAN /\ forceDfu \in BOOLEAN /\ looksValid \in BOOLEAN
  /\ elapsed \in 0 .. WrapTicks - 1 /\ slow \in BOOLEAN
  /\ launch \in {"none", "sound", "unsound"} /\ owed \in BOOLEAN /\ wrote \in BOOLEAN
  /\ restarts \in 0 .. MaxRestarts

LoaderInv == /\ BootOK /\ MemoryInv /\ LaunchInv /\ StageInv
             /\ RequestInv /\ WroteInv /\ ImageInv /\ VectorInv

LEMMA LoaderTyped == LoaderInv => BootTypeOK /\ DfuTypeOK
BY DEF LoaderInv, BootOK, MemoryInv, LaunchInv, DfuInv, BootTypeOK

-----------------------------------------------------------------------------
(* Only the frame that writes changes the array.                            *)
LEMMA CellsKept == DriverStep /\ drv # "write" => UNCHANGED cells
BY DEF DriverStep, Abort, ExitContinuousRead, EnableReset, ResetMemory, CheckQuadEnable,
       QeWriteEnable, QeWriteStatus, QeWaitWip, SetReadParameters, Map, WriteEnable,
       WriteFrame, WaitWip

(* A frame of the routine that maps the window for the jump.                *)
LEMMA LaunchFrame ==
  ASSUME DfuTypeOK, PendingInv, drv \notin WriteSteps, MemDriverStep
  PROVE  /\ DfuTypeOK' /\ PendingInv' /\ drv' \notin WriteSteps
         /\ DriverInv => DriverInv'
         /\ UNCHANGED <<memVars, cells>>
<1>1. DriverStep /\ UNCHANGED memVars /\ QspiNext BY DEF MemDriverStep, QspiNext
<1>2. QspiTypeOK BY DEF DfuTypeOK
<1>3. QspiTypeOK' /\ PendingInv' /\ (DriverInv => DriverInv')
  BY <1>1, <1>2, TypeStep, PendingStep, DriverInvStep
<1>4. DfuTypeOK' BY <1>1, <1>3 DEF DfuTypeOK, memVars
<1>5. drv' \notin WriteSteps
  BY <1>1 DEF WriteSteps, DriverStep, Abort, ExitContinuousRead, EnableReset, ResetMemory,
              CheckQuadEnable, QeWriteEnable, QeWriteStatus, QeWaitWip, SetReadParameters, Map,
              WriteEnable, WriteFrame, WaitWip, Command
<1>6. UNCHANGED cells BY <1>1, CellsKept DEF WriteSteps
<1> QED BY <1>1, <1>3, <1>4, <1>5, <1>6

(* A host's request touches neither the flash nor the driver, and clears no *)
(* flag.                                                                    *)
LEMMA HostFacts ==
  ASSUME DfuInv, Host
  PROVE  /\ DfuInv' /\ UNCHANGED cells
         /\ method'.op \notin {"boot", "new"}
         /\ sawWrite => sawWrite'
<1>1. DfuInv' BY HostStep
<1>2. UNCHANGED qspiVars /\ (sawWrite' = sawWrite \/ sawWrite' = TRUE)
  BY DEF Host, StoreWriteBuffer, StartRead, StartProgram, StartErase, StartEraseAll,
         StartManifestation
<1>3. method'.op \notin {"boot", "new"}
  BY NoMethodType DEF Host, StoreWriteBuffer, StartRead, StartProgram, StartErase, StartEraseAll,
         StartManifestation, Begin, Answered, Method
<1>4. UNCHANGED cells BY <1>2 DEF qspiVars
<1>5. sawWrite => sawWrite' BY <1>2
<1> QED BY <1>1, <1>3, <1>4, <1>5

(* A step of a method changes the array only where DFU_SAW_WRITE is set.    *)
LEMMA ServeFacts ==
  ASSUME DfuInv, method.op \notin {"boot", "new"}, Serve
  PROVE  /\ DfuInv' /\ sawWrite' = sawWrite
         /\ method'.op \notin {"boot", "new"}
         /\ drv = "write" => sawWrite
         /\ ~sawWrite => UNCHANGED cells
<1>1. DfuInv' BY ServeStep
<1>2. drv = "write" => sawWrite
  BY DEF DfuInv, DfuTypeOK, Operations, JobInv, MethodInv, WriteSteps, WriteOps
<1>3. sawWrite' = sawWrite
  BY DEF Serve, EnsureMm, EnsureIndirect, ReadWindow, ProgramChunk, EraseSector,
         EraseNextSector, FinishMethod, MemDriverStep, memVars, KeepMem
<1>4. method' \in {method, NoMethod}
  BY DEF Serve, EnsureMm, EnsureIndirect, ReadWindow, ProgramChunk, EraseSector,
         EraseNextSector, FinishMethod, MemDriverStep, memVars, KeepMem, Answered
<1>5. drv # "write" => UNCHANGED cells
  <2>1. CASE MemDriverStep BY <2>1, CellsKept DEF MemDriverStep
  <2>2. CASE EnsureMm \/ EnsureIndirect \/ ReadWindow
    BY <2>2 DEF EnsureMm, EnsureIndirect, ReadWindow, CallEnter, CallRecover
  <2>3. CASE ProgramChunk \/ EraseSector \/ EraseNextSector \/ FinishMethod
    BY <2>3 DEF ProgramChunk, EraseSector, EraseNextSector, FinishMethod, CallProgram, CallErase,
                qspiVars
  <2> QED BY <2>1, <2>2, <2>3 DEF Serve
<1> QED BY <1>1, <1>2, <1>3, <1>4, <1>5, NoMethodType

-----------------------------------------------------------------------------
LEMMA LoaderInitInv == BootInit => LoaderInv
<1> SUFFICES ASSUME BootInit PROVE LoaderInv OBVIOUS
<1>1. DfuInv BY DfuInitInv DEF BootInit
<1>2. method.op = "boot" BY NoMethodType DEF BootInit, DfuInit, MemInit
<1>z. 0 \in 0 .. WrapTicks - 1 /\ 0 \in 0 .. MaxRestarts BY TimerAssumption
<1>3. BootOK BY <1>z DEF BootInit, BootOK, Stages
<1> QED
  BY <1>1, <1>2, <1>3 DEF BootInit, LoaderInv, MemoryInv, LaunchInv, Launching, StageInv,
     RequestInv, WroteInv, ImageInv, VectorInv, InWindow, Leaving

(* Up to bring-up: the request is taken, the flash mapped and probed.       *)
LEMMA ProbeStep ==
  ASSUME LoaderInv,
         \/ TakeDfuRequest \/ MapForProbe \/ ReadVectorTable \/ RecoverForDfu \/ Decide
  PROVE  LoaderInv'
<1> USE DEF LoaderInv, MemoryInv, LaunchInv, Launching, StageInv, RequestInv, WroteInv,
            ImageInv, VectorInv, InWindow, Leaving, Stages
<1>d. DfuInv
  BY DEF TakeDfuRequest, MapForProbe, ReadVectorTable, RecoverForDfu, Decide
<1>1. CASE TakeDfuRequest
  <2>1. UNCHANGED dfuVars /\ DfuInv' BY <1>1, <1>d, DfuStepInv DEF TakeDfuRequest
  <2>2. BootOK' BY <1>1 DEF TakeDfuRequest, BootOK
  <2>3. method'.op = "boot" /\ ~wrote' BY <1>1, <2>1 DEF TakeDfuRequest, dfuVars, memVars
  <2> QED BY <1>1, <2>1, <2>2, <2>3 DEF TakeDfuRequest, BootOK
<1>2. CASE MapForProbe
  <2>1. DfuInv' BY <1>2, <1>d, BootStep DEF MapForProbe
  <2>2. UNCHANGED <<bootVars, memVars>> /\ stage = "probe"
    BY <1>2 DEF MapForProbe, BootMap
  <2> QED BY <2>1, <2>2 DEF bootVars, memVars, BootOK
<1>3. CASE ReadVectorTable
  <2>1. DfuInv' BY <1>3, <1>d, BootStep DEF ReadVectorTable
  <2>2. /\ stage = "probe" /\ stage' = "bringup" /\ method' = Method("new", 0, 0)
        /\ drv = "idle" /\ ctrl.mode = "mapped"
        /\ UNCHANGED <<cells, sawWrite, dfuRequest, forceDfu, elapsed, slow, launch, owed, wrote, restarts>>
    BY <1>3 DEF ReadVectorTable, BootReadVectors, Running, Fetched
  <2>3. FetchFaithful BY <1>d, <2>2, MappedIsFaithful DEF DfuInv, DfuTypeOK, XipFramed
  <2>4. looksValid' = IsPlausibleImage(Image) BY <1>3, <2>3 DEF ReadVectorTable, VectorSamples
  <2>5. Image' = Image BY <2>2 DEF Image
  <2>6. looksValid' \in BOOLEAN /\ (looksValid' <=> IsPlausibleImage(Image'))
    BY <2>4, <2>5 DEF IsPlausibleImage
  <2>7. method'.op = "new" BY <2>2, NoMethodType
  <2>8. BootOK' BY <2>2, <2>6 DEF BootOK
  <2> QED BY <2>1, <2>2, <2>6, <2>7, <2>8
<1>4. CASE RecoverForDfu
  <2>1. DfuInv' BY <1>4, <1>d, BootStep DEF RecoverForDfu
  <2>2. UNCHANGED <<bootVars, memVars, cells>> /\ stage = "bringup"
    BY <1>4 DEF RecoverForDfu, NewRecover, CallRecover
  <2> QED BY <2>1, <2>2 DEF bootVars, memVars, BootOK, Image
<1>5. CASE Decide
  <2>1. DfuInv' BY <1>5, <1>d, BootStep DEF Decide
  <2>2. /\ stage = "bringup" /\ MemRestart("none") /\ UNCHANGED <<cells, drv>> /\ drv = "idle"
        /\ UNCHANGED <<dfuRequest, forceDfu, looksValid, slow, launch, wrote, restarts>>
        /\ elapsed' = 0
    BY <1>5 DEF Decide, NewDone, Running, qspiVars
  <2>3. method' = NoMethod /\ sawWrite' = FALSE BY <2>2 DEF MemRestart, NoMethod
  <2>4. Image' = Image BY <2>2 DEF Image
  <2>5. elapsed' \in 0 .. WrapTicks - 1 BY <2>2, TimerAssumption
  <2>6. CASE StayInService
    <3>1. stage' = "service" /\ owed' = FALSE BY <1>5, <2>6 DEF Decide
    <3> QED BY <2>1, <2>2, <2>3, <2>5, <3>1, NoMethodType DEF BootOK
  <2>7. CASE ~StayInService
    <3>1. stage' = "window" /\ owed' = owed BY <1>5, <2>7 DEF Decide
    <3>2. looksValid BY <2>7 DEF StayInService
    <3> QED BY <2>1, <2>2, <2>3, <2>4, <2>5, <3>1, <3>2, NoMethodType DEF BootOK, Idle
  <2> QED BY <2>6, <2>7
<1> QED BY <1>1, <1>2, <1>3, <1>4, <1>5

(* The boot window and service mode: the host's requests.                   *)
LEMMA WindowStep ==
  ASSUME LoaderInv, WindowExpired \/ Poll \/ PollStep \/ PollDone \/ ServiceHost \/ ServiceStep
  PROVE  LoaderInv'
<1> USE DEF LoaderInv, MemoryInv, LaunchInv, Launching, StageInv, RequestInv, WroteInv,
            ImageInv, VectorInv, InWindow, Leaving, Stages
<1>d. DfuInv /\ method.op \notin {"boot", "new"}
  BY DEF WindowExpired, Poll, PollStep, PollDone, ServiceHost, ServiceStep
<1>i. UNCHANGED cells => Image' = Image BY DEF Image
<1>1. CASE WindowExpired
  <2>1. /\ UNCHANGED dfuVars /\ stage = "window" /\ stage' = "reenter"
        /\ UNCHANGED <<dfuRequest, forceDfu, looksValid, elapsed, slow, launch, owed, wrote, restarts>>
    BY <1>1 DEF WindowExpired
  <2>2. DfuInv' /\ UNCHANGED <<cells, sawWrite, method, drv>>
    BY <1>d, <2>1, DfuStepInv DEF dfuVars, memVars, qspiVars
  <2> QED BY <1>i, <2>1, <2>2 DEF BootOK, Idle
<1>2. CASE Poll
  <2>1. /\ Host \/ UNCHANGED dfuVars
        /\ stage = "window" /\ stage' = "polling" /\ slow' = FALSE
        /\ UNCHANGED <<dfuRequest, forceDfu, looksValid, elapsed, launch, owed, wrote, restarts>>
    BY <1>2 DEF Poll
  <2>2. DfuInv' /\ UNCHANGED cells /\ method'.op \notin {"boot", "new"}
    BY <1>d, <2>1, DfuStepInv, HostFacts DEF dfuVars, memVars, qspiVars
  <2> QED BY <1>i, <2>1, <2>2 DEF BootOK
<1>3. CASE PollStep
  <2>1. /\ Serve /\ stage = "polling" /\ slow' = (slow \/ drv = "exit")
        /\ wrote' = (wrote \/ drv = "write")
        /\ UNCHANGED <<stage, dfuRequest, forceDfu, looksValid, elapsed, launch, owed, restarts>>
    BY <1>3 DEF PollStep
  <2>2. /\ DfuInv' /\ sawWrite' = sawWrite /\ method'.op \notin {"boot", "new"}
        /\ drv = "write" => sawWrite
        /\ ~sawWrite => UNCHANGED cells
    BY <1>d, <2>1, ServeFacts
  <2>3. BootOK' BY <2>1 DEF BootOK
  <2> QED BY <1>i, <2>1, <2>2, <2>3
<1>4. CASE PollDone
  <2>1. /\ UNCHANGED dfuVars /\ stage = "polling" /\ Idle
        /\ UNCHANGED <<dfuRequest, forceDfu, looksValid, slow, launch, wrote, restarts>>
        /\ IF sawWrite THEN stage' = "service" /\ owed' = FALSE
                       ELSE stage' = "window"  /\ UNCHANGED owed
    BY <1>4 DEF PollDone
  <2>2. DfuInv' /\ UNCHANGED <<cells, sawWrite, method, drv>>
    BY <1>d, <2>1, DfuStepInv DEF dfuVars, memVars, qspiVars
  <2>3. PICK k \in 1 .. (IF slow THEN SlowTicks ELSE 1) : elapsed' = (elapsed + k) % WrapTicks
    BY <1>4 DEF PollDone
  <2>4. elapsed' \in 0 .. WrapTicks - 1 BY <2>3, TimerAssumption DEF BootOK
  <2>5. BootOK' BY <2>1, <2>4 DEF BootOK
  <2> QED BY <1>i, <2>1, <2>2, <2>5 DEF Idle
<1>5. CASE ServiceHost
  <2>1. Host /\ stage = "service" /\ UNCHANGED bootVars BY <1>5 DEF ServiceHost
  <2>2. DfuInv' /\ method'.op \notin {"boot", "new"} /\ (sawWrite => sawWrite')
    BY <1>d, <2>1, HostFacts
  <2> QED BY <2>1, <2>2 DEF bootVars, BootOK
<1>6. CASE ServiceStep
  <2>1. /\ Serve /\ stage = "service" /\ wrote' = (wrote \/ drv = "write")
        /\ UNCHANGED <<stage, dfuRequest, forceDfu, looksValid, elapsed, slow, launch, owed, restarts>>
    BY <1>6 DEF ServiceStep
  <2>2. /\ DfuInv' /\ sawWrite' = sawWrite /\ method'.op \notin {"boot", "new"}
        /\ drv = "write" => sawWrite
    BY <1>d, <2>1, ServeFacts
  <2>3. BootOK' BY <2>1 DEF BootOK
  <2> QED BY <2>1, <2>2, <2>3
<1> QED BY <1>1, <1>2, <1>3, <1>4, <1>5, <1>6

(* The jump.  With a controller that takes the CCR write the window is      *)
(* framed again when the vectors are loaded.                                *)
LEMMA JumpStep ==
  ASSUME LoaderInv, Reenter \/ JumpToApp \/ LoaderDriverStep \/ AppFetch
  PROVE  LoaderInv'
<1> USE DEF LoaderInv, MemoryInv, LaunchInv, Launching, StageInv, RequestInv, WroteInv,
            ImageInv, VectorInv, InWindow, Leaving, Stages
<1>i. UNCHANGED cells => Image' = Image BY DEF Image
<1>1. CASE Reenter
  <2>1. /\ CallEnter /\ stage = "reenter" /\ stage' = "jump"
        /\ UNCHANGED <<memVars, dfuRequest, forceDfu, looksValid, elapsed, slow, launch, owed, wrote,
                       restarts>>
    BY <1>1 DEF Reenter
  <2>2. /\ drv = "idle" /\ drv' = "exit" /\ job' = "enter" /\ UNCHANGED <<chip, cells, ctrl, call>>
    BY <2>1 DEF CallEnter, StartJob
  <2>3. DfuInv /\ QspiTypeOK /\ PendingInv /\ DriverInv /\ Idle BY <2>1 DEF DfuInv, DfuTypeOK
  <2>4. QspiTypeOK' BY <2>2, <2>3 DEF QspiTypeOK, Steps
  <2>5. PendingInv' /\ drv' \notin WriteSteps BY <2>2, <2>3 DEF PendingInv, WriteSteps
  <2>6. DfuTypeOK' BY <2>1, <2>3, <2>4 DEF DfuInv, DfuTypeOK, memVars
  <2>7. ASSUME ~CcrLocked PROVE DriverInv'
    <3>1. CcrAccepted /\ CallEnter BY <2>1, <2>7 DEF CcrAccepted
    <3>2. QspiNext BY <3>1 DEF QspiNext
    <3> QED BY <2>3, <3>2, DriverInvStep
  <2>8. method'.op = "none" /\ sawWrite' = sawWrite
    BY <2>1, <2>3, NoMethodType DEF Idle, memVars
  <2>9. BootOK' BY <2>1 DEF BootOK
  <2> QED BY <1>i, <2>1, <2>2, <2>5, <2>6, <2>7, <2>8, <2>9
<1>2. CASE JumpToApp
  <2>1. /\ stage = "jump" /\ drv = "idle" /\ stage' = "app" /\ Fetched
        /\ UNCHANGED <<cells, drv, job, call, memVars>>
        /\ UNCHANGED <<dfuRequest, forceDfu, looksValid, elapsed, slow, owed, wrote, restarts>>
    BY <1>2 DEF JumpToApp
  <2>2. DfuTypeOK /\ PendingInv /\ drv \notin WriteSteps /\ method.op = "none" BY <2>1
  <2>3. QspiNext BY <2>1 DEF Fetch, QspiNext
  <2>4. QspiTypeOK' /\ PendingInv' /\ (DriverInv => DriverInv')
    BY <2>2, <2>3, TypeStep, PendingStep, DriverInvStep DEF DfuTypeOK
  <2>5. DfuTypeOK' BY <2>1, <2>2, <2>4 DEF DfuTypeOK, memVars
  <2>6. PICK v \in VectorSamples :
          launch' = IF v = Image /\ IsPlausibleImage(v) THEN "sound" ELSE "unsound"
    BY <1>2 DEF JumpToApp
  <2>7. ASSUME ~CcrLocked PROVE launch' = "sound"
    <3>1. FetchFaithful
      BY <2>1, <2>2, <2>7, MappedIsFaithful DEF DfuTypeOK, XipFramed, Fetched
    <3>2. v = Image BY <2>6, <3>1 DEF VectorSamples
    <3>3. IsPlausibleImage(Image) BY <2>1
    <3> QED BY <2>6, <3>2, <3>3
  <2>8. BootOK' BY <2>1, <2>6 DEF BootOK
  <2> QED BY <1>i, <2>1, <2>2, <2>4, <2>5, <2>7, <2>8 DEF memVars
<1>3. CASE LoaderDriverStep
  <2>1. MemDriverStep /\ stage \in {"probe", "bringup", "jump"} /\ UNCHANGED <<bootVars, memVars>>
    BY <1>3 DEF LoaderDriverStep, MemDriverStep
  <2>2. BootOK' BY <2>1 DEF BootOK, bootVars
  <2>3. CASE stage = "jump"
    <3>1. /\ DfuTypeOK' /\ PendingInv' /\ drv' \notin WriteSteps /\ (DriverInv => DriverInv')
          /\ UNCHANGED <<memVars, cells>>
      BY <2>1, <2>3, LaunchFrame
    <3> QED BY <1>i, <2>1, <2>2, <2>3, <3>1 DEF bootVars, memVars
  <2>4. CASE stage # "jump"
    <3>1. DfuInv /\ DfuInv' BY <2>1, <2>4, ServeStep DEF Serve
    <3>2. stage = "bringup" => drv # "write"
      BY <3>1 DEF DfuInv, JobInv, ModeInv, WriteSteps
    <3>3. stage = "bringup" => UNCHANGED cells BY <2>1, <3>2, CellsKept DEF MemDriverStep
    <3> QED BY <1>i, <2>1, <2>2, <2>4, <3>1, <3>3 DEF bootVars, memVars
  <2> QED BY <2>3, <2>4
<1>4. CASE AppFetch
  <2>1. Fetch /\ stage = "app" /\ UNCHANGED <<bootVars, memVars, cells, drv, job, call>>
    BY <1>4 DEF AppFetch, Fetch
  <2>2. DfuTypeOK /\ PendingInv /\ drv \notin WriteSteps BY <2>1
  <2>3. QspiTypeOK' /\ PendingInv' /\ (DriverInv => DriverInv')
    BY <2>1, <2>2, TypeStep, PendingStep, DriverInvStep DEF DfuTypeOK, QspiNext
  <2>4. DfuTypeOK' BY <2>1, <2>2, <2>3 DEF DfuTypeOK, memVars
  <2> QED BY <1>i, <2>1, <2>3, <2>4 DEF bootVars, memVars, BootOK
<1> QED BY <1>1, <1>2, <1>3, <1>4

(* Whatever state a reset or a power cut finds, the next boot starts afresh. *)
LEMMA RestartStep ==
  ASSUME LoaderInv, BoardReset \/ RebootToBootloader \/ PowerLoss
  PROVE  LoaderInv'
<1> USE DEF LoaderInv, LaunchInv, Launching, StageInv, RequestInv, WroteInv,
            ImageInv, VectorInv, InWindow, Leaving, Stages
<1>1. RestartMain /\ (MemReset \/ MemPowerCycle)
  BY DEF BoardReset, RebootToBootloader, PowerLoss
<1>2. Restart /\ MemRestart("boot") /\ (Reset \/ PowerCycle)
  BY <1>1 DEF MemReset, MemPowerCycle, Reset, PowerCycle
<1>3. QspiTypeOK BY LoaderTyped DEF DfuTypeOK
<1>4. QspiTypeOK' BY <1>2, <1>3, TypeStep DEF QspiNext
<1>5. DriverInv' /\ PendingInv' /\ JobInv' /\ job' = "none" /\ ctrl'.mode = "off" /\ drv' = "idle"
  BY <1>2 DEF Restart, CtrlReset, DriverInv, NeverDropped, OutOfContinuousRead, FrameEffects,
              WindowReady, Recovered, PendingInv, WriteSteps, JobInv, CcrAccepted
<1>6. DfuTypeOK' /\ method'.op = "boot" /\ sawWrite' = FALSE
  BY <1>2, <1>4, FreshMem DEF DfuTypeOK, Operations
<1>7. ModeInv' /\ MethodInv' BY <1>5, <1>6 DEF ModeInv, MethodInv, WriteOps
<1>8. DfuInv' BY <1>5, <1>6, <1>7 DEF DfuInv
<1>9. stage' = "reset" /\ forceDfu' = FALSE /\ wrote' = FALSE BY <1>1 DEF RestartMain
<1>10. dfuRequest' \in BOOLEAN /\ owed' \in BOOLEAN /\ (dfuRequest' => owed')
  <2>1. dfuRequest \in BOOLEAN /\ owed \in BOOLEAN /\ (dfuRequest => owed) BY DEF BootOK
  <2>2. \/ dfuRequest' = dfuRequest /\ owed' = owed
        \/ dfuRequest' = TRUE /\ owed' = TRUE
        \/ dfuRequest' = FALSE /\ owed' = FALSE
    BY DEF BoardReset, RebootToBootloader, PowerLoss
  <2>3. CASE dfuRequest' = dfuRequest /\ owed' = owed
    <3>1. dfuRequest' \in BOOLEAN /\ owed' \in BOOLEAN BY <2>1, <2>3
    <3>2. dfuRequest' => owed' BY <2>1, <2>3
    <3> QED BY <3>1, <3>2
  <2>4. CASE dfuRequest' = TRUE /\ owed' = TRUE BY <2>4
  <2>5. CASE dfuRequest' = FALSE /\ owed' = FALSE BY <2>5
  <2> QED BY <2>2, <2>3, <2>4, <2>5
<1>11. restarts' \in 0 .. MaxRestarts BY <1>1, TimerAssumption DEF RestartMain, BootOK
<1>12. 0 \in 0 .. WrapTicks - 1 BY TimerAssumption
<1>13. BootOK' BY <1>1, <1>10, <1>11, <1>12 DEF RestartMain, BootOK
<1>14. MemoryInv' BY <1>8 DEF MemoryInv
<1> QED BY <1>6, <1>9, <1>10, <1>13, <1>14

LEMMA LoaderStepInv == LoaderInv /\ [LoaderNext]_loaderVars => LoaderInv'
<1> SUFFICES ASSUME LoaderInv, [LoaderNext]_loaderVars PROVE LoaderInv' OBVIOUS
<1>1. CASE TakeDfuRequest \/ MapForProbe \/ ReadVectorTable \/ RecoverForDfu \/ Decide
  BY <1>1, ProbeStep
<1>2. CASE WindowExpired \/ Poll \/ PollStep \/ PollDone \/ ServiceHost \/ ServiceStep
  BY <1>2, WindowStep
<1>3. CASE Reenter \/ JumpToApp \/ LoaderDriverStep \/ AppFetch BY <1>3, JumpStep
<1>4. CASE BoardReset \/ RebootToBootloader \/ PowerLoss BY <1>4, RestartStep
<1>5. CASE UNCHANGED loaderVars
  <2>1. UNCHANGED dfuVars /\ UNCHANGED bootVars BY <1>5 DEF loaderVars
  <2>2. DfuInv => DfuInv' BY <2>1, DfuStepInv
  <2>3. UNCHANGED <<memVars, qspiVars>> BY <2>1 DEF dfuVars
  <2>4. DfuTypeOK => DfuTypeOK' BY <2>3 DEF DfuTypeOK, QspiTypeOK, memVars, qspiVars
  <2>5. (PendingInv => PendingInv') /\ (DriverInv => DriverInv')
    BY <2>3 DEF PendingInv, DriverInv, NeverDropped, OutOfContinuousRead, FrameEffects,
                WindowReady, CcrAccepted, qspiVars
  <2>6. Image' = Image BY <2>3 DEF Image, qspiVars
  <2> QED
    BY <2>1, <2>2, <2>3, <2>4, <2>5, <2>6 DEF bootVars, memVars, qspiVars, LoaderInv, MemoryInv,
       LaunchInv, StageInv, RequestInv, WroteInv, ImageInv, VectorInv, BootOK, Idle
<1> QED BY <1>1, <1>2, <1>3, <1>4, <1>5 DEF LoaderNext, LoaderStep

-----------------------------------------------------------------------------
(* main()'s state and everything below it keep their declared types, for    *)
(* every geometry, window and number of restarts, and for both controllers. *)
THEOREM BootTypeCorrect == LoaderSpec => []BootTypeOK
<1> QED BY LoaderTyped, LoaderInitInv, LoaderStepInv, PTL DEF LoaderSpec

(* A boot in which a host wrote to the flash never gets past service mode,  *)
(* wherever the write falls in the boot window.                             *)
THEOREM NoJumpAfterWrite == LoaderSpec => []NeverJumpsAfterWrite
<1>1. LoaderInv => NeverJumpsAfterWrite
  BY DEF LoaderInv, WroteInv, NeverJumpsAfterWrite
<1> QED BY <1>1, LoaderInitInv, LoaderStepInv, PTL DEF LoaderSpec

(* With a controller that takes a CCR write while BUSY, as the emulated one *)
(* does, the application starts with the vectors that are in the flash, and *)
(* they are plausible. BootJumpFinding shows that the hypothesis is needed. *)
THEOREM JumpIsSound == ASSUME ~CcrLocked PROVE LoaderSpec => []JumpSound
<1>1. LoaderInv => JumpSound BY DEF LoaderInv, VectorInv, JumpSound
<1> QED BY <1>1, LoaderInitInv, LoaderStepInv, PTL DEF LoaderSpec

(* With either controller, main() leaves the boot window only while the     *)
(* image that is in the flash is plausible: uploads, resets and the chip's  *)
(* mode do not wear the probe's answer out.                                 *)
PlausibleWhenLeft == stage \in Leaving => IsPlausibleImage(Image)

THEOREM ImageStaysPlausible == LoaderSpec => []PlausibleWhenLeft
<1>1. LoaderInv => PlausibleWhenLeft
  BY DEF LoaderInv, WroteInv, ImageInv, PlausibleWhenLeft
<1> QED BY <1>1, LoaderInitInv, LoaderStepInv, PTL DEF LoaderSpec

(* Service mode is entered only for a reason: a request not honoured yet, a *)
(* flash write, or an implausible image.                                    *)
THEOREM ServiceHasReason == LoaderSpec => NoSpuriousService
<1>1. LoaderInv /\ [LoaderNext]_loaderVars =>
        [(stage # "service" /\ stage' = "service") =>
            owed \/ sawWrite \/ ~IsPlausibleImage(Image)]_loaderVars
  <2> SUFFICES ASSUME LoaderInv, LoaderNext, stage # "service", stage' = "service"
               PROVE  owed \/ sawWrite \/ ~IsPlausibleImage(Image)
    OBVIOUS
  <2>1. CASE Decide
    BY <2>1 DEF Decide, StayInService, LoaderInv, RequestInv, ImageInv
  <2>2. CASE PollDone
    BY <2>2 DEF PollDone
  <2>3. CASE ~Decide /\ ~PollDone
    BY <2>3 DEF LoaderNext, LoaderStep, TakeDfuRequest, MapForProbe, ReadVectorTable,
                RecoverForDfu, WindowExpired, Poll, PollStep, ServiceHost, ServiceStep, Reenter,
                JumpToApp, LoaderDriverStep, AppFetch, BoardReset, RebootToBootloader, PowerLoss,
                RestartMain, bootVars
  <2> QED BY <2>1, <2>2, <2>3
<1> QED BY <1>1, LoaderInitInv, LoaderStepInv, PTL DEF LoaderSpec, NoSpuriousService

(* The flash driver below main() is used as qspi.rs demands, up to and      *)
(* including the jump, when CCR writes are taken: so what is proved of the  *)
(* driver holds of the whole bootloader.                                    *)
THEOREM DriverUsedByLoader == ASSUME ~CcrLocked PROVE LoaderSpec => QspiSpec
<1>1. BootInit => QspiInit BY DEF BootInit, DfuInit
<1>2. LoaderInv /\ [LoaderNext]_loaderVars => [QspiNext]_qspiVars
  <2> SUFFICES ASSUME LoaderInv, [LoaderNext]_loaderVars PROVE [QspiNext]_qspiVars OBVIOUS
  <2>m. MemoryInv BY DEF LoaderInv
  <2>1. CASE TakeDfuRequest \/ WindowExpired \/ PollDone \/ UNCHANGED loaderVars
    BY <2>1 DEF TakeDfuRequest, WindowExpired, PollDone, loaderVars, dfuVars
  <2>2. CASE MapForProbe \/ ReadVectorTable \/ RecoverForDfu \/ Decide
    <3>1. DfuInv /\ DfuNext
      BY <2>2, <2>m DEF MapForProbe, ReadVectorTable, RecoverForDfu, Decide, MemoryInv, Launching, DfuNext
    <3> QED BY <3>1, DriverStepOfDfu
  <2>3. CASE Poll \/ PollStep \/ ServiceHost \/ ServiceStep
    <3>1. DfuInv /\ [DfuNext]_dfuVars
      BY <2>3, <2>m DEF Poll, PollStep, ServiceHost, ServiceStep, MemoryInv, Launching, DfuNext
    <3> QED BY <3>1, DriverStepOfDfu
  <2>4. CASE BoardReset \/ RebootToBootloader \/ PowerLoss
    BY <2>4 DEF BoardReset, RebootToBootloader, PowerLoss, MemReset, MemPowerCycle, QspiNext
  <2>5. CASE Reenter BY <2>5 DEF Reenter, QspiNext, CcrAccepted
  <2>6. CASE JumpToApp \/ AppFetch BY <2>6 DEF JumpToApp, AppFetch, Fetch, QspiNext
  <2>7. CASE LoaderDriverStep BY <2>7 DEF LoaderDriverStep, MemDriverStep, QspiNext
  <2> QED BY <2>1, <2>2, <2>3, <2>4, <2>5, <2>6, <2>7 DEF LoaderNext, LoaderStep
<1> QED BY <1>1, <1>2, LoaderInitInv, LoaderStepInv, PTL DEF LoaderSpec, QspiSpec
=============================================================================
