----------------------------- MODULE QspiFlash ------------------------------
(***************************************************************************)
(* The bootloader's QUADSPI driver (daisy-boot/src/qspi.rs) talking to the  *)
(* flash chip.  Each routine is the list of SPI frames it sends, one action *)
(* per frame, so an MCU reset or a power cut can fall between any two of    *)
(* them and leave the chip in whatever mode it had latched.                 *)
(*                                                                          *)
(*   enter    exit -> rsten -> rst -> qe [-> qeWren -> qeWrsr -> qeWip]     *)
(*            -> srp -> map                    enter_memory_mapped          *)
(*   recover  abort -> exit -> rsten -> rst    recover_flash_to_single_line *)
(*   write    wren -> write -> wip             erase_sector_4k/program_page *)
(***************************************************************************)
EXTENDS IS25LP064A

CONSTANT
  CcrLocked   \* TRUE: a CCR write is dropped while BUSY, as on the part;
              \* FALSE: it takes effect, as in the emulated controller

ASSUME CcrLockedAssumption == CcrLocked \in BOOLEAN

VARIABLES
  chip,   \* latched state of the flash chip
  cells,  \* its array
  ctrl,   \* QUADSPI controller
  drv,    \* next frame of the routine in progress, or "idle"
  job,    \* which routine that is
  call    \* the erase or program a "write" routine carries out

chipVars == <<chip, cells>>
drvVars  == <<drv, job, call>>
qspiVars == <<chip, cells, ctrl, drv, job, call>>

(* What the driver programs: dummy bytes clocked by DCYC=6 on four lines,   *)
(* and the read parameter 0xF0 (P4:P3 = 10) meant to match them.            *)
MasterDummies     == 3
Unshifted         == 4
ReadParams8Dummy  == 2

NoCall == [kind |-> "none", addr |-> 0, data |-> <<>>]
PageData == UNION {[1 .. n -> Bit] : n \in 1 .. PageSize}
Calls == {NoCall}
           \cup [kind : {"erase"}, addr : Cells, data : {<<>>}]
           \cup [kind : {"program"}, addr : Cells, data : PageData]

Steps == {"idle", "abort", "exit", "rsten", "rst", "qe", "qeWren", "qeWrsr",
          "qeWip", "srp", "map", "wren", "write", "wip"}

QspiTypeOK ==
  /\ chip \in ChipState
  /\ cells \in [Cells -> Bit]
  /\ ctrl \in [mode : {"off", "indirect", "mapped"}, sent : BOOLEAN, busy : BOOLEAN]
  /\ drv \in Steps
  /\ job \in {"none", "enter", "recover", "write"}
  /\ call \in Calls

CtrlReset == [mode |-> "off", sent |-> FALSE, busy |-> FALSE]

(* Firmware before this boot may have left the chip in any mode.            *)
QspiInit ==
  /\ chip \in ChipState
  /\ cells \in [Cells -> Bit]
  /\ ctrl = CtrlReset
  /\ drv = "idle" /\ job = "none" /\ call = NoCall
-----------------------------------------------------------------------------
(* Calls into the driver; the caller is single threaded.                    *)
StartJob(j, first) == drv = "idle" /\ drv' = first /\ job' = j

CallEnter ==
  /\ StartJob("enter", "exit")
  /\ UNCHANGED <<chip, cells, ctrl, call>>

CallRecover ==
  /\ ctrl.mode # "off"
  /\ StartJob("recover", "abort")
  /\ UNCHANGED <<chip, cells, ctrl, call>>

CallErase(a) ==
  /\ StartJob("write", "wren")
  /\ call' = [kind |-> "erase", addr |-> a, data |-> <<>>]
  /\ UNCHANGED <<chip, cells, ctrl>>

(* program_page asserts a non-empty block inside one page.                  *)
CallProgram(a, data) ==
  /\ Len(data) > 0 /\ a \div PageSize = (a + Len(data) - 1) \div PageSize
  /\ StartJob("write", "wren")
  /\ call' = [kind |-> "program", addr |-> a, data |-> data]
  /\ UNCHANGED <<chip, cells, ctrl>>
-----------------------------------------------------------------------------
(* The controller.                                                          *)
CcrAccepted == ~(CcrLocked /\ ctrl.busy)

(* exit_memory_mapped: the errata dance rewrites CCR with EN=0, then ABORT. *)
Abort ==
  /\ drv = "abort" /\ drv' = "exit"
  /\ ctrl' = [ctrl EXCEPT !.mode = "indirect", !.busy = FALSE]
  /\ UNCHANGED <<chip, cells, job, call>>

SkipExit == drv = "exit" /\ drv' = "rsten" /\ UNCHANGED <<chip, ctrl, cells, job, call>>

(* exit_continuous_read: an opcode-less quad read of address 0 with mode    *)
(* bits 0, then ABORT.  A dropped CCR write also drops the frame.           *)
ExitContinuousRead ==
  /\ drv = "exit" /\ drv' = "rsten"
  /\ IF CcrAccepted
       THEN /\ chip' \in AfterQuadRead(chip, FALSE, FALSE)
            /\ ctrl' = [ctrl EXCEPT !.mode = "indirect", !.busy = FALSE]
       ELSE /\ UNCHANGED chip
            /\ ctrl' = [ctrl EXCEPT !.busy = FALSE]
  /\ UNCHANGED <<cells, job, call>>

(* One opcode frame of a routine.                                           *)
Command(from, to, op, value) ==
  /\ drv = from /\ drv' = to
  /\ IF CcrAccepted
       THEN /\ chip' \in Commanded(chip, op, value)
            /\ ctrl' = [ctrl EXCEPT !.mode = "indirect"]
       ELSE UNCHANGED <<chip, ctrl>>

SkipRsten == Command("rsten", "rst", "RDSR", 0) /\ UNCHANGED <<cells, job, call>>
EnableReset == Command("rsten", "rst", "RSTEN", 0) /\ UNCHANGED <<cells, job, call>>

ResetMemory ==
  /\ Command("rst", IF job = "enter" THEN "qe" ELSE "idle", "RST", 0)
  /\ job' = IF job = "enter" THEN job ELSE "none"
  /\ UNCHANGED <<cells, call>>

CheckQuadEnable ==
  /\ Command("qe", IF StatusQE(chip) THEN "srp" ELSE "qeWren", "RDSR", 0)
  /\ UNCHANGED <<cells, job, call>>

SkipQeWren ==
  drv = "qeWren" /\ drv' = "qeWrsr" /\ UNCHANGED <<chip, ctrl, cells, job, call>>
QeWriteEnable == Command("qeWren", "qeWrsr", "WREN", 0) /\ UNCHANGED <<cells, job, call>>
QeWriteStatus == Command("qeWrsr", "qeWip", "WRSR", 0) /\ UNCHANGED <<cells, job, call>>
QeWaitWip     == Command("qeWip", "srp", "RDSR", 0) /\ UNCHANGED <<cells, job, call>>

SetReadParameters ==
  Command("srp", "map", "SRP", ReadParams8Dummy) /\ UNCHANGED <<cells, job, call>>

(* The CCR write that enters memory-mapped mode: the change of FMODE        *)
(* re-arms "send instruction only once".                                    *)
Map ==
  /\ drv = "map" /\ drv' = "idle" /\ job' = "none"
  /\ ctrl' = IF CcrAccepted
               THEN [mode |-> "mapped", sent |-> ctrl.mode = "mapped" /\ ctrl.sent,
                     busy |-> FALSE]
               ELSE ctrl
  /\ UNCHANGED <<chip, cells, call>>
-----------------------------------------------------------------------------
(* Erase and program.                                                       *)
SkipWren == drv = "wren" /\ drv' = "write" /\ UNCHANGED <<chip, ctrl, cells, job, call>>
WriteEnable == Command("wren", "write", "WREN", 0) /\ UNCHANGED <<cells, job, call>>

EraseByPage(c) == IF c.kind = "erase" THEN [cells EXCEPT ![c.addr] = 1]
                                      ELSE Programmed(cells, c.addr, c.data)
CallEffect(c) == IF c.kind = "erase" THEN Erased(cells, c.addr)
                                     ELSE Programmed(cells, c.addr, c.data)

WriteFrame ==
  /\ drv = "write" /\ drv' = "wip"
  /\ IF CcrAccepted
       THEN /\ chip' \in AfterWriteFrame(chip)
            /\ cells' = IF AcceptsWrite(chip) THEN CallEffect(call) ELSE cells
            /\ ctrl' = [ctrl EXCEPT !.mode = "indirect"]
       ELSE UNCHANGED <<chip, cells, ctrl>>
  /\ UNCHANGED <<job, call>>

WaitWip ==
  /\ Command("wip", "idle", "RDSR", 0)
  /\ job' = "none" /\ call' = NoCall
  /\ UNCHANGED cells
-----------------------------------------------------------------------------
(* A CPU access to the 0x9000_0000 window.                                  *)
FetchFaithful == QuadReadFaithful(chip, ~ctrl.sent, MasterDummies)

Fetched == /\ ctrl.mode = "mapped"
           /\ chip' \in AfterQuadRead(chip, ~ctrl.sent, TRUE)
           /\ ctrl' = [ctrl EXCEPT !.sent = TRUE, !.busy = TRUE]

Fetch == drv = "idle" /\ Fetched /\ UNCHANGED <<cells, drv, job, call>>
-----------------------------------------------------------------------------
(* An MCU reset: the controller and the program restart, the chip keeps its *)
(* mode.  Inside a program frame, the bytes already clocked are written.    *)
TornByReset ==
  IF drv = "write" /\ call.kind = "program" /\ AcceptsWrite(chip)
    THEN {Programmed(cells, call.addr, SubSeq(call.data, 1, n)) : n \in 0 .. Len(call.data)}
    ELSE {cells}

Restart == ctrl' = CtrlReset /\ drv' = "idle" /\ job' = "none" /\ call' = NoCall

Reset ==
  /\ chip' = McuReset(chip)
  /\ cells' \in TornByReset
  /\ Restart

(* A power cut while the chip is writing leaves the addressed cells with    *)
(* any value, and the chip comes back in its power-on state.                *)
Touched(c) == IF c.kind = "erase" THEN SectorOf(c.addr)
              ELSE {ProgramTarget(c.addr, i) : i \in 0 .. Len(c.data) - 1}

PowerCycle ==
  /\ chip' \in PowerOnReset(chip)
  /\ cells' \in IF drv \in {"write", "wip"}
                  THEN {[x \in Cells |-> IF x \in Touched(call) THEN t[x] ELSE cells[x]] :
                          t \in [Touched(call) -> Bit]}
                  ELSE {cells}
  /\ Restart
-----------------------------------------------------------------------------
DriverStep ==
  \/ Abort \/ ExitContinuousRead \/ EnableReset \/ ResetMemory
  \/ CheckQuadEnable \/ QeWriteEnable \/ QeWriteStatus \/ QeWaitWip
  \/ SetReadParameters \/ Map
  \/ WriteEnable \/ WriteFrame \/ WaitWip

(* The preconditions qspi.rs states: BUSY is 0 before a CCR write, and the  *)
(* flash is recovered before any erase or program.                          *)
SingleLine == ctrl.mode = "indirect"

QspiNext ==
  \/ CcrAccepted /\ CallEnter
  \/ CallRecover
  \/ \E a \in Cells : SingleLine /\ CallErase(a)
  \/ \E a \in Cells, d \in PageData : SingleLine /\ CallProgram(a, d)
  \/ DriverStep
  \/ Fetch \/ Reset \/ PowerCycle

QspiSpec == QspiInit /\ [][QspiNext]_qspiVars
-----------------------------------------------------------------------------
(* Whenever the driver is idle with the window mapped, the next CPU fetch   *)
(* returns the flash contents: opcode framing, quad-enable and dummy count  *)
(* of chip and controller agree, whatever mode an earlier firmware, a warm  *)
(* reset or a power cut between two frames left the chip in.                *)
XipFramed == drv = "idle" /\ ctrl.mode = "mapped" => FetchFaithful

(* An erase or program frame always reaches a chip that executes it: never  *)
(* one still in continuous-read mode, never without the write-enable latch, *)
(* never while the controller would drop it.                                *)
WriteFramesAccepted == drv = "write" => AcceptsWrite(chip) /\ CcrAccepted

(* With the window mapped no write-enable latch is left over from an        *)
(* interrupted erase, program or QE write.                                  *)
MappedWriteProtected == drv = "idle" /\ ctrl.mode = "mapped" => ~chip.wel

(* Why these hold: what each frame of a routine has established by the time *)
(* the next one is sent.                                                    *)
Recovered == {"rsten", "rst", "qe", "qeWren", "qeWrsr", "qeWip", "srp", "map",
              "wren", "write", "wip"}

NeverDropped == drv \in Recovered \cup {"exit"} => CcrAccepted

OutOfContinuousRead ==
  /\ drv \in Recovered => ctrl.mode = "indirect" /\ ~chip.ax
  /\ drv = "idle" /\ ctrl.mode = "indirect" => ~chip.ax /\ CcrAccepted

FrameEffects ==
  /\ drv = "rst" => chip.resetEn
  /\ drv \in {"qe", "qeWren", "qeWip", "srp", "map"} => ~chip.wel
  /\ drv \in {"qeWrsr", "write"} => chip.wel
  /\ drv \in {"qeWip", "srp", "map"} => chip.qe
  /\ drv = "map" => chip.readParams = ReadParams8Dummy

WindowReady ==
  drv = "idle" /\ ctrl.mode = "mapped" =>
    /\ ctrl.sent <=> chip.ax
    /\ chip.qe /\ ~chip.wel /\ chip.readParams = ReadParams8Dummy

DriverInv == NeverDropped /\ OutOfContinuousRead /\ FrameEffects /\ WindowReady

(* The driver implements the store it promises: every call's effect is      *)
(* applied exactly once before the call returns.                            *)
Store == INSTANCE NorStore WITH
  store <- cells, pending <- call, applied <- drv = "wip"
StoreImplemented == Store!StoreSpec
=============================================================================
