-------------------------- MODULE QspiFlash_proofs --------------------------
(***************************************************************************)
(* Theorems about the QUADSPI driver, for every flash geometry: its own     *)
(* invariant, and that it implements the NOR store of NorStore, to whose    *)
(* users chip modes, framing and command sequences are invisible.           *)
(***************************************************************************)
EXTENDS QspiFlash, TLAPS

(* A power-on or software reset leaves the chip in a latched state.         *)
LEMMA PowerOnResetType ==
  ASSUME NEW c \in ChipState
  PROVE  PowerOnReset(c) \subseteq ChipState
<1>1. c.qe \in BOOLEAN
  BY DEF ChipState
<1>2. SUFFICES ASSUME NEW q \in {FALSE, c.qe}
               PROVE  [ax |-> FALSE, wel |-> FALSE, qe |-> q, readParams |-> 0,
                       resetEn |-> FALSE] \in ChipState
  BY DEF PowerOnReset, PorReadParams
<1>3. q \in BOOLEAN
  BY <1>1
<1>4. QED BY <1>3 DEF ChipState

(* A frame leaves the chip in one of its latched states.                    *)
LEMMA CommandedType ==
  ASSUME NEW c \in ChipState, NEW value \in 0 .. 3,
         NEW op \in {"WREN", "RSTEN", "RST", "RDSR", "WRSR", "SRP"}
  PROVE  Commanded(c, op, value) \subseteq ChipState
<1>1. [c EXCEPT !.resetEn = FALSE] \in ChipState
  BY DEF ChipState
<1>2. PowerOnReset(c) \subseteq ChipState
  BY PowerOnResetType
<1>3. CASE c.ax
  BY <1>1, <1>3 DEF Commanded
<1>4. CASE ~c.ax /\ op = "RST"
  BY <1>2, <1>4 DEF Commanded
<1>5. CASE ~c.ax /\ op \in {"WREN", "RSTEN", "RDSR", "WRSR", "SRP"}
  BY <1>5 DEF Commanded, ChipState
<1>6. QED BY <1>3, <1>4, <1>5

LEMMA AfterQuadReadType ==
  ASSUME NEW c \in ChipState, NEW w \in BOOLEAN, NEW s \in BOOLEAN
  PROVE  AfterQuadRead(c, w, s) \subseteq ChipState
BY DEF AfterQuadRead, ChipState

LEMMA AfterWriteFrameType ==
  ASSUME NEW c \in ChipState
  PROVE  AfterWriteFrame(c) \subseteq ChipState
BY DEF AfterWriteFrame, ChipState

(* Erasing and programming keep an array an array.                          *)
LEMMA ArrayType ==
  ASSUME NEW s \in [Cells -> Bit], NEW a, NEW d
  PROVE  Erased(s, a) \in [Cells -> Bit] /\ Programmed(s, a, d) \in [Cells -> Bit]
<1>1. \A x \in Cells : s[x] \in Bit
  OBVIOUS
<1>2. Erased(s, a) \in [Cells -> Bit]
  BY <1>1 DEF Erased, Bit
<1>3. ASSUME NEW x \in Cells
      PROVE  (IF \E i \in 0 .. Len(d) - 1 : ProgramTarget(a, i) = x /\ d[i + 1] = 0
                THEN 0 ELSE s[x]) \in Bit
  BY <1>1 DEF Bit
<1>4. Programmed(s, a, d) \in [Cells -> Bit]
  BY <1>3 DEF Programmed
<1>5. QED BY <1>2, <1>4

LEMMA CommandType ==
  ASSUME QspiTypeOK, NEW from, NEW to \in Steps, NEW value \in 0 .. 3,
         NEW op \in {"WREN", "RSTEN", "RST", "RDSR", "WRSR", "SRP"},
         Command(from, to, op, value)
  PROVE  /\ chip' \in ChipState
         /\ ctrl' \in [mode : {"off", "indirect", "mapped"}, sent : BOOLEAN, busy : BOOLEAN]
         /\ drv' \in Steps
BY CommandedType DEF Command, QspiTypeOK

-----------------------------------------------------------------------------
(* Type correctness: the driver, the controller and the chip stay in their  *)
(* declared states whatever frames, resets and power cuts come.             *)
LEMMA TypeStep == QspiTypeOK /\ [QspiNext]_qspiVars => QspiTypeOK'
<1> SUFFICES ASSUME QspiTypeOK, [QspiNext]_qspiVars PROVE QspiTypeOK'
  OBVIOUS
<1> USE DEF Steps
<1>1. CASE CcrAccepted /\ CallEnter
  BY <1>1 DEF CallEnter, StartJob, QspiTypeOK
<1>2. CASE CallRecover
  BY <1>2 DEF CallRecover, StartJob, QspiTypeOK
<1>3. CASE \E a \in Cells : SingleLine /\ CallErase(a)
  BY <1>3 DEF CallErase, StartJob, QspiTypeOK, Calls
<1>4. CASE \E a \in Cells, d \in PageData : SingleLine /\ CallProgram(a, d)
  BY <1>4 DEF CallProgram, StartJob, QspiTypeOK, Calls
<1>5. CASE Abort
  BY <1>5 DEF Abort, QspiTypeOK
<1>6. CASE ExitContinuousRead
  BY <1>6, AfterQuadReadType DEF ExitContinuousRead, QspiTypeOK
<1>7. CASE EnableReset
  BY <1>7, CommandType DEF EnableReset, QspiTypeOK
<1>8. CASE ResetMemory
  <2>1. (IF job = "enter" THEN "qe" ELSE "idle") \in Steps
    OBVIOUS
  <2>2. QED BY <1>8, <2>1, CommandType DEF ResetMemory, QspiTypeOK
<1>9. CASE CheckQuadEnable
  <2>1. (IF StatusQE(chip) THEN "srp" ELSE "qeWren") \in Steps
    OBVIOUS
  <2>2. QED BY <1>9, <2>1, CommandType DEF CheckQuadEnable, QspiTypeOK
<1>10. CASE QeWriteEnable
  BY <1>10, CommandType DEF QeWriteEnable, QspiTypeOK
<1>11. CASE QeWriteStatus
  BY <1>11, CommandType DEF QeWriteStatus, QspiTypeOK
<1>12. CASE QeWaitWip
  BY <1>12, CommandType DEF QeWaitWip, QspiTypeOK
<1>13. CASE SetReadParameters
  BY <1>13, CommandType DEF SetReadParameters, ReadParams8Dummy, QspiTypeOK
<1>14. CASE Map
  BY <1>14 DEF Map, QspiTypeOK
<1>15. CASE WriteEnable
  BY <1>15, CommandType DEF WriteEnable, QspiTypeOK
<1>16. CASE WriteFrame
  <2>1. cells' \in [Cells -> Bit]
    BY <1>16, ArrayType DEF WriteFrame, CallEffect, QspiTypeOK
  <2>2. chip' \in ChipState
    BY <1>16, AfterWriteFrameType DEF WriteFrame, QspiTypeOK
  <2>3. QED BY <1>16, <2>1, <2>2 DEF WriteFrame, QspiTypeOK
<1>17. CASE WaitWip
  BY <1>17, CommandType DEF WaitWip, QspiTypeOK, Calls
<1>18. CASE Fetch
  BY <1>18, AfterQuadReadType DEF Fetch, Fetched, QspiTypeOK
<1>19. CASE Reset
  <2>1. cells' \in [Cells -> Bit]
    BY <1>19, ArrayType DEF Reset, TornByReset, QspiTypeOK
  <2>2. chip' \in ChipState
    BY <1>19 DEF Reset, McuReset, ChipState, QspiTypeOK
  <2>3. QED BY <1>19, <2>1, <2>2 DEF Reset, Restart, CtrlReset, QspiTypeOK, Calls
<1>20. CASE PowerCycle
  <2>1. cells' \in [Cells -> Bit]
    BY <1>20 DEF PowerCycle, QspiTypeOK
  <2>2. chip' \in ChipState
    BY <1>20, PowerOnResetType DEF PowerCycle, QspiTypeOK
  <2>3. QED BY <1>20, <2>1, <2>2 DEF PowerCycle, Restart, CtrlReset, QspiTypeOK, Calls
<1>21. CASE UNCHANGED qspiVars
  BY <1>21 DEF qspiVars, QspiTypeOK
<1>22. QED
  BY <1>1, <1>2, <1>3, <1>4, <1>5, <1>6, <1>7, <1>8, <1>9, <1>10, <1>11, <1>12, <1>13,
     <1>14, <1>15, <1>16, <1>17, <1>18, <1>19, <1>20, <1>21 DEF QspiNext, DriverStep

(* The driver's type invariant holds for every flash geometry.              *)
THEOREM DriverTypeCorrect == QspiSpec => []QspiTypeOK
<1>1. QspiInit => QspiTypeOK
  BY DEF QspiInit, QspiTypeOK, CtrlReset, Calls, Steps
<1>2. QED BY <1>1, TypeStep, PTL DEF QspiSpec
-----------------------------------------------------------------------------
(* What a frame does to a chip that is out of continuous-read mode.         *)
LEMMA SingleLineCommand ==
  ASSUME NEW c \in ChipState, ~c.ax, NEW value \in 0 .. 3,
         NEW op \in {"WREN", "RSTEN", "RST", "RDSR", "WRSR", "SRP"},
         NEW d \in Commanded(c, op, value)
  PROVE  /\ ~d.ax
         /\ op = "RSTEN" => d.resetEn
         /\ op = "RST" /\ c.resetEn => ~d.wel
         /\ op = "WREN" => d.wel /\ d.qe = c.qe
         /\ op = "WRSR" /\ c.wel => d.qe /\ ~d.wel
         /\ op \in {"RDSR", "SRP"} => d.qe = c.qe /\ d.wel = c.wel
         /\ op = "SRP" => d.readParams = value
<1>1. CASE op = "RST"
  <2>1. \A e \in PowerOnReset(c) : ~e.ax /\ ~e.wel
    BY DEF PowerOnReset
  <2>2. d \in (IF c.resetEn THEN PowerOnReset(c) ELSE {c})
    BY <1>1 DEF Commanded
  <2>3. QED BY <1>1, <2>1, <2>2
<1>2. CASE op \in {"WREN", "RSTEN", "RDSR", "WRSR", "SRP"}
  BY <1>2 DEF Commanded, ChipState
<1>3. QED BY <1>1, <1>2

(* One read frame whose framing agrees leaves the mode the mode bits say.   *)
LEMMA AgreedRead ==
  ASSUME NEW c \in ChipState, NEW w \in BOOLEAN, NEW s \in BOOLEAN,
         NEW d \in AfterQuadRead(c, w, s)
  PROVE  /\ FramingAgrees(c, w) => d.ax = s
         /\ ~c.ax /\ ~FramingAgrees(c, w) => ~d.ax
         /\ d.qe = c.qe /\ d.wel = c.wel /\ d.readParams = c.readParams
BY DEF AfterQuadRead, FramingAgrees, ChipState

(* A write frame executed in single-line mode clears the latch only.        *)
LEMMA ExecutedWrite ==
  ASSUME NEW c \in ChipState, ~c.ax, NEW d \in AfterWriteFrame(c)
  PROVE  ~d.ax
BY DEF AfterWriteFrame, ChipState

(* A command step of the driver: the controller takes its CCR write.        *)
LEMMA CommandStep ==
  ASSUME QspiTypeOK, NEW from \in Recovered, NEW to, NEW value \in 0 .. 3,
         NEW op \in {"WREN", "RSTEN", "RST", "RDSR", "WRSR", "SRP"},
         NeverDropped, OutOfContinuousRead, Command(from, to, op, value)
  PROVE  /\ drv = from /\ drv' = to
         /\ ctrl'.mode = "indirect"
         /\ chip' \in Commanded(chip, op, value)
         /\ chip \in ChipState /\ ~chip.ax /\ ~chip'.ax
         /\ CcrAccepted'
         /\ op = "RSTEN" => chip'.resetEn
         /\ op = "RST" /\ chip.resetEn => ~chip'.wel
         /\ op = "WREN" => chip'.wel /\ chip'.qe = chip.qe
         /\ op = "WRSR" /\ chip.wel => chip'.qe /\ ~chip'.wel
         /\ op \in {"RDSR", "SRP"} => chip'.qe = chip.qe /\ chip'.wel = chip.wel
         /\ op = "SRP" => chip'.readParams = value
<1>0. CcrAccepted
  BY DEF Command, NeverDropped
<1>1. drv = from /\ drv' = to /\ chip' \in Commanded(chip, op, value)
  BY <1>0 DEF Command
<1>2. ctrl'.mode = "indirect" /\ CcrAccepted'
  BY <1>0 DEF Command, CcrAccepted, QspiTypeOK
<1>3. chip \in ChipState /\ ~chip.ax
  BY <1>1 DEF OutOfContinuousRead, QspiTypeOK
<1>4. QED BY <1>1, <1>2, <1>3, SingleLineCommand

LEMMA DriverInvStep == QspiTypeOK /\ DriverInv /\ [QspiNext]_qspiVars => DriverInv'
<1> SUFFICES ASSUME QspiTypeOK, DriverInv, [QspiNext]_qspiVars PROVE DriverInv'
  OBVIOUS
<1> USE DEF DriverInv, NeverDropped, OutOfContinuousRead, FrameEffects, WindowReady, Recovered
<1>0. /\ chip \in ChipState /\ ctrl.sent \in BOOLEAN
      /\ ctrl \in [mode : {"off", "indirect", "mapped"}, sent : BOOLEAN, busy : BOOLEAN]
      /\ drv \in Steps
  BY DEF QspiTypeOK
<1>1. CASE CcrAccepted /\ CallEnter
  BY <1>1 DEF CallEnter, StartJob, CcrAccepted
<1>2. CASE CallRecover
  BY <1>2 DEF CallRecover, StartJob
<1>3. CASE \E a \in Cells : SingleLine /\ CallErase(a)
  BY <1>3 DEF CallErase, StartJob, SingleLine, CcrAccepted
<1>4. CASE \E a \in Cells, d \in PageData : SingleLine /\ CallProgram(a, d)
  BY <1>4 DEF CallProgram, StartJob, SingleLine, CcrAccepted
<1>5. CASE Abort
  BY <1>0, <1>5 DEF Abort, CcrAccepted
<1>6. CASE ExitContinuousRead
  <2>1. /\ chip' \in AfterQuadRead(chip, FALSE, FALSE)
        /\ ctrl'.mode = "indirect" /\ CcrAccepted' /\ drv' = "rsten"
    BY <1>0, <1>6 DEF ExitContinuousRead, CcrAccepted
  <2>2. CASE chip.ax
    <3>1. FramingAgrees(chip, FALSE)
      BY <2>2 DEF FramingAgrees
    <3>2. QED BY <1>0, <2>1, <3>1, AgreedRead
  <2>3. CASE ~chip.ax
    <3>1. ~FramingAgrees(chip, FALSE)
      BY <2>3 DEF FramingAgrees
    <3>2. QED BY <1>0, <2>1, <2>3, <3>1, AgreedRead
  <2>4. QED BY <2>1, <2>2, <2>3
<1>7. CASE EnableReset
  BY <1>7, CommandStep DEF EnableReset
<1>8. CASE ResetMemory
  <2>1. drv = "rst" /\ ctrl'.mode = "indirect" /\ ~chip'.ax /\ drv' \in {"qe", "idle"} /\ CcrAccepted'
    BY <1>8, CommandStep DEF ResetMemory
  <2>2. ~chip'.wel
    BY <1>8, CommandStep DEF ResetMemory
  <2>3. QED BY <2>1, <2>2
<1>9. CASE CheckQuadEnable
  <2>1. /\ drv = "qe" /\ ctrl'.mode = "indirect" /\ ~chip.ax /\ ~chip'.ax /\ CcrAccepted'
        /\ drv' = IF StatusQE(chip) THEN "srp" ELSE "qeWren"
    BY <1>9, CommandStep DEF CheckQuadEnable
  <2>2. chip'.qe = chip.qe /\ chip'.wel = chip.wel
    BY <1>9, CommandStep DEF CheckQuadEnable
  <2>3. QED BY <2>1, <2>2 DEF StatusQE
<1>10. CASE QeWriteEnable
  BY <1>10, CommandStep DEF QeWriteEnable
<1>11. CASE QeWriteStatus
  BY <1>11, CommandStep DEF QeWriteStatus
<1>12. CASE QeWaitWip
  BY <1>12, CommandStep DEF QeWaitWip
<1>13. CASE SetReadParameters
  BY <1>13, CommandStep DEF SetReadParameters, ReadParams8Dummy
<1>14. CASE Map
  BY <1>0, <1>14 DEF Map
<1>15. CASE WriteEnable
  BY <1>15, CommandStep DEF WriteEnable
<1>16. CASE WriteFrame
  <2>1. /\ drv = "write" /\ drv' = "wip" /\ chip' \in AfterWriteFrame(chip)
        /\ ctrl'.mode = "indirect" /\ CcrAccepted'
    BY <1>0, <1>16 DEF WriteFrame, CcrAccepted
  <2>2. ~chip'.ax
    BY <1>0, <2>1, ExecutedWrite
  <2>3. QED BY <2>1, <2>2
<1>17. CASE WaitWip
  BY <1>17, CommandStep DEF WaitWip
<1>18. CASE Fetch
  <2>1. /\ drv = "idle" /\ drv' = "idle" /\ ctrl.mode = "mapped" /\ ctrl'.mode = "mapped"
        /\ ctrl'.sent
        /\ chip' \in AfterQuadRead(chip, ~ctrl.sent, TRUE)
    BY <1>0, <1>18 DEF Fetch, Fetched
  <2>2. FramingAgrees(chip, ~ctrl.sent)
    BY <1>0, <2>1 DEF FramingAgrees, ChipState
  <2>3. /\ chip'.ax
        /\ chip'.qe = chip.qe /\ chip'.wel = chip.wel /\ chip'.readParams = chip.readParams
    <3>1. chip \in ChipState /\ (~ctrl.sent) \in BOOLEAN
      BY <1>0
    <3>2. QED BY <2>1, <2>2, <3>1, AgreedRead
  <2>4. QED BY <2>1, <2>3
<1>19. CASE Reset
  BY <1>19 DEF Reset, Restart, CtrlReset
<1>20. CASE PowerCycle
  BY <1>20 DEF PowerCycle, Restart, CtrlReset
<1>21. CASE UNCHANGED qspiVars
  BY <1>21 DEF qspiVars, CcrAccepted
<1>22. QED
  BY <1>1, <1>2, <1>3, <1>4, <1>5, <1>6, <1>7, <1>8, <1>9, <1>10, <1>11, <1>12, <1>13,
     <1>14, <1>15, <1>16, <1>17, <1>18, <1>19, <1>20, <1>21 DEF QspiNext, DriverStep

(* The dummy bytes the controller clocks are those the chip waits for.      *)
LEMMA DummyBytesAgree ==
  ASSUME NEW c \in ChipState, c.readParams = ReadParams8Dummy
  PROVE  DummyBytes(c) = MasterDummies
<1>1. TotalCycles[2] = 8
  BY DEF TotalCycles
<1>2. DummyBytes(c) = ((8 - 2) * 4 + 7) \div 8
  BY <1>1 DEF DummyBytes, ReadParams8Dummy
<1>3. ((8 - 2) * 4 + 7) \div 8 = 3
  BY SMT
<1>4. QED BY <1>2, <1>3 DEF MasterDummies

(* Frame by frame, every routine re-establishes what the next frame needs,  *)
(* whatever the chip was doing before and wherever it is interrupted.       *)
THEOREM DriverInvariant == QspiSpec => [](QspiTypeOK /\ DriverInv)
<1>1. QspiInit => DriverInv
  BY DEF QspiInit, CtrlReset, DriverInv, NeverDropped, OutOfContinuousRead, FrameEffects, WindowReady, Recovered
<1>2. QspiTypeOK /\ DriverInv /\ [QspiNext]_qspiVars => DriverInv'
  BY DriverInvStep
<1>3. QED BY <1>1, <1>2, DriverTypeCorrect, PTL DEF QspiSpec

(* Behind a mapped window chip and controller agree on every frame.         *)
LEMMA MappedIsFaithful == QspiTypeOK /\ DriverInv => XipFramed
<1> SUFFICES ASSUME QspiTypeOK, DriverInv, drv = "idle", ctrl.mode = "mapped"
             PROVE  FetchFaithful
  BY DEF XipFramed
<1>1. /\ chip \in ChipState /\ ctrl.sent \in BOOLEAN
      /\ (ctrl.sent <=> chip.ax) /\ chip.qe /\ chip.readParams = ReadParams8Dummy
  BY DEF QspiTypeOK, DriverInv, WindowReady
<1>2. FramingAgrees(chip, ~ctrl.sent)
  BY <1>1 DEF FramingAgrees, ChipState
<1>3. QED BY <1>1, <1>2, DummyBytesAgree DEF FetchFaithful, QuadReadFaithful

(* Whatever mode the chip was left in, and wherever a reset or power cut    *)
(* falls, an idle driver with the window mapped fetches what is in the      *)
(* flash.                                                                   *)
THEOREM WindowFaithful == QspiSpec => []XipFramed
BY MappedIsFaithful, DriverInvariant, PTL

(* No erase or program frame is ever sent to a chip that would ignore it.   *)
THEOREM WritesExecuted == QspiSpec => []WriteFramesAccepted
<1>1. DriverInv => WriteFramesAccepted
  BY DEF DriverInv, NeverDropped, OutOfContinuousRead, FrameEffects, Recovered,
         WriteFramesAccepted, AcceptsWrite
<1>2. QED BY <1>1, DriverInvariant, PTL

(* No write-enable latch is left set behind a mapped window.                *)
THEOREM WindowWriteProtected == QspiSpec => []MappedWriteProtected
<1>1. DriverInv => MappedWriteProtected
  BY DEF DriverInv, WindowReady, MappedWriteProtected
<1>2. QED BY <1>1, DriverInvariant, PTL

-----------------------------------------------------------------------------
(* The store the driver implements.                                         *)
(* A call is pending exactly while a write routine runs.                    *)
WriteSteps == {"wren", "write", "wip"}
PendingInv == /\ drv \in WriteSteps => call.kind \in {"erase", "program"}
              /\ drv \notin WriteSteps => call = NoCall
              /\ drv \in {"qe", "qeWren", "qeWrsr", "qeWip", "srp", "map"} => job = "enter"

LEMMA PendingStep == QspiTypeOK /\ PendingInv /\ [QspiNext]_qspiVars => PendingInv'
<1> SUFFICES ASSUME QspiTypeOK, PendingInv, [QspiNext]_qspiVars PROVE PendingInv'
  OBVIOUS
<1> USE DEF PendingInv, WriteSteps
<1>1. CASE (CcrAccepted /\ CallEnter) \/ CallRecover
  BY <1>1 DEF CallEnter, CallRecover, StartJob
<1>2. CASE \E a \in Cells : SingleLine /\ CallErase(a)
  BY <1>2 DEF CallErase, StartJob
<1>3. CASE \E a \in Cells, d \in PageData : SingleLine /\ CallProgram(a, d)
  BY <1>3 DEF CallProgram, StartJob
<1>4. CASE Abort \/ ExitContinuousRead \/ EnableReset \/ ResetMemory
  BY <1>4 DEF Abort, ExitContinuousRead, EnableReset, ResetMemory, Command
<1>5. CASE CheckQuadEnable \/ QeWriteEnable \/ QeWriteStatus \/ QeWaitWip
  BY <1>5 DEF CheckQuadEnable, QeWriteEnable, QeWriteStatus, QeWaitWip, Command
<1>6. CASE SetReadParameters \/ Map
  BY <1>6 DEF SetReadParameters, Map, Command
<1>7. CASE WriteEnable \/ WriteFrame
  BY <1>7 DEF WriteEnable, WriteFrame, Command
<1>8. CASE WaitWip
  BY <1>8 DEF WaitWip, Command
<1>9. CASE Fetch
  BY <1>9 DEF Fetch
<1>10. CASE Reset \/ PowerCycle
  BY <1>10 DEF Reset, PowerCycle, Restart
<1>11. CASE UNCHANGED qspiVars
  BY <1>11 DEF qspiVars
<1>12. QED
  BY <1>1, <1>2, <1>3, <1>4, <1>5, <1>6, <1>7, <1>8, <1>9, <1>10, <1>11
     DEF QspiNext, DriverStep

(* The store speaks of the same cells and the same array operations.        *)
LEMMA SameArray ==
  /\ Store!Cells = Cells /\ Store!Bit = Bit
  /\ \A s, a : Store!Erased(s, a) = Erased(s, a)
  /\ \A s, a, d : Store!Programmed(s, a, d) = Programmed(s, a, d)
  /\ \A c : Store!Touched(c) = Touched(c)
<1>1. Store!Cells = Cells /\ Store!Bit = Bit /\ Store!SectorSize = SectorSize
  BY DEF Store!Cells, Store!FlashSize, Store!SectorSize, Cells, FlashSize, SectorSize,
         Store!Bit, Bit
<1>2. \A a : Store!SectorOf(a) = SectorOf(a)
  BY <1>1 DEF Store!SectorOf, SectorOf
<1>3. \A a, i : Store!ProgramTarget(a, i) = ProgramTarget(a, i)
  BY DEF Store!ProgramTarget, ProgramTarget
<1>4. QED
  BY <1>1, <1>2, <1>3 DEF Store!Erased, Erased, Store!Programmed, Programmed,
                          Store!Touched, Touched

(* The data of a pending program call is a sequence.                        *)
LEMMA CallData ==
  ASSUME QspiTypeOK, PendingInv, drv \in WriteSteps
  PROVE  call.data \in Seq(Bit)
<1>1. \A d \in PageData : d \in Seq(Bit)
  BY DEF PageData
<1>2. call \in Calls /\ call.kind \in {"erase", "program"}
  BY DEF QspiTypeOK, PendingInv
<1>3. CASE call \in [kind : {"program"}, addr : Cells, data : PageData]
  BY <1>1, <1>3
<1>4. CASE call \in [kind : {"erase"}, addr : Cells, data : {<<>>}]
  <2>1. call.data = <<>>
    BY <1>4
  <2>2. \A S : <<>> \in Seq(S)
    OBVIOUS
  <2>3. QED BY <2>1, <2>2
<1>5. CASE call = NoCall
  BY <1>2, <1>5 DEF NoCall
<1>6. QED BY <1>2, <1>3, <1>4, <1>5 DEF Calls

(* Programming a prefix of a block changes only cells the block addresses.  *)
LEMMA TornTouches ==
  ASSUME NEW c, c.kind = "program", c.data \in Seq(Bit),
         NEW n \in 0 .. Len(c.data), cells \in [Cells -> Bit],
         NEW x \in Cells,
         Programmed(cells, c.addr, SubSeq(c.data, 1, n))[x] # cells[x]
  PROVE  x \in Touched(c)
<1>1. Len(SubSeq(c.data, 1, n)) = n
  OBVIOUS
<1>2. \E i \in 0 .. n - 1 : ProgramTarget(c.addr, i) = x
  BY <1>1 DEF Programmed
<1>3. QED BY <1>2 DEF Touched

(* Each step of the driver is a step of the store, or leaves it alone.      *)
LEMMA StoreStep ==
  QspiTypeOK /\ QspiTypeOK' /\ DriverInv /\ PendingInv /\ [QspiNext]_qspiVars
    => [Store!StoreNext]_(Store!storeVars)
<1> SUFFICES ASSUME QspiTypeOK, QspiTypeOK', DriverInv, PendingInv, [QspiNext]_qspiVars
             PROVE  Store!StoreNext \/ UNCHANGED <<cells, call, drv = "wip">>
  BY DEF Store!storeVars
<1> DEFINE Stutter == UNCHANGED <<cells, call, drv = "wip">>
<1>1. CASE (CcrAccepted /\ CallEnter) \/ CallRecover
  <2>1. Stutter
    BY <1>1 DEF CallEnter, CallRecover, StartJob
  <2>2. QED BY <2>1
<1>2. CASE \E a \in Cells : SingleLine /\ CallErase(a)
  <2>1. PICK a \in Cells : CallErase(a)
    BY <1>2
  <2>2. Store!Begin(Store!EraseCall(a))
    BY <2>1 DEF CallErase, StartJob, PendingInv, WriteSteps, Store!Begin, Store!EraseCall,
                Store!NoCall, NoCall
  <2>3. QED BY <2>2, SameArray DEF Store!StoreNext
<1>3. CASE \E a \in Cells, d \in PageData : SingleLine /\ CallProgram(a, d)
  <2>1. PICK a \in Cells, d \in PageData : CallProgram(a, d)
    BY <1>3
  <2>2. Store!Begin(Store!ProgramCall(a, d))
    BY <2>1 DEF CallProgram, StartJob, PendingInv, WriteSteps, Store!Begin, Store!ProgramCall,
                Store!NoCall, NoCall
  <2>3. QED BY <2>2, SameArray DEF Store!StoreNext, PageData
<1>4. CASE \/ Abort \/ ExitContinuousRead \/ EnableReset \/ ResetMemory
           \/ CheckQuadEnable \/ QeWriteEnable \/ QeWriteStatus \/ QeWaitWip
           \/ SetReadParameters \/ Map \/ WriteEnable
  <2>1. Stutter
    BY <1>4 DEF Abort, ExitContinuousRead, EnableReset, ResetMemory, CheckQuadEnable,
                QeWriteEnable, QeWriteStatus, QeWaitWip, SetReadParameters, Map, WriteEnable,
                Command
  <2>2. QED BY <2>1
<1>5. CASE WriteFrame
  <2>1. AcceptsWrite(chip) /\ CcrAccepted /\ drv = "write"
    BY <1>5 DEF WriteFrame, DriverInv, OutOfContinuousRead, FrameEffects, Recovered,
                NeverDropped, AcceptsWrite
  <2>2. cells' = CallEffect(call) /\ call' = call /\ drv' = "wip"
    BY <1>5, <2>1 DEF WriteFrame
  <2>3. call # NoCall
    BY <2>1 DEF PendingInv, WriteSteps, NoCall
  <2>4. Store!Apply
    BY <2>1, <2>2, <2>3, SameArray DEF Store!Apply, Store!Effect, CallEffect, Store!NoCall, NoCall
  <2>5. QED BY <2>4 DEF Store!StoreNext
<1>6. CASE WaitWip
  <2>1. drv = "wip" /\ drv' = "idle" /\ call' = NoCall /\ cells' = cells
    BY <1>6 DEF WaitWip, Command
  <2>2. call # NoCall
    BY <2>1 DEF PendingInv, WriteSteps, NoCall
  <2>3. Store!Return
    BY <2>1, <2>2 DEF Store!Return, Store!NoCall, NoCall
  <2>4. QED BY <2>3 DEF Store!StoreNext
<1>7. CASE Fetch
  <2>1. Stutter
    BY <1>7 DEF Fetch
  <2>2. QED BY <2>1
<1>8. CASE Reset
  <2>1. ASSUME NEW x \in Cells, cells'[x] # cells[x]
        PROVE  call # NoCall /\ x \in Touched(call)
    <3>1. drv = "write" /\ call.kind = "program"
      BY <1>8, <2>1 DEF Reset, TornByReset
    <3>2. PICK n \in 0 .. Len(call.data) :
            cells' = Programmed(cells, call.addr, SubSeq(call.data, 1, n))
      BY <1>8, <2>1, <3>1 DEF Reset, TornByReset
    <3>3. call.data \in Seq(Bit) /\ cells \in [Cells -> Bit]
      BY <3>1, CallData DEF WriteSteps, QspiTypeOK
    <3>4. x \in Touched(call)
      BY <2>1, <3>1, <3>2, <3>3, TornTouches
    <3>5. QED BY <3>1, <3>4 DEF NoCall
  <2>2. call' = NoCall /\ drv' = "idle" /\ cells' \in [Cells -> Bit]
    BY <1>8 DEF Reset, Restart, QspiTypeOK
  <2>3. Store!Crash
    BY <2>1, <2>2, SameArray DEF Store!Crash, Store!NoCall, NoCall
  <2>4. QED BY <2>3 DEF Store!StoreNext
<1>9. CASE PowerCycle
  <2>1. ASSUME NEW x \in Cells, cells'[x] # cells[x]
        PROVE  call # NoCall /\ x \in Touched(call)
    <3>1. drv \in {"write", "wip"} /\ x \in Touched(call)
      BY <1>9, <2>1 DEF PowerCycle
    <3>2. QED BY <3>1 DEF PendingInv, WriteSteps, NoCall
  <2>2. call' = NoCall /\ drv' = "idle" /\ cells' \in [Cells -> Bit]
    BY <1>9 DEF PowerCycle, Restart, QspiTypeOK
  <2>3. Store!Crash
    BY <2>1, <2>2, SameArray DEF Store!Crash, Store!NoCall, NoCall
  <2>4. QED BY <2>3 DEF Store!StoreNext
<1>10. CASE UNCHANGED qspiVars
  BY <1>10 DEF qspiVars
<1>11. QED
  BY <1>1, <1>2, <1>3, <1>4, <1>5, <1>6, <1>7, <1>8, <1>9, <1>10 DEF QspiNext, DriverStep

(* The driver implements the abstract store: every erase and program takes  *)
(* effect exactly once before it returns, and a reset or a power cut at any *)
(* point affects only the cells the interrupted call addresses.             *)
THEOREM DriverImplementsStore == QspiSpec => StoreImplemented
<1>1. QspiInit => Store!StoreInit /\ PendingInv
  BY SameArray DEF QspiInit, Store!StoreInit, Store!NoCall, NoCall, PendingInv, WriteSteps
<1>2. QspiTypeOK /\ PendingInv /\ [QspiNext]_qspiVars => PendingInv'
  BY PendingStep
<1>3. QspiTypeOK /\ QspiTypeOK' /\ DriverInv /\ PendingInv /\ [QspiNext]_qspiVars
        => [Store!StoreNext]_(Store!storeVars)
  BY StoreStep
<1>4. QED
  BY <1>1, <1>2, <1>3, DriverInvariant, PTL DEF QspiSpec, StoreImplemented, Store!StoreSpec
=============================================================================
