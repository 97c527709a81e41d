---------------------------- MODULE DfuMem_proofs ----------------------------
(***************************************************************************)
(* Theorems about the DFU flash memory, for every flash geometry and block  *)
(* size.  The inductive invariant ties the cached mode flag and the method  *)
(* in progress to the routine the driver is running; from it every call     *)
(* DfuMem makes meets the preconditions of qspi.rs, so the theorems about   *)
(* the driver hold of DfuMem too.                                           *)
(***************************************************************************)
EXTENDS DfuMem, QspiFlash_proofs, SequenceTheorems

(* Geometry without products of two unknowns.                               *)
LEMMA Geometry ==
  /\ PageSize \in Nat \ {0} /\ SectorSize \in Nat \ {0} /\ FlashSize \in Nat \ {0}
  /\ NSectors \in Nat \ {0} /\ TransferSize \in Nat \ {0}
  /\ \A k \in 0 .. NSectors - 1 : k * SectorSize \in Cells
<1>1. /\ PageSize \in Nat \ {0} /\ NSectors \in Nat \ {0} /\ PagesPerSector \in Nat \ {0}
      /\ TransferSize \in Nat \ {0}
  BY GeometryAssumption, TransferSizeAssumption
<1>2. \A a, b \in Nat \ {0} : a * b \in Nat \ {0}
  OBVIOUS
<1>3. SectorSize \in Nat \ {0} /\ FlashSize \in Nat \ {0}
  BY <1>1, <1>2 DEF SectorSize, FlashSize
<1>4. \A s, n \in Nat \ {0} : \A k \in 0 .. n - 1 : k * s \in 0 .. n * s - 1
  <2> SUFFICES ASSUME NEW s \in Nat \ {0}, NEW n \in Nat \ {0}, NEW k \in 0 .. n - 1
               PROVE  k * s \in 0 .. n * s - 1
    OBVIOUS
  <2>1. (n - k) * s \in Nat \ {0} /\ k * s \in Nat
    BY <1>2
  <2>2. n * s = k * s + (n - k) * s
    OBVIOUS
  <2> QED BY <2>1, <2>2
<1> QED BY <1>1, <1>3, <1>4 DEF Cells, FlashSize

(* The data a block or a reply carries.                                     *)
LEMMA BlockFacts ==
  /\ <<>> \in Blocks
  /\ \A d \in Blocks : d \in Seq(Bit) /\ Len(d) \in 0 .. TransferSize
  /\ \A n \in 0 .. TransferSize : \A d \in [1 .. n -> Bit] : d \in Blocks
<1>1. TransferSize \in Nat \ {0} BY Geometry
<1>2. ASSUME NEW n \in 0 .. TransferSize, NEW d \in [1 .. n -> Bit]
      PROVE  d \in Blocks /\ d \in Seq(Bit) /\ Len(d) = n
  BY <1>1, <1>2 DEF Blocks
<1>3. <<>> \in [1 .. 0 -> Bit] OBVIOUS
<1>4. \A d \in Blocks : \E n \in 0 .. TransferSize : d \in [1 .. n -> Bit] BY DEF Blocks
<1>5. <<>> \in Blocks
  <2>1. 0 \in 0 .. TransferSize BY <1>1
  <2> QED BY <1>3, <2>1 DEF Blocks
<1>6. ASSUME NEW d \in Blocks PROVE d \in Seq(Bit) /\ Len(d) \in 0 .. TransferSize
  <2>1. PICK n \in 0 .. TransferSize : d \in [1 .. n -> Bit] BY <1>4
  <2> QED BY <1>2, <2>1
<1> QED BY <1>2, <1>5, <1>6

LEMMA Slice ==
  ASSUME NEW s \in Seq(Bit), NEW i \in Nat, NEW n \in Nat, i + n <= Len(s)
  PROVE  /\ SubSeq(s, i + 1, i + n) \in Seq(Bit)
         /\ Len(SubSeq(s, i + 1, i + n)) = n
         /\ \A k \in 1 .. n : SubSeq(s, i + 1, i + n)[k] = s[i + k]
<1>1. \A x \in i + 1 .. i + n : s[x] \in Bit
  BY ElementOfSeq, LenProperties
<1>2. /\ SubSeq(s, i + 1, i + n) \in Seq(Bit)
      /\ Len(SubSeq(s, i + 1, i + n)) = IF i + 1 <= i + n THEN i + n - (i + 1) + 1 ELSE 0
      /\ \A k \in 1 .. i + n - (i + 1) + 1 : SubSeq(s, i + 1, i + n)[k] = s[i + 1 + k - 1]
  BY <1>1, SubSeqProperties
<1>3. i + n - (i + 1) + 1 = n OBVIOUS
<1>4. Len(SubSeq(s, i + 1, i + n)) = n BY <1>2
<1>5. \A k \in 1 .. n : i + 1 + k - 1 = i + k OBVIOUS
<1> QED BY <1>2, <1>3, <1>4, <1>5

LEMMA OverlayType ==
  ASSUME NEW b \in [1 .. TransferSize -> Bit], NEW d \in Seq(Bit)
  PROVE  Overlay(b, d) \in [1 .. TransferSize -> Bit]
<1>1. TransferSize \in Nat BY Geometry
<1>2. ASSUME NEW i \in 1 .. TransferSize
      PROVE  (IF i <= Len(d) THEN d[i] ELSE b[i]) \in Bit
  <2>1. CASE i <= Len(d)
    <3>1. i \in 1 .. Len(d) BY <1>1, <2>1, LenProperties
    <3> QED BY <2>1, <3>1, ElementOfSeq
  <2>2. CASE ~(i <= Len(d)) BY <2>2
  <2> QED BY <2>1, <2>2
<1> QED BY <1>2 DEF Overlay

-----------------------------------------------------------------------------
(* Which routine runs on whose behalf, and what the mode flag stands for.   *)
WriteOps == {"program", "erase", "eraseAll"}

JobInv ==
  /\ drv = "idle" <=> job = "none"
  /\ drv = "abort" => job = "recover"
  /\ drv \in {"exit", "rsten", "rst"} => job \in {"enter", "recover"}
  /\ drv \in WriteSteps => job = "write"
  /\ drv = "idle" /\ ctrl.mode = "off" => CcrAccepted

ModeInv ==
  /\ method.op = "boot" => /\ job \in {"none", "enter"}
                           /\ drv = "idle" => ctrl.mode \in {"off", "mapped"}
  /\ method.op = "new"  => /\ job \in {"none", "recover"}
                           /\ drv = "idle" => ctrl.mode \in {"mapped", "indirect"}
  /\ method.op \notin {"boot", "new"} =>
       /\ drv = "idle" => ctrl.mode = IF inMmMode THEN "mapped" ELSE "indirect"
       /\ drv # "idle" => (inMmMode <=> job = "enter")

MethodInv ==
  /\ method.op = "none" => job = "none"
  /\ method.op \in {"read", "manifest"} => job \in {"none", "enter"}
  /\ method.op \in WriteOps => sawWrite
  /\ method.op \in {"read", "program"} => ContainsRange(method.addr, method.len)
  /\ method.op = "program" => pos <= method.len
  /\ method.op = "erase" => method.addr \in Cells /\ pos <= 1
  /\ method.op = "eraseAll" => pos <= NSectors

DfuInv == DfuTypeOK /\ DriverInv /\ PendingInv /\ JobInv /\ ModeInv /\ MethodInv

(* One program_page call of program()'s loop: not empty, inside the request, *)
(* inside the flash, and no longer than a page.                             *)
LEMMA ChunkFits ==
  ASSUME DfuInv, Running({"program"}), pos < method.len
  PROVE  /\ ChunkLen \in 1 .. method.len - pos /\ ChunkLen <= PageSize
         /\ method.addr + pos \in Cells
         /\ SubSeq(buffer, pos + 1, pos + ChunkLen) \in PageData
         /\ Len(SubSeq(buffer, pos + 1, pos + ChunkLen)) = ChunkLen
<1>1. /\ method.addr \in 0 .. FlashSize /\ method.len <= FlashSize - method.addr
      /\ pos \in Nat /\ method.len \in 0 .. TransferSize
      /\ buffer \in [1 .. TransferSize -> Bit]
      /\ FlashSize \in Nat /\ PageSize \in Nat \ {0} /\ TransferSize \in Nat
  BY Geometry DEF DfuInv, DfuTypeOK, MethodInv, ContainsRange, Running
<1>2. method.addr + pos \in Cells BY <1>1 DEF Cells
<1>3. (method.addr + pos) % PageSize \in 0 .. PageSize - 1 BY <1>1
<1> DEFINE r == (method.addr + pos) % PageSize
<1>4. ChunkLen = IF PageSize - r < method.len - pos THEN PageSize - r ELSE method.len - pos
  BY DEF ChunkLen
<1>r. r \in 0 .. PageSize - 1 BY <1>3
<1> HIDE DEF r
<1>5. ChunkLen \in 1 .. method.len - pos /\ ChunkLen <= PageSize
  BY <1>1, <1>r, <1>4
<1> DEFINE n == ChunkLen
           c == SubSeq(buffer, pos + 1, pos + n)
<1>6. n \in 1 .. method.len - pos /\ n <= PageSize BY <1>5
<1> HIDE DEF n
<1>8. buffer \in Seq(Bit) /\ Len(buffer) = TransferSize /\ pos + n <= TransferSize
  BY <1>1, <1>6
<1>9. c \in Seq(Bit) /\ Len(c) = n BY <1>1, <1>6, <1>8, Slice
<1>10. c \in [1 .. n -> Bit] /\ n \in 1 .. PageSize
  <2>1. \A q \in Seq(Bit) : q \in [1 .. Len(q) -> Bit] OBVIOUS
  <2> HIDE DEF c
  <2> QED BY <1>1, <1>6, <1>9, <2>1
<1>11. c \in PageData BY <1>10 DEF PageData
<1> QED BY <1>2, <1>5, <1>9, <1>11 DEF n

(* Every call of DfuMem meets the preconditions of the driver's routines.   *)
LEMMA DriverStepOfDfu == DfuInv /\ [DfuNext]_dfuVars => [QspiNext]_qspiVars
<1> SUFFICES ASSUME DfuInv, [DfuNext]_dfuVars PROVE [QspiNext]_qspiVars
  OBVIOUS
<1>i. /\ drv = "idle" /\ method.op \notin {"boot", "new"} =>
           ctrl.mode = IF inMmMode THEN "mapped" ELSE "indirect"
      /\ drv = "idle" /\ ctrl.mode \in {"off", "indirect"} => CcrAccepted
  BY DEF DfuInv, ModeInv, JobInv, DriverInv, OutOfContinuousRead
<1>1. CASE Host
  <2>1. UNCHANGED qspiVars
    BY <1>1 DEF Host, StoreWriteBuffer, StartRead, StartProgram, StartErase, StartEraseAll,
                StartManifestation
  <2> QED BY <2>1
<1>2. CASE EnsureMm
  BY <1>2, <1>i DEF EnsureMm, Running, QspiNext
<1>3. CASE EnsureIndirect
  BY <1>3 DEF EnsureIndirect, QspiNext
<1>4. CASE ReadWindow
  <2>1. drv = "idle" BY <1>4 DEF ReadWindow, Running
  <2>2. UNCHANGED <<cells, drv, job, call>> BY <1>4 DEF ReadWindow
  <2>3. CASE method.len = 0
    <3>1. UNCHANGED <<chip, ctrl>> BY <1>4, <2>3 DEF ReadWindow
    <3> QED BY <2>2, <3>1 DEF qspiVars
  <2>4. CASE method.len # 0
    <3>1. Fetched BY <1>4, <2>4 DEF ReadWindow
    <3> QED BY <2>1, <2>2, <3>1 DEF Fetch, QspiNext
  <2> QED BY <2>3, <2>4
<1>5. CASE ProgramChunk
  <2>1. /\ Running({"program"}) /\ pos < method.len /\ ~inMmMode
        /\ CallProgram(method.addr + pos, SubSeq(buffer, pos + 1, pos + ChunkLen))
    BY <1>5 DEF ProgramChunk
  <2>2. /\ method.addr + pos \in Cells
        /\ SubSeq(buffer, pos + 1, pos + ChunkLen) \in PageData
    BY <2>1, ChunkFits
  <2>3. SingleLine BY <1>i, <2>1 DEF Running, SingleLine
  <2> QED BY <2>1, <2>2, <2>3 DEF QspiNext
<1>6. CASE EraseSector
  <2>1. method.addr \in Cells /\ SingleLine /\ CallErase(method.addr)
    BY <1>6, <1>i DEF EraseSector, Running, SingleLine, DfuInv, MethodInv
  <2> QED BY <2>1 DEF QspiNext
<1>7. CASE EraseNextSector
  <2>1. pos \in 0 .. NSectors - 1
    BY <1>7, Geometry DEF EraseNextSector, DfuInv, DfuTypeOK
  <2>2. pos * SectorSize \in Cells /\ SingleLine /\ CallErase(pos * SectorSize)
    BY <1>7, <1>i, <2>1, Geometry DEF EraseNextSector, Running, SingleLine
  <2> QED BY <2>2 DEF QspiNext
<1>8. CASE FinishMethod BY <1>8 DEF FinishMethod
<1>9. CASE MemDriverStep BY <1>9 DEF MemDriverStep, QspiNext
<1>10. CASE BootMap BY <1>10, <1>i DEF BootMap, Running, QspiNext
<1>11. CASE BootReadVectors
  BY <1>11 DEF BootReadVectors, Running, Fetch, QspiNext
<1>12. CASE NewRecover BY <1>12 DEF NewRecover, QspiNext
<1>13. CASE NewDone BY <1>13 DEF NewDone
<1>14. CASE MemReset \/ MemPowerCycle BY <1>14 DEF MemReset, MemPowerCycle, QspiNext
<1>15. CASE UNCHANGED dfuVars BY <1>15 DEF dfuVars
<1> QED
  BY <1>1, <1>2, <1>3, <1>4, <1>5, <1>6, <1>7, <1>8, <1>9, <1>10, <1>11, <1>12, <1>13,
     <1>14, <1>15 DEF DfuNext, Serve

-----------------------------------------------------------------------------
(* What a frame of a routine does to the bookkeeping: the routine goes on,   *)
(* or returns with the controller in the mode it promised.                  *)
LEMMA RoutineStep ==
  ASSUME QspiTypeOK, DriverInv, PendingInv, JobInv, DriverStep
  PROVE  /\ JobInv' /\ job # "none"
         /\ job' \in {job, "none"}
         /\ drv' = "idle" /\ job = "enter" => ctrl'.mode = "mapped"
         /\ drv' = "idle" /\ job # "enter" => ctrl'.mode = "indirect"
<1> USE DEF JobInv, WriteSteps, PendingInv
<1>c. drv \in Recovered \cup {"exit"} => CcrAccepted BY DEF DriverInv, NeverDropped
<1>t. ctrl \in [mode : {"off", "indirect", "mapped"}, sent : BOOLEAN, busy : BOOLEAN]
  BY DEF QspiTypeOK
<1>1. CASE Abort BY <1>1, <1>t DEF Abort
<1>2. CASE ExitContinuousRead BY <1>2, <1>c, <1>t DEF ExitContinuousRead
<1>3. CASE EnableReset BY <1>3, <1>c, <1>t DEF EnableReset, Command, Recovered
<1>4. CASE ResetMemory BY <1>4, <1>c, <1>t DEF ResetMemory, Command, Recovered
<1>5. CASE CheckQuadEnable BY <1>5, <1>c, <1>t DEF CheckQuadEnable, Command, Recovered
<1>6. CASE QeWriteEnable \/ QeWriteStatus \/ QeWaitWip
  BY <1>6, <1>c, <1>t DEF QeWriteEnable, QeWriteStatus, QeWaitWip, Command, Recovered
<1>7. CASE SetReadParameters BY <1>7, <1>c, <1>t DEF SetReadParameters, Command, Recovered
<1>8. CASE Map BY <1>8, <1>c, <1>t DEF Map, Recovered
<1>9. CASE WriteEnable BY <1>9, <1>c, <1>t DEF WriteEnable, Command, Recovered
<1>10. CASE WriteFrame BY <1>10, <1>c, <1>t DEF WriteFrame, Recovered
<1>11. CASE WaitWip BY <1>11, <1>c, <1>t DEF WaitWip, Command, Recovered
<1> QED
  BY <1>1, <1>2, <1>3, <1>4, <1>5, <1>6, <1>7, <1>8, <1>9, <1>10, <1>11 DEF DriverStep

(* A fetch through the window changes neither the mode nor the routine.     *)
LEMMA FetchedKeeps ==
  ASSUME QspiTypeOK, Fetched
  PROVE  ctrl.mode = "mapped" /\ ctrl'.mode = "mapped"
BY DEF Fetched, QspiTypeOK

LEMMA MethodType ==
  ASSUME NEW o \in Operations, NEW a \in Addresses, NEW n \in 0 .. TransferSize
  PROVE  /\ Method(o, a, n) \in [op : Operations, addr : Addresses, len : 0 .. TransferSize]
         /\ Method(o, a, n).op = o /\ Method(o, a, n).addr = a /\ Method(o, a, n).len = n
BY DEF Method

LEMMA NoMethodType ==
  /\ 0 \in Addresses /\ 0 \in 0 .. TransferSize /\ 0 \in 0 .. (TransferSize + NSectors)
  /\ \A o \in Operations :
       Method(o, 0, 0) \in [op : Operations, addr : Addresses, len : 0 .. TransferSize]
  /\ NoMethod.op = "none" /\ \A o : Method(o, 0, 0).op = o
  /\ NoMethod \in [op : Operations, addr : Addresses, len : 0 .. TransferSize]
<1>1. /\ 0 \in Addresses /\ 0 \in 0 .. TransferSize /\ 0 \in 0 .. (TransferSize + NSectors)
  BY Geometry DEF Addresses
<1> QED BY <1>1 DEF Method, NoMethod, Operations

LEMMA ReplyType ==
  /\ \A d \in Blocks : Reply("ok", d) \in
       [status : {"none", "ok", "Address", "Prog", "Size"}, data : Blocks]
  /\ \A s \in {"none", "ok", "Address", "Prog", "Size"} : Reply(s, <<>>) \in
       [status : {"none", "ok", "Address", "Prog", "Size"}, data : Blocks]
  /\ NoReply \in [status : {"none", "ok", "Address", "Prog", "Size"}, data : Blocks]
BY BlockFacts DEF Reply, NoReply

(* What the read loop gathers is a block of the length asked for.           *)
LEMMA WindowDataType ==
  ASSUME DfuInv, Running({"read"}), NEW d \in WindowData(method.addr, method.len)
  PROVE  d \in Blocks /\ d \in Seq(Bit)
<1> DEFINE a == method.addr
           n == method.len
<1>1. /\ a \in 0 .. FlashSize /\ n <= FlashSize - a /\ n \in 0 .. TransferSize
      /\ cells \in [Cells -> Bit] /\ FlashSize \in Nat /\ TransferSize \in Nat
  BY Geometry DEF DfuInv, DfuTypeOK, QspiTypeOK, MethodInv, ContainsRange, Running
<1>2. d = [i \in 1 .. n |-> cells[a + i - 1]] \/ d \in [1 .. n -> Bit]
  BY DEF WindowData
<1> HIDE DEF a, n
<1>3. \A i \in 1 .. n : a + i - 1 \in Cells BY <1>1 DEF Cells
<1>4. d \in [1 .. n -> Bit] BY <1>1, <1>2, <1>3
<1> QED BY <1>1, <1>4, BlockFacts

-----------------------------------------------------------------------------
(* A method that starts: nothing but the memory's own state changes.        *)
LEMMA HostStep ==
  ASSUME DfuInv, Host
  PROVE  DfuInv'
<1> USE DEF MethodInv, ModeInv
<1>t. /\ buffer \in [1 .. TransferSize -> Bit] /\ bufferLen \in 0 .. TransferSize
      /\ inMmMode \in BOOLEAN /\ sawWrite \in BOOLEAN /\ hostBlock \in Blocks
      /\ reply \in [status : {"none", "ok", "Address", "Prog", "Size"}, data : Blocks]
      /\ pos \in 0 .. (TransferSize + NSectors)
  BY DEF DfuInv, DfuTypeOK
<1>i. Idle /\ UNCHANGED <<qspiVars, inMmMode>>
  BY DEF Host, StoreWriteBuffer, StartRead, StartProgram, StartErase, StartEraseAll,
         StartManifestation
<1>q. QspiTypeOK' /\ DriverInv' /\ PendingInv' /\ JobInv'
  BY <1>i DEF DfuInv, DfuTypeOK, QspiTypeOK, DriverInv, NeverDropped, OutOfContinuousRead,
              FrameEffects, WindowReady, PendingInv, JobInv, CcrAccepted, qspiVars
<1>d. /\ drv = "idle" /\ job = "none" /\ method.op = "none"
      /\ ctrl.mode = IF inMmMode THEN "mapped" ELSE "indirect"
  BY <1>i, NoMethodType DEF Idle, DfuInv, JobInv
<1>k. drv' = "idle" /\ job' = "none" /\ ctrl' = ctrl /\ inMmMode' = inMmMode
  BY <1>i, <1>d DEF qspiVars
<1>1. ASSUME NEW d \in Blocks \cup {[i \in 1 .. TransferSize + 1 |-> 0]}, StoreWriteBuffer(d)
      PROVE  DfuInv'
  <2>1. method' = NoMethod /\ pos' = 0 /\ sawWrite' = TRUE BY <1>1 DEF StoreWriteBuffer, Answered
  <2>2. CASE Len(d) > TransferSize
    <3>1. reply' = Reply("Size", <<>>) /\ UNCHANGED <<buffer, bufferLen, hostBlock>>
      BY <1>1, <2>2 DEF StoreWriteBuffer, Answered
    <3>2. DfuTypeOK' BY <1>t, <1>k, <1>q, <2>1, <3>1, NoMethodType, ReplyType DEF DfuTypeOK
    <3> QED BY <1>d, <1>k, <1>q, <2>1, <3>2, NoMethodType DEF DfuInv, WriteOps
  <2>3. CASE ~(Len(d) > TransferSize)
    <3>1. /\ reply' = Reply("ok", <<>>) /\ hostBlock' = d
          /\ buffer' = Overlay(buffer, d) /\ bufferLen' = Len(d)
      BY <1>1, <2>3 DEF StoreWriteBuffer, Answered
    <3>2. Len([i \in 1 .. TransferSize + 1 |-> 0]) = TransferSize + 1 /\ TransferSize \in Nat
      BY Geometry
    <3>3. d \in Blocks BY <2>3, <3>2
    <3>4. Len(d) \in 0 .. TransferSize /\ d \in Seq(Bit) BY <3>3, BlockFacts
    <3>5. buffer' \in [1 .. TransferSize -> Bit] BY <1>t, <3>1, <3>4, OverlayType
    <3>6. DfuTypeOK'
      BY <1>t, <1>k, <1>q, <2>1, <3>1, <3>3, <3>4, <3>5, NoMethodType, ReplyType DEF DfuTypeOK
    <3> QED BY <1>d, <1>k, <1>q, <2>1, <3>6, NoMethodType DEF DfuInv, WriteOps
  <2> QED BY <2>2, <2>3
<1>2. ASSUME NEW a \in Addresses, NEW n \in 0 .. TransferSize + 1, StartRead(a, n)
      PROVE  DfuInv'
  <2> DEFINE m == IF n < TransferSize THEN n ELSE TransferSize
  <2>1. hostBlock' = <<>> /\ UNCHANGED <<buffer, bufferLen, sawWrite>> BY <1>2 DEF StartRead
  <2>2. CASE ContainsRange(a, n)
    <3>1. method' = Method("read", a, m) /\ pos' = 0 /\ reply' = NoReply
      BY <1>2, <2>2 DEF StartRead, Begin
    <3>2. m \in 0 .. TransferSize /\ m <= n BY Geometry
    <3>3. /\ method' \in [op : Operations, addr : Addresses, len : 0 .. TransferSize]
          /\ method'.op = "read" /\ method'.addr = a /\ method'.len = m
      BY <3>1, <3>2, MethodType DEF Operations
    <3>4. ContainsRange(a, m) BY <2>2, <3>2, Geometry DEF ContainsRange
    <3>5. DfuTypeOK'
      BY <1>t, <1>k, <1>q, <2>1, <3>1, <3>3, NoMethodType, ReplyType, BlockFacts DEF DfuTypeOK
    <3> QED BY <1>d, <1>k, <1>q, <3>3, <3>4, <3>5 DEF DfuInv, WriteOps
  <2>3. CASE ~ContainsRange(a, n)
    <3>1. method' = NoMethod /\ pos' = 0 /\ reply' = Reply("Address", <<>>)
      BY <1>2, <2>3 DEF StartRead, Answered
    <3>2. DfuTypeOK'
      BY <1>t, <1>k, <1>q, <2>1, <3>1, NoMethodType, ReplyType, BlockFacts DEF DfuTypeOK
    <3> QED BY <1>d, <1>k, <1>q, <3>1, <3>2, NoMethodType DEF DfuInv, WriteOps
  <2> QED BY <2>2, <2>3
<1>3. ASSUME NEW a \in Addresses, StartProgram(a, Len(hostBlock))
      PROVE  DfuInv'
  <2> DEFINE n == Len(hostBlock)
  <2>1. sawWrite' = TRUE /\ UNCHANGED <<buffer, bufferLen, hostBlock>> BY <1>3 DEF StartProgram
  <2>2. n \in 0 .. TransferSize BY <1>t, BlockFacts
  <2>3. CASE ContainsRange(a, n) /\ ~(n > bufferLen)
    <3>1. method' = Method("program", a, n) /\ pos' = 0 /\ reply' = NoReply
      BY <1>3, <2>3 DEF StartProgram, Begin
    <3>2. /\ method' \in [op : Operations, addr : Addresses, len : 0 .. TransferSize]
          /\ method'.op = "program" /\ method'.addr = a /\ method'.len = n
      BY <2>2, <3>1, MethodType DEF Operations
    <3>3. DfuTypeOK'
      BY <1>t, <1>k, <1>q, <2>1, <3>1, <3>2, NoMethodType, ReplyType DEF DfuTypeOK
    <3>4. pos' <= method'.len BY <2>2, <3>1, <3>2
    <3> QED BY <1>d, <1>k, <1>q, <2>1, <2>3, <3>2, <3>3, <3>4 DEF DfuInv, WriteOps
  <2>4. CASE ~(ContainsRange(a, n) /\ ~(n > bufferLen))
    <3>1. /\ method' = NoMethod /\ pos' = 0
          /\ reply' = Reply("Address", <<>>) \/ reply' = Reply("Prog", <<>>)
      BY <1>3, <2>4 DEF StartProgram, Answered
    <3>2. DfuTypeOK'
      BY <1>t, <1>k, <1>q, <2>1, <3>1, NoMethodType, ReplyType DEF DfuTypeOK
    <3> QED BY <1>d, <1>k, <1>q, <2>1, <3>1, <3>2, NoMethodType DEF DfuInv, WriteOps
  <2> QED BY <2>3, <2>4
<1>4. ASSUME NEW a \in Addresses, StartErase(a)
      PROVE  DfuInv'
  <2>1. sawWrite' = TRUE /\ hostBlock' = <<>> /\ UNCHANGED <<buffer, bufferLen>>
    BY <1>4 DEF StartErase
  <2>2. CASE Contains(a)
    <3>1. method' = Method("erase", a, 0) /\ pos' = 0 /\ reply' = NoReply
      BY <1>4, <2>2 DEF StartErase, Begin
    <3>2. /\ method' \in [op : Operations, addr : Addresses, len : 0 .. TransferSize]
          /\ method'.op = "erase" /\ method'.addr = a
      <4>1. 0 \in 0 .. TransferSize /\ "erase" \in Operations
        BY NoMethodType DEF Operations
      <4> QED BY <3>1, <4>1, MethodType
    <3>3. DfuTypeOK'
      BY <1>t, <1>k, <1>q, <2>1, <3>1, <3>2, NoMethodType, ReplyType, BlockFacts DEF DfuTypeOK
    <3>4. a \in Cells /\ pos' <= 1 BY <2>2, <3>1 DEF Contains
    <3> QED BY <1>d, <1>k, <1>q, <2>1, <3>2, <3>3, <3>4 DEF DfuInv, WriteOps
  <2>3. CASE ~Contains(a)
    <3>1. method' = NoMethod /\ pos' = 0 /\ reply' = Reply("Address", <<>>)
      BY <1>4, <2>3 DEF StartErase, Answered
    <3>2. DfuTypeOK'
      BY <1>t, <1>k, <1>q, <2>1, <3>1, NoMethodType, ReplyType, BlockFacts DEF DfuTypeOK
    <3> QED BY <1>d, <1>k, <1>q, <2>1, <3>1, <3>2, NoMethodType DEF DfuInv, WriteOps
  <2> QED BY <2>2, <2>3
<1>5. CASE StartEraseAll
  <2>1. /\ sawWrite' = TRUE /\ hostBlock' = <<>> /\ UNCHANGED <<buffer, bufferLen>>
        /\ method' = Method("eraseAll", 0, 0) /\ pos' = 0 /\ reply' = NoReply
    BY <1>5 DEF StartEraseAll, Begin
  <2>2. /\ method' \in [op : Operations, addr : Addresses, len : 0 .. TransferSize]
        /\ method'.op = "eraseAll"
    BY <2>1, NoMethodType DEF Operations
  <2>3. DfuTypeOK'
    BY <1>t, <1>k, <1>q, <2>1, <2>2, NoMethodType, ReplyType, BlockFacts DEF DfuTypeOK
  <2>4. pos' <= NSectors BY <2>1, Geometry
  <2> QED BY <1>d, <1>k, <1>q, <2>1, <2>2, <2>3, <2>4 DEF DfuInv, WriteOps
<1>6. CASE StartManifestation
  <2>1. /\ hostBlock' = <<>> /\ UNCHANGED <<buffer, bufferLen, sawWrite>>
        /\ method' = Method("manifest", 0, 0) /\ pos' = 0 /\ reply' = NoReply
    BY <1>6 DEF StartManifestation, Begin
  <2>2. /\ method' \in [op : Operations, addr : Addresses, len : 0 .. TransferSize]
        /\ method'.op = "manifest"
    BY <2>1, NoMethodType DEF Operations
  <2>3. DfuTypeOK'
    BY <1>t, <1>k, <1>q, <2>1, <2>2, NoMethodType, ReplyType, BlockFacts DEF DfuTypeOK
  <2> QED BY <1>d, <1>k, <1>q, <2>2, <2>3 DEF DfuInv, WriteOps
<1> QED BY <1>1, <1>2, <1>3, <1>4, <1>5, <1>6 DEF Host

(* A driver routine is called: the flag is set to what it will leave.       *)
LEMMA CallStarts ==
  ASSUME JobInv, drv = "idle",
         \/ CallEnter \/ CallRecover
         \/ \E a : CallErase(a)
         \/ \E a, d : CallProgram(a, d)
  PROVE  /\ JobInv' /\ job' # "none" /\ drv' # "idle"
         /\ CallEnter => job' = "enter"
         /\ CallRecover => job' = "recover"
         /\ (\E a : CallErase(a)) \/ (\E a, d : CallProgram(a, d)) => job' = "write"
BY DEF CallEnter, CallRecover, CallErase, CallProgram, StartJob, JobInv, WriteSteps

(* The driver's own part of the invariant, at every step of DfuMem.         *)
LEMMA DriverPart ==
  ASSUME DfuInv, [DfuNext]_dfuVars
  PROVE  QspiTypeOK' /\ DriverInv' /\ PendingInv'
<1>1. [QspiNext]_qspiVars BY DriverStepOfDfu
<1>2. QspiTypeOK /\ DriverInv /\ PendingInv BY DEF DfuInv, DfuTypeOK
<1> QED BY <1>1, <1>2, TypeStep, DriverInvStep, PendingStep

(* A step of the method in progress.                                        *)
LEMMA ServeStep ==
  ASSUME DfuInv, Serve
  PROVE  DfuInv'
<1> USE DEF MethodInv, ModeInv
<1>q. QspiTypeOK' /\ DriverInv' /\ PendingInv' BY DriverPart DEF DfuNext
<1>t. /\ buffer \in [1 .. TransferSize -> Bit] /\ bufferLen \in 0 .. TransferSize
      /\ inMmMode \in BOOLEAN /\ sawWrite \in BOOLEAN /\ hostBlock \in Blocks
      /\ reply \in [status : {"none", "ok", "Address", "Prog", "Size"}, data : Blocks]
      /\ pos \in 0 .. (TransferSize + NSectors)
      /\ method \in [op : Operations, addr : Addresses, len : 0 .. TransferSize]
  BY DEF DfuInv, DfuTypeOK
<1>j. JobInv /\ MethodInv /\ ModeInv /\ QspiTypeOK /\ DriverInv /\ PendingInv
  BY DEF DfuInv, DfuTypeOK
<1>1. CASE EnsureMm
  <2>1. /\ CallEnter /\ inMmMode' = TRUE /\ drv = "idle" /\ method.op \in {"read", "manifest"}
        /\ UNCHANGED <<buffer, bufferLen, sawWrite, method, pos, reply, hostBlock>>
    BY <1>1 DEF EnsureMm, KeepMem, Running
  <2>2. JobInv' /\ job' = "enter" /\ drv' # "idle" BY <1>j, <2>1, CallStarts
  <2>3. DfuTypeOK' BY <1>q, <1>t, <2>1 DEF DfuTypeOK
  <2>4. ModeInv' BY <2>1, <2>2
  <2>5. MethodInv' BY <1>j, <2>1, <2>2 DEF WriteOps
  <2> QED BY <1>q, <2>2, <2>3, <2>4, <2>5 DEF DfuInv
<1>2. CASE EnsureIndirect
  <2>1. /\ CallRecover /\ inMmMode' = FALSE /\ drv = "idle" /\ method.op \in WriteOps
        /\ UNCHANGED <<buffer, bufferLen, sawWrite, method, pos, reply, hostBlock>>
    BY <1>2 DEF EnsureIndirect, KeepMem, Running, WriteOps
  <2>2. JobInv' /\ job' = "recover" /\ drv' # "idle" BY <1>j, <2>1, CallStarts
  <2>3. DfuTypeOK' BY <1>q, <1>t, <2>1 DEF DfuTypeOK
  <2>4. ModeInv' BY <2>1, <2>2 DEF WriteOps
  <2>5. MethodInv' BY <1>j, <2>1, <2>2 DEF WriteOps
  <2> QED BY <1>q, <2>2, <2>3, <2>4, <2>5 DEF DfuInv
<1>3. CASE ReadWindow
  <2>1. /\ Running({"read"}) /\ inMmMode /\ drv = "idle" /\ method.op = "read"
        /\ UNCHANGED <<cells, drv, job, call, bufferLen, inMmMode, sawWrite, hostBlock>>
    BY <1>3 DEF ReadWindow, Running
  <2>2. PICK d \in WindowData(method.addr, method.len) :
          buffer' = Overlay(buffer, d) /\ Answered(Reply("ok", d))
    BY <1>3 DEF ReadWindow
  <2>3. d \in Blocks /\ d \in Seq(Bit) BY <2>1, WindowDataType
  <2>4. method' = NoMethod /\ pos' = 0 /\ reply' = Reply("ok", d) BY <2>2 DEF Answered
  <2>5. buffer' \in [1 .. TransferSize -> Bit] BY <1>t, <2>2, <2>3, OverlayType
  <2>6. DfuTypeOK' BY <1>q, <1>t, <2>1, <2>3, <2>4, <2>5, NoMethodType, ReplyType DEF DfuTypeOK
  <2>7. ctrl.mode = "mapped" /\ job = "none" BY <1>j, <2>1 DEF JobInv
  <2>8. ctrl'.mode = "mapped"
    <3>1. CASE method.len = 0 BY <1>3, <2>7, <3>1 DEF ReadWindow
    <3>2. CASE method.len # 0 BY <1>3, <1>j, <3>2, FetchedKeeps DEF ReadWindow
    <3> QED BY <3>1, <3>2
  <2>9. JobInv' BY <1>j, <2>1, <2>8 DEF JobInv
  <2>10. ModeInv' /\ MethodInv' BY <2>1, <2>4, <2>7, <2>8, NoMethodType DEF WriteOps
  <2> QED BY <1>q, <2>6, <2>9, <2>10 DEF DfuInv
<1>4. CASE ProgramChunk
  <2>1. /\ Running({"program"}) /\ pos < method.len /\ ~inMmMode
        /\ drv = "idle" /\ method.op = "program"
        /\ CallProgram(method.addr + pos, SubSeq(buffer, pos + 1, pos + ChunkLen))
        /\ pos' = pos + ChunkLen
        /\ UNCHANGED <<buffer, bufferLen, inMmMode, sawWrite, method, reply, hostBlock>>
    BY <1>4 DEF ProgramChunk, Running
  <2>2. ChunkLen \in 1 .. method.len - pos BY <2>1, ChunkFits
  <2>3. pos' \in 0 .. (TransferSize + NSectors) /\ pos' <= method.len
    <3> DEFINE n == ChunkLen
    <3>1. n \in 1 .. method.len - pos /\ pos' = pos + n BY <2>1, <2>2
    <3> HIDE DEF n
    <3> QED BY <1>t, <3>1, Geometry
  <2>4. JobInv' /\ job' = "write" /\ drv' # "idle" BY <1>j, <2>1, CallStarts
  <2>5. DfuTypeOK' BY <1>q, <1>t, <2>1, <2>3 DEF DfuTypeOK
  <2>6. ModeInv' /\ MethodInv' BY <1>j, <2>1, <2>3, <2>4 DEF WriteOps
  <2> QED BY <1>q, <2>4, <2>5, <2>6 DEF DfuInv
<1>5. CASE EraseSector
  <2>1. /\ ~inMmMode /\ drv = "idle" /\ method.op = "erase" /\ CallErase(method.addr) /\ pos' = 1
        /\ UNCHANGED <<buffer, bufferLen, inMmMode, sawWrite, method, reply, hostBlock>>
    BY <1>5 DEF EraseSector, Running
  <2>2. pos' \in 0 .. (TransferSize + NSectors) /\ pos' <= 1 BY <2>1, Geometry
  <2>3. JobInv' /\ job' = "write" /\ drv' # "idle" BY <1>j, <2>1, CallStarts
  <2>4. DfuTypeOK' BY <1>q, <1>t, <2>1, <2>2 DEF DfuTypeOK
  <2>5. ModeInv' /\ MethodInv' BY <1>j, <2>1, <2>2, <2>3 DEF WriteOps
  <2> QED BY <1>q, <2>3, <2>4, <2>5 DEF DfuInv
<1>6. CASE EraseNextSector
  <2>1. /\ ~inMmMode /\ drv = "idle" /\ method.op = "eraseAll" /\ pos < NSectors
        /\ CallErase(pos * SectorSize) /\ pos' = pos + 1
        /\ UNCHANGED <<buffer, bufferLen, inMmMode, sawWrite, method, reply, hostBlock>>
    BY <1>6 DEF EraseNextSector, Running
  <2>2. pos' \in 0 .. (TransferSize + NSectors) /\ pos' <= NSectors BY <1>t, <2>1, Geometry
  <2>3. JobInv' /\ job' = "write" /\ drv' # "idle" BY <1>j, <2>1, CallStarts
  <2>4. DfuTypeOK' BY <1>q, <1>t, <2>1, <2>2 DEF DfuTypeOK
  <2>5. ModeInv' /\ MethodInv' BY <1>j, <2>1, <2>2, <2>3 DEF WriteOps
  <2> QED BY <1>q, <2>3, <2>4, <2>5 DEF DfuInv
<1>7. CASE FinishMethod
  <2>1. /\ drv = "idle" /\ LoopDone /\ UNCHANGED <<qspiVars, buffer, bufferLen, inMmMode, sawWrite, hostBlock>>
        /\ method' = NoMethod /\ pos' = 0 /\ reply' = Reply("ok", <<>>)
    BY <1>7 DEF FinishMethod, Answered
  <2>2. method.op \notin {"boot", "new"} BY <2>1 DEF LoopDone
  <2>3. DfuTypeOK' BY <1>q, <1>t, <2>1, NoMethodType, ReplyType DEF DfuTypeOK
  <2>4. JobInv' BY <1>j, <2>1 DEF JobInv, qspiVars, CcrAccepted
  <2>5. ModeInv' /\ MethodInv'
    BY <1>j, <2>1, <2>2, NoMethodType DEF WriteOps, qspiVars, JobInv
  <2> QED BY <1>q, <2>3, <2>4, <2>5 DEF DfuInv
<1>8. CASE MemDriverStep
  <2>1. DriverStep /\ UNCHANGED memVars BY <1>8 DEF MemDriverStep
  <2>2. /\ JobInv' /\ job # "none" /\ job' \in {job, "none"} /\ drv # "idle"
        /\ drv' = "idle" /\ job = "enter" => ctrl'.mode = "mapped"
        /\ drv' = "idle" /\ job # "enter" => ctrl'.mode = "indirect"
    BY <1>j, <2>1, RoutineStep DEF JobInv
  <2>3. DfuTypeOK' BY <1>q, <1>t, <2>1 DEF DfuTypeOK, memVars
  <2>4. ModeInv' BY <1>j, <2>1, <2>2 DEF memVars, JobInv
  <2>5. MethodInv' BY <1>j, <2>1, <2>2 DEF memVars
  <2> QED BY <1>q, <2>2, <2>3, <2>4, <2>5 DEF DfuInv
<1> QED BY <1>1, <1>2, <1>3, <1>4, <1>5, <1>6, <1>7, <1>8 DEF Serve

(* Boot, service mode and the restarts.                                     *)
LEMMA FreshMem ==
  ASSUME NEW op \in Operations, MemRestart(op)
  PROVE  /\ buffer' \in [1 .. TransferSize -> Bit] /\ bufferLen' \in 0 .. TransferSize
         /\ inMmMode' = FALSE /\ sawWrite' = FALSE /\ hostBlock' \in Blocks
         /\ reply' \in [status : {"none", "ok", "Address", "Prog", "Size"}, data : Blocks]
         /\ pos' \in 0 .. (TransferSize + NSectors)
         /\ method' \in [op : Operations, addr : Addresses, len : 0 .. TransferSize]
         /\ method'.op = op
<1>1. 0 \in Bit /\ <<>> \in Blocks BY BlockFacts DEF Bit
<1> QED BY <1>1, NoMethodType, ReplyType DEF MemRestart

LEMMA BootStep ==
  ASSUME DfuInv,
         BootMap \/ BootReadVectors \/ NewRecover \/ NewDone \/ MemReset \/ MemPowerCycle
  PROVE  DfuInv'
<1> USE DEF MethodInv, ModeInv
<1>q. QspiTypeOK' /\ DriverInv' /\ PendingInv' BY DriverPart DEF DfuNext
<1>j. JobInv /\ MethodInv /\ ModeInv /\ QspiTypeOK /\ DriverInv BY DEF DfuInv, DfuTypeOK
<1>1. CASE BootMap
  <2>1. CallEnter /\ drv = "idle" /\ method.op = "boot" /\ UNCHANGED memVars
    BY <1>1 DEF BootMap, Running
  <2>2. JobInv' /\ job' = "enter" /\ drv' # "idle" BY <1>j, <2>1, CallStarts
  <2>3. DfuTypeOK' BY <1>q, <2>1 DEF DfuInv, DfuTypeOK, memVars
  <2> QED BY <1>q, <1>j, <2>1, <2>2, <2>3 DEF DfuInv, memVars, WriteOps
<1>2. CASE BootReadVectors
  <2>1. /\ Fetched /\ drv = "idle" /\ method.op = "boot" /\ method' = Method("new", 0, 0)
        /\ UNCHANGED <<cells, drv, job, call, buffer, bufferLen, inMmMode, sawWrite, pos, reply,
                       hostBlock>>
    BY <1>2 DEF BootReadVectors, Running
  <2>2. ctrl'.mode = "mapped" BY <1>j, <2>1, FetchedKeeps
  <2>3. method'.op = "new" /\ method' \in [op : Operations, addr : Addresses, len : 0 .. TransferSize]
    BY <2>1, NoMethodType DEF Operations
  <2>4. DfuTypeOK' BY <1>q, <2>1, <2>3 DEF DfuInv, DfuTypeOK
  <2>5. JobInv' /\ job' = "none" BY <1>j, <2>1, <2>2 DEF JobInv
  <2> QED BY <1>q, <2>1, <2>2, <2>3, <2>4, <2>5 DEF DfuInv, WriteOps
<1>3. CASE NewRecover
  <2>1. CallRecover /\ drv = "idle" /\ method.op = "new" /\ UNCHANGED memVars
    BY <1>3 DEF NewRecover, Running
  <2>2. JobInv' /\ job' = "recover" /\ drv' # "idle" BY <1>j, <2>1, CallStarts
  <2>3. DfuTypeOK' BY <1>q, <2>1 DEF DfuInv, DfuTypeOK, memVars
  <2> QED BY <1>q, <1>j, <2>1, <2>2, <2>3 DEF DfuInv, memVars, WriteOps
<1>4. CASE NewDone
  <2>1. /\ drv = "idle" /\ method.op = "new" /\ ctrl.mode = "indirect" /\ MemRestart("none")
        /\ UNCHANGED qspiVars
    BY <1>4 DEF NewDone, Running
  <2>2. JobInv' /\ job' = "none" BY <1>j, <2>1 DEF JobInv, qspiVars, CcrAccepted
  <2>3. DfuTypeOK' /\ method'.op = "none" /\ inMmMode' = FALSE
    BY <1>q, <2>1, FreshMem DEF DfuTypeOK, Operations
  <2> QED BY <1>q, <2>1, <2>2, <2>3 DEF DfuInv, qspiVars, WriteOps
<1>5. CASE MemReset \/ MemPowerCycle
  <2>1. Restart /\ MemRestart("boot")
    BY <1>5 DEF MemReset, MemPowerCycle, Reset, PowerCycle
  <2>2. JobInv' /\ job' = "none" /\ ctrl'.mode = "off"
    BY <2>1 DEF Restart, CtrlReset, JobInv, CcrAccepted, WriteSteps
  <2>3. DfuTypeOK' /\ method'.op = "boot" /\ inMmMode' = FALSE
    BY <1>q, <2>1, FreshMem DEF DfuTypeOK, Operations
  <2> QED BY <1>q, <2>1, <2>2, <2>3 DEF DfuInv, WriteOps
<1> QED BY <1>1, <1>2, <1>3, <1>4, <1>5

LEMMA DfuInitInv == DfuInit => DfuInv
<1> SUFFICES ASSUME DfuInit PROVE DfuInv OBVIOUS
<1>1. QspiTypeOK
  BY DEF DfuInit, QspiInit, QspiTypeOK, CtrlReset, Calls, Steps
<1>2. DriverInv /\ PendingInv /\ JobInv
  BY DEF DfuInit, QspiInit, CtrlReset, DriverInv, NeverDropped, OutOfContinuousRead,
         FrameEffects, WindowReady, Recovered, PendingInv, WriteSteps, JobInv, CcrAccepted
<1>3. 0 \in Bit /\ <<>> \in Blocks BY BlockFacts DEF Bit
<1>4. DfuTypeOK /\ method.op = "boot"
  BY <1>1, <1>3, NoMethodType, ReplyType DEF DfuInit, MemInit, DfuTypeOK, Operations
<1>5. ModeInv /\ MethodInv
  BY <1>4 DEF DfuInit, QspiInit, CtrlReset, ModeInv, MethodInv, WriteOps
<1> QED BY <1>2, <1>4, <1>5 DEF DfuInv

LEMMA DfuStepInv == DfuInv /\ [DfuNext]_dfuVars => DfuInv'
<1> SUFFICES ASSUME DfuInv, [DfuNext]_dfuVars PROVE DfuInv' OBVIOUS
<1>1. CASE Host BY <1>1, HostStep
<1>2. CASE Serve BY <1>2, ServeStep
<1>3. CASE BootMap \/ BootReadVectors \/ NewRecover \/ NewDone \/ MemReset \/ MemPowerCycle
  BY <1>3, BootStep
<1>4. CASE UNCHANGED dfuVars
  BY <1>4 DEF dfuVars, qspiVars, memVars, DfuInv, DfuTypeOK, QspiTypeOK, DriverInv, NeverDropped,
              OutOfContinuousRead, FrameEffects, WindowReady, PendingInv, JobInv, ModeInv,
              MethodInv, CcrAccepted
<1> QED BY <1>1, <1>2, <1>3, <1>4 DEF DfuNext

(* A run of cells that ends before the next page boundary stays in its page. *)
LEMMA SamePage ==
  ASSUME NEW p \in Nat \ {0}, NEW a \in Nat, NEW n \in 1 .. p - (a % p)
  PROVE  /\ a \div p = (a + n - 1) \div p
         /\ \A i \in 0 .. n - 1 : (a \div p) * p + ((a + i) % p) = a + i
<1> DEFINE q == a \div p
           r == a % p
<1>1. q \in Nat /\ r \in 0 .. p - 1 /\ a = p * q + r
  OBVIOUS
<1> HIDE DEF q, r
<1>2. ASSUME NEW i \in 0 .. n - 1
      PROVE  (a + i) \div p = q /\ (a + i) % p = r + i
  <2>1. r + i \in 0 .. p - 1 BY <1>1 DEF r
  <2>2. a + i = p * q + (r + i) /\ a + i \in Nat BY <1>1
  <2>3. \A x \in Nat, y \in Nat, z \in 0 .. p - 1 : x = p * y + z => x \div p = y /\ x % p = z
    OBVIOUS
  <2> QED BY <1>1, <2>1, <2>2, <2>3
<1>3. a + n - 1 = a + (n - 1) /\ n - 1 \in 0 .. n - 1 BY <1>1
<1>4. (a + n - 1) \div p = q BY <1>2, <1>3
<1>5. ASSUME NEW i \in 0 .. n - 1 PROVE q * p + ((a + i) % p) = a + i
  <2>1. (a + i) % p = r + i BY <1>2
  <2>2. q * p = p * q /\ p * q \in Nat BY <1>1
  <2> QED BY <1>1, <2>1, <2>2
<1> QED BY <1>4, <1>5 DEF q

-----------------------------------------------------------------------------
(* DfuMem's own state stays in its declared types for every flash geometry  *)
(* and block size.                                                          *)
THEOREM DfuTypeCorrect == DfuSpec => []DfuTypeOK
<1>1. DfuInv => DfuTypeOK BY DEF DfuInv
<1> QED BY <1>1, DfuInitInv, DfuStepInv, PTL DEF DfuSpec

(* in_mm_mode never lies between methods, wherever the power fails.         *)
THEOREM ModeFlagTrue == DfuSpec => []ModeShadow
<1>1. DfuInv => ModeShadow
  <2> SUFFICES ASSUME DfuInv, Idle
               PROVE  (inMmMode <=> ctrl.mode = "mapped") /\ (~inMmMode => ~chip.ax)
    BY DEF ModeShadow
  <2>1. drv = "idle" /\ method.op = "none" BY NoMethodType DEF Idle
  <2>2. ctrl.mode = IF inMmMode THEN "mapped" ELSE "indirect" BY <2>1 DEF DfuInv, ModeInv
  <2> QED BY <2>1, <2>2 DEF DfuInv, DfuTypeOK, DriverInv, OutOfContinuousRead
<1> QED BY <1>1, DfuInitInv, DfuStepInv, PTL DEF DfuSpec

(* DfuMem calls the driver only as qspi.rs demands: erases and programs in  *)
(* single-line mode, inside the flash and of at most a page, CCR writes only *)
(* while the controller takes them.  So all that is proved of the driver's  *)
(* calls holds of DfuMem's.                                                 *)
THEOREM DriverUsedProperly == DfuSpec => QspiSpec
<1>1. DfuInit => QspiInit BY DEF DfuInit
<1> QED BY <1>1, DfuInitInv, DfuStepInv, DriverStepOfDfu, PTL DEF DfuSpec, QspiSpec

(* The theorems about the driver, said of DfuMem: uploads see what is in the *)
(* flash, every erase and program frame is executed, and each call takes    *)
(* effect exactly once before it returns.                                   *)
THEOREM DriverSoundUnderDfu ==
  DfuSpec => [](XipFramed /\ WriteFramesAccepted /\ MappedWriteProtected) /\ StoreImplemented
<1> QED
  BY DriverUsedProperly, WindowFaithful, WritesExecuted, WindowWriteProtected,
     DriverImplementsStore, PTL

(* The assertions of program_page: a block that is not empty and does not   *)
(* cross a page, whatever address and length the host asked for.            *)
ChunkAsserted ==
  Running({"program"}) /\ pos < method.len =>
    /\ Len(SubSeq(buffer, pos + 1, pos + ChunkLen)) > 0
    /\ (method.addr + pos) \div PageSize = (method.addr + pos + ChunkLen - 1) \div PageSize

THEOREM ProgramPageAsserts == DfuSpec => []ChunkAsserted
<1>1. DfuInv => ChunkAsserted
  <2> SUFFICES ASSUME DfuInv, Running({"program"}), pos < method.len
               PROVE  /\ Len(SubSeq(buffer, pos + 1, pos + ChunkLen)) > 0
                      /\ (method.addr + pos) \div PageSize
                           = (method.addr + pos + ChunkLen - 1) \div PageSize
    BY DEF ChunkAsserted
  <2> DEFINE a == method.addr + pos
             n == ChunkLen
  <2>1. /\ n \in 1 .. method.len - pos /\ a \in Cells
        /\ Len(SubSeq(buffer, pos + 1, pos + n)) = n
    BY ChunkFits
  <2>2. /\ method.len \in 0 .. TransferSize /\ pos \in Nat /\ PageSize \in Nat \ {0}
        /\ TransferSize \in Nat /\ FlashSize \in Nat
    BY Geometry DEF DfuInv, DfuTypeOK
  <2>3. a \in Nat BY <2>1, <2>2 DEF Cells
  <2>4. n = IF PageSize - (a % PageSize) < method.len - pos THEN PageSize - (a % PageSize)
            ELSE method.len - pos
    BY DEF ChunkLen
  <2> HIDE DEF a, n
  <2>5. a % PageSize \in 0 .. PageSize - 1 BY <2>2, <2>3
  <2>6. n \in 1 .. PageSize - (a % PageSize)
    <3> DEFINE r == a % PageSize
    <3>1. r \in 0 .. PageSize - 1 BY <2>5
    <3>2. n = IF PageSize - r < method.len - pos THEN PageSize - r ELSE method.len - pos BY <2>4
    <3> HIDE DEF r
    <3>3. n \in 1 .. PageSize - r BY <2>1, <2>2, <3>1, <3>2
    <3> QED BY <3>3 DEF r
  <2>7. a \div PageSize = (a + n - 1) \div PageSize BY <2>2, <2>3, <2>6, SamePage
  <2>8. n > 0 BY <2>1, <2>2
  <2> QED BY <2>1, <2>7, <2>8 DEF a, n
<1> QED BY <1>1, DfuInitInv, DfuStepInv, PTL DEF DfuSpec
=============================================================================
