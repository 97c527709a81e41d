--------------------------- MODULE DfuStore_proofs ---------------------------
(***************************************************************************)
(* QspiDfuMem implements the memory DfuStore promises a DFU host, for every *)
(* flash geometry and block size.  The invariant ties the one block buffer  *)
(* to the block the host sent, and the driver's call in progress to the     *)
(* place its method's loop has reached.                                     *)
(***************************************************************************)
EXTENDS DfuMem_proofs

(* The buffer holds the host's block while a program request may need it.   *)
BlockInv ==
  /\ \A i \in 1 .. Len(hostBlock) : buffer[i] = hostBlock[i]
  /\ method.op \notin {"none", "program"} => hostBlock = <<>>
  /\ method.op = "program" => method.len = Len(hostBlock)
  /\ method.op \in {"boot", "new"} => reply = NoReply
  /\ method.op = "none" => method = NoMethod

(* A program call carries the part of the block that ends where the loop    *)
(* is, to the cells that part is for.                                       *)
ChunkSent ==
  LET n == Len(call.data)
      start == pos - n
  IN  /\ call.kind = "program" /\ n \in 1 .. pos
      /\ call.addr = method.addr + start
      /\ \A i \in 0 .. n - 1 : /\ ProgramTarget(call.addr, i) = call.addr + i
                               /\ call.data[i + 1] = hostBlock[start + i + 1]

CallInv ==
  drv \in WriteSteps =>
    /\ method.op = "program"  => ChunkSent
    /\ method.op = "erase"    => call.kind = "erase" /\ call.addr = method.addr /\ pos = 1
    /\ method.op = "eraseAll" => call.kind = "erase" /\ pos > 0 /\ call.addr = (pos - 1) * SectorSize

StoreInv == DfuInv /\ BlockInv /\ CallInv

LEMMA StoreInitInv == DfuInit => StoreInv
<1> SUFFICES ASSUME DfuInit PROVE StoreInv OBVIOUS
<1>1. hostBlock = <<>> /\ reply = NoReply /\ method = Method("boot", 0, 0) /\ drv = "idle"
  BY DEF DfuInit, MemInit, QspiInit
<1>2. BlockInv BY <1>1, NoMethodType DEF BlockInv
<1>3. CallInv BY <1>1 DEF CallInv, WriteSteps
<1> QED BY <1>2, <1>3, DfuInitInv DEF StoreInv

(* A write routine runs only for a method that writes.                      *)
LEMMA WriterRuns == DfuInv /\ drv \in WriteSteps => method.op \in WriteOps
BY DEF DfuInv, DfuTypeOK, Operations, JobInv, MethodInv, ModeInv, WriteOps

LEMMA BlockHost ==
  ASSUME StoreInv, Host
  PROVE  BlockInv' /\ CallInv'
<1>i. Idle /\ UNCHANGED <<qspiVars, inMmMode>> /\ drv = "idle"
  BY DEF Host, StoreWriteBuffer, StartRead, StartProgram, StartErase, StartEraseAll,
         StartManifestation, Idle
<1>c. CallInv' BY <1>i DEF CallInv, WriteSteps, qspiVars
<1>b. BlockInv /\ method = NoMethod BY <1>i DEF StoreInv, Idle
<1> USE DEF BlockInv
<1>1. ASSUME NEW d \in Blocks \cup {[i \in 1 .. TransferSize + 1 |-> 0]}, StoreWriteBuffer(d)
      PROVE  BlockInv'
  <2>1. method' = NoMethod BY <1>1 DEF StoreWriteBuffer, Answered
  <2>2. CASE Len(d) > TransferSize
    <3>1. UNCHANGED <<buffer, hostBlock>> BY <1>1, <2>2 DEF StoreWriteBuffer
    <3> QED BY <1>b, <2>1, <3>1, NoMethodType
  <2>3. CASE ~(Len(d) > TransferSize)
    <3>1. buffer' = Overlay(buffer, d) /\ hostBlock' = d BY <1>1, <2>3 DEF StoreWriteBuffer
    <3>2. d \in Blocks
      <4>1. TransferSize \in Nat BY Geometry
      <4>2. d = [i \in 1 .. TransferSize + 1 |-> 0] => Len(d) = TransferSize + 1 BY <4>1
      <4> QED BY <2>3, <4>1, <4>2
    <3>3. Len(d) \in 0 .. TransferSize /\ TransferSize \in Nat BY <3>2, BlockFacts, Geometry
    <3>4. ASSUME NEW i \in 1 .. Len(d) PROVE buffer'[i] = d[i]
      <4>1. i \in 1 .. TransferSize /\ i <= Len(d) BY <3>3
      <4> QED BY <3>1, <4>1 DEF Overlay
    <3> QED BY <2>1, <3>1, <3>4, NoMethodType
  <2> QED BY <2>2, <2>3
<1>2. ASSUME NEW a \in Addresses, hostBlock # <<>>, StartProgram(a, Len(hostBlock))
      PROVE  BlockInv'
  <2>1. UNCHANGED <<buffer, hostBlock>> BY <1>2 DEF StartProgram
  <2>2. CASE method' = NoMethod BY <1>b, <2>1, <2>2, NoMethodType
  <2>3. CASE method' = Method("program", a, Len(hostBlock))
    <3>1. method'.op = "program" /\ method'.len = Len(hostBlock) BY <2>3 DEF Method
    <3> QED BY <1>b, <2>1, <3>1
  <2> QED BY <1>2, <2>2, <2>3 DEF StartProgram, Begin, Answered
<1>3. CASE \/ \E a \in Addresses, n \in 0 .. TransferSize + 1 : StartRead(a, n)
           \/ \E a \in Addresses : StartErase(a)
           \/ StartEraseAll \/ StartManifestation
  <2>1. hostBlock' = <<>> BY <1>3 DEF StartRead, StartErase, StartEraseAll, StartManifestation
  <2>2. \/ method' = NoMethod
        \/ method'.op \in {"read", "erase", "eraseAll", "manifest"}
    BY <1>3 DEF StartRead, StartErase, StartEraseAll, StartManifestation, Begin, Answered, Method
  <2>3. Len(hostBlock') = 0 BY <2>1
  <2> QED BY <1>c, <2>1, <2>2, <2>3, NoMethodType
<1> HIDE DEF BlockInv
<1> QED BY <1>c, <1>1, <1>2, <1>3 DEF Host

(* A frame either belongs to a write routine that goes on with its call, or *)
(* the driver is in no write routine afterwards.                            *)
LEMMA CallGoesOn ==
  ASSUME JobInv, DriverStep
  PROVE  drv' \in WriteSteps => drv \in WriteSteps /\ call' = call
BY DEF DriverStep, Abort, ExitContinuousRead, EnableReset, ResetMemory, CheckQuadEnable,
       QeWriteEnable, QeWriteStatus, QeWaitWip, SetReadParameters, Map, WriteEnable,
       WriteFrame, WaitWip, Command, WriteSteps

(* The chunk program_page is given is the part of the host's block that the *)
(* loop has just passed, and page wrap leaves its addresses alone.          *)
LEMMA ChunkIsSent ==
  ASSUME StoreInv, ProgramChunk
  PROVE  ChunkSent'
<1> DEFINE n == ChunkLen
           a == method.addr + pos
           r == a % PageSize
           d == SubSeq(buffer, pos + 1, pos + n)
<1>1. /\ Running({"program"}) /\ pos < method.len
      /\ CallProgram(a, d) /\ pos' = pos + n /\ UNCHANGED <<method, hostBlock>>
  BY DEF ProgramChunk
<1>2. n \in 1 .. method.len - pos /\ a \in Cells /\ Len(d) = n
  BY <1>1, ChunkFits DEF StoreInv
<1>3. /\ method.len \in 0 .. TransferSize /\ pos \in Nat /\ PageSize \in Nat \ {0}
      /\ method.addr \in Addresses /\ FlashSize \in Nat /\ TransferSize \in Nat
      /\ buffer \in [1 .. TransferSize -> Bit] /\ a \in Nat
  BY <1>2, Geometry DEF StoreInv, DfuInv, DfuTypeOK, Cells
<1>4. /\ method.op = "program" /\ method.len = Len(hostBlock)
      /\ \A i \in 1 .. Len(hostBlock) : buffer[i] = hostBlock[i]
  BY <1>1 DEF Running, StoreInv, BlockInv
<1>5. r \in 0 .. PageSize - 1 BY <1>3
<1>6. n = IF PageSize - r < method.len - pos THEN PageSize - r ELSE method.len - pos
  BY DEF ChunkLen
<1>7. call'.kind = "program" /\ call'.addr = a /\ call'.data = d
  BY <1>1 DEF CallProgram
<1>8. method.addr \in Int BY <1>3 DEF Addresses
<1>9. buffer \in Seq(Bit) /\ Len(buffer) = TransferSize BY <1>3
<1> HIDE DEF n, r
<1>10. n \in 1 .. PageSize - r BY <1>2, <1>3, <1>5, <1>6
<1>11. \A k \in 1 .. n : d[k] = buffer[pos + k]
  <2>1. n \in Nat /\ pos + n <= Len(buffer) BY <1>2, <1>3, <1>9
  <2> QED BY <1>3, <1>9, <2>1, Slice
<1>12. \A i \in 0 .. n - 1 : ProgramTarget(a, i) = a + i
  BY <1>3, <1>10, SamePage DEF ProgramTarget, r
<1> HIDE DEF a, d
<1>13. ASSUME NEW i \in 0 .. n - 1 PROVE d[i + 1] = hostBlock[pos + i + 1]
  <2>1. i + 1 \in 1 .. n /\ pos + i + 1 \in 1 .. Len(hostBlock) /\ pos + (i + 1) = pos + i + 1
    BY <1>2, <1>3, <1>4
  <2> QED BY <1>4, <1>11, <2>1
<1>14. n \in 1 .. pos' /\ pos' - n = pos BY <1>1, <1>2, <1>3
<1>15. a = method.addr + pos BY DEF a
<1> QED BY <1>1, <1>2, <1>7, <1>12, <1>13, <1>14, <1>15 DEF ChunkSent

LEMMA StoreStepInv ==
  ASSUME StoreInv, [DfuNext]_dfuVars
  PROVE  StoreInv'
<1>d. DfuInv' BY DfuStepInv DEF StoreInv
<1>v. DfuInv /\ BlockInv /\ CallInv BY DEF StoreInv
<1>1. CASE Host BY <1>1, <1>d, BlockHost DEF StoreInv
<1>2. CASE EnsureMm \/ EnsureIndirect \/ BootMap \/ NewRecover
  <2>1. drv' \notin WriteSteps /\ UNCHANGED <<buffer, method, reply, hostBlock>>
    BY <1>2 DEF EnsureMm, EnsureIndirect, BootMap, NewRecover, CallEnter, CallRecover, StartJob,
                KeepMem, memVars, WriteSteps
  <2> QED BY <1>d, <1>v, <2>1 DEF StoreInv, BlockInv, CallInv
<1>3. CASE ReadWindow \/ FinishMethod
  <2>1. drv' = "idle" /\ method' = NoMethod /\ hostBlock' = hostBlock
    BY <1>3 DEF ReadWindow, FinishMethod, Running, Answered, qspiVars
  <2>2. CallInv' BY <2>1 DEF CallInv, WriteSteps
  <2>3. CASE FinishMethod
    <3>1. buffer' = buffer BY <2>3 DEF FinishMethod
    <3> QED BY <1>d, <1>v, <2>1, <2>2, <3>1, NoMethodType DEF StoreInv, BlockInv
  <2>4. CASE ReadWindow
    <3>1. method.op = "read" BY <2>4 DEF ReadWindow, Running
    <3>2. hostBlock = <<>> BY <1>v, <3>1 DEF BlockInv
    <3>3. Len(hostBlock') = 0 BY <2>1, <3>2
    <3> QED BY <1>d, <2>1, <2>2, <3>3, NoMethodType DEF StoreInv, BlockInv
  <2> QED BY <1>3, <2>3, <2>4
<1>4. CASE ProgramChunk
  <2>1. /\ method.op = "program" /\ UNCHANGED <<buffer, method, reply, hostBlock>>
    BY <1>4 DEF ProgramChunk, Running
  <2>2. ChunkSent' BY <1>4, ChunkIsSent
  <2> QED BY <1>d, <1>v, <2>1, <2>2 DEF StoreInv, BlockInv, CallInv
<1>5. CASE EraseSector \/ EraseNextSector
  <2>1. UNCHANGED <<buffer, method, reply, hostBlock>>
    BY <1>5 DEF EraseSector, EraseNextSector
  <2>2. BlockInv' BY <1>v, <2>1 DEF BlockInv
  <2>3. CASE EraseSector
    <3>1. method.op = "erase" /\ call'.kind = "erase" /\ call'.addr = method.addr /\ pos' = 1
      BY <2>3 DEF EraseSector, Running, CallErase
    <3> QED BY <1>d, <2>1, <2>2, <3>1 DEF StoreInv, CallInv
  <2>4. CASE EraseNextSector
    <3>1. method.op = "eraseAll" /\ call'.kind = "erase" /\ call'.addr = pos * SectorSize
          /\ pos' = pos + 1
      BY <2>4 DEF EraseNextSector, Running, CallErase
    <3>2. pos \in Nat BY <1>v DEF DfuInv, DfuTypeOK
    <3>3. pos' > 0 /\ pos' - 1 = pos BY <3>1, <3>2
    <3> QED BY <1>d, <2>1, <2>2, <3>1, <3>3 DEF StoreInv, CallInv
  <2> QED BY <1>5, <2>3, <2>4
<1>6. CASE MemDriverStep
  <2>1. DriverStep /\ UNCHANGED <<buffer, method, pos, reply, hostBlock>>
    BY <1>6 DEF MemDriverStep, memVars
  <2>2. drv' \in WriteSteps => drv \in WriteSteps /\ call' = call
    BY <1>v, <2>1, CallGoesOn DEF DfuInv
  <2>3. CallInv' BY <1>v, <2>1, <2>2 DEF CallInv, ChunkSent
  <2> QED BY <1>d, <1>v, <2>1, <2>3 DEF StoreInv, BlockInv
<1>7. CASE BootReadVectors
  <2>1. /\ drv' = "idle" /\ method.op = "boot" /\ method' = Method("new", 0, 0)
        /\ UNCHANGED <<buffer, reply, hostBlock>>
    BY <1>7 DEF BootReadVectors, Running
  <2>2. method'.op = "new" BY <2>1 DEF Method
  <2> QED BY <1>d, <1>v, <2>1, <2>2 DEF StoreInv, BlockInv, CallInv, WriteSteps
<1>8. CASE NewDone \/ MemReset \/ MemPowerCycle
  <2>1. drv' = "idle"
    BY <1>8 DEF NewDone, Running, MemReset, MemPowerCycle, Reset, PowerCycle, Restart, qspiVars
  <2>2. /\ reply' = NoReply /\ hostBlock' = <<>>
        /\ method' = NoMethod \/ method' = Method("boot", 0, 0)
    BY <1>8 DEF NewDone, MemReset, MemPowerCycle, MemRestart, NoMethod
  <2>3. method' = NoMethod \/ method'.op = "boot" BY <2>2 DEF Method
  <2>4. Len(hostBlock') = 0 BY <2>2
  <2> QED BY <1>d, <2>1, <2>2, <2>3, <2>4, NoMethodType DEF StoreInv, BlockInv, CallInv, WriteSteps
<1>9. CASE UNCHANGED dfuVars
  <2>1. UNCHANGED <<drv, call, buffer, method, pos, reply, hostBlock>>
    BY <1>9 DEF dfuVars, qspiVars, memVars
  <2> QED BY <1>d, <1>v, <2>1 DEF StoreInv, BlockInv, CallInv, ChunkSent
<1> QED BY <1>1, <1>2, <1>3, <1>4, <1>5, <1>6, <1>7, <1>8, <1>9 DEF DfuNext, Serve

-----------------------------------------------------------------------------
(* The step mapping.  The store speaks of the same cells and requests.      *)
Req == IF method.op \in {"boot", "new"} THEN NoMethod ELSE method

LEMMA SameStore ==
  /\ Dfu!Cells = Cells /\ Dfu!Bit = Bit /\ Dfu!FlashSize = FlashSize
  /\ \A a : Dfu!SectorOf(a) = SectorOf(a)
  /\ Dfu!Blocks = Blocks /\ Dfu!Addresses = Addresses
  /\ \A o, a, n : Dfu!Request(o, a, n) = Method(o, a, n)
  /\ Dfu!NoRequest = NoMethod
  /\ \A t, d : Dfu!Answer(t, d) = Reply(t, d)
<1>1. Dfu!Cells = Cells /\ Dfu!Bit = Bit /\ Dfu!FlashSize = FlashSize
      /\ Dfu!SectorSize = SectorSize
  BY DEF Dfu!Cells, Cells, Dfu!FlashSize, FlashSize, Dfu!SectorSize, SectorSize, Dfu!Bit, Bit
<1>2. \A a : Dfu!SectorOf(a) = SectorOf(a) BY <1>1 DEF Dfu!SectorOf, SectorOf
<1>3. Dfu!Blocks = Blocks /\ Dfu!Addresses = Addresses
  BY <1>1 DEF Dfu!Blocks, Blocks, Dfu!Addresses, Addresses
<1>4. \A o, a, n : Dfu!Request(o, a, n) = Method(o, a, n) BY DEF Dfu!Request, Method
<1>5. Dfu!NoRequest = NoMethod BY <1>4 DEF Dfu!NoRequest, NoMethod
<1>6. \A t, d : Dfu!Answer(t, d) = Reply(t, d) BY DEF Dfu!Answer, Reply
<1> QED BY <1>1, <1>2, <1>3, <1>4, <1>5, <1>6

(* Sectors by number: the one that starts at k * SectorSize is sector k, and *)
(* the last one is NSectors - 1.                                            *)
LEMMA SectorNumbers ==
  /\ \A k \in Nat : (k * SectorSize) \div SectorSize = k
  /\ \A x \in Cells : x \div SectorSize \in 0 .. NSectors - 1
<1>1. SectorSize \in Nat \ {0} /\ NSectors \in Nat \ {0} BY Geometry
<1>2. \A p \in Nat \ {0} : \A x \in Nat, y \in Nat, z \in 0 .. p - 1 :
        x = p * y + z => x \div p = y
  OBVIOUS
<1>3. ASSUME NEW p \in Nat \ {0}, NEW k \in Nat PROVE (k * p) \div p = k
  <2>1. k * p \in Nat /\ k * p = p * k + 0 /\ 0 \in 0 .. p - 1 OBVIOUS
  <2> QED BY <1>2, <2>1
<1>4. ASSUME NEW p \in Nat \ {0}, NEW n \in Nat \ {0}, NEW x \in 0 .. n * p - 1
      PROVE  x \div p \in 0 .. n - 1
  <2> DEFINE q == x \div p
             r == x % p
  <2>1. q \in Nat /\ r \in 0 .. p - 1 /\ x = p * q + r OBVIOUS
  <2> HIDE DEF q, r
  <2>2. ASSUME q >= n PROVE FALSE
    <3>1. PICK e \in Nat : q = n + e
      <4>1. q - n \in Nat /\ q = n + (q - n) BY <2>1, <2>2
      <4> QED BY <4>1
    <3>2. p * q = n * p + p * e /\ p * e \in Nat /\ n * p \in Nat BY <3>1
    <3> QED BY <2>1, <3>2
  <2>3. q \in 0 .. n - 1 BY <2>1, <2>2
  <2> QED BY <2>3 DEF q
<1> QED BY <1>1, <1>3, <1>4 DEF Cells, FlashSize

(* The cells the pending call addresses: the chunk just passed, or a sector. *)
CallCells ==
  drv \in WriteSteps =>
    /\ method.op = "program" =>
         Touched(call) = {x \in Cells : call.addr <= x /\ x < method.addr + pos}
    /\ method.op \in {"erase", "eraseAll"} => Touched(call) = SectorOf(call.addr)
    /\ Touched(call) \subseteq Cells
    /\ method.op \in WriteOps

LEMMA TouchedCells == StoreInv => CallCells
<1> SUFFICES ASSUME StoreInv, drv \in WriteSteps PROVE CallCells BY DEF CallCells
<1> USE DEF CallCells
<1>1. method.op \in WriteOps BY WriterRuns DEF StoreInv
<1>2. CASE method.op = "program"
  <2> DEFINE n == Len(call.data)
             a == call.addr
  <2>1. /\ call.kind = "program" /\ n \in 1 .. pos /\ a = method.addr + (pos - n)
        /\ \A i \in 0 .. n - 1 : ProgramTarget(a, i) = a + i
    BY <1>2 DEF StoreInv, CallInv, ChunkSent
  <2>2. /\ method.addr \in 0 .. FlashSize /\ method.len <= FlashSize - method.addr
        /\ pos \in Nat /\ pos <= method.len /\ method.len \in 0 .. TransferSize
        /\ FlashSize \in Nat /\ TransferSize \in Nat
    BY <1>2, Geometry DEF StoreInv, DfuInv, DfuTypeOK, MethodInv, ContainsRange
  <2>3. Touched(call) = {ProgramTarget(a, i) : i \in 0 .. n - 1} BY <2>1 DEF Touched
  <2>4. Touched(call) = {a + i : i \in 0 .. n - 1} BY <2>1, <2>3
  <2> HIDE DEF n, a
  <2>5. ASSUME NEW x PROVE x \in Touched(call) <=> x \in Cells /\ a <= x /\ x < method.addr + pos
    <3>1. ASSUME NEW i \in 0 .. n - 1
          PROVE  a + i \in Cells /\ a <= a + i /\ a + i < method.addr + pos
      BY <2>1, <2>2 DEF Cells
    <3>2. ASSUME x \in Cells, a <= x, x < method.addr + pos
          PROVE  x - a \in 0 .. n - 1 /\ x = a + (x - a)
      BY <2>1, <2>2, <3>2 DEF Cells
    <3>3. x \in Touched(call) <=> \E i \in 0 .. n - 1 : x = a + i BY <2>4
    <3> QED BY <3>1, <3>2, <3>3
  <2> QED BY <1>1, <1>2, <2>5 DEF a
<1>3. CASE method.op \in {"erase", "eraseAll"}
  <2>1. call.kind = "erase" BY <1>3 DEF StoreInv, CallInv
  <2>2. Touched(call) = SectorOf(call.addr) BY <2>1 DEF Touched
  <2> QED BY <1>1, <1>3, <2>2 DEF SectorOf
<1> QED BY <1>1, <1>2, <1>3 DEF WriteOps

(* Nothing is left to do, and no request is open, between methods.          *)
LEMMA BetweenMethods ==
  /\ method = NoMethod => Left = {} /\ Req = NoMethod
  /\ method' = NoMethod => Left' = {} /\ Req' = NoMethod
  /\ method.op \in {"boot", "new"} => Left = {} /\ Req = NoMethod
  /\ method'.op \in {"boot", "new"} => Left' = {} /\ Req' = NoMethod
BY NoMethodType DEF Left, Req

LEMMA HostMaps ==
  ASSUME StoreInv, Host
  PROVE  Dfu!DfuStoreNext
<1>i. method = NoMethod /\ drv = "idle" /\ UNCHANGED <<cells, drv>>
  BY DEF Host, StoreWriteBuffer, StartRead, StartProgram, StartErase, StartEraseAll,
         StartManifestation, Idle, qspiVars
<1>o. Req = NoMethod /\ Left = {} BY <1>i, BetweenMethods
<1>g. /\ TransferSize \in Nat \ {0} /\ FlashSize \in Nat \ {0} /\ hostBlock \in Blocks
      /\ cells' = cells /\ drv' = "idle"
  BY <1>i, Geometry DEF StoreInv, DfuInv, DfuTypeOK
(* A refusal leaves everything but the answer, and at most forgets the block. *)
<1>r. ASSUME NEW t \in {"Address", "Prog", "Size"}, reply' = Reply(t, <<>>), method' = NoMethod,
             hostBlock' \in {hostBlock, <<>>}
      PROVE  Dfu!DfuStoreNext
  <2>1. Dfu!Refuse BY <1>o, <1>g, <1>r, BetweenMethods, SameStore DEF Dfu!Refuse, Req
  <2> QED BY <2>1 DEF Dfu!DfuStoreNext
(* An accepted request has all its cells still to settle.                   *)
<1>a. ASSUME NEW o \in {"read", "program", "erase", "eraseAll", "manifest"},
             NEW a \in Addresses, NEW n \in 0 .. TransferSize,
             method' = Method(o, a, n), pos' = 0, reply' = NoReply,
             o \in {"read", "program"} => ContainsRange(a, n),
             o = "erase" => a \in Cells,
             hostBlock' = IF o = "program" THEN hostBlock ELSE <<>>
      PROVE  Dfu!DfuStoreNext
  <2> DEFINE m == Method(o, a, n)
  <2>1. m.op = o /\ m.addr = a /\ m.len = n BY DEF Method
  <2>2. Req' = m /\ m.op # "none" BY <1>a, <2>1 DEF Req
  <2>3. Left' = Dfu!Target(m)
    <3>1. InFlight' = {} BY <1>g DEF InFlight
    <3>2. CASE o = "program"
      <4>1. a \in Int BY DEF Addresses
      <4>2. method'.addr + pos' = a /\ method'.addr + method'.len = a + n
        BY <1>a, <2>1, <4>1
      <4>3. Left' = {x \in Cells : a <= x /\ x < a + n}
        BY <1>a, <2>1, <3>1, <3>2, <4>2 DEF Left
      <4> QED BY <2>1, <3>2, <4>3, SameStore DEF Dfu!Target, Dfu!Range
    <3>3. CASE o = "erase"
      BY <1>a, <2>1, <3>3, SameStore DEF Left, Dfu!Target
    <3>4. CASE o = "eraseAll"
      <4>1. \A x \in Cells : x \div SectorSize >= 0 BY SectorNumbers, Geometry
      <4>2. Left' = Cells BY <1>a, <2>1, <3>1, <3>4, <4>1 DEF Left
      <4> QED BY <2>1, <3>4, <4>2, SameStore DEF Dfu!Target
    <3>5. CASE o \in {"read", "manifest"}
      BY <1>a, <2>1, <3>5 DEF Left, Dfu!Target
    <3> QED BY <3>2, <3>3, <3>4, <3>5
  <2>4. o \in {"read", "program"} => Dfu!ContainsRange(a, n)
    BY <1>a, <1>g, SameStore DEF ContainsRange, Dfu!ContainsRange, Addresses
  <2>5. Req = Dfu!NoRequest /\ reply' = Dfu!Answer("none", <<>>)
    BY <1>a, <1>o, SameStore DEF NoReply
  <2>6. Dfu!Accept(m)
    BY <1>a, <1>g, <2>1, <2>2, <2>3, <2>4, <2>5, SameStore DEF Dfu!Accept, Req
  <2> QED BY <2>6, SameStore DEF Dfu!DfuStoreNext
<1>1. ASSUME NEW d \in Blocks \cup {[i \in 1 .. TransferSize + 1 |-> 0]}, StoreWriteBuffer(d)
      PROVE  Dfu!DfuStoreNext
  <2>1. method' = NoMethod BY <1>1 DEF StoreWriteBuffer, Answered
  <2>2. CASE Len(d) > TransferSize
    <3>1. reply' = Reply("Size", <<>>) /\ hostBlock' = hostBlock
      BY <1>1, <2>2 DEF StoreWriteBuffer, Answered
    <3> QED BY <1>r, <2>1, <3>1
  <2>3. CASE ~(Len(d) > TransferSize)
    <3>1. reply' = Reply("ok", <<>>) /\ hostBlock' = d
      BY <1>1, <2>3 DEF StoreWriteBuffer, Answered
    <3>2. Len([i \in 1 .. TransferSize + 1 |-> 0]) = TransferSize + 1 BY <1>g
    <3>3. d \in Blocks BY <1>g, <2>3, <3>2
    <3>4. Dfu!Send(d) BY <1>o, <1>g, <2>1, <3>1, BetweenMethods, SameStore DEF Dfu!Send, Req
    <3> QED BY <3>3, <3>4, SameStore DEF Dfu!DfuStoreNext
  <2> QED BY <2>2, <2>3
<1>2. ASSUME NEW a \in Addresses, NEW n \in 0 .. TransferSize + 1, StartRead(a, n)
      PROVE  Dfu!DfuStoreNext
  <2> DEFINE k == IF n < TransferSize THEN n ELSE TransferSize
  <2>1. hostBlock' = <<>> BY <1>2 DEF StartRead
  <2>2. CASE ContainsRange(a, n)
    <3>1. method' = Method("read", a, k) /\ pos' = 0 /\ reply' = NoReply
      BY <1>2, <2>2 DEF StartRead, Begin
    <3>2. k \in 0 .. TransferSize /\ k <= n BY <1>g
    <3>3. ContainsRange(a, k) BY <1>g, <2>2, <3>2 DEF ContainsRange
    <3> HIDE DEF k
    <3> QED BY <1>a, <2>1, <3>1, <3>2, <3>3
  <2>3. CASE ~ContainsRange(a, n)
    BY <1>2, <1>r, <2>1, <2>3 DEF StartRead, Answered
  <2> QED BY <2>2, <2>3
<1>3. ASSUME NEW a \in Addresses, StartProgram(a, Len(hostBlock))
      PROVE  Dfu!DfuStoreNext
  <2> DEFINE n == Len(hostBlock)
  <2>1. hostBlock' = hostBlock /\ n \in 0 .. TransferSize
    BY <1>3, <1>g, BlockFacts DEF StartProgram
  <2>2. CASE ContainsRange(a, n) /\ ~(n > bufferLen)
    <3>1. method' = Method("program", a, n) /\ pos' = 0 /\ reply' = NoReply
      BY <1>3, <2>2 DEF StartProgram, Begin
    <3> HIDE DEF n
    <3> QED BY <1>a, <2>1, <2>2, <3>1
  <2>3. CASE ~(ContainsRange(a, n) /\ ~(n > bufferLen))
    <3>1. method' = NoMethod /\ \E t \in {"Address", "Prog"} : reply' = Reply(t, <<>>)
      BY <1>3, <2>3 DEF StartProgram, Answered
    <3> QED BY <1>r, <2>1, <3>1
  <2> QED BY <2>2, <2>3
<1>4. ASSUME NEW a \in Addresses, StartErase(a)
      PROVE  Dfu!DfuStoreNext
  <2>1. hostBlock' = <<>> /\ 0 \in 0 .. TransferSize BY <1>4, <1>g DEF StartErase
  <2>2. CASE Contains(a)
    <3>1. method' = Method("erase", a, 0) /\ pos' = 0 /\ reply' = NoReply /\ a \in Cells
      BY <1>4, <2>2 DEF StartErase, Begin, Contains
    <3> QED BY <1>a, <2>1, <3>1
  <2>3. CASE ~Contains(a)
    BY <1>4, <1>r, <2>1, <2>3 DEF StartErase, Answered
  <2> QED BY <2>2, <2>3
<1>5. CASE StartEraseAll
  BY <1>5, <1>a, NoMethodType DEF StartEraseAll, Begin
<1>6. CASE StartManifestation
  BY <1>6, <1>a, NoMethodType DEF StartManifestation, Begin
<1> QED BY <1>1, <1>2, <1>3, <1>4, <1>5, <1>6 DEF Host

(* The steps of a method that the store does not see: mode changes, the     *)
(* start of a driver call, every frame but the one that writes.             *)
DfuStutter == UNCHANGED <<cells, hostBlock, Req, Left, reply>>

LEMMA CallStutters ==
  ASSUME StoreInv, ProgramChunk \/ EraseSector \/ EraseNextSector
  PROVE  DfuStutter
<1>n. (StoreInv => CallCells)' BY TouchedCells, PTL
<1>t. CallCells'
  <2>1. StoreInv' BY StoreStepInv DEF DfuNext, Serve
  <2> QED BY <1>n, <2>1
<1>g. /\ method.addr \in Int /\ method.len \in Nat /\ pos \in Nat
      /\ Cells \subseteq Int
  BY Geometry DEF StoreInv, DfuInv, DfuTypeOK, Addresses, Cells
<1>1. CASE ProgramChunk
  <2> DEFINE n == ChunkLen
  <2>1. /\ Running({"program"}) /\ pos < method.len /\ drv = "idle" /\ method.op = "program"
        /\ pos' = pos + n /\ drv' = "wren" /\ call'.addr = method.addr + pos
        /\ UNCHANGED <<cells, method, hostBlock, reply>>
    BY <1>1 DEF ProgramChunk, Running, CallProgram, StartJob
  <2>2. n \in 1 .. method.len - pos BY <2>1, ChunkFits DEF StoreInv
  <2> HIDE DEF n
  <2>3. InFlight' = {x \in Cells : method.addr + pos <= x /\ x < method.addr + pos'}
    BY <1>t, <2>1 DEF CallCells, InFlight, WriteSteps
  <2>4. Left = {x \in Cells : method.addr + pos <= x /\ x < method.addr + method.len}
    BY <2>1 DEF Left, InFlight
  <2>5. Left' = {x \in Cells : method.addr + pos' <= x /\ x < method.addr + method.len} \cup InFlight'
    BY <2>1 DEF Left
  <2>6. \A x \in Cells : method.addr + pos <= x /\ x < method.addr + method.len <=>
          \/ method.addr + pos' <= x /\ x < method.addr + method.len
          \/ method.addr + pos <= x /\ x < method.addr + pos'
    BY <1>g, <2>1, <2>2
  <2>7. Left' = Left BY <2>3, <2>4, <2>5, <2>6
  <2> QED BY <2>1, <2>7 DEF DfuStutter, Req
<1>2. CASE EraseSector
  <2>1. /\ drv' = "wren" /\ method.op = "erase" /\ pos = 0 /\ pos' = 1
        /\ call'.addr = method.addr /\ UNCHANGED <<cells, method, hostBlock, reply>>
    BY <1>2 DEF EraseSector, Running, CallErase, StartJob
  <2>2. InFlight' = SectorOf(method.addr) BY <1>t, <2>1 DEF CallCells, InFlight, WriteSteps
  <2>3. Left' = Left BY <2>1, <2>2 DEF Left
  <2> QED BY <2>1, <2>3 DEF DfuStutter, Req
<1>3. CASE EraseNextSector
  <2>1. /\ drv = "idle" /\ drv' = "wren" /\ method.op = "eraseAll" /\ pos' = pos + 1
        /\ call'.addr = pos * SectorSize /\ UNCHANGED <<cells, method, hostBlock, reply>>
    BY <1>3 DEF EraseNextSector, Running, CallErase, StartJob
  <2>2. InFlight' = SectorOf(pos * SectorSize)
    BY <1>t, <2>1 DEF CallCells, InFlight, WriteSteps
  <2>3. InFlight' = {x \in Cells : x \div SectorSize = pos}
    BY <1>g, <2>2, SectorNumbers DEF SectorOf
  <2>4. \A x \in Cells : x \div SectorSize >= pos <=>
          x \div SectorSize >= pos' \/ x \div SectorSize = pos
    BY <1>g, <2>1, SectorNumbers
  <2>5. Left = {x \in Cells : x \div SectorSize >= pos}
    BY <2>1 DEF Left, InFlight
  <2>6. Left' = {x \in Cells : x \div SectorSize >= pos'} \cup InFlight'
    BY <2>1 DEF Left
  <2>7. Left' = Left BY <2>3, <2>4, <2>5, <2>6
  <2> QED BY <2>1, <2>7 DEF DfuStutter, Req
<1> QED BY <1>1, <1>2, <1>3

(* The write frame settles exactly the cells of the call in flight, to the  *)
(* values the request names.                                                *)
LEMMA FrameProgresses ==
  ASSUME StoreInv, WriteFrame, UNCHANGED memVars
  PROVE  Dfu!Progress
<1>i. DfuInv /\ BlockInv /\ CallInv BY DEF StoreInv
<1>1. /\ drv = "write" /\ drv' = "wip" /\ call' = call
      /\ UNCHANGED <<method, pos, hostBlock, reply>>
  BY DEF WriteFrame, memVars
<1>2. cells' = CallEffect(call)
  <2>1. AcceptsWrite(chip) /\ CcrAccepted
    BY <1>i, <1>1 DEF DfuInv, DriverInv, OutOfContinuousRead, FrameEffects, Recovered,
                      NeverDropped, AcceptsWrite
  <2> QED BY <2>1 DEF WriteFrame
<1>3. CallCells BY TouchedCells
<1>4. method.op \in WriteOps /\ Req = method BY <1>1, <1>3 DEF CallCells, WriteSteps, WriteOps, Req
<1>g. /\ method.addr \in Int /\ method.len \in Nat /\ pos \in Nat /\ Cells \subseteq Int
  BY <1>i, Geometry DEF DfuInv, DfuTypeOK, Addresses, Cells
<1>5. Left' \subseteq Left /\ Left \ Left' = Touched(call)
  <2>1. InFlight' = {} /\ InFlight = Touched(call) BY <1>1 DEF InFlight
  <2>2. CASE method.op = "program"
    <3>1. Touched(call) = {x \in Cells : call.addr <= x /\ x < method.addr + pos}
      BY <1>1, <1>3, <2>2 DEF CallCells, WriteSteps
    <3>2. /\ Left' = {x \in Cells : method.addr + pos <= x /\ x < method.addr + method.len}
          /\ Left = {x \in Cells : method.addr + pos <= x /\ x < method.addr + method.len}
                       \cup Touched(call)
      BY <1>1, <2>1, <2>2 DEF Left
    <3>3. \A x \in Cells : ~(method.addr + pos <= x /\ x < method.addr + pos) BY <1>g
    <3> QED BY <3>1, <3>2, <3>3
  <2>3. CASE method.op = "erase"
    <3>1. pos = 1 BY <1>i, <1>1, <2>3 DEF CallInv, WriteSteps
    <3> QED BY <1>1, <2>1, <2>3, <3>1 DEF Left
  <2>4. CASE method.op = "eraseAll"
    <3>1. pos > 0 /\ call.addr = (pos - 1) * SectorSize /\ Touched(call) = SectorOf(call.addr)
      BY <1>i, <1>1, <1>3, <2>4 DEF CallInv, CallCells, WriteSteps
    <3>2. pos - 1 \in Nat BY <1>g, <3>1
    <3>3. Touched(call) = {x \in Cells : x \div SectorSize = pos - 1}
      BY <3>1, <3>2, SectorNumbers DEF SectorOf
    <3>4. /\ Left' = {x \in Cells : x \div SectorSize >= pos}
          /\ Left = {x \in Cells : x \div SectorSize >= pos} \cup Touched(call)
      BY <1>1, <2>1, <2>4 DEF Left
    <3>5. \A x \in Cells : x \div SectorSize = pos - 1 => ~(x \div SectorSize >= pos)
      BY <1>g, SectorNumbers
    <3> QED BY <3>3, <3>4, <3>5
  <2> QED BY <1>4, <2>2, <2>3, <2>4 DEF WriteOps
<1>6. cells' = [x \in Cells |-> IF x \in Touched(call) THEN Dfu!Final(method, hostBlock, x, cells[x])
                                                      ELSE cells[x]]
  <2>1. CASE method.op = "program"
    <3> DEFINE n == Len(call.data)
               b == pos - n
    <3>1. /\ call.kind = "program" /\ n \in 1 .. pos /\ call.addr = method.addr + b
          /\ \A i \in 0 .. n - 1 : /\ ProgramTarget(call.addr, i) = call.addr + i
                                   /\ call.data[i + 1] = hostBlock[b + i + 1]
      BY <1>i, <1>1, <2>1 DEF CallInv, ChunkSent, WriteSteps
    <3>2. Touched(call) = {x \in Cells : call.addr <= x /\ x < method.addr + pos}
      BY <1>1, <1>3, <2>1 DEF CallCells, WriteSteps
    <3>3. cells' = [x \in Cells |->
                     IF \E i \in 0 .. n - 1 : ProgramTarget(call.addr, i) = x /\ call.data[i + 1] = 0
                       THEN 0 ELSE cells[x]]
      BY <1>2, <3>1 DEF CallEffect, Programmed
    <3> HIDE DEF n
    <3>4. ASSUME NEW x \in Cells
          PROVE  (\E i \in 0 .. n - 1 : ProgramTarget(call.addr, i) = x /\ call.data[i + 1] = 0)
                   <=> x \in Touched(call) /\ hostBlock[x - method.addr + 1] = 0
      <4>1. x \in Int /\ b \in Nat BY <1>g, <3>1
      <4>2. ASSUME NEW i \in 0 .. n - 1, ProgramTarget(call.addr, i) = x, call.data[i + 1] = 0
            PROVE  x \in Touched(call) /\ hostBlock[x - method.addr + 1] = 0
        <5>1. x = method.addr + b + i /\ hostBlock[b + i + 1] = 0 BY <3>1, <4>2
        <5>2. x - method.addr + 1 = b + i + 1 /\ call.addr <= x /\ x < method.addr + pos
          BY <1>g, <3>1, <4>1, <5>1
        <5> QED BY <3>2, <5>1, <5>2
      <4>3. ASSUME x \in Touched(call), hostBlock[x - method.addr + 1] = 0
            PROVE  \E i \in 0 .. n - 1 : ProgramTarget(call.addr, i) = x /\ call.data[i + 1] = 0
        <5> DEFINE i == x - call.addr
        <5>1. /\ i \in 0 .. n - 1 /\ call.addr + i = x /\ b + i + 1 = x - method.addr + 1
          BY <1>g, <3>1, <3>2, <4>1, <4>3
        <5>2. ProgramTarget(call.addr, i) = x /\ call.data[i + 1] = 0 BY <3>1, <4>3, <5>1
        <5> QED BY <5>1, <5>2
      <4> QED BY <4>2, <4>3
    <3>5. \A x : Dfu!Final(method, hostBlock, x, cells[x])
                   = IF hostBlock[x - method.addr + 1] = 0 THEN 0 ELSE cells[x]
      BY <2>1 DEF Dfu!Final
    <3>6. \A x \in Cells :
            (IF \E i \in 0 .. n - 1 : ProgramTarget(call.addr, i) = x /\ call.data[i + 1] = 0
               THEN 0 ELSE cells[x])
            = IF x \in Touched(call) THEN Dfu!Final(method, hostBlock, x, cells[x]) ELSE cells[x]
      BY <3>4, <3>5
    <3> QED BY <3>3, <3>6
  <2>2. CASE method.op \in {"erase", "eraseAll"}
    <3>1. call.kind = "erase" BY <1>i, <1>1, <2>2 DEF CallInv, WriteSteps
    <3>2. cells' = [x \in Cells |-> IF x \in SectorOf(call.addr) THEN 1 ELSE cells[x]]
      BY <1>2, <3>1 DEF CallEffect, Erased
    <3>3. Touched(call) = SectorOf(call.addr) BY <1>1, <1>3, <2>2 DEF CallCells, WriteSteps
    <3>4. \A x : Dfu!Final(method, hostBlock, x, cells[x]) = 1 BY <2>2 DEF Dfu!Final
    <3> QED BY <3>2, <3>3, <3>4
  <2> QED BY <1>4, <2>1, <2>2 DEF WriteOps
<1>7. Req' = Req BY <1>1 DEF Req
<1> QED BY <1>1, <1>4, <1>5, <1>6, <1>7, SameStore DEF Dfu!Progress, Req

(* Every other frame leaves the array and the calls in flight as they were. *)
LEMMA FrameStutters ==
  ASSUME StoreInv, DriverStep, ~WriteFrame, UNCHANGED memVars
  PROVE  DfuStutter
<1>1. cells' = cells /\ InFlight' = InFlight
  BY DEF DriverStep, Abort, ExitContinuousRead, EnableReset, ResetMemory, CheckQuadEnable,
         QeWriteEnable, QeWriteStatus, QeWaitWip, SetReadParameters, Map, WriteEnable, WaitWip,
         Command, InFlight
<1>2. UNCHANGED <<method, pos, hostBlock, reply>> BY DEF memVars
<1>3. Left' = Left BY <1>1, <1>2 DEF Left
<1>4. Req' = Req BY <1>2 DEF Req
<1> QED BY <1>1, <1>2, <1>3, <1>4 DEF DfuStutter

(* A method that returns has nothing left to settle, and an upload returns  *)
(* what the window shows, which is what the flash holds.                    *)
LEMMA ReturnFinishes ==
  ASSUME StoreInv, FinishMethod \/ ReadWindow
  PROVE  Dfu!Finish
<1>g. /\ method.addr \in Int /\ method.len \in Nat /\ pos \in Nat /\ Cells \subseteq Int
      /\ NSectors \in Nat
  BY Geometry DEF StoreInv, DfuInv, DfuTypeOK, Addresses, Cells
<1>1. CASE FinishMethod
  <2>1. /\ drv = "idle" /\ LoopDone /\ method' = NoMethod /\ reply' = Reply("ok", <<>>)
        /\ UNCHANGED <<cells, hostBlock>>
    BY <1>1 DEF FinishMethod, Answered, qspiVars
  <2>2. method.op \in {"program", "erase", "eraseAll", "manifest"} BY <2>1 DEF LoopDone
  <2>3. Req = method /\ Req # NoMethod BY <2>2, NoMethodType DEF Req
  <2>4. InFlight = {} BY <2>1 DEF InFlight
  <2>5. Left = {}
    <3>1. CASE method.op = "program"
      <4>1. pos = method.len BY <2>1, <3>1 DEF LoopDone
      <4>2. \A x \in Cells : ~(method.addr + pos <= x /\ x < method.addr + method.len)
        BY <1>g, <4>1
      <4> QED BY <2>4, <3>1, <4>2 DEF Left
    <3>2. CASE method.op = "erase" BY <2>1, <2>4, <3>2 DEF Left, LoopDone
    <3>3. CASE method.op = "eraseAll"
      <4>1. pos = NSectors BY <2>1, <3>3 DEF LoopDone
      <4>2. \A x \in Cells : ~(x \div SectorSize >= pos) BY <1>g, <4>1, SectorNumbers
      <4> QED BY <2>4, <3>3, <4>2 DEF Left
    <3>4. CASE method.op = "manifest" BY <3>4 DEF Left
    <3> QED BY <2>2, <3>1, <3>2, <3>3, <3>4
  <2>6. Left' = {} /\ Req' = NoMethod BY <2>1, BetweenMethods
  <2>7. Req.op # "read" BY <2>2, <2>3
  <2> QED BY <2>1, <2>3, <2>5, <2>6, <2>7, SameStore DEF Dfu!Finish, Req
<1>2. CASE ReadWindow
  <2>1. /\ drv = "idle" /\ method.op = "read" /\ inMmMode /\ method' = NoMethod
        /\ UNCHANGED <<cells, hostBlock>>
    BY <1>2 DEF ReadWindow, Running, Answered
  <2>2. FetchFaithful
    <3>1. ctrl.mode = "mapped" BY <2>1 DEF StoreInv, DfuInv, ModeInv
    <3> QED BY <2>1, <3>1, MappedIsFaithful DEF StoreInv, DfuInv, DfuTypeOK, XipFramed
  <2>3. reply' = Reply("ok", [i \in 1 .. method.len |-> cells[method.addr + i - 1]])
    BY <1>2, <2>2 DEF ReadWindow, WindowData, Answered
  <2>4. Req = method /\ Req # NoMethod /\ Left = {}
    BY <2>1, NoMethodType DEF Req, Left
  <2>5. Left' = {} /\ Req' = NoMethod BY <2>1, BetweenMethods
  <2> QED BY <2>1, <2>3, <2>4, <2>5, SameStore DEF Dfu!Finish, Req
<1> QED BY <1>1, <1>2

(* A restart stops the open request part-way: the cells it can have changed *)
(* are those of the call in flight, which are the request's own.            *)
LEMMA RestartCrashes ==
  ASSUME StoreInv, MemReset \/ MemPowerCycle
  PROVE  Dfu!Crash
<1>i. DfuInv /\ BlockInv /\ CallInv BY DEF StoreInv
<1>q. QspiTypeOK /\ PendingInv BY <1>i DEF DfuInv, DfuTypeOK
<1>1. method' = Method("boot", 0, 0) /\ reply' = NoReply /\ hostBlock' = <<>>
  BY DEF MemReset, MemPowerCycle, MemRestart
<1>2. Left' = {} /\ Req' = NoMethod
  <2>1. method'.op = "boot" BY <1>1 DEF Method
  <2> QED BY <2>1, BetweenMethods
<1>3. cells' \in [Cells -> Bit]
  <2>1. DfuInv' BY <1>i, DfuStepInv DEF DfuNext
  <2> QED BY <2>1 DEF DfuInv, DfuTypeOK, QspiTypeOK
<1>4. ASSUME NEW x \in Cells, cells'[x] # cells[x]
      PROVE  drv \in WriteSteps /\ x \in Touched(call)
  <2>1. CASE MemReset
    <3>1. Reset BY <2>1 DEF MemReset
    <3>2. drv = "write" /\ call.kind = "program"
      BY <1>4, <3>1 DEF Reset, TornByReset
    <3>3. PICK n \in 0 .. Len(call.data) :
            cells' = Programmed(cells, call.addr, SubSeq(call.data, 1, n))
      BY <1>4, <3>1, <3>2 DEF Reset, TornByReset
    <3>4. call.data \in Seq(Bit) /\ cells \in [Cells -> Bit]
      BY <1>q, <3>2, CallData DEF WriteSteps, QspiTypeOK
    <3> QED BY <1>4, <3>2, <3>3, <3>4, TornTouches DEF WriteSteps
  <2>2. CASE MemPowerCycle
    BY <1>4, <2>2 DEF MemPowerCycle, PowerCycle, WriteSteps
  <2> QED BY <2>1, <2>2
<1>5. ASSUME drv \in WriteSteps, NEW x \in Touched(call)
      PROVE  x \in Dfu!Target(Req)
  <2>1. CallCells BY TouchedCells
  <2>2. x \in Cells /\ method.op \in WriteOps /\ Req = method
    BY <1>5, <2>1 DEF CallCells, WriteOps, Req
  <2>3. CASE method.op = "program"
    <3> DEFINE n == Len(call.data)
    <3>1. /\ call.addr <= x /\ x < method.addr + pos
          /\ n \in 1 .. pos /\ call.addr = method.addr + (pos - n)
      BY <1>i, <1>5, <2>1, <2>3 DEF CallCells, CallInv, ChunkSent
    <3>2. /\ method.addr \in Int /\ method.len \in Nat /\ pos \in Nat /\ x \in Int
          /\ pos <= method.len
      BY <1>i, <2>2, <2>3, Geometry DEF DfuInv, DfuTypeOK, MethodInv, Addresses, Cells
    <3> HIDE DEF n
    <3>3. method.addr <= x /\ x < method.addr + method.len BY <3>1, <3>2
    <3> QED BY <2>2, <2>3, <3>3, SameStore DEF Dfu!Target, Dfu!Range
  <2>4. CASE method.op = "erase"
    <3>1. Touched(call) = SectorOf(method.addr)
      BY <1>i, <1>5, <2>1, <2>4 DEF CallCells, CallInv
    <3> QED BY <1>5, <2>2, <2>4, <3>1, SameStore DEF Dfu!Target
  <2>5. CASE method.op = "eraseAll"
    BY <2>2, <2>5, SameStore DEF Dfu!Target
  <2> QED BY <2>2, <2>3, <2>4, <2>5 DEF WriteOps
<1>6. \A x \in Cells : cells'[x] # cells[x] => x \in Dfu!Target(Req) BY <1>4, <1>5
<1> QED BY <1>1, <1>2, <1>3, <1>6, SameStore DEF Dfu!Crash, Req, NoReply

LEMMA StepMaps == StoreInv /\ [DfuNext]_dfuVars => [Dfu!DfuStoreNext]_(Dfu!dfuStoreVars)
<1> SUFFICES ASSUME StoreInv, [DfuNext]_dfuVars PROVE Dfu!DfuStoreNext \/ DfuStutter
  BY DEF Dfu!dfuStoreVars, DfuStutter, Req
<1>i. DfuInv /\ BlockInv BY DEF StoreInv
<1>1. CASE Host BY <1>1, HostMaps
<1>2. CASE EnsureMm \/ EnsureIndirect
  <2>1. /\ UNCHANGED <<cells, method, pos, reply, hostBlock>>
        /\ drv = "idle" /\ drv' \in {"exit", "abort"}
    BY <1>2 DEF EnsureMm, EnsureIndirect, Running, CallEnter, CallRecover, StartJob, KeepMem
  <2> QED BY <2>1 DEF DfuStutter, Left, InFlight, Req
<1>3. CASE ProgramChunk \/ EraseSector \/ EraseNextSector BY <1>3, CallStutters
<1>4. CASE FinishMethod \/ ReadWindow
  BY <1>4, ReturnFinishes DEF Dfu!DfuStoreNext
<1>5. CASE MemDriverStep
  <2>1. DriverStep /\ UNCHANGED memVars BY <1>5 DEF MemDriverStep
  <2>2. CASE WriteFrame BY <2>1, <2>2, FrameProgresses DEF Dfu!DfuStoreNext
  <2>3. CASE ~WriteFrame BY <2>1, <2>3, FrameStutters
  <2> QED BY <2>2, <2>3
<1>6. CASE BootMap \/ BootReadVectors \/ NewRecover \/ NewDone
  <2>1. method.op \in {"boot", "new"} /\ cells' = cells
    BY <1>6 DEF BootMap, BootReadVectors, NewRecover, NewDone, Running, CallEnter, CallRecover,
                qspiVars
  <2>2. method' = NoMethod \/ method'.op \in {"boot", "new"}
    BY <1>6, <2>1 DEF BootMap, BootReadVectors, NewRecover, NewDone, MemRestart, Method, NoMethod,
                      memVars
  <2>3. Left' = Left /\ Req' = Req BY <2>1, <2>2, BetweenMethods
  <2>4. hostBlock = <<>> /\ reply = NoReply BY <1>i, <2>1 DEF BlockInv
  <2>5. hostBlock' = hostBlock /\ reply' = reply
    BY <1>6, <2>4 DEF BootMap, BootReadVectors, NewRecover, NewDone, MemRestart, memVars
  <2> QED BY <2>1, <2>3, <2>5 DEF DfuStutter
<1>7. CASE MemReset \/ MemPowerCycle
  BY <1>7, RestartCrashes DEF Dfu!DfuStoreNext
<1>8. CASE UNCHANGED dfuVars
  <2>1. UNCHANGED <<cells, drv, call, method, pos, reply, hostBlock>>
    BY <1>8 DEF dfuVars, qspiVars, memVars
  <2> QED BY <2>1 DEF DfuStutter, Left, InFlight, Req
<1> QED BY <1>1, <1>2, <1>3, <1>4, <1>5, <1>6, <1>7, <1>8 DEF DfuNext, Serve

LEMMA InitMaps == DfuInit => Dfu!DfuStoreInit
<1> SUFFICES ASSUME DfuInit PROVE Dfu!DfuStoreInit OBVIOUS
<1>1. /\ hostBlock = <<>> /\ reply = NoReply /\ method = Method("boot", 0, 0)
      /\ cells \in [Cells -> Bit]
  BY DEF DfuInit, MemInit, QspiInit
<1>2. method.op = "boot" BY <1>1 DEF Method
<1> QED BY <1>1, <1>2, BetweenMethods, SameStore DEF Dfu!DfuStoreInit, Req, NoReply

-----------------------------------------------------------------------------
(* Downloads, erases and uploads do to the flash exactly what the host      *)
(* asked for, in spite of the one buffer, blocks across page boundaries,    *)
(* mode changes and restarts between any two frames (dfu_mem.rs, with the   *)
(* driver of qspi.rs under it), for every geometry and block size.          *)
THEOREM DfuImplementsStore == DfuSpec => DfuStoreImplemented
<1>1. StoreInv /\ [DfuNext]_dfuVars => StoreInv' BY StoreStepInv
<1> QED
  BY <1>1, StoreInitInv, StepMaps, InitMaps, PTL
     DEF DfuSpec, DfuStoreImplemented, Dfu!DfuStoreSpec
=============================================================================
