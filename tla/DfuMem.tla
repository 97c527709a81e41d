------------------------------- MODULE DfuMem -------------------------------
(***************************************************************************)
(* QspiDfuMem (daisy-boot/src/dfu_mem.rs): the flash behind the USB DFU     *)
(* class.  A method call runs several driver routines; the power can fail   *)
(* between any two frames of them.  The DFU class and the host (the         *)
(* usbd-dfu crate, outside the repository) call the methods one at a time,  *)
(* and program a block only right after storing it.                         *)
(***************************************************************************)
EXTENDS QspiFlash

CONSTANT TransferSize     \* size of the block buffer

ASSUME TransferSizeAssumption == TransferSize \in Nat \ {0}

VARIABLES
  buffer,    \* QspiDfuMem.buffer
  bufferLen, \* QspiDfuMem.buffer_len
  inMmMode,  \* QspiDfuMem.in_mm_mode
  sawWrite,  \* DFU_SAW_WRITE
  method,    \* method in progress: operation, address, length
  pos,       \* its loop counter
  reply,     \* what the last finished method returned
  hostBlock  \* history: the block handed over for the next program request

memVars == <<buffer, bufferLen, inMmMode, sawWrite, method, pos, reply, hostBlock>>
dfuVars == <<qspiVars, memVars>>

Blocks    == UNION {[1 .. n -> Bit] : n \in 0 .. TransferSize}
Addresses == -1 .. FlashSize + 1         \* relative to FLASH_BASE
Method(o, a, n) == [op |-> o, addr |-> a, len |-> n]
NoMethod  == Method("none", 0, 0)
Reply(s, d) == [status |-> s, data |-> d]
NoReply   == Reply("none", <<>>)
Operations == {"none", "boot", "new", "read", "program", "erase", "eraseAll", "manifest"}

DfuTypeOK ==
  /\ QspiTypeOK
  /\ buffer \in [1 .. TransferSize -> Bit]
  /\ bufferLen \in 0 .. TransferSize
  /\ inMmMode \in BOOLEAN /\ sawWrite \in BOOLEAN
  /\ method \in [op : Operations, addr : Addresses, len : 0 .. TransferSize]
  /\ pos \in 0 .. (TransferSize + NSectors)
  /\ reply \in [status : {"none", "ok", "Address", "Prog", "Size"}, data : Blocks]
  /\ hostBlock \in Blocks

Idle == method = NoMethod /\ drv = "idle"

ContainsRange(a, n) == a \in 0 .. FlashSize /\ n <= FlashSize - a
Contains(a)         == a \in Cells

Overlay(b, d) == [i \in 1 .. TransferSize |-> IF i <= Len(d) THEN d[i] ELSE b[i]]

(* The fresh statics and the fresh QspiDfuMem of a boot. *)
MemInit(op) ==
  /\ buffer = [i \in 1 .. TransferSize |-> 0] /\ bufferLen = 0
  /\ inMmMode = FALSE /\ sawWrite = FALSE
  /\ method = Method(op, 0, 0) /\ pos = 0 /\ reply = NoReply /\ hostBlock = <<>>

MemRestart(op) ==
  /\ buffer' = [i \in 1 .. TransferSize |-> 0] /\ bufferLen' = 0
  /\ inMmMode' = FALSE /\ sawWrite' = FALSE
  /\ method' = Method(op, 0, 0) /\ pos' = 0 /\ reply' = NoReply /\ hostBlock' = <<>>
-----------------------------------------------------------------------------
(* Starting a method.                                                       *)
Begin(m)   == method' = m /\ pos' = 0 /\ reply' = NoReply
Answered(r) == method' = NoMethod /\ pos' = 0 /\ reply' = r

StoreUnchecked(d) ==
  /\ Idle /\ sawWrite' = TRUE /\ Answered(Reply("ok", <<>>))
  /\ buffer' = Overlay(buffer, d) /\ bufferLen' = Len(d) /\ hostBlock' = d
  /\ UNCHANGED <<qspiVars, inMmMode>>

StoreWriteBuffer(d) ==
  /\ Idle
  /\ sawWrite' = TRUE
  /\ IF Len(d) > TransferSize
       THEN Answered(Reply("Size", <<>>)) /\ UNCHANGED <<buffer, bufferLen, hostBlock>>
       ELSE /\ Answered(Reply("ok", <<>>))
            /\ buffer' = Overlay(buffer, d) /\ bufferLen' = Len(d) /\ hostBlock' = d
  /\ UNCHANGED <<qspiVars, inMmMode>>

StartRead(a, n) ==
  /\ Idle
  /\ IF ContainsRange(a, n)
       THEN Begin(Method("read", a, IF n < TransferSize THEN n ELSE TransferSize))
       ELSE Answered(Reply("Address", <<>>))
  /\ hostBlock' = <<>>
  /\ UNCHANGED <<qspiVars, buffer, bufferLen, inMmMode, sawWrite>>

StartProgram(a, n) ==
  /\ Idle
  /\ sawWrite' = TRUE
  /\ IF ~ContainsRange(a, n)  THEN Answered(Reply("Address", <<>>))
     ELSE IF n > bufferLen    THEN Answered(Reply("Prog", <<>>))
     ELSE Begin(Method("program", a, n))
  /\ UNCHANGED <<qspiVars, buffer, bufferLen, inMmMode, hostBlock>>

EraseUnseen(a) ==
  /\ Idle
  /\ IF Contains(a) THEN Begin(Method("erase", a, 0)) ELSE Answered(Reply("Address", <<>>))
  /\ hostBlock' = <<>>
  /\ UNCHANGED <<qspiVars, buffer, bufferLen, inMmMode, sawWrite>>

StartErase(a) ==
  /\ Idle
  /\ sawWrite' = TRUE
  /\ IF Contains(a) THEN Begin(Method("erase", a, 0)) ELSE Answered(Reply("Address", <<>>))
  /\ hostBlock' = <<>>
  /\ UNCHANGED <<qspiVars, buffer, bufferLen, inMmMode>>

StartEraseAll ==
  /\ Idle
  /\ sawWrite' = TRUE
  /\ Begin(Method("eraseAll", 0, 0))
  /\ hostBlock' = <<>>
  /\ UNCHANGED <<qspiVars, buffer, bufferLen, inMmMode>>

StartManifestation ==
  /\ Idle
  /\ Begin(Method("manifest", 0, 0))
  /\ hostBlock' = <<>>
  /\ UNCHANGED <<qspiVars, buffer, bufferLen, inMmMode, sawWrite>>
-----------------------------------------------------------------------------
(* Running it.  ensure_mm_mode and ensure_indirect_mode.                    *)
KeepMem == UNCHANGED <<buffer, bufferLen, sawWrite, method, pos, reply, hostBlock>>
Running(ops) == method.op \in ops /\ drv = "idle"

EnterEveryTime ==
  Running({"read", "manifest"}) /\ ~inMmMode /\ CallEnter /\ UNCHANGED inMmMode /\ KeepMem

EnsureMm ==
  /\ Running({"read", "manifest"}) /\ ~inMmMode
  /\ CallEnter
  /\ inMmMode' = TRUE
  /\ KeepMem

FlagOnly ==
  /\ Running({"program", "erase", "eraseAll"}) /\ inMmMode
  /\ inMmMode' = FALSE
  /\ UNCHANGED qspiVars /\ KeepMem

EnsureIndirect ==
  /\ Running({"program", "erase", "eraseAll"}) /\ inMmMode
  /\ CallRecover
  /\ inMmMode' = FALSE
  /\ KeepMem

(* The byte loop of read(): what the window returns is the flash contents   *)
(* when chip and controller agree, anything when they do not.               *)
WindowData(a, n) ==
  IF FetchFaithful THEN {[i \in 1 .. n |-> cells[a + i - 1]]} ELSE [1 .. n -> Bit]

ReadThenFlagOff ==
  /\ Running({"read"}) /\ inMmMode /\ method.len > 0
  /\ \E d \in WindowData(method.addr, method.len) :
       /\ buffer' = Overlay(buffer, d)
       /\ Answered(Reply("ok", d))
  /\ Fetched /\ inMmMode' = FALSE
  /\ UNCHANGED <<cells, drv, job, call, bufferLen, sawWrite, hostBlock>>

ReadWindow ==
  /\ Running({"read"}) /\ inMmMode
  /\ \E d \in WindowData(method.addr, method.len) :
       /\ buffer' = Overlay(buffer, d)
       /\ Answered(Reply("ok", d))
  /\ IF method.len = 0 THEN UNCHANGED <<chip, ctrl>> ELSE Fetched
  /\ UNCHANGED <<cells, drv, job, call, bufferLen, inMmMode, sawWrite, hostBlock>>

(* One program_page call of program()'s loop, cut at the page boundary.     *)
ChunkLen ==
  LET pageBound == PageSize - ((method.addr + pos) % PageSize)
  IN  IF pageBound < method.len - pos THEN pageBound ELSE method.len - pos

ChunkFromStart ==
  /\ Running({"program"}) /\ ~inMmMode /\ pos < method.len
  /\ CallProgram(method.addr + pos, SubSeq(buffer, 1, ChunkLen))
  /\ pos' = pos + ChunkLen
  /\ UNCHANGED <<buffer, bufferLen, inMmMode, sawWrite, method, reply, hostBlock>>

ProgramChunk ==
  /\ Running({"program"}) /\ ~inMmMode /\ pos < method.len
  /\ CallProgram(method.addr + pos, SubSeq(buffer, pos + 1, pos + ChunkLen))
  /\ pos' = pos + ChunkLen
  /\ UNCHANGED <<buffer, bufferLen, inMmMode, sawWrite, method, reply, hostBlock>>

EraseSector ==
  /\ Running({"erase"}) /\ ~inMmMode /\ pos = 0
  /\ CallErase(method.addr)
  /\ pos' = 1
  /\ UNCHANGED <<buffer, bufferLen, inMmMode, sawWrite, method, reply, hostBlock>>

EraseNextSector ==
  /\ Running({"eraseAll"}) /\ ~inMmMode /\ pos < NSectors
  /\ CallErase(pos * SectorSize)
  /\ pos' = pos + 1
  /\ UNCHANGED <<buffer, bufferLen, inMmMode, sawWrite, method, reply, hostBlock>>

LoopDone == CASE method.op = "program"  -> ~inMmMode /\ pos = method.len
              [] method.op = "erase"    -> ~inMmMode /\ pos = 1
              [] method.op = "eraseAll" -> ~inMmMode /\ pos = NSectors
              [] method.op = "manifest" -> inMmMode
              [] OTHER -> FALSE

FinishMethod ==
  /\ drv = "idle" /\ LoopDone
  /\ Answered(Reply("ok", <<>>))
  /\ UNCHANGED <<qspiVars, buffer, bufferLen, inMmMode, sawWrite, hostBlock>>

MemDriverStep == DriverStep /\ UNCHANGED memVars
-----------------------------------------------------------------------------
(* Boot up to service mode: map the flash, read the vector table, then      *)
(* QspiDfuMem::new.                                                         *)
BootMap ==
  /\ Running({"boot"}) /\ ctrl.mode = "off"
  /\ CallEnter
  /\ UNCHANGED memVars

BootReadVectors ==
  /\ Running({"boot"}) /\ Fetched
  /\ method' = Method("new", 0, 0)
  /\ UNCHANGED <<cells, drv, job, call, buffer, bufferLen, inMmMode, sawWrite, pos, reply,
                 hostBlock>>

NewRecover ==
  /\ Running({"new"}) /\ ctrl.mode = "mapped"
  /\ CallRecover
  /\ UNCHANGED memVars

NewDone ==
  /\ Running({"new"}) /\ ctrl.mode = "indirect"
  /\ MemRestart("none")
  /\ UNCHANGED qspiVars

MemReset      == Reset /\ MemRestart("boot")
MemPowerCycle == PowerCycle /\ MemRestart("boot")

(* The DFU class: a program request directly follows the store of its block *)
(* and names its length.                                                    *)
Host ==
  \/ \E d \in Blocks \cup {[i \in 1 .. TransferSize + 1 |-> 0]} : StoreWriteBuffer(d)
  \/ \E a \in Addresses, n \in 0 .. TransferSize + 1 : StartRead(a, n)
  \/ \E a \in Addresses : hostBlock # <<>> /\ StartProgram(a, Len(hostBlock))
  \/ \E a \in Addresses : StartErase(a)
  \/ StartEraseAll \/ StartManifestation

Serve ==
  \/ EnsureMm \/ EnsureIndirect \/ ReadWindow
  \/ ProgramChunk \/ EraseSector \/ EraseNextSector \/ FinishMethod
  \/ MemDriverStep

DfuInit == QspiInit /\ MemInit("boot")

DfuNext ==
  \/ Host \/ Serve
  \/ BootMap \/ BootReadVectors \/ NewRecover \/ NewDone
  \/ MemReset \/ MemPowerCycle

DfuSpec == DfuInit /\ [][DfuNext]_dfuVars

(* The code runs its loops to the end unless the power fails; the host may  *)
(* stay silent.                                                             *)
DfuFairSpec == DfuSpec /\ WF_dfuVars(Serve)
-----------------------------------------------------------------------------
(* in_mm_mode is a cached copy of the controller's mode: between methods it *)
(* says exactly whether the window is mapped, so neither ensure_* skips a   *)
(* recovery it needs.                                                       *)
ModeShadow == Idle => (inMmMode <=> ctrl.mode = "mapped") /\ (~inMmMode => ~chip.ax)

(* The abstract store's "cells still to be settled".                        *)
InFlight == IF drv \in {"wren", "write"} THEN Touched(call) ELSE {}
Left ==
  CASE method.op = "program"  -> {x \in Cells : method.addr + pos <= x /\ x < method.addr + method.len}
                                   \cup InFlight
    [] method.op = "erase"    -> IF pos = 0 THEN SectorOf(method.addr) ELSE InFlight
    [] method.op = "eraseAll" -> {x \in Cells : x \div SectorSize >= pos} \cup InFlight
    [] OTHER -> {}

(* Downloads, erases and uploads do to the flash what the host asked for,   *)
(* although the one buffer serves both directions, blocks straddle pages    *)
(* and the chip changes mode in between.                                    *)
Dfu == INSTANCE DfuStore WITH
  image <- cells, block <- hostBlock, answer <- reply, left <- Left,
  req <- IF method.op \in {"boot", "new"} THEN NoMethod ELSE method
DfuStoreImplemented == Dfu!DfuStoreSpec

(* Every accepted request is answered, unless the board is reset.           *)
RequestsAnswered ==
  \A o \in {"read", "program", "erase", "eraseAll", "manifest"} :
    method.op = o ~> (reply.status = "ok" \/ method.op = "boot")
=============================================================================
