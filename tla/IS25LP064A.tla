----------------------------- MODULE IS25LP064A -----------------------------
(***************************************************************************)
(* The QSPI NOR flash chip of the Daisy Seed, seen from its SPI pins: which *)
(* latched mode it is in and what one complete frame (CE# low ... CE# high) *)
(* does to it.  Translated from the byte-level chip model the repository    *)
(* keeps in renode/peripherals/IS25LP064A.cs.                               *)
(*                                                                          *)
(* Abstractions: a frame is one step (an MCU reset in the middle of a frame *)
(* is the partial effect TornByReset describes); a cell of the array is one  *)
(* bit, 1 when erased, which is all that AND-programming distinguishes; the *)
(* status register is its QE and WEL bits; the read-parameter register is   *)
(* its dummy-cycle selector P4:P3.                                          *)
(***************************************************************************)
EXTENDS Integers, Sequences

CONSTANTS
  NSectors,        \* erasable sub-sectors in the array
  PagesPerSector,  \* program pages in a sub-sector
  PageSize         \* cells in a page

ASSUME GeometryAssumption ==
  /\ NSectors \in Nat \ {0}
  /\ PagesPerSector \in Nat \ {0}
  /\ PageSize \in Nat \ {0}

SectorSize == PagesPerSector * PageSize
FlashSize  == NSectors * SectorSize
Cells      == 0 .. FlashSize - 1
Bit        == {0, 1}

(* Latched state: what survives an MCU reset. *)
ChipState ==
  [ ax         : BOOLEAN,    \* AX continuous-read mode: no opcode expected
    wel        : BOOLEAN,    \* write-enable latch
    qe         : BOOLEAN,    \* quad-enable status bit
    readParams : 0 .. 3,     \* dummy-cycle selector P4:P3
    resetEn    : BOOLEAN ]   \* RSTEN seen, RST must follow

PorReadParams == 0           \* 0xE0, P4:P3 = 00

(* Power-on state.  The chip model clears QE with the rest of the status    *)
(* register; the bit is non-volatile on the part, so both are kept.         *)
PowerOnReset(c) ==
  { [ ax |-> FALSE, wel |-> FALSE, qe |-> q,
      readParams |-> PorReadParams, resetEn |-> FALSE ] : q \in {FALSE, c.qe} }

(* An MCU reset deasserts CE#: only the pending reset-enable is lost.       *)
McuReset(c) == [c EXCEPT !.resetEn = FALSE]

(* Dummy bytes an 0xEB read needs after its mode byte, from Table 6.10.     *)
TotalCycles == [p \in 0 .. 3 |-> CASE p = 0 -> 6 [] p = 1 -> 4 [] p = 2 -> 8 [] p = 3 -> 10]
DummyBytes(c) == ((TotalCycles[c.readParams] - 2) * 4 + 7) \div 8

(* A frame led by an opcode and too short to carry a whole address.  In AX  *)
(* mode its first bytes are taken for an address, so nothing is executed.   *)
Commanded(c, op, value) ==
  LET quiet == [c EXCEPT !.resetEn = FALSE]
  IN  CASE c.ax         -> {quiet}
        [] ~c.ax /\ op = "RSTEN" -> {[c EXCEPT !.resetEn = TRUE]}
        [] ~c.ax /\ op = "RST"   -> IF c.resetEn THEN PowerOnReset(c) ELSE {c}
        [] ~c.ax /\ op = "WREN"  -> {[quiet EXCEPT !.wel = TRUE]}
        [] ~c.ax /\ op = "SRP"   -> {[quiet EXCEPT !.readParams = value]}
        [] ~c.ax /\ op = "WRSR"  -> {IF c.wel THEN [quiet EXCEPT !.qe = TRUE, !.wel = FALSE]
                                              ELSE quiet}
        [] ~c.ax /\ op = "RDSR"  -> {quiet}

(* The status byte a RDSR frame returns: 0xFF (every bit set) in AX mode.   *)
StatusQE(c) == c.ax \/ c.qe

(* Erase and page-program frames: opcode, address, data.                    *)
AcceptsWrite(c) == ~c.ax /\ c.wel

(* WEL clears on completion.  In AX mode the low address byte lands in the  *)
(* mode-bit slot and may or may not end continuous reading.                 *)
AfterWriteFrame(c) ==
  LET quiet == [c EXCEPT !.resetEn = FALSE]
  IN  IF c.ax THEN {[quiet EXCEPT !.ax = b] : b \in BOOLEAN}
              ELSE {[quiet EXCEPT !.wel = FALSE]}

(* A Fast Read Quad I/O frame.  The framing agrees when the master sends    *)
(* the opcode exactly if the chip expects one.                              *)
FramingAgrees(c, withOpcode) == withOpcode = ~c.ax

AfterQuadRead(c, withOpcode, stayAx) ==
  LET quiet == [c EXCEPT !.resetEn = FALSE]
  IN  IF FramingAgrees(c, withOpcode) THEN {[quiet EXCEPT !.ax = stayAx]}
      ELSE IF c.ax THEN {[quiet EXCEPT !.ax = b] : b \in BOOLEAN}
      ELSE {quiet}

QuadReadFaithful(c, withOpcode, masterDummies) ==
  FramingAgrees(c, withOpcode) /\ c.qe /\ DummyBytes(c) = masterDummies

(* The array.  Programming ANDs into the cells and wraps inside the page.   *)
SectorOf(a) == {s \in Cells : s \div SectorSize = a \div SectorSize}
Erased(cells, a) == [x \in Cells |-> IF x \in SectorOf(a) THEN 1 ELSE cells[x]]

ProgramTarget(a, i) == (a \div PageSize) * PageSize + ((a + i) % PageSize)
Programmed(cells, a, data) ==
  [x \in Cells |->
     IF \E i \in 0 .. Len(data) - 1 : ProgramTarget(a, i) = x /\ data[i + 1] = 0
       THEN 0 ELSE cells[x]]
=============================================================================
