----------------------------- MODULE SdramInit -----------------------------
(* The SDRAM bring-up: the register values encoded from SEED, the pins that  *)
(* carry the bus, and the power-up sequence with its bounded wait for the    *)
(* controller.  The FMC, the chip and the board's wiring are external.       *)
EXTENDS Integers, Sequences, FiniteSets, SequencesExt, FiniteSetsExt

CONSTANTS BusyReads,    \* status reads a command keeps the controller busy
          BusyLimit     \* wait_fmc_ready's bound (1 000 000 reads), scaled down

VARIABLE fmc            \* the bring-up's place, the controller, the chip
fmcVars == <<fmc>>

-----------------------------------------------------------------------------
(* config: SEED and its register encodings; a field is a value and its width *)
(* in bits, the least significant first.                                     *)

SEED == [column_bits |-> 9, row_bits |-> 13, data_width |-> 32, internal_banks |-> 4,
         cas_latency |-> 3, sdclk_divider |-> 2, read_burst |-> TRUE, read_pipe_delay |-> 0,
         t_mrd |-> 2, t_xsr |-> 7, t_ras |-> 5, t_rc |-> 8, t_wr |-> 3, t_rp |-> 16, t_rcd |-> 10,
         auto_refresh_cycles |-> 4, refresh_count |-> 761]

Packed(fields) ==
    FoldLeft(LAMBDA acc, fd : [word |-> acc.word + ((fd[1] % 2^fd[2]) * 2^acc.at), at |-> acc.at + fd[2]],
             [word |-> 0, at |-> 0], fields).word

sdcr1 == Packed(<< <<SEED.column_bits - 8, 2>>, <<SEED.row_bits - 11, 2>>,
                   << (CASE SEED.data_width = 8 -> 0 [] SEED.data_width = 16 -> 1 [] OTHER -> 2), 2 >>,
                   << IF SEED.internal_banks = 4 THEN 1 ELSE 0, 1 >>,
                   <<SEED.cas_latency, 2>>, <<0, 1>>, <<SEED.sdclk_divider, 2>>,
                   << IF SEED.read_burst THEN 1 ELSE 0, 1 >>, <<SEED.read_pipe_delay, 2>> >>)

\* a slip: the field holds one cycle less than the controller's minus one
CyclesShort(t) == t - 2
Cycles(t) == t - 1
sdtr1 == Packed(<< <<Cycles(SEED.t_mrd), 4>>, <<Cycles(SEED.t_xsr), 4>>, <<Cycles(SEED.t_ras), 4>>,
                   <<Cycles(SEED.t_rc), 4>>, <<Cycles(SEED.t_wr), 4>>, <<Cycles(SEED.t_rp), 4>>,
                   <<Cycles(SEED.t_rcd), 4>> >>)

mode_register == Packed(<< <<2, 3>>, <<0, 1>>, <<SEED.cas_latency, 3>>, <<0, 2>>, <<1, 1>> >>)
sdrtr == Packed(<< <<0, 1>>, <<SEED.refresh_count, 13>> >>)

(* FMC_PINS: port (A = 0) and pin.                                           *)
On(port, pins) == {port} \X pins
\* a slip: the write enable is routed to one of its two pins only
FmcPinsWithoutPH5 ==
    On(2, {0}) \cup On(3, {0, 1, 8, 9, 10, 14, 15}) \cup On(4, {0, 1} \cup 7..15)
    \cup On(5, 0..5 \cup 11..15) \cup On(6, {0, 1, 2, 4, 5, 8, 15})
    \cup On(7, {2, 3} \cup 8..15) \cup On(8, 0..7 \cup {9, 10})
FMC_PINS ==
    On(2, {0}) \cup On(3, {0, 1, 8, 9, 10, 14, 15}) \cup On(4, {0, 1} \cup 7..15)
    \cup On(5, 0..5 \cup 11..15) \cup On(6, {0, 1, 2, 4, 5, 8, 15})
    \cup On(7, {2, 3, 5} \cup 8..15) \cup On(8, 0..7 \cup {9, 10})

(* The ports whose clocks init enables (C to I).                             *)
ClockedPorts == 2..8

-----------------------------------------------------------------------------
(* The board: each signal and the pin it lands on (the write enable on one   *)
(* of two, by revision), from the independent map of the tests.              *)

DataBus == << <<3, 14>>, <<3, 15>>, <<3, 0>>, <<3, 1>> >> \o [k \in 1..9 |-> <<4, 6 + k>>]
           \o << <<3, 8>>, <<3, 9>>, <<3, 10>> >> \o [k \in 1..8 |-> <<7, 7 + k>>]
           \o << <<8, 0>>, <<8, 1>>, <<8, 2>>, <<8, 3>>, <<8, 6>>, <<8, 7>>, <<8, 9>>, <<8, 10>> >>
AddressBus == [k \in 1..6 |-> <<5, k - 1>>] \o [k \in 1..4 |-> <<5, 11 + k>>]
              \o << <<6, 0>>, <<6, 1>>, <<6, 2>>, <<6, 4>>, <<6, 5>> >>
Control(we) == {<<4, 0>>, <<4, 1>>, <<8, 4>>, <<8, 5>>, <<6, 8>>, <<5, 11>>, <<6, 15>>,
                <<7, 2>>, <<7, 3>>, we}
WriteEnables == {<<2, 0>>, <<7, 5>>}
BoardPins(we) == Range(DataBus) \cup Range(AddressBus) \cup Control(we)

(* The chip: it takes its commands in the order JEDEC wants them, and only   *)
(* when the controller is not busy with the last.                            *)
Unpowered == [state |-> "off", settled |-> FALSE, refreshes |-> 0, cas |-> 0, refreshed |-> FALSE]

CommandTaken(chip, cmd, arg) ==
    CASE cmd = "clock" /\ chip.state = "off" -> [chip EXCEPT !.state = "clocked"]
      [] cmd = "precharge" /\ chip.state = "clocked" /\ chip.settled ->
             [chip EXCEPT !.state = "precharged"]
      [] cmd = "refresh" /\ chip.state = "precharged" -> [chip EXCEPT !.refreshes = @ + arg]
      [] cmd = "mode" /\ chip.state = "precharged" /\ chip.refreshes >= 2 ->
             [chip EXCEPT !.state = "ready", !.cas = (arg \div 16) % 8]
      [] OTHER -> [chip EXCEPT !.state = "confused"]

-----------------------------------------------------------------------------
(* init: each step first waits for the controller (the settle does not).     *)

\* a slip: the precharge is sent before the settling time
SequenceUnsettled == << "clock", "precharge", "settle", "refresh", "mode", "timer", "done" >>
Sequence == << "clock", "settle", "precharge", "refresh", "mode", "timer", "done" >>

FmcInit ==
    \E we \in WriteEnables, stuck \in BOOLEAN :
        fmc = [at |-> 0, reads |-> 0, busy |-> 0, stuck |-> stuck, enabled |-> FALSE,
               we |-> we, pins |-> {}, chip |-> Unpowered, gaveUp |-> FALSE]

(* Clocks, pins, kernel clock, the control and timing registers, FMCEN.      *)
SetUp ==
    /\ fmc.at = 0
    /\ fmc' = [fmc EXCEPT !.at = 1, !.enabled = TRUE,
                          !.pins = {p \in FMC_PINS : p[1] \in ClockedPorts}]

(* wait_fmc_ready: one read of the status; it gives up at its limit.         *)
Waits == fmc.at \in 1..Len(Sequence) /\ Sequence[fmc.at] # "settle"
WaitRead ==
    /\ Waits /\ fmc.busy > 0 /\ fmc.reads < BusyLimit
    /\ fmc' = [fmc EXCEPT !.reads = @ + 1, !.busy = IF fmc.stuck THEN @ ELSE @ - 1]

Arg(cmd) == CASE cmd = "refresh" -> SEED.auto_refresh_cycles
              [] cmd = "mode" -> mode_register
              [] OTHER -> 0

Command ==
    /\ Waits /\ (fmc.busy = 0 \/ fmc.reads = BusyLimit)
    /\ LET cmd   == Sequence[fmc.at]
           sends == fmc.busy = 0 /\ fmc.enabled /\ cmd \notin {"timer", "done"}
       IN \E reads \in BusyReads :
              fmc' = [fmc EXCEPT
                  !.at = @ + 1, !.reads = 0, !.gaveUp = @ \/ fmc.busy > 0,
                  !.busy = IF fmc.busy > 0 THEN @ ELSE IF cmd = "done" THEN 0 ELSE reads,
                  !.chip = IF sends /\ BoardPins(fmc.we) \subseteq fmc.pins
                           THEN CommandTaken(@, cmd, Arg(cmd))
                           ELSE [@ EXCEPT !.refreshed = @ \/ cmd = "timer"]]

Settle ==
    /\ fmc.at \in 1..Len(Sequence) /\ Sequence[fmc.at] = "settle"
    /\ fmc' = [fmc EXCEPT !.at = @ + 1, !.chip.settled = TRUE]

FmcNext == SetUp \/ WaitRead \/ Command \/ Settle
FmcSpec == FmcInit /\ [][FmcNext]_fmcVars

-----------------------------------------------------------------------------
(* Types: the wait is bounded, the pins exist.                               *)
FmcTypeOK ==
    /\ fmc.at \in 0..(Len(Sequence) + 1) /\ fmc.reads \in 0..BusyLimit
    /\ fmc.pins \subseteq (0..8) \X (0..15)

(* When init returns and the controller answered, the chip has taken its     *)
(* commands in order with CAS 3 and is refreshed, on either board revision:  *)
(* no signal floats, no command comes early.                                 *)
ChipReady ==
    fmc.at > Len(Sequence) /\ ~fmc.gaveUp =>
        /\ fmc.chip.state = "ready" /\ fmc.chip.cas = SEED.cas_latency /\ fmc.chip.refreshed
        /\ fmc.pins = BoardPins(<<2, 0>>) \cup BoardPins(<<7, 5>>)

(* Read back the way the controller does, the registers keep the datasheet's *)
(* minimum times (10 ns a cycle), refresh 8192 rows in 64 ms, and span the   *)
(* 64 MiB the memory map gives the chip.                                     *)
FieldOf(word, at, width) == (word \div 2^at) % 2^width
Nanoseconds(at) == (FieldOf(sdtr1, at, 4) + 1) * 10
DatasheetKept ==
    /\ Nanoseconds(0) >= 12 /\ Nanoseconds(4) >= 60 /\ Nanoseconds(8) >= 42
    /\ Nanoseconds(12) >= 60 /\ Nanoseconds(16) >= 12 /\ Nanoseconds(20) >= 18 /\ Nanoseconds(24) >= 18
    /\ (FieldOf(sdrtr, 1, 13) + 20) * 8192 <= 6400000
    /\ FieldOf(sdcr1, 7, 2) = FieldOf(mode_register, 4, 3)
    /\ 2^(FieldOf(sdcr1, 0, 2) + 8 + FieldOf(sdcr1, 2, 2) + 11) * 4 * 2^FieldOf(sdcr1, 4, 2)
           * (IF FieldOf(sdcr1, 6, 1) = 1 THEN 1 ELSE 0) = 67108864
=============================================================================
