----------------------------- MODULE SdramTest -----------------------------
(* The SDRAM memory test: sdram-march's suite and run_phase, a word a step,  *)
(* the app's Runner with its pause and stop keys between two chunks, the     *)
(* control loop around it, and the error log.  The memory is external: it    *)
(* may hold one of the faults the suite is meant to find.  A word is the set *)
(* of its bits that are 1.                                                   *)
EXTENDS Integers, Sequences, SequencesExt

CONSTANTS SdWords,      \* SDRAM_WORDS
          SdWidth,      \* bits of a word: 32
          SdPowerUp,    \* what a cell may hold when power comes up
          SdChunk,      \* CHUNK: words between two service calls
          SdErrLogCap,  \* ERRLOG_CAP
          SdPasses      \* bound on the passes of one run

VARIABLES sdram,        \* the memory: its fault and its cells
          place,        \* run_phase: the phase, the words done, those left of this chunk
          test,         \* TestState and the control loop
          tally,        \* TestState's counts per group and its error log
          found         \* for the properties: the groups this pass accused, the last
                        \* failures, the keys just read
sdramVars == <<sdram, place, test, tally, found>>

Index == 0..(SdWords - 1)
Bits == 0..(SdWidth - 1)

v_zero == [i \in Index |-> {}]
v_ones == [i \in Index |-> Bits]
v_aaaa == [i \in Index |-> {b \in Bits : b % 2 = 1}]
v_5555 == [i \in Index |-> {b \in Bits : b % 2 = 0}]
v_own == [i \in Index |-> {b \in Bits : (i \div 2^b) % 2 = 1}]

ASSUME SdramAssumption ==
    /\ SdWords \in Nat \ {0} /\ SdWidth \in Nat \ {0} /\ SdPowerUp \subseteq SUBSET Bits
    /\ SdChunk \in Nat \ {0} /\ SdErrLogCap \in Nat \ {0} /\ SdPasses \in Nat

(* A word is wide enough for the index of every word.                        *)
ASSUME AddressAssumption == \A i, j \in Index : v_own[i] = v_own[j] => i = j

-----------------------------------------------------------------------------
(* The memory and its single fault: a stuck bit, a bit that cannot make one  *)
(* transition, a cell whose transition forces or inverts a bit of another,   *)
(* or an address that decodes to another's cell.                             *)

NoFault == [kind |-> "none", cell |-> 0, other |-> 0, bit |-> 0, edge |-> TRUE, to |-> TRUE]
Couplings(kind, bits, edges, tos) ==
    {f \in [kind : {kind}, cell : Index, other : Index, bit : bits, edge : edges, to : tos] :
        f.cell # f.other}
Faults ==
    {NoFault}
    \cup [kind : {"stuck", "transition"}, cell : Index, other : {0}, bit : Bits,
          edge : {TRUE}, to : BOOLEAN]
    \cup Couplings("forces", Bits, BOOLEAN, BOOLEAN)
    \cup Couplings("inverts", Bits, BOOLEAN, {TRUE})
    \cup Couplings("alias", {0}, {TRUE}, {TRUE})

SetBit(w, b, v) == IF v THEN w \cup {b} ELSE w \ {b}
Decoded(f, i) == IF f.kind = "alias" /\ i = f.cell THEN f.other ELSE i

CellRead(f, mem, i) ==
    LET raw == mem[Decoded(f, i)]
    IN IF f.kind = "stuck" /\ i = f.cell THEN SetBit(raw, f.bit, f.to) ELSE raw

Turns(f, old, v, edge) == (f.bit \in v <=> edge) /\ ~(f.bit \in old <=> edge)
Victim(f, w) == SetBit(w, f.bit, IF f.kind = "forces" THEN f.to ELSE f.bit \notin w)
CellWritten(f, mem, i, v) ==
    LET at     == Decoded(f, i)
        kept   == f.kind = "transition" /\ i = f.cell /\ Turns(f, mem[at], v, f.to)
        couple == f.kind \in {"forces", "inverts"} /\ i = f.cell /\ Turns(f, mem[at], v, f.edge)
    IN [k \in Index |-> IF k = at THEN (IF kept THEN SetBit(v, f.bit, ~f.to) ELSE v)
                        ELSE IF couple /\ k = f.other THEN Victim(f, mem[k])
                        ELSE mem[k]]

-----------------------------------------------------------------------------
(* SUITE: what each phase reads and writes, and in which direction.          *)

Phase(group, ascending, reads, expect, writes, value) ==
    [group |-> group, ascending |-> ascending, reads |-> reads, expect |-> expect,
     writes |-> writes, value |-> value]
Write(group, v) == Phase(group, TRUE, FALSE, v, TRUE, v)
Verify(group, v) == Phase(group, TRUE, TRUE, v, FALSE, v)
March(ascending, expect, value) == Phase(5, ascending, TRUE, expect, TRUE, value)

\* a slip: the descending elements run upwards too
SuiteUpwards ==
    << Write(0, v_own), Verify(0, v_own), Write(1, v_zero), Verify(1, v_zero),
       Write(2, v_ones), Verify(2, v_ones), Write(3, v_aaaa), Verify(3, v_aaaa),
       Write(4, v_5555), Verify(4, v_5555),
       Write(5, v_zero), March(TRUE, v_zero, v_ones), March(TRUE, v_ones, v_zero),
       March(TRUE, v_zero, v_ones), March(TRUE, v_ones, v_zero), Verify(5, v_zero) >>
SUITE ==
    << Write(0, v_own), Verify(0, v_own), Write(1, v_zero), Verify(1, v_zero),
       Write(2, v_ones), Verify(2, v_ones), Write(3, v_aaaa), Verify(3, v_aaaa),
       Write(4, v_5555), Verify(4, v_5555),
       Write(5, v_zero), March(TRUE, v_zero, v_ones), March(TRUE, v_ones, v_zero),
       March(FALSE, v_zero, v_ones), March(FALSE, v_ones, v_zero),
       Phase(5, FALSE, TRUE, v_zero, FALSE, v_zero) >>

WordAt(phase, k) == IF phase.ascending THEN k ELSE SdWords - 1 - k
ChunkAt(done) == IF SdWords - done < SdChunk THEN SdWords - done ELSE SdChunk
FirstOf(phase) == [phase |-> phase, done |-> 0, left |-> ChunkAt(0)]

-----------------------------------------------------------------------------
(* ErrLog: a ring of the most recent failures.                               *)

Failures == Index \X (SUBSET Bits) \X (SUBSET Bits)
ErrLogNew == [buf |-> [k \in 0..(SdErrLogCap - 1) |-> <<0, {}, {}>>], len |-> 0, head |-> 0, total |-> 0]

\* a slip: the ring starts over without wrapping its head
LogPushUnwrapped(log, e) ==
    [buf   |-> [log.buf EXCEPT ![log.head] = e],
     len   |-> IF log.len < SdErrLogCap THEN log.len + 1 ELSE SdErrLogCap,
     head  |-> IF log.head + 1 < SdErrLogCap THEN log.head + 1 ELSE SdErrLogCap - 1,
     total |-> log.total + 1]
LogPush(log, e) ==
    [buf   |-> [log.buf EXCEPT ![log.head] = e],
     len   |-> IF log.len < SdErrLogCap THEN log.len + 1 ELSE SdErrLogCap,
     head  |-> (log.head + 1) % SdErrLogCap,
     total |-> log.total + 1]

Recent(log) == [k \in 1..log.len |-> log.buf[(log.head + SdErrLogCap - k) % SdErrLogCap]]

NoErrs == [g \in 0..5 |-> 0]
TotalErrs(errs) == errs[0] + errs[1] + errs[2] + errs[3] + errs[4] + errs[5]
Verdict == TotalErrs(tally.errs) = 0

(* The last failures, as many as the log keeps.                              *)
Kept(last, e) == IF Len(last) < SdErrLogCap THEN Append(last, e) ELSE Append(Tail(last), e)

-----------------------------------------------------------------------------
(* The keys of one read (poll_ui): a reboot key acts at once, at its place   *)
(* in the bytes; the others are handed to the caller.                        *)

KeyReads == {<<>>, <<"space">>, <<"s">>, <<"space", "s">>, <<"s", "space">>,
             <<"space", "space">>, <<"report">>, <<"r">>, <<"b">>, <<"s", "b">>}

\* a slip: the reports' final R counts as the reboot key
AnyR(read) == {k \in Range(read) : k \in {"r", "b", "report"}}
Reboots(read) == {k \in Range(read) : k \in {"r", "b"}}
Stop(read) == "s" \in Range(read)
Toggle(read) == "space" \in Range(read)

(* What rebooting leaves: reboot() or reboot_to_bootloader(), never returns.  *)
Rebooted(read) == IF "b" \in Reboots(read) THEN "Bootloader" ELSE "Reboot"

SdramTestInit ==
    /\ \E f \in Faults, m \in [Index -> SdPowerUp] : sdram = [fault |-> f, mem |-> m]
    /\ place = [phase |-> 1, done |-> 0, left |-> 0]
    /\ test = [status |-> "Waiting", pass |-> 0, led |-> TRUE, addr |-> 0]
    /\ tally = [errs |-> NoErrs, log |-> ErrLogNew]
    /\ found = [groups |-> {}, last |-> <<>>, keys |-> {}]

(* The wait for a terminal (or its time-out) and sdram::init; the keys of    *)
(* those reads are dropped, except the reboot keys.                          *)
Waiting(read) ==
    /\ test.status = "Waiting"
    /\ found' = [found EXCEPT !.keys = Reboots(read)]
    /\ IF Reboots(read) # {}
       THEN test' = [test EXCEPT !.status = Rebooted(read)] /\ UNCHANGED place
       ELSE test' = [test EXCEPT !.status = "Running", !.pass = 1] /\ place' = FirstOf(1)
    /\ UNCHANGED <<sdram, tally>>

(* One word of run_phase: read and compare, then write; a failure is counted *)
(* and logged (on_error).                                                    *)
RunWord ==
    /\ test.status = "Running" /\ place.left > 0
    /\ LET phase == SUITE[place.phase]
           i     == WordAt(phase, place.done)
           got   == CellRead(sdram.fault, sdram.mem, i)
           e     == <<i, phase.expect[i], got>>
       IN /\ sdram' = IF phase.writes
                      THEN [sdram EXCEPT !.mem = CellWritten(sdram.fault, @, i, phase.value[i])]
                      ELSE sdram
          /\ IF phase.reads /\ got # phase.expect[i]
             THEN /\ tally' = [errs |-> [tally.errs EXCEPT ![phase.group] = @ + 1],
                               log  |-> LogPush(tally.log, e)]
                  /\ found' = [groups |-> found.groups \cup {phase.group},
                               last |-> Kept(found.last, e), keys |-> {}]
             ELSE UNCHANGED tally /\ found' = [found EXCEPT !.keys = {}]
    /\ place' = [place EXCEPT !.done = @ + 1, !.left = @ - 1]
    /\ UNCHANGED test

(* The address shown: update_stats.                                          *)
Shown == IF SUITE[place.phase].ascending
         THEN (IF place.done < SdWords THEN place.done ELSE SdWords - 1)
         ELSE SdWords - place.done

(* service, after a chunk and again while paused: stop wins over pause.      *)
\* a slip: a pause wins over a stop
ServedPauseFirst(read) ==
    IF Toggle(read) THEN (IF test.status = "Paused" THEN "Running" ELSE "Paused")
    ELSE IF Stop(read) THEN "Stopped" ELSE test.status
Served(read) ==
    IF Stop(read) THEN "Stopped"
    ELSE IF Toggle(read) THEN (IF test.status = "Paused" THEN "Running" ELSE "Paused")
    ELSE test.status

AtService == test.status \in {"Running", "Paused"} /\ place.left = 0
PhaseEnds == place.done = SdWords
PassEnds == PhaseEnds /\ place.phase = Len(SUITE)

ServiceReboots(read) ==
    /\ AtService /\ Reboots(read) # {}
    /\ test' = [test EXCEPT !.status = Rebooted(read), !.addr = Shown]
    /\ found' = [found EXCEPT !.keys = Range(read)]
    /\ UNCHANGED <<sdram, place, tally>>

(* Paused, it polls on; stopped, the loop shows its verdict and is idle.     *)
ServiceHolds(read) ==
    /\ AtService /\ Reboots(read) = {} /\ Served(read) \in {"Paused", "Stopped"}
    /\ test' = [test EXCEPT !.status = Served(read), !.addr = Shown,
                            !.led = IF Served(read) = "Stopped" THEN Verdict ELSE @]
    /\ found' = [found EXCEPT !.keys = Range(read)]
    /\ UNCHANGED <<sdram, place, tally>>

(* On to the next chunk, the next phase ...                                  *)
ServiceGoesOn(read) ==
    /\ AtService /\ Reboots(read) = {} /\ Served(read) = "Running" /\ ~PassEnds
    /\ place' = IF PhaseEnds THEN FirstOf(place.phase + 1)
                ELSE [place EXCEPT !.left = ChunkAt(place.done)]
    /\ test' = [test EXCEPT !.status = "Running", !.addr = Shown]
    /\ found' = [found EXCEPT !.keys = Range(read)]
    /\ UNCHANGED <<sdram, tally>>

(* ... or the next pass.                                                     *)
PassOver(read) ==
    /\ AtService /\ Reboots(read) = {} /\ Served(read) = "Running" /\ PassEnds
    /\ test.pass < SdPasses
    /\ place' = FirstOf(1)
    /\ test' = [status |-> "Running", pass |-> test.pass + 1, led |-> Verdict, addr |-> Shown]
    /\ found' = [found EXCEPT !.keys = Range(read), !.groups = {}]
    /\ UNCHANGED <<sdram, tally>>

(* Idle: SPACE starts a new run with the counts and the log cleared.         *)
Stopped(read) ==
    /\ test.status = "Stopped" /\ (Reboots(read) # {} \/ ~Toggle(read))
    /\ test' = IF Reboots(read) # {} THEN [test EXCEPT !.status = Rebooted(read)]
               ELSE [test EXCEPT !.led = Verdict]
    /\ found' = [found EXCEPT !.keys = Reboots(read)]
    /\ UNCHANGED <<sdram, place, tally>>

Restarted(read) ==
    /\ test.status = "Stopped" /\ Reboots(read) = {} /\ Toggle(read)
    /\ place' = FirstOf(1)
    /\ test' = [test EXCEPT !.status = "Running", !.pass = 1, !.led = Verdict]
    /\ tally' = [errs |-> NoErrs, log |-> ErrLogNew]
    /\ found' = [groups |-> {}, last |-> <<>>, keys |-> {}]
    /\ UNCHANGED sdram

Service(read) ==
    ServiceReboots(read) \/ ServiceHolds(read) \/ ServiceGoesOn(read) \/ PassOver(read)

SdramTestNext ==
    \/ RunWord
    \/ \E read \in KeyReads : Waiting(read) \/ Service(read) \/ Stopped(read) \/ Restarted(read)
SdramTestSpec == SdramTestInit /\ [][SdramTestNext]_sdramVars

-----------------------------------------------------------------------------
(* Types: the address shown is in the memory, the ring within its capacity.  *)
SdramTestTypeOK ==
    /\ sdram \in [fault : Faults, mem : [Index -> SUBSET Bits]]
    /\ place \in [phase : 1..Len(SUITE), done : 0..SdWords, left : 0..SdWords]
    /\ place.done + place.left =< SdWords
    /\ test \in [status : {"Waiting", "Running", "Paused", "Stopped", "Reboot", "Bootloader"},
                 pass : Nat, led : BOOLEAN, addr : Index]
    /\ tally \in [errs : [0..5 -> Nat],
                  log : [buf : [0..(SdErrLogCap - 1) -> Failures], len : 0..SdErrLogCap,
                         head : 0..(SdErrLogCap - 1), total : Nat]]
    /\ found \in [groups : SUBSET (0..5), last : Seq(Failures),
                  keys : SUBSET (UNION {Range(read) : read \in KeyReads})]

(* Every single fault is found by March C- in every whole pass, a decoder    *)
(* fault by the own-address test too, whatever pauses and stops came before; *)
(* a sound memory is never accused.                                          *)
FaultsFound ==
    /\ sdram.fault = NoFault => found.groups = {} /\ TotalErrs(tally.errs) = 0
    /\ PassEnds /\ sdram.fault # NoFault => 5 \in found.groups
    /\ PassEnds /\ sdram.fault.kind = "alias" => 0 \in found.groups

(* A failure is reported where it is: at the failing or the coupled cell, in *)
(* the one failing bit.                                                      *)
Located(f, e) ==
    /\ e[1] \in (CASE f.kind = "alias" -> {f.cell, f.other}
                   [] f.kind \in {"forces", "inverts"} -> {f.other}
                   [] OTHER -> {f.cell})
    /\ f.kind # "alias" => \A b \in Bits : (b \in e[2] <=> b \in e[3]) <=> b # f.bit
FaultsLocated == \A k \in 1..Len(found.last) : Located(sdram.fault, found.last[k])

(* The log shows the last failures of the run, most recent first, and counts *)
(* all of them.                                                              *)
LogShowsLast ==
    /\ Recent(tally.log) = Reverse(found.last)
    /\ tally.log.total = TotalErrs(tally.errs)

(* A stop key read during a run leaves the test idle (unless it reboots),    *)
(* even with a pause in the same read, and only the lower-case reboot keys   *)
(* reset the device: a size report never does.                               *)
KeysObeyed ==
    /\ test.status \in {"Reboot", "Bootloader"} <=> found.keys \cap {"r", "b"} # {}
    /\ "s" \in found.keys => test.status \notin {"Running", "Paused"}

(* A single fault in the SDRAM is found by every whole pass, where it is and *)
(* never elsewhere, whatever keys come in between; the log and the keys do   *)
(* what they say.                                                            *)
MemoryTestSound == FaultsFound /\ FaultsLocated /\ LogShowsLast /\ KeysObeyed
=============================================================================
