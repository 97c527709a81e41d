----------------------------- MODULE CacheChecker -----------------------------
(* The emulator's cache-coherency checker (CacheCoherencyChecker.cs) beside    *)
(* the caches it stands for: three flags per data line and three per code line *)
(* against the memory of Coherency, over one line of each, for any program of  *)
(* reads, writes, DMA, maintenance and jumps into written code.                *)
EXTENDS Coherency

VARIABLES chk,    \* the checker: its flags, whether it believes the D-cache on, its reports
          judge   \* what each line should hold, and how the program has been served

checkerVars == <<chk, judge>>

Data == "pool"
Routine == "exec3"
Lines == {Data, Routine}

Untouched == [cached |-> FALSE, dirty |-> FALSE, stale |-> FALSE]
Uncoded == [dirty |-> FALSE, icached |-> FALSE, istale |-> FALSE]
CheckerReset == [line |-> Untouched, exec |-> Uncoded, on |-> TRUE, reports |-> {}]
Tell(k, kind) == [k EXCEPT !.reports = @ \cup {kind}]

-----------------------------------------------------------------------------
(* The checker's handlers.                                                    *)
OnRead(k, cpu) ==
  CASE ~k.on -> k
    [] k.on /\ cpu -> [(IF k.line.stale THEN Tell(k, "stale read") ELSE k)
                        EXCEPT !.line.cached = TRUE, !.line.stale = FALSE]
    [] OTHER -> IF k.line.dirty THEN Tell(k, "dirty dma read") ELSE k
\* a slip: a line that was only ever written is not taken for cached
OnWriteUncached(k, cpu) ==
  CASE ~k.on -> k
    [] k.on /\ cpu -> [k EXCEPT !.line.dirty = TRUE, !.line.stale = FALSE]
    [] OTHER -> [k EXCEPT !.line.stale = @ \/ k.line.cached]
OnWrite(k, cpu) ==
  CASE ~k.on -> k
    [] k.on /\ cpu -> [k EXCEPT !.line = [cached |-> TRUE, dirty |-> TRUE, stale |-> FALSE]]
    [] OTHER -> [k EXCEPT !.line.stale = @ \/ k.line.cached]
\* a slip: the mark of a foreign write outlives the invalidation
InvalidateLineStale(k) == [k EXCEPT !.line.cached = FALSE]
InvalidateLine(k) == [k EXCEPT !.line.cached = FALSE, !.line.stale = FALSE]
CleanLine(k) == [k EXCEPT !.line.dirty = FALSE]
CleanExec(k) == [k EXCEPT !.exec.dirty = FALSE]
OnCodeWrite(k) == [k EXCEPT !.exec.dirty = TRUE, !.exec.istale = @ \/ k.exec.icached]
\* a slip: only code that was never cleaned is reported
OnExecuteCodeDirty(k) ==
  [(IF k.exec.dirty THEN Tell(k, "stale fetch") ELSE k) EXCEPT !.exec = [dirty |-> FALSE, icached |-> TRUE, istale |-> FALSE]]
OnExecuteCode(k) ==
  [(IF k.exec.dirty \/ k.exec.istale THEN Tell(k, "stale fetch") ELSE k)
    EXCEPT !.exec = [dirty |-> FALSE, icached |-> TRUE, istale |-> FALSE]]
InvalidateICacheLine(k) == [k EXCEPT !.exec.icached = FALSE, !.exec.istale = FALSE]
OnCcr(k, on) == [k EXCEPT !.on = on]

-----------------------------------------------------------------------------
(* A program under test goes on until the checker reports or it breaks the    *)
(* checker's premise: that no line is dirty when another master writes it or  *)
(* when it is dropped.                                                        *)
Unreported == chk.reports = {} /\ ~judge.misused
DirtyIn(m, c) == m.d[c] # NoLine /\ m.d[c][2]
\* A value no copy of the line holds.
NewValue(c) ==
  CHOOSE v \in {"v1", "v2", "v3", "v4"} : v \notin {mem.ram[c], judge.latest[c]} \cup {Head(l) : l \in {mem.d[c], mem.i[c]} \ {NoLine}}

Reads(c, m, k, value) ==
  /\ Unreported /\ mem' = m /\ chk' = k
  /\ judge' = [judge EXCEPT !.wrong = value # judge.latest[c],
                            !.alarm = k.reports # {} /\ value = judge.latest[c] /\ ~judge.unseen]
Writes(c, m, k, foreign) ==
  /\ Unreported /\ mem' = m /\ chk' = k
  /\ judge' = [judge EXCEPT !.latest[c] = NewValue(c), !.misused = foreign /\ DirtyIn(mem, c),
                            !.unseen = @ \/ (c = Routine /\ (foreign \/ ~mem.dcache))]
\* drops: lines whose dirty contents are given up; unseen: nothing the checker is told.
Maintains(m, k, drops, unseen) ==
  /\ Unreported /\ mem' = m /\ chk' = k
  /\ judge' = [judge EXCEPT !.misused = \E c \in drops : DirtyIn(mem, c), !.unseen = @ \/ unseen]

CpuReads == Reads(Data, Loaded(mem, Data), OnRead(chk, TRUE), Seen(mem, Data))
CpuWrites == Writes(Data, StoredTo(mem, Data, NewValue(Data)), OnWrite(chk, TRUE), FALSE)
DmaReads == Reads(Data, mem, OnRead(chk, FALSE), mem.ram[Data])
DmaWrites == Writes(Data, [mem EXCEPT !.ram[Data] = NewValue(Data)], OnWrite(chk, FALSE), TRUE)
\* Every write of code counts as a cached one, the DMA's and those past the cache too.
WritesCode == Writes(Routine, StoredTo(mem, Routine, NewValue(Routine)), OnCodeWrite(chk), FALSE)
LoadsCode == Writes(Routine, [mem EXCEPT !.ram[Routine] = NewValue(Routine)], OnCodeWrite(chk), TRUE)
Jumps == Reads(Routine, Fetched(mem, Routine), OnExecuteCode(chk), Fetched(mem, Routine).i[Routine][1])

Dcimvac == Maintains(Invalidated(mem, Data), InvalidateLine(chk), {Data}, FALSE)
Dccmvac == Maintains(Cleaned(mem, Data), CleanLine(chk), {}, FALSE)
Dccimvac == Maintains(Invalidated(Cleaned(mem, Data), Data), CleanLine(InvalidateLine(chk)), {}, FALSE)
Dccmvau == Maintains(Cleaned(mem, Routine), CleanExec(chk), {}, FALSE)
Iciallu == Maintains([mem EXCEPT !.i[Routine] = NoLine], InvalidateICacheLine(chk), {}, FALSE)
\* By set and way, the loops of the boot: every line.
Dcisw == Maintains(Invalidated(Invalidated(mem, Data), Routine), InvalidateLine(chk), Lines, FALSE)
Dccsw == Maintains(Cleaned(Cleaned(mem, Data), Routine), CleanExec(CleanLine(chk)), {}, FALSE)
AllCleaned(m) == Invalidated(Cleaned(Invalidated(Cleaned(m, Data), Data), Routine), Routine)
Dccisw == Maintains(AllCleaned(mem), CleanExec(CleanLine(InvalidateLine(chk))), {}, FALSE)
\* The core's own sequences: off, then clean and drop; drop, then on.
CacheOff ==
  /\ chk.on
  /\ Maintains(AllCleaned([mem EXCEPT !.dcache = FALSE]), CleanExec(CleanLine(InvalidateLine(OnCcr(chk, FALSE)))), {}, FALSE)
CacheOn ==
  /\ ~mem.dcache
  /\ Maintains([mem EXCEPT !.dcache = TRUE], OnCcr(InvalidateLine(chk), TRUE), {}, FALSE)

\* What the checker cannot see: a line evicted, and code cleaned by DCCMVAC.
LineLeaves ==
  \E c \in Lines :
    \/ Maintains(Invalidated(Cleaned(mem, c), c), chk, {}, TRUE)
    \/ Maintains([mem EXCEPT !.i[c] = NoLine], chk, {}, TRUE)
CleansCode == Maintains(Cleaned(mem, Routine), chk, {}, TRUE)
\* A machine reset; the core's cache is off until the firmware turns it on, which
\* the checker takes for granted.
ResetMachine ==
  /\ mem' = MemNew(mem.ram) /\ chk' = CheckerReset
  /\ judge' = [latest |-> [c \in Lines |-> mem.ram[c]], wrong |-> FALSE, alarm |-> FALSE, misused |-> FALSE, unseen |-> TRUE]

CheckerInit ==
  /\ chk = CheckerReset
  /\ judge = [latest |-> [c \in Lines |-> mem.ram[c]], wrong |-> FALSE, alarm |-> FALSE, misused |-> FALSE, unseen |-> FALSE]
CheckerNext ==
  /\ \/ CpuReads \/ CpuWrites \/ DmaReads \/ DmaWrites \/ WritesCode \/ LoadsCode \/ Jumps
     \/ Dcimvac \/ Dccmvac \/ Dccimvac \/ Dccmvau \/ Iciallu \/ Dcisw \/ Dccsw \/ Dccisw
     \/ CacheOff \/ CacheOn \/ LineLeaves \/ CleansCode \/ ResetMachine
  /\ UNCHANGED <<hand, exer>>

-----------------------------------------------------------------------------
\* A program the checker passes would have read, fetched and sent the newest data
\* on silicon, whatever lines were evicted; and what it reports did go wrong,
\* unless the cache had let go of the line unseen.
CheckerTells == (judge.wrong => chk.reports # {}) /\ ~judge.alarm
=============================================================================
