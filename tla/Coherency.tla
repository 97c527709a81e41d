------------------------------ MODULE Coherency ------------------------------
(* Memory as the core and the other masters see it: the protection regions,   *)
(* the two caches that no DMA snoops, and Backup SRAM, through which the      *)
(* loader hands its clocks to the application and the application its DFU     *)
(* request to the loader. Addresses count cache lines of 32 bytes.            *)
EXTENDS Integers, Sequences, FiniteSetsExt, TLC

VARIABLES mem,    \* backing memory, caches, regions
          hand,   \* the boot: its stage, the request, the clocks
          exer    \* an exerciser: its place in its program and its markers

-----------------------------------------------------------------------------
(* The core's side of memory (external).                                      *)
Backup == \h1C40000
Pool == \h1800000
Sdram == \h6000000
Axi == \h1200000
Dtcm == \h1000000
Flash == \h0400000
Ppb == \h7000000
Xip == \h4800000

Places == {"magic", "sys_ck", "clocks", "request", "pool", "src", "sink", "sdram", "exec3", "exec4"}
At == [c \in Places |->
         CASE c \in {"magic", "sys_ck", "clocks"} -> Backup
           [] c = "request" -> Backup + 127       \* 0xFFC
           [] c = "pool" -> Pool [] c = "src" -> Pool + 2 [] c = "sink" -> Pool + 4
           [] c = "sdram" -> Sdram [] c = "exec3" -> Axi [] c = "exec4" -> Axi + 1]

\* A region of 2^log2 bytes; srd names the eighths it leaves out.
Region(base, log2, kind, ap, srd) ==
  [base |-> base, lines |-> 2^(log2 - 5), kind |-> kind, ap |-> ap, srd |-> srd]
Hits(m, a) ==
  {n \in DOMAIN m.regions :
     LET r == m.regions[n] IN
       /\ a \in r.base..(r.base + r.lines - 1)
       /\ ((a - r.base) * 8) \div r.lines \notin r.srd}
DefaultKind(a) ==
  LET eighth == a \div \h1000000
  IN  CASE eighth \in {0, 4} -> "through" [] eighth \in {1, 3} -> "back" [] OTHER -> "device"
\* a slip: the first region that matches decides
LowestHit(m, a) == Min(Hits(m, a))
DecidingHit(m, a) == Max(Hits(m, a))
Kind(m, a) ==
  IF m.mpu /\ Hits(m, a) # {} THEN m.regions[DecidingHit(m, a)].kind ELSE DefaultKind(a)
Permits(m, a, mode) ==
  \/ ~m.mpu
  \/ Hits(m, a) = {} /\ m.background
  \/ Hits(m, a) # {} /\ LET ap == m.regions[DecidingHit(m, a)].ap
                        IN  ap = "full" \/ (ap = "read-only" /\ mode = "read")

\* A line of the data cache is <<value, dirty>>.
NoLine == <<>>
Cached(m, c) == m.dcache /\ Kind(m, At[c]) \in {"back", "through"}
Seen(m, c) == IF Cached(m, c) /\ m.d[c] # NoLine THEN m.d[c][1] ELSE m.ram[c]
Loaded(m, c) == IF Cached(m, c) /\ m.d[c] = NoLine THEN [m EXCEPT !.d[c] = <<m.ram[c], FALSE>>] ELSE m
StoredTo(m, c, v) ==
  IF Cached(m, c) /\ Kind(m, At[c]) = "back" THEN [m EXCEPT !.d[c] = <<v, TRUE>>]
  ELSE [m EXCEPT !.ram[c] = v, !.d[c] = IF Cached(m, c) /\ @ # NoLine THEN <<v, FALSE>> ELSE @]
Cleaned(m, c) ==
  IF m.d[c] # NoLine /\ m.d[c][2] THEN [m EXCEPT !.ram[c] = m.d[c][1], !.d[c] = <<m.d[c][1], FALSE>>] ELSE m
Invalidated(m, c) == [m EXCEPT !.d[c] = NoLine]
Fetched(m, c) == IF m.i[c] = NoLine THEN [m EXCEPT !.i[c] = <<m.ram[c]>>] ELSE m

\* Lines come and go on their own: a speculative fill, an eviction.
CacheMoves(m, data, code) ==
  UNION ({{Loaded(m, c), Invalidated(Cleaned(m, c), c)} : c \in {x \in data : Cached(m, x)}}
         \cup {{Fetched(m, c), [m EXCEPT !.i[c] = NoLine]} : c \in code})

MemNew(ram) ==
  [ram |-> ram, d |-> [c \in Places |-> NoLine], i |-> [c \in Places |-> NoLine], dcache |-> FALSE,
   mpu |-> FALSE, background |-> FALSE, regions |-> <<>>]
Nonsense == [c \in Places |-> "nonsense"]

-----------------------------------------------------------------------------
(* Backup SRAM across boots. The loader and the application are each built    *)
(* with one version of the HAL, which decides how CoreClocks is laid out:     *)
(* three of its fields stand for the rest. An application of hal2 has sys_ck  *)
(* where hal1 has hclk, and one of hal1 or hal3 has it where hal2 has hclk;   *)
(* hal1 and hal3 have it in one place and differ in the others; and hal2 has  *)
(* it where hal3 has c_ck, whose frequency is the same.                       *)
Layout == [hal1 |-> <<"hclk", "sys_ck", "c_ck">>, hal2 |-> <<"sys_ck", "hclk", "c_ck">>,
           hal3 |-> <<"c_ck", "sys_ck", "hclk">>]
Versions == DOMAIN Layout
Images == {"app", "sdram_test"}
Guards == {"magic", "sys_ck", "clocks"}
HandedOver == Guards \cup {"request"}
Watched == HandedOver \cup {"pool", "sdram"}

\* configure_mpu_and_caches: the memory test keeps the SDRAM out of the cache.
\* a slip: the memory test takes the regions of the other applications
RegionsAlike(image) ==
  <<Region(Pool, 15, "uncached", "full", {}), Region(Sdram, 26, "back", "full", {}),
    Region(Backup, 12, "uncached", "full", {}), Region(Xip, 23, "through", "full", {})>>
\* a slip: Backup SRAM is left to the default map
RegionsWithoutBackup(image) ==
  <<Region(Pool, 15, "uncached", "full", {}),
    Region(Sdram, 26, IF image = "sdram_test" THEN "uncached" ELSE "back", "full", {}),
    Region(Xip, 23, "through", "full", {})>>
RegionsOf(image) ==
  <<Region(Pool, 15, "uncached", "full", {}),
    Region(Sdram, 26, IF image = "sdram_test" THEN "uncached" ELSE "back", "full", {}),
    Region(Backup, 12, "uncached", "full", {}),
    Region(Xip, 23, "through", "full", {})>>

HandInit ==
  \E rev \in {"400", "480"} :
    hand = [stage |-> "freeze", rev |-> rev, loader |-> "hal1", app |-> "hal1", image |-> "app",
            stashed |-> {}, asked |-> FALSE, owed |-> FALSE, took |-> FALSE, clocks |-> <<>>]

HandGo(from, to) == hand.stage = from /\ hand' = [hand EXCEPT !.stage = to]

\* clocks::init, by a loader and ahead of an application flashed since.
FreezeClocks ==
  /\ hand.stage = "freeze"
  /\ \E l \in Versions, a \in Versions, i \in Images :
       hand' = [hand EXCEPT !.stage = "stash", !.loader = l, !.app = a, !.image = i, !.stashed = {}, !.clocks = <<>>]
  /\ UNCHANGED mem

\* stash: the words of the struct, in the compiler's order.
Stash ==
  /\ hand.stage = "stash"
  /\ \E c \in Guards \ hand.stashed :
       /\ mem' = StoredTo(mem, c, CASE c = "magic" -> "MAGIC" [] c = "sys_ck" -> hand.rev
                                  [] OTHER -> hand.loader)
       /\ hand' = [hand EXCEPT !.stashed = @ \cup {c},
                               !.stage = IF hand.stashed \cup {c} = Guards THEN "take" ELSE @]

\* take_dfu_request: the read, then the write that consumes it.
TakeRequest ==
  /\ hand.stage = "take"
  /\ LET requested == Seen(mem, "request") = "DFU"
     IN  hand' = [hand EXCEPT !.took = requested, !.owed = hand.asked, !.stage = IF requested THEN "clear" ELSE "jump"]
  /\ UNCHANGED mem
ClearRequest ==
  /\ hand.stage = "clear"
  /\ hand' = [hand EXCEPT !.stage = "service", !.asked = FALSE]
  /\ mem' = StoredTo(mem, "request", "none")

ConfigureMpu ==
  /\ HandGo("jump", "caches")
  /\ mem' = [mem EXCEPT !.mpu = TRUE, !.background = TRUE, !.regions = RegionsOf(hand.image)]
EnableCaches ==
  /\ HandGo("caches", IF hand.image = "sdram_test" THEN "run" ELSE "restore")
  /\ mem' = [mem EXCEPT !.dcache = TRUE]

\* The field the writer's layout has where the application's has sys_ck, and
\* what sys_ck() makes of it: the core's clock runs at the system's, the buses' at half.
FieldRead(writer) ==
  LET place == CHOOSE k \in 1..3 : Layout[hand.app][k] = "sys_ck" IN Layout[writer][place]
SysCkOf(writer) ==
  IF writer \in Versions /\ FieldRead(writer) \in {"sys_ck", "c_ck"} THEN hand.rev ELSE "another frequency"
\* a slip: the magic word alone is believed
BelievesMagic == Seen(mem, "magic") = "MAGIC"
Believes == Seen(mem, "magic") = "MAGIC" /\ SysCkOf(Seen(mem, "clocks")) = Seen(mem, "sys_ck")
Restore ==
  /\ hand.stage = "restore"
  /\ hand' = [hand EXCEPT !.stage = IF Believes THEN "run" ELSE "no clocks",
                          !.clocks = IF Believes THEN <<Seen(mem, "clocks"), Seen(mem, "sys_ck")>> ELSE <<>>]
  /\ mem' = Loaded(Loaded(Loaded(mem, "magic"), "sys_ck"), "clocks")

\* The running application, its DMA, and a cell of the SDRAM that flips.
Compute == hand.stage = "run" /\ mem' \in {StoredTo(mem, "pool", "cpu"), StoredTo(mem, "sdram", "cpu")} /\ UNCHANGED hand
OtherMaster == hand.stage = "run" /\ \E c \in {"pool", "sdram"} : mem' = [mem EXCEPT !.ram[c] = "dma"] /\ UNCHANGED hand
RequestDfu ==
  /\ hand.stage = "run"
  /\ hand' = [hand EXCEPT !.asked = TRUE, !.stage = "reboot"]
  /\ mem' = StoredTo(mem, "request", "DFU")

\* sys_reset, the button, the loader's manifestation: the caches forget, RAM does not.
ResetMcu ==
  /\ hand' = [hand EXCEPT !.stage = "freeze"]
  /\ mem' = MemNew(mem.ram)
LosePower ==
  /\ hand' = [hand EXCEPT !.stage = "freeze", !.asked = FALSE]
  /\ mem' = MemNew(Nonsense)
CacheAlone == mem' \in CacheMoves(mem, Watched, {}) /\ UNCHANGED hand

HandNext ==
  /\ \/ FreezeClocks \/ Stash \/ TakeRequest \/ ClearRequest \/ ConfigureMpu \/ EnableCaches
     \/ Restore \/ Compute \/ OtherMaster \/ RequestDfu \/ ResetMcu \/ LosePower \/ CacheAlone
  /\ UNCHANGED exer

-----------------------------------------------------------------------------
(* The exercisers: straight programs over the same memory, one operation a    *)
(* step, with the caches free to move lines in between.                       *)
Op(do, at, what) == [do |-> do, at |-> at, what |-> what]
InvalidateAndRead(c, marker) == <<Op("invalidate", c, ""), Op("load", c, marker)>>
\* a slip: what was filled stays in the cache
FillOnly(c, v) == <<Op("store", c, v)>>
FillAndClean(c, v) == <<Op("store", c, v), Op("clean", c, "")>>

\* dma-cache-exerciser: each phase without and with its maintenance.
DmaProgram ==
  FillAndClean("src", "sanity") \o <<Op("copy", "src", "sink")>> \o InvalidateAndRead("sink", "dma_ok")
  \o FillAndClean("src", "p1 new") \o FillAndClean("pool", "p1 old")
  \o <<Op("load", "pool", ""), Op("copy", "src", "pool"), Op("load", "pool", "stale_buggy")>>
  \o FillAndClean("src", "p1 new") \o FillAndClean("pool", "p1 old")
  \o <<Op("load", "pool", ""), Op("copy", "src", "pool")>> \o InvalidateAndRead("pool", "stale_correct")
  \o FillAndClean("pool", "p2 base") \o <<Op("store", "pool", "p2 dirty"), Op("copy", "pool", "sink")>>
  \o InvalidateAndRead("sink", "dirty_buggy")
  \o FillAndClean("pool", "p2 base") \o <<Op("store", "pool", "p2 dirty"), Op("clean", "pool", ""), Op("copy", "pool", "sink")>>
  \o InvalidateAndRead("sink", "dirty_correct")

\* cache-coherency-exerciser: the harness writes and reads as the other master.
When(fix, ops) == IF fix THEN ops ELSE <<>>
CoherenceProgram(fix1, fix2, fixi) ==
  <<Op("load", "pool", ""), Op("foreign write", "pool", "injected")>>
  \o When(fix1, <<Op("invalidate", "pool", "")>>) \o <<Op("load", "pool", "result"), Op("store", "pool", "cafe babe")>>
  \o When(fix2, <<Op("clean", "pool", "")>>) \o <<Op("foreign read", "pool", "observed"), Op("store", "exec3", "code 3")>>
  \o When(fixi, <<Op("clean", "exec3", ""), Op("flush code", "exec3", "")>>)
  \o <<Op("call", "exec3", "ran3"), Op("store", "exec4", "code 4"), Op("clean", "exec4", ""), Op("flush code", "exec4", ""),
       Op("call", "exec4", "ran4"), Op("store", "exec4", "code 4 again"), Op("clean", "exec4", "")>>
  \o When(fixi, <<Op("flush code", "exec4", "")>>) \o <<Op("call", "exec4", "ran4 again")>>

\* mpu-exerciser: begin, the regions, the control word, one access and its marker.
Begin == Op("begin", "", "")
Program(n, r) == Op("program", n, r)
ControlWord(enable, background) == Op("control", enable, background)
Access(mode, a, marker) == Op(mode, a, marker)
Small(ap) == Region(Axi, 5, "back", ap, {})
Infrastructure ==
  <<Program(0, Region(Flash, 20, "through", "full", {})), Program(1, Region(Dtcm, 17, "back", "full", {})),
    Program(2, Region(Ppb, 20, "device", "full", {}))>>
SubTest(regions, enable, background, accesses) == <<Begin>> \o regions \o <<ControlWord(enable, background)>> \o accesses
MpuProgram ==
  SubTest(<<Program(0, Small("none"))>>, TRUE, TRUE, <<Access("read", Axi, "T1")>>)
  \o SubTest(<<Program(0, Small("read-only"))>>, TRUE, TRUE, <<Access("write", Axi, "T2")>>)
  \o SubTest(<<Program(0, Small("read-only"))>>, TRUE, TRUE, <<Access("read", Axi, "T3")>>)
  \o SubTest(<<Program(0, Small("none")), Program(1, Small("full"))>>, TRUE, TRUE, <<Access("read", Axi, "T4")>>)
  \o SubTest(<<Program(0, Region(Axi, 8, "back", "none", {0}))>>, TRUE, TRUE,
             <<Access("read", Axi, "T5 off"), Access("read", Axi + 1, "T5 on")>>)
  \o SubTest(Infrastructure, TRUE, FALSE, <<Access("read", Axi, "T6")>>)
  \o SubTest(Infrastructure, TRUE, TRUE, <<Access("read", Axi, "T7")>>)
  \o SubTest(<<Program(0, Small("none"))>>, FALSE, FALSE, <<Access("read", Axi, "T8")>>)

ExerInit ==
  \E name \in {"dma", "coherence", "mpu"}, fix \in [{1, 2, 3} -> BOOLEAN] :
    /\ name # "coherence" => \A k \in 1..3 : fix[k]
    /\ exer = [name |-> name, fix |-> fix, pc |-> 1, marks |-> <<>>, fault |-> FALSE, alive |-> TRUE]
ProgramOf(e) ==
  CASE e.name = "dma" -> DmaProgram [] e.name = "mpu" -> MpuProgram
    [] OTHER -> CoherenceProgram(e.fix[1], e.fix[2], e.fix[3])

\* The core goes on, and can take a fault, while code, stack and system space answer.
Lives(m) == Permits(m, Flash, "read") /\ Permits(m, Dtcm, "write") /\ Permits(m, Ppb, "write")

\* What an operation does to memory, and what its marker records.
MemAfter(m, op) ==
  CASE op.do = "store" -> StoredTo(m, op.at, op.what)
    [] op.do = "load" -> Loaded(m, op.at)
    [] op.do = "clean" -> Cleaned(m, op.at)
    [] op.do = "invalidate" -> Invalidated(m, op.at)
    [] op.do = "copy" -> [m EXCEPT !.ram[op.what] = m.ram[op.at]]
    [] op.do = "foreign write" -> [m EXCEPT !.ram[op.at] = op.what]
    [] op.do = "flush code" -> [m EXCEPT !.i = [c \in Places |-> NoLine]]
    [] op.do = "call" -> Fetched(m, op.at)
    [] op.do = "begin" -> [m EXCEPT !.mpu = FALSE, !.regions = <<>>]
    [] op.do = "program" -> [m EXCEPT !.regions = (op.at :> op.what) @@ @]
    [] op.do = "control" -> [m EXCEPT !.mpu = op.at, !.background = op.what]
    [] op.do \in {"read", "write"} -> IF Permits(m, op.at, op.do) THEN m ELSE [m EXCEPT !.mpu = FALSE]
    [] OTHER -> m
Observed(m, op) ==
  CASE op.do = "load" -> Seen(m, op.at)
    [] op.do = "foreign read" -> m.ram[op.at]
    [] op.do = "call" -> Fetched(m, op.at).i[op.at][1]
    [] OTHER -> exer.fault \/ ~Permits(m, op.at, op.do)
Marks(op) == op.do \in {"load", "foreign read", "call", "read", "write"} /\ op.what # ""

ExerStep ==
  /\ exer.pc <= Len(ProgramOf(exer))
  /\ LET op == ProgramOf(exer)[exer.pc]
     IN  /\ mem' = MemAfter(mem, op)
         /\ exer' = [exer EXCEPT !.pc = @ + 1, !.alive = @ /\ Lives(mem'),
                       !.fault = IF op.do = "begin" THEN FALSE
                                 ELSE @ \/ (op.do \in {"read", "write"} /\ Observed(mem, op)),
                       !.marks = IF Marks(op) THEN (op.what :> Observed(mem, op)) @@ @ ELSE @]
\* The lines each exerciser has a use for.
Code == IF exer.name = "coherence" THEN {"exec3", "exec4"} ELSE {}
Buffers == IF exer.name = "dma" THEN {"pool", "src", "sink"} ELSE {"pool"} \cup Code
CachesMove ==
  /\ exer.name # "mpu" /\ exer.pc <= Len(ProgramOf(exer))
  /\ mem' \in CacheMoves(mem, Buffers, Code)
  /\ UNCHANGED exer
ExerNext == (ExerStep \/ CachesMove) /\ UNCHANGED hand

\* The exercisers run with the data cache on, or are judged as if it were.
MemInit(exercising) == mem = [MemNew(Nonsense) EXCEPT !.dcache = exercising]
coherencyVars == <<mem, hand, exer>>

-----------------------------------------------------------------------------
CoherencyTypeOK ==
  /\ mem.dcache \in BOOLEAN /\ mem.mpu \in BOOLEAN
  /\ \A c \in Places : mem.d[c] = NoLine \/ mem.d[c][2] \in BOOLEAN
  /\ hand.stashed \subseteq Guards /\ exer.pc \in Nat

\* A DFU request reaches the next loader, once, whatever was cached when the board
\* was reset; an application that gets clocks gets the ones frozen in this boot,
\* whole, and finds the system's frequency where its own layout has sys_ck; one
\* that gets none was refused for another frequency in that place, never for stale
\* or torn words, so that an application built with the loader's HAL is served.
HandoffKept ==
  /\ hand.stage \in {"clear", "service", "jump", "caches", "restore", "run"} => hand.took = hand.owed
  /\ hand.stage = "no clocks" => SysCkOf(hand.loader) # hand.rev
  /\ hand.clocks # <<>> => hand.clocks = <<hand.loader, hand.rev>> /\ SysCkOf(hand.loader) = hand.rev

\* clocks.rs:104-105 and 157-158 promise more: on any mismatch of the layouts the
\* application gets no clocks.
LayoutsAgree == hand.clocks # <<>> => hand.loader = hand.app

\* Core and DMA see one memory where they share it: in Backup SRAM, in the DMA
\* pool, and in the memory test's SDRAM, whose cells a cache would hide.
OneMemory ==
  \A c \in HandedOver \cup {"pool"} \cup (IF hand.image = "sdram_test" THEN {"sdram"} ELSE {}) :
    hand.stage \in {"restore", "no clocks", "run", "reboot"} => Seen(mem, c) = mem.ram[c]

\* The exercisers end with the markers their tests expect, wherever lines moved.
Expect(e, marker, v) == marker \in DOMAIN e.marks => e.marks[marker] = v
MarkersExpected ==
  /\ exer.alive
  /\ exer.name = "dma" =>
       Expect(exer, "dma_ok", "sanity") /\ Expect(exer, "stale_correct", "p1 new") /\ Expect(exer, "dirty_correct", "p2 dirty")
  /\ exer.name = "coherence" =>
       /\ exer.fix[1] => Expect(exer, "result", "injected")
       /\ exer.fix[2] => Expect(exer, "observed", "cafe babe")
       /\ exer.fix[3] => Expect(exer, "ran3", "code 3") /\ Expect(exer, "ran4 again", "code 4 again")
       /\ Expect(exer, "ran4", "code 4")
  /\ exer.name = "mpu" =>
       /\ \A t \in {"T1", "T2", "T5 on", "T6"} : Expect(exer, t, TRUE)
       /\ \A t \in {"T3", "T4", "T5 off", "T7", "T8"} : Expect(exer, t, FALSE)
=============================================================================
