---------------------------- MODULE Sdram_proofs ----------------------------
(* Proofs about the SDRAM memory test, for a memory of any size with words of *)
(* any width, any power-up contents and any single fault.                     *)
EXTENDS SdramTest, SequenceTheorems, TLAPS

(* What is needed of the constants.                                           *)
LEMMA Sizes ==
  /\ SdWords \in Nat /\ SdWords > 0 /\ SdChunk \in Nat /\ SdChunk > 0
  /\ SdErrLogCap \in Nat /\ SdErrLogCap > 0 /\ SdPasses \in Nat
  /\ Index = 0 .. SdWords - 1 /\ Bits = 0 .. SdWidth - 1 /\ 0 \in Bits /\ 0 \in Index
BY SdramAssumption DEF Index, Bits

-----------------------------------------------------------------------------
(* The suite.                                                                 *)
Row == [group : 0 .. 5, ascending : BOOLEAN, reads : BOOLEAN, expect : [Index -> SUBSET Bits],
        writes : BOOLEAN, value : [Index -> SUBSET Bits]]

LEMMA Values ==
  /\ v_zero \in [Index -> SUBSET Bits] /\ v_ones \in [Index -> SUBSET Bits]
  /\ v_aaaa \in [Index -> SUBSET Bits] /\ v_5555 \in [Index -> SUBSET Bits]
  /\ v_own \in [Index -> SUBSET Bits]
<1>1. v_zero \in [Index -> SUBSET Bits] /\ v_ones \in [Index -> SUBSET Bits] BY DEF v_zero, v_ones
<1>2. v_aaaa \in [Index -> SUBSET Bits] /\ v_5555 \in [Index -> SUBSET Bits] BY DEF v_aaaa, v_5555
<1>3. v_own \in [Index -> SUBSET Bits] BY Zenon DEF v_own
<1> QED BY <1>1, <1>2, <1>3

LEMMA SuiteRows ==
  /\ Len(SUITE) = 16
  /\ SUITE[1] = Write(0, v_own) /\ SUITE[2] = Verify(0, v_own)
  /\ SUITE[3] = Write(1, v_zero) /\ SUITE[4] = Verify(1, v_zero)
  /\ SUITE[5] = Write(2, v_ones) /\ SUITE[6] = Verify(2, v_ones)
  /\ SUITE[7] = Write(3, v_aaaa) /\ SUITE[8] = Verify(3, v_aaaa)
  /\ SUITE[9] = Write(4, v_5555) /\ SUITE[10] = Verify(4, v_5555)
  /\ SUITE[11] = Write(5, v_zero)
  /\ SUITE[12] = March(TRUE, v_zero, v_ones) /\ SUITE[13] = March(TRUE, v_ones, v_zero)
  /\ SUITE[14] = March(FALSE, v_zero, v_ones) /\ SUITE[15] = March(FALSE, v_ones, v_zero)
  /\ SUITE[16] = Phase(5, FALSE, TRUE, v_zero, FALSE, v_zero)
BY DEF SUITE

(* Each phase reads or writes, reads what the phase before left, and one that *)
(* does not write leaves what it reads.                                       *)
LEMMA SuiteShape ==
  /\ \A p \in 1 .. 16 : /\ SUITE[p] \in Row
                        /\ SUITE[p].reads \/ SUITE[p].writes
                        /\ ~SUITE[p].writes => SUITE[p].value = SUITE[p].expect
  /\ \A p \in 1 .. 15 : SUITE[p + 1].reads => SUITE[p + 1].expect = SUITE[p].value
<1> DEFINE V == [Index -> SUBSET Bits]
           Fits(row) == /\ row \in Row
                        /\ row.reads \/ row.writes
                        /\ ~row.writes => row.value = row.expect
<1>1. \A g \in 0 .. 5, v \in V : Fits(Write(g, v)) /\ Fits(Verify(g, v))
  BY DEF Row, Phase, Write, Verify
<1>2. \A a \in BOOLEAN, v, w \in V : Fits(March(a, v, w)) /\ Fits(Phase(5, a, TRUE, v, FALSE, v))
  BY DEF Row, Phase, March
<1>3. Fits(SUITE[1]) /\ Fits(SUITE[2]) /\ Fits(SUITE[3]) /\ Fits(SUITE[4]) /\ Fits(SUITE[5]) /\ Fits(SUITE[6])
  <2> HIDE DEF Fits
  <2> QED BY <1>1, Values, SuiteRows
<1>4. Fits(SUITE[7]) /\ Fits(SUITE[8]) /\ Fits(SUITE[9]) /\ Fits(SUITE[10]) /\ Fits(SUITE[11])
  <2> HIDE DEF Fits
  <2> QED BY <1>1, Values, SuiteRows
<1>5. Fits(SUITE[12]) /\ Fits(SUITE[13]) /\ Fits(SUITE[14]) /\ Fits(SUITE[15]) /\ Fits(SUITE[16])
  <2> HIDE DEF Fits
  <2> QED BY <1>2, Values, SuiteRows
<1>6. \A p \in 1 .. 16 : Fits(SUITE[p])
  <2> HIDE DEF Fits
  <2> QED BY <1>3, <1>4, <1>5
<1>7. \A p \in 1 .. 15 : SUITE[p + 1].reads => SUITE[p + 1].expect = SUITE[p].value
  BY SuiteRows DEF Phase, Write, Verify, March
<1> QED BY <1>6, <1>7

(* March C-: the elements alternate between writing ones and zeros, each      *)
(* reading first what the last one wrote, the first two upwards.              *)
LEMMA MarchRows ==
  /\ SUITE[11].writes /\ \A j \in Index, b \in Bits : b \notin SUITE[11].value[j]
  /\ \A p \in 12 .. 16 : /\ SUITE[p].group = 5 /\ SUITE[p].reads
                         /\ SUITE[p].ascending <=> p < 14
                         /\ SUITE[p].writes <=> p < 16
                         /\ \A j \in Index, b \in Bits : b \in SUITE[p].expect[j] <=> p \in {13, 15}
                         /\ \A j \in Index, b \in Bits : b \in SUITE[p].value[j] <=> p \in {12, 14}
<1>1. \A j \in Index, b \in Bits : b \notin v_zero[j] /\ b \in v_ones[j] BY DEF v_zero, v_ones
<1> QED BY <1>1, SuiteRows DEF Phase, Write, March

(* The own-address test: every word holds its address, and is read back.      *)
LEMMA OwnRows ==
  /\ SUITE[1].writes /\ ~SUITE[1].reads /\ SUITE[1].ascending /\ SUITE[1].value = v_own
  /\ SUITE[2].reads /\ ~SUITE[2].writes /\ SUITE[2].ascending /\ SUITE[2].expect = v_own
  /\ SUITE[2].group = 0
BY SuiteRows DEF Phase, Write, Verify

-----------------------------------------------------------------------------
(* The invariant.  A phase p is past a word once run_phase has handled it in  *)
(* this pass.                                                                 *)
Passed(i) == IF SUITE[place.phase].ascending THEN i < place.done ELSE SdWords - place.done =< i
Past(p, i) == place.phase > p \/ (place.phase = p /\ Passed(i))

(* The words a fault may spoil.                                               *)
Suspects(f) == CASE f.kind = "none" -> {}
                 [] f.kind = "alias" -> {f.cell, f.other}
                 [] f.kind \in {"forces", "inverts"} -> {f.other}
                 [] OTHER -> {f.cell}

(* Where the phase knows the contents, a word is right unless it is suspect,  *)
(* and then it is right but for the fault's bit.                              *)
SameBut(b, v, w) == \A k \in Bits \ {b} : k \in v <=> k \in w
Near(f, i, v, w) == /\ i \notin Suspects(f) => v = w
                    /\ f.kind # "alias" => SameBut(f.bit, v, w)
Expected(i) == IF Passed(i) THEN SUITE[place.phase].value[i] ELSE SUITE[place.phase].expect[i]
Held == \A i \in Index : SUITE[place.phase].reads \/ Passed(i) =>
           Near(sdram.fault, i, sdram.mem[i], Expected(i))

(* A fault is sensed at word i of phase q and seen at word j of phase r: in   *)
(* between the cell holds the wrong bit.                                      *)
Sensed(q, i, r, j, at, wrong) ==
    Past(q, i) => \/ 5 \in found.groups
                  \/ ~Past(r, j) /\ (sdram.fault.bit \in sdram.mem[at] <=> wrong)

(* The march element that takes a bit to v.                                   *)
First(v) == IF v THEN 12 ELSE 13
(* A coupling fault f: the element whose transition makes the victim wrong    *)
(* and the one that reads it, with the victim above or below.                 *)
Wrong(f) == IF f.kind = "forces" THEN f.to ELSE f.edge <=> f.cell < f.other
Sense(f) == First(f.edge) + (IF Wrong(f) = (f.edge <=> f.cell < f.other) THEN 0 ELSE 2)
See(f) == Sense(f) + (IF Wrong(f) = f.edge THEN 0 ELSE 1)
Lesser(i, j) == IF i < j THEN i ELSE j
Greater(i, j) == IF i < j THEN j ELSE i

(* What holds in the middle of a pass, for each kind of fault.  The victim of *)
(* an inversion must also hold the other bit by the time it is inverted.      *)
StuckSensed(f) ==
    f.kind = "stuck" => Sensed(First(f.to), f.cell, First(f.to), f.cell, f.cell, TRUE)
SlowSensed(f) ==
    f.kind = "transition" => Sensed(First(f.to), f.cell, First(f.to) + 1, f.cell, f.cell, ~f.to)
CouplingSensed(f) ==
    f.kind \in {"forces", "inverts"} =>
        Sensed(Sense(f), f.cell, See(f), f.other, f.other, Wrong(f))
Poised(f) == Sense(f) - (IF f.cell < f.other THEN 1 ELSE 0)
VictimPoised(f) ==
    f.kind = "inverts" /\ Past(Poised(f), f.other) /\ ~Past(Sense(f), f.cell) =>
        (f.bit \in sdram.mem[f.other] <=> ~Wrong(f))
AliasSensed(f) ==
    f.kind = "alias" =>
        Sensed(12, Lesser(f.cell, f.other), 12, Greater(f.cell, f.other), f.other, TRUE)
(* The own-address test: two words that share a cell keep the later address.  *)
AliasOwned(f) ==
    f.kind = "alias" /\ Past(1, Greater(f.cell, f.other)) =>
        \/ 0 \in found.groups
        \/ /\ ~Past(2, Lesser(f.cell, f.other))
           /\ sdram.mem[f.other] = v_own[Greater(f.cell, f.other)]
Detected ==
    /\ StuckSensed(sdram.fault) /\ SlowSensed(sdram.fault) /\ CouplingSensed(sdram.fault)
    /\ VictimPoised(sdram.fault) /\ AliasSensed(sdram.fault) /\ AliasOwned(sdram.fault)

Underway == /\ test.status \in {"Running", "Paused"} => place.left > 0 \/ place.done > 0
            /\ test.status = "Waiting" => place.phase = 1 /\ place.done = 0

NeverAccused == sdram.fault.kind = "none" => found.groups = {} /\ TotalErrs(tally.errs) = 0

TestInv == /\ SdramTestTypeOK /\ Underway /\ Held /\ Detected
           /\ NeverAccused /\ FaultsLocated /\ LogShowsLast /\ KeysObeyed

-----------------------------------------------------------------------------
(* The memory and its fault.                                                  *)
LEMMA FaultShape ==
  ASSUME NEW f \in Faults
  PROVE  /\ f.kind \in {"none", "stuck", "transition", "forces", "inverts", "alias"}
         /\ f.cell \in Index /\ f.other \in Index /\ f.bit \in Bits
         /\ f.edge \in BOOLEAN /\ f.to \in BOOLEAN
         /\ f.kind \in {"forces", "inverts", "alias"} => f.cell # f.other
         /\ f.kind = "alias" => f.bit = 0
         /\ f.kind = "none" <=> f = NoFault
<1>0. /\ 0 \in Index /\ 0 \in Bits /\ NoFault.kind = "none" /\ NoFault.cell = 0 /\ NoFault.other = 0
      /\ NoFault.bit = 0 /\ NoFault.edge = TRUE /\ NoFault.to = TRUE
  BY Sizes DEF NoFault
<1>1. CASE f = NoFault BY <1>0, <1>1
<1>2. CASE f \in [kind : {"stuck", "transition"}, cell : Index, other : {0}, bit : Bits,
                  edge : {TRUE}, to : BOOLEAN]
  BY <1>0, <1>2
<1>3. CASE f \in Couplings("forces", Bits, BOOLEAN, BOOLEAN) BY <1>0, <1>3 DEF Couplings
<1>4. CASE f \in Couplings("inverts", Bits, BOOLEAN, {TRUE}) BY <1>0, <1>4 DEF Couplings
<1>5. CASE f \in Couplings("alias", {0}, {TRUE}, {TRUE}) BY <1>0, <1>5 DEF Couplings
<1> QED BY <1>1, <1>2, <1>3, <1>4, <1>5, Zenon DEF Faults

(* What a read returns: the word, near enough.                                *)
LEMMA ReadEffect ==
  ASSUME NEW f \in Faults, NEW mem \in [Index -> SUBSET Bits], NEW i \in Index
  PROVE  /\ CellRead(f, mem, i) \in SUBSET Bits
         /\ Near(f, i, CellRead(f, mem, i), mem[i])
<1>1. Decoded(f, i) \in Index BY FaultShape DEF Decoded
<1>2. CellRead(f, mem, i) \in SUBSET Bits BY <1>1, FaultShape DEF CellRead, SetBit
<1>3. ASSUME i \notin Suspects(f) PROVE CellRead(f, mem, i) = mem[i]
  BY <1>3, FaultShape DEF CellRead, Decoded, Suspects
<1>4. ASSUME f.kind # "alias" PROVE SameBut(f.bit, CellRead(f, mem, i), mem[i])
  BY <1>4 DEF CellRead, Decoded, SameBut, SetBit
<1> QED BY <1>2, <1>3, <1>4 DEF Near

(* What a write leaves: every word near what a sound memory would hold.       *)
LEMMA WriteEffect ==
  ASSUME NEW f \in Faults, NEW mem \in [Index -> SUBSET Bits], NEW i \in Index, NEW v \in SUBSET Bits
  PROVE  /\ CellWritten(f, mem, i, v) \in [Index -> SUBSET Bits]
         /\ \A k \in Index : Near(f, k, CellWritten(f, mem, i, v)[k], IF k = i THEN v ELSE mem[k])
<1> DEFINE m == CellWritten(f, mem, i, v)
           at == Decoded(f, i)
           kept == f.kind = "transition" /\ i = f.cell /\ Turns(f, mem[at], v, f.to)
           couple == f.kind \in {"forces", "inverts"} /\ i = f.cell /\ Turns(f, mem[at], v, f.edge)
<1>0. f.bit \in Bits BY FaultShape
<1>1. \A k \in Index : m[k] = IF k = at THEN (IF kept THEN SetBit(v, f.bit, ~f.to) ELSE v)
                              ELSE IF couple /\ k = f.other THEN Victim(f, mem[k])
                              ELSE mem[k]
  BY DEF CellWritten
<1>2. m \in [Index -> SUBSET Bits]
  <2>1. ASSUME NEW k \in Index PROVE m[k] \in SUBSET Bits
    <3> HIDE DEF m, at, kept, couple
    <3>1. mem[k] \in SUBSET Bits OBVIOUS
    <3>2. \A w \in SUBSET Bits, u \in BOOLEAN : SetBit(w, f.bit, u) \in SUBSET Bits BY <1>0 DEF SetBit
    <3>3. Victim(f, mem[k]) \in SUBSET Bits BY <3>1, <1>0 DEF Victim, SetBit
    <3>4. f.to \in BOOLEAN BY FaultShape
    <3> QED BY <1>1, <3>1, <3>2, <3>3, <3>4
  <2> DEFINE cell(k) == m[k]
  <2>2. \A k \in Index : cell(k) \in SUBSET Bits BY <2>1
  <2>3. m = [k \in Index |-> cell(k)] BY DEF CellWritten
  <2> HIDE DEF m, cell
  <2> QED BY <2>2, <2>3
<1>3. ASSUME NEW k \in Index, k \notin Suspects(f) PROVE m[k] = IF k = i THEN v ELSE mem[k]
  <2>1. f.kind \in {"none", "stuck", "transition", "forces", "inverts", "alias"} BY FaultShape
  <2> QED BY <1>1, <1>3, <2>1 DEF Suspects, Decoded
<1>4. ASSUME NEW k \in Index, f.kind # "alias" PROVE SameBut(f.bit, m[k], IF k = i THEN v ELSE mem[k])
  <2>1. at = i BY <1>4 DEF Decoded
  <2> HIDE DEF at, m
  <2> QED BY <1>1, <1>4, <2>1 DEF SameBut, SetBit, Victim
<1>5. \A k \in Index : Near(f, k, m[k], IF k = i THEN v ELSE mem[k])
  BY <1>3, <1>4 DEF Near
<1> QED BY <1>2, <1>5

(* To be near is transitive.                                                  *)
LEMMA NearTransitive ==
  ASSUME NEW f, NEW i, NEW u \in SUBSET Bits, NEW v \in SUBSET Bits, NEW w \in SUBSET Bits,
         Near(f, i, u, v), Near(f, i, v, w)
  PROVE  Near(f, i, u, w)
BY DEF Near, SameBut

-----------------------------------------------------------------------------
(* One word of run_phase: the word, its place in the order, what was done and *)
(* what is.                                                                   *)
Word == WordAt(SUITE[place.phase], place.done)
Got == CellRead(sdram.fault, sdram.mem, Word)
Bad == SUITE[place.phase].reads /\ Got # SUITE[place.phase].expect[Word]

LEMMA WordPlace ==
  ASSUME SdramTestTypeOK, RunWord
  PROVE  /\ place.phase \in 1 .. 16 /\ place.done \in Nat /\ place.done < SdWords
         /\ SUITE[place.phase] \in Row
         /\ Word \in Index
         /\ \A j \in Index : Passed(j) <=> IF SUITE[place.phase].ascending THEN j < Word ELSE Word < j
         /\ place'.phase = place.phase /\ place'.done = place.done + 1 /\ place'.left = place.left - 1
         /\ \A j \in Index : Passed(j)' <=> Passed(j) \/ j = Word
         /\ \A p \in Int, j \in Index : Past(p, j)' <=> Past(p, j) \/ (p = place.phase /\ j = Word)
<1>1. /\ place.phase \in 1 .. 16 /\ place.done \in 0 .. SdWords /\ place.left \in 0 .. SdWords
      /\ place.done + place.left =< SdWords /\ place.left > 0
  BY SuiteRows DEF SdramTestTypeOK, RunWord
<1>2. /\ place'.phase = place.phase /\ place'.done = place.done + 1 /\ place'.left = place.left - 1
  BY DEF SdramTestTypeOK, RunWord
<1>3. place.done \in Nat /\ place.done < SdWords BY <1>1, Sizes
<1>4. SUITE[place.phase] \in Row /\ SUITE[place.phase].ascending \in BOOLEAN BY <1>1, SuiteShape DEF Row
<1>5. Word = IF SUITE[place.phase].ascending THEN place.done ELSE SdWords - 1 - place.done
  BY DEF Word, WordAt
<1>6. Word \in Index BY <1>3, <1>5, Sizes
<1>7. \A j \in Index : Passed(j) <=> IF SUITE[place.phase].ascending THEN j < Word ELSE Word < j
  BY <1>3, <1>5, Sizes DEF Passed
<1>8. \A j \in Index : Passed(j)' <=> Passed(j) \/ j = Word
  BY <1>2, <1>3, <1>5, Sizes DEF Passed
<1>9. \A p \in Int, j \in Index : Past(p, j)' <=> Past(p, j) \/ (p = place.phase /\ j = Word)
  BY <1>2, <1>8 DEF Past
<1> QED BY <1>1, <1>2, <1>3, <1>4, <1>6, <1>7, <1>8, <1>9

LEMMA WordData ==
  ASSUME SdramTestTypeOK, RunWord
  PROVE  /\ sdram.fault \in Faults /\ sdram.mem \in [Index -> SUBSET Bits]
         /\ sdram' \in [fault : Faults, mem : [Index -> SUBSET Bits]] /\ sdram'.fault = sdram.fault
         /\ sdram'.mem = IF SUITE[place.phase].writes
                         THEN CellWritten(sdram.fault, sdram.mem, Word, SUITE[place.phase].value[Word])
                         ELSE sdram.mem
         /\ Got \in SUBSET Bits
         /\ SUITE[place.phase].value[Word] \in SUBSET Bits
         /\ SUITE[place.phase].expect[Word] \in SUBSET Bits
         /\ \A k \in Index : Near(sdram.fault, k, sdram'.mem[k],
                                   IF SUITE[place.phase].writes /\ k = Word
                                   THEN SUITE[place.phase].value[Word] ELSE sdram.mem[k])
<1> DEFINE phase == SUITE[place.phase]
<1>1. Word \in Index /\ phase \in Row BY WordPlace
<1>2. phase.value[Word] \in SUBSET Bits /\ phase.expect[Word] \in SUBSET Bits
  BY <1>1 DEF Row
<1>3. sdram.fault \in Faults /\ sdram.mem \in [Index -> SUBSET Bits]
      /\ sdram = [fault |-> sdram.fault, mem |-> sdram.mem]
  BY DEF SdramTestTypeOK
<1>4. Got \in SUBSET Bits BY <1>1, <1>3, ReadEffect DEF Got
<1>5. sdram' = IF phase.writes
               THEN [sdram EXCEPT !.mem = CellWritten(sdram.fault, sdram.mem, Word, phase.value[Word])]
               ELSE sdram
  BY DEF RunWord, Word
<1>6. CellWritten(sdram.fault, sdram.mem, Word, phase.value[Word]) \in [Index -> SUBSET Bits]
  BY <1>1, <1>2, <1>3, WriteEffect
<1>7. /\ sdram' \in [fault : Faults, mem : [Index -> SUBSET Bits]] /\ sdram'.fault = sdram.fault
      /\ sdram'.mem = IF phase.writes
                      THEN CellWritten(sdram.fault, sdram.mem, Word, phase.value[Word]) ELSE sdram.mem
  BY <1>3, <1>5, <1>6
<1>8. ASSUME NEW k \in Index
      PROVE  Near(sdram.fault, k, sdram'.mem[k],
                  IF phase.writes /\ k = Word THEN phase.value[Word] ELSE sdram.mem[k])
  <2>1. CASE phase.writes
    BY <1>1, <1>2, <1>3, <1>7, <2>1, WriteEffect
  <2>2. CASE ~phase.writes
    BY <1>7, <2>2 DEF Near, SameBut
  <2> QED BY <2>1, <2>2
<1> QED BY <1>2, <1>3, <1>4, <1>7, <1>8

LEMMA WordReport ==
  ASSUME SdramTestTypeOK, RunWord
  PROVE  /\ test' = test /\ found'.keys = {}
         /\ IF Bad
            THEN /\ tally' = [errs |-> [tally.errs EXCEPT ![SUITE[place.phase].group] = @ + 1],
                              log  |-> LogPush(tally.log, <<Word, SUITE[place.phase].expect[Word], Got>>)]
                 /\ found' = [groups |-> found.groups \cup {SUITE[place.phase].group},
                              last |-> Kept(found.last, <<Word, SUITE[place.phase].expect[Word], Got>>),
                              keys |-> {}]
            ELSE /\ tally' = tally /\ found' = [found EXCEPT !.keys = {}]
                 /\ found'.groups = found.groups /\ found'.last = found.last
<1>1. found \in [groups : SUBSET (0..5), last : Seq(Failures),
                 keys : SUBSET (UNION {Range(read) : read \in KeyReads})]
  BY DEF SdramTestTypeOK
<1>2. test' = test BY DEF RunWord
<1>3. IF Bad
      THEN /\ tally' = [errs |-> [tally.errs EXCEPT ![SUITE[place.phase].group] = @ + 1],
                        log  |-> LogPush(tally.log, <<Word, SUITE[place.phase].expect[Word], Got>>)]
           /\ found' = [groups |-> found.groups \cup {SUITE[place.phase].group},
                        last |-> Kept(found.last, <<Word, SUITE[place.phase].expect[Word], Got>>),
                        keys |-> {}]
      ELSE tally' = tally /\ found' = [found EXCEPT !.keys = {}]
  BY DEF RunWord, Bad, Word, Got
<1>4. CASE Bad BY <1>2, <1>3, <1>4
<1>5. CASE ~Bad BY <1>1, <1>2, <1>3, <1>5
<1> QED BY <1>4, <1>5

(* What is read is near what is expected, and what the memory holds goes on   *)
(* being near what it should.                                                 *)
LEMMA WordRead ==
  ASSUME SdramTestTypeOK, Held, RunWord, SUITE[place.phase].reads
  PROVE  Near(sdram.fault, Word, Got, SUITE[place.phase].expect[Word])
<1>1. Word \in Index /\ ~Passed(Word) BY WordPlace, Sizes
<1>2. Near(sdram.fault, Word, sdram.mem[Word], SUITE[place.phase].expect[Word])
  BY <1>1 DEF Held, Expected
<1>3. Near(sdram.fault, Word, Got, sdram.mem[Word]) BY <1>1, WordData, ReadEffect DEF Got
<1> QED BY <1>1, <1>2, <1>3, WordData, NearTransitive

LEMMA WordHeld ==
  ASSUME SdramTestTypeOK, Held, RunWord
  PROVE  Held'
<1> DEFINE phase == SUITE[place.phase]
<1> SUFFICES ASSUME NEW k \in Index, (phase.reads \/ Passed(k))'
             PROVE  Near(sdram.fault, k, sdram.mem[k], Expected(k))'
  BY DEF Held
<1>1. phase \in Row /\ place'.phase = place.phase /\ Word \in Index /\ ~Passed(Word)
      /\ (Passed(k)' <=> Passed(k) \/ k = Word)
  BY WordPlace, Sizes
<1>2. Near(sdram.fault, k, sdram'.mem[k],
           IF phase.writes /\ k = Word THEN phase.value[Word] ELSE sdram.mem[k])
  BY WordData
<1>3. SUFFICES Near(sdram.fault, k, sdram'.mem[k], Expected(k)')
  BY WordData DEF Near, Suspects
<1>4. CASE k # Word
  <2>1. Near(sdram.fault, k, sdram.mem[k], Expected(k)) BY <1>1, <1>4 DEF Held
  <2>2. Expected(k)' = Expected(k) BY <1>1, <1>4 DEF Expected
  <2>3. Expected(k) \in SUBSET Bits BY <1>1 DEF Expected, Row
  <2> QED BY <1>2, <1>4, <2>1, <2>2, <2>3, WordData, NearTransitive
<1>5. CASE k = Word
  <2>1. Expected(k)' = phase.value[Word] BY <1>1, <1>5 DEF Expected
  <2>2. CASE phase.writes BY <1>2, <1>5, <2>1, <2>2
  <2>3. CASE ~phase.writes
    <3>1. phase.reads /\ phase.value = phase.expect BY <2>3, SuiteShape, WordPlace
    <3>2. Near(sdram.fault, k, sdram.mem[k], phase.expect[Word])
      BY <1>1, <1>5, <3>1 DEF Held, Expected
    <3> QED BY <1>2, <2>1, <2>3, <3>1, <3>2, WordData, NearTransitive, <1>5
  <2> QED BY <2>2, <2>3
<1> QED BY <1>4, <1>5

-----------------------------------------------------------------------------
(* What each fault does to its words.                                         *)
LEMMA StuckRead ==
  ASSUME NEW f \in Faults, f.kind = "stuck", NEW mem \in [Index -> SUBSET Bits]
  PROVE  f.bit \in CellRead(f, mem, f.cell) <=> f.to
<1>1. f.to \in BOOLEAN BY FaultShape
<1> QED BY <1>1 DEF CellRead, SetBit

LEMMA SlowWrite ==
  ASSUME NEW f \in Faults, f.kind = "transition",
         NEW mem \in [Index -> SUBSET Bits], NEW i \in Index, NEW v \in SUBSET Bits
  PROVE  /\ CellRead(f, mem, f.cell) = mem[f.cell]
         /\ i # f.cell => CellWritten(f, mem, i, v)[f.cell] = mem[f.cell]
         /\ i = f.cell /\ Turns(f, mem[f.cell], v, f.to) =>
              (f.bit \in CellWritten(f, mem, i, v)[f.cell] <=> ~f.to)
<1>1. f.cell \in Index /\ f.to \in BOOLEAN BY FaultShape
<1> QED BY <1>1 DEF CellRead, CellWritten, Decoded, SetBit

LEMMA CoupledWrite ==
  ASSUME NEW f \in Faults, f.kind \in {"forces", "inverts"},
         NEW mem \in [Index -> SUBSET Bits], NEW i \in Index, NEW v \in SUBSET Bits
  PROVE  /\ CellRead(f, mem, f.other) = mem[f.other]
         /\ i = f.other => CellWritten(f, mem, i, v)[f.other] = v
         /\ i = f.cell /\ Turns(f, mem[f.cell], v, f.edge) =>
              (f.bit \in CellWritten(f, mem, i, v)[f.other]
                 <=> IF f.kind = "forces" THEN f.to ELSE f.bit \notin mem[f.other])
         /\ i # f.other /\ ~(i = f.cell /\ Turns(f, mem[f.cell], v, f.edge)) =>
              CellWritten(f, mem, i, v)[f.other] = mem[f.other]
<1>1. f.other \in Index /\ f.cell # f.other /\ f.to \in BOOLEAN BY FaultShape
<1> QED BY <1>1 DEF CellRead, CellWritten, Decoded, Victim, SetBit

LEMMA AliasWrite ==
  ASSUME NEW f \in Faults, f.kind = "alias",
         NEW mem \in [Index -> SUBSET Bits], NEW i \in Index, NEW v \in SUBSET Bits
  PROVE  /\ i \in {f.cell, f.other} => CellRead(f, mem, i) = mem[f.other]
         /\ CellWritten(f, mem, i, v)[f.other] = IF i \in {f.cell, f.other} THEN v ELSE mem[f.other]
<1>1. f.other \in Index BY FaultShape
<1> QED BY <1>1 DEF CellRead, CellWritten, Decoded

(* Where a coupling fault is sensed and seen: the march writes the transition *)
(* there, and reads the bit right after or in the next element, according to  *)
(* the direction.                                                             *)
LEMMA CouplingPlan ==
  ASSUME NEW f \in Faults, f.kind \in {"forces", "inverts"}
  PROVE  /\ Sense(f) \in 12 .. 15 /\ See(f) \in {Sense(f), Sense(f) + 1} /\ Wrong(f) \in BOOLEAN
         /\ Sense(f) \in {12, 14} <=> f.edge
         /\ See(f) \in {13, 15} <=> ~Wrong(f)
         /\ See(f) = Sense(f) <=> (Sense(f) < 14 <=> f.cell < f.other)
         /\ f.kind = "inverts" =>
              Sense(f) < 14 /\ (Wrong(f) <=> (f.edge <=> f.cell < f.other))
<1>1. f.edge \in BOOLEAN /\ f.to \in BOOLEAN BY FaultShape
<1>2. Wrong(f) \in BOOLEAN BY <1>1 DEF Wrong
<1>3. f.kind = "inverts" => (Wrong(f) <=> (f.edge <=> f.cell < f.other)) BY DEF Wrong
<1>4. Wrong(f) = (f.edge <=> f.cell < f.other) <=> (Wrong(f) <=> (f.edge <=> f.cell < f.other))
  BY <1>2
<1>5. Sense(f) = (IF f.edge THEN 12 ELSE 13) + (IF Wrong(f) <=> (f.edge <=> f.cell < f.other) THEN 0 ELSE 2)
  BY <1>4 DEF Sense, First
<1>6. See(f) = Sense(f) + (IF Wrong(f) <=> f.edge THEN 0 ELSE 1)
  BY <1>1, <1>2 DEF See
<1> QED BY <1>2, <1>3, <1>5, <1>6

-----------------------------------------------------------------------------
(* A fault once sensed stays so until it is seen.                             *)
LEMMA BadSeen ==
  ASSUME SdramTestTypeOK, RunWord
  PROVE  /\ \A g \in found.groups : g \in found'.groups
         /\ Bad => SUITE[place.phase].group \in found'.groups
<1>1. CASE Bad BY <1>1, WordReport
<1>2. CASE ~Bad BY <1>2, WordReport
<1> QED BY <1>1, <1>2

LEMMA SensedStep ==
  ASSUME SdramTestTypeOK, RunWord, NEW q \in Int, NEW r \in Int,
         NEW i \in Index, NEW j \in Index, NEW at \in Index, NEW wrong \in BOOLEAN,
         Sensed(q, i, r, j, at, wrong),
         place.phase = q /\ Word = i =>
           5 \in found'.groups \/ (~Past(r, j)' /\ (sdram.fault.bit \in sdram'.mem[at] <=> wrong)),
         Past(q, i) /\ ~Past(r, j) /\ (sdram.fault.bit \in sdram.mem[at] <=> wrong) =>
           IF place.phase = r /\ Word = j THEN 5 \in found'.groups
           ELSE sdram.fault.bit \in sdram'.mem[at] <=> wrong
  PROVE  Sensed(q, i, r, j, at, wrong)'
<1>1. sdram'.fault = sdram.fault BY WordData
<1>2. /\ Past(q, i)' <=> Past(q, i) \/ (q = place.phase /\ i = Word)
      /\ Past(r, j)' <=> Past(r, j) \/ (r = place.phase /\ j = Word)
  BY WordPlace
<1>3. 5 \in found.groups => 5 \in found'.groups BY BadSeen
<1> QED BY <1>1, <1>2, <1>3 DEF Sensed

(* A stuck bit: read in the element that expects the other value.             *)
LEMMA StuckStep ==
  ASSUME SdramTestTypeOK, RunWord, StuckSensed(sdram.fault), sdram.fault.kind = "stuck"
  PROVE  StuckSensed(sdram.fault)'
<1> DEFINE f == sdram.fault
           q == First(f.to)
<1>1. f \in Faults /\ sdram.mem \in [Index -> SUBSET Bits] /\ sdram'.fault = f
      /\ f.cell \in Index /\ f.bit \in Bits /\ f.to \in BOOLEAN
  BY WordData, FaultShape
<1>2. q = IF f.to THEN 12 ELSE 13 BY DEF First
<1>3. ASSUME place.phase = q, Word = f.cell PROVE 5 \in found'.groups
  <2>1. SUITE[q].reads /\ SUITE[q].group = 5
        /\ (f.bit \in SUITE[q].expect[f.cell] <=> ~f.to)
    BY <1>1, <1>2, MarchRows
  <2>2. f.bit \in Got <=> f.to BY <1>1, <1>3, StuckRead DEF Got
  <2>3. Bad BY <1>1, <1>2, <1>3, <2>1, <2>2 DEF Bad
  <2> QED BY <1>3, <2>1, <2>3, BadSeen
<1>4. Sensed(q, f.cell, q, f.cell, f.cell, TRUE) BY DEF StuckSensed
<1>5. Sensed(q, f.cell, q, f.cell, f.cell, TRUE)'
  <2> HIDE DEF q
  <2>1. q \in Int BY <1>2
  <2>2. q' = q BY <1>1, <1>2 DEF q, First
  <2> QED BY <1>1, <1>3, <1>4, <2>1, <2>2, SensedStep
<1> QED BY <1>1, <1>5 DEF StuckSensed

(* A bit that cannot turn: it stays what it was, and the next element sees it. *)
LEMMA SlowStep ==
  ASSUME SdramTestTypeOK, RunWord, SlowSensed(sdram.fault), sdram.fault.kind = "transition"
  PROVE  SlowSensed(sdram.fault)'
<1> DEFINE f == sdram.fault
           q == First(f.to)
           c == f.cell
<1>1. f \in Faults /\ sdram.mem \in [Index -> SUBSET Bits] /\ sdram'.fault = f
      /\ c \in Index /\ f.bit \in Bits /\ f.to \in BOOLEAN /\ Word \in Index
      /\ SUITE[place.phase].value[Word] \in SUBSET Bits
  BY WordData, WordPlace, FaultShape
<1>2. q = IF f.to THEN 12 ELSE 13 BY DEF First
<1>3. \A p \in 12 .. 14 : /\ SUITE[p].group = 5 /\ SUITE[p].reads /\ SUITE[p].writes
                         /\ (f.bit \in SUITE[p].expect[c] <=> p = 13)
                         /\ (f.bit \in SUITE[p].value[c] <=> p # 13)
  BY <1>1, MarchRows
<1>4. Word = c => Got = sdram.mem[c] BY <1>1, SlowWrite DEF Got
<1>5. ASSUME place.phase = q, Word = c
      PROVE  5 \in found'.groups \/ (~Past(q + 1, c)' /\ (f.bit \in sdram'.mem[c] <=> ~f.to))
  <2>1. CASE Bad BY <1>2, <1>3, <1>5, <2>1, BadSeen
  <2>2. CASE ~Bad
    <3>1. f.bit \in sdram.mem[c] <=> ~f.to BY <1>2, <1>3, <1>4, <1>5, <2>2 DEF Bad
    <3>2. Turns(f, sdram.mem[c], SUITE[q].value[c], f.to) BY <1>1, <1>2, <1>3, <3>1 DEF Turns
    <3>3. sdram'.mem = CellWritten(f, sdram.mem, c, SUITE[q].value[c])
      <4>1. SUITE[place.phase].writes BY <1>2, <1>3, <1>5
      <4> QED BY <1>5, <4>1, WordData
    <3>4. f.bit \in sdram'.mem[c] <=> ~f.to BY <1>1, <1>5, <3>2, <3>3, SlowWrite
    <3>5. ~Past(q + 1, c)' BY <1>1, <1>2, <1>5, WordPlace DEF Past, First
    <3> QED BY <3>4, <3>5
  <2> QED BY <2>1, <2>2
<1>6. ASSUME Past(q, c), ~Past(q + 1, c), f.bit \in sdram.mem[c] <=> ~f.to
      PROVE  IF place.phase = q + 1 /\ Word = c THEN 5 \in found'.groups
             ELSE f.bit \in sdram'.mem[c] <=> ~f.to
  <2>1. CASE place.phase = q + 1 /\ Word = c
    <3>1. Bad BY <1>1, <1>2, <1>3, <1>4, <1>6, <2>1 DEF Bad
    <3> QED BY <1>2, <1>3, <2>1, <3>1, BadSeen
  <2>2. CASE ~(place.phase = q + 1 /\ Word = c)
    <3>1. Word # c BY <1>2, <1>6, <2>2, WordPlace, Sizes DEF Past
    <3>2. sdram'.mem[c] = sdram.mem[c] BY <1>1, <3>1, WordData, SlowWrite
    <3> QED BY <1>6, <2>2, <3>2
  <2> QED BY <2>1, <2>2
<1>7. Sensed(q, c, q + 1, c, c, ~f.to) BY DEF SlowSensed
<1>8. Sensed(q, c, q + 1, c, c, ~f.to)'
  <2> DEFINE w == ~f.to
  <2> HIDE DEF q, w
  <2>1. q \in Int /\ q + 1 \in Int /\ w \in BOOLEAN BY <1>2 DEF w
  <2>2. q' = q /\ w' = w /\ c' = c BY <1>1 DEF q, w, First
  <2>3. Sensed(q, c, q + 1, c, c, w)' BY <1>1, <1>5, <1>6, <1>7, <2>1, <2>2, SensedStep DEF w
  <2> QED BY <2>3 DEF w
<1> QED BY <1>1, <1>8 DEF SlowSensed

(* A coupling: the transition of the cell makes the victim wrong, which its   *)
(* next read sees; in between neither is written again in a way that matters. *)
LEMMA CouplingStep ==
  ASSUME SdramTestTypeOK, Held, RunWord, NEW f, f = sdram.fault, f.kind \in {"forces", "inverts"},
         CouplingSensed(f), VictimPoised(f)
  PROVE  CouplingSensed(f)' /\ VictimPoised(f)'
<1>0. SUFFICES ASSUME NEW q, q = Sense(f), NEW r, r = See(f), NEW w, w = Poised(f), NEW t, t = Wrong(f),
                      NEW c, c = f.cell, NEW o, o = f.other, NEW e, e = f.edge
               PROVE  CouplingSensed(f)' /\ VictimPoised(f)'
  OBVIOUS
<1> DEFINE ph == place.phase
           old == sdram.mem
           new == sdram'.mem
<1>1. /\ f \in Faults /\ old \in [Index -> SUBSET Bits] /\ sdram'.fault = f
      /\ c \in Index /\ o \in Index /\ c # o /\ f.bit \in Bits /\ e \in BOOLEAN /\ f.to \in BOOLEAN
  BY <1>0, WordData, FaultShape
<1>2. /\ q \in 12 .. 15 /\ r \in {q, q + 1} /\ t \in BOOLEAN
      /\ q \in {12, 14} <=> e
      /\ r \in {13, 15} <=> ~t
      /\ r = q <=> (q < 14 <=> c < o)
      /\ f.kind = "inverts" => q < 14 /\ (t <=> (e <=> c < o))
  BY <1>0, <1>1, CouplingPlan
<1>3. /\ ph \in 1 .. 16 /\ Word \in Index /\ ~Passed(Word) /\ place'.phase = ph
      /\ \A j \in Index : Passed(j) <=> IF SUITE[ph].ascending THEN j < Word ELSE Word < j
      /\ \A p \in Int, j \in Index : Past(p, j)' <=> Past(p, j) \/ (p = ph /\ j = Word)
      /\ SUITE[ph].value[Word] \in SUBSET Bits
  BY WordPlace, WordData, Sizes
<1>4. /\ Past(q, c) <=> ph > q \/ (ph = q /\ Passed(c))
      /\ Past(r, o) <=> ph > r \/ (ph = r /\ Passed(o))
      /\ Past(w, o) <=> ph > w \/ (ph = w /\ Passed(o))
  BY DEF Past
<1>5. \A p \in 12 .. 16 :
        /\ SUITE[p].group = 5 /\ SUITE[p].reads
        /\ SUITE[p].ascending <=> p < 14
        /\ SUITE[p].writes <=> p < 16
        /\ \A j \in Index : f.bit \in SUITE[p].expect[j] <=> p \in {13, 15}
        /\ \A j \in Index : f.bit \in SUITE[p].value[j] <=> p \in {12, 14}
  BY <1>1, MarchRows
<1>6. /\ Word = o => Got = old[o]
      /\ SUITE[ph].writes /\ Word = o => new[o] = SUITE[ph].value[o]
      /\ SUITE[ph].writes /\ Word = c /\ Turns(f, old[c], SUITE[ph].value[c], e) =>
           (f.bit \in new[o] <=> IF f.kind = "forces" THEN f.to ELSE f.bit \notin old[o])
      /\ ~SUITE[ph].writes \/ (Word # o /\ ~(Word = c /\ Turns(f, old[c], SUITE[ph].value[c], e))) =>
           new[o] = old[o]
  <2> DEFINE v == SUITE[ph].value[Word]
  <2>1. new = IF SUITE[ph].writes THEN CellWritten(f, old, Word, v) ELSE old BY WordData
  <2>2. v \in SUBSET Bits BY <1>3
  <2> HIDE DEF v, ph, old
  <2>3. /\ CellRead(f, old, f.other) = old[f.other]
        /\ Word = f.other => CellWritten(f, old, Word, v)[f.other] = v
        /\ Word = f.cell /\ Turns(f, old[f.cell], v, f.edge) =>
             (f.bit \in CellWritten(f, old, Word, v)[f.other]
                <=> IF f.kind = "forces" THEN f.to ELSE f.bit \notin old[f.other])
        /\ Word # f.other /\ ~(Word = f.cell /\ Turns(f, old[f.cell], v, f.edge)) =>
             CellWritten(f, old, Word, v)[f.other] = old[f.other]
    BY <1>1, <1>3, <2>2, CoupledWrite
  <2>4. Got = CellRead(f, old, Word) BY DEF Got, old
  <2>5. Word = o => Got = old[o] BY <1>0, <2>3, <2>4
  <2>6. SUITE[ph].writes /\ Word = o => new[o] = SUITE[ph].value[o]
    <3>1. Word = o => v = SUITE[ph].value[o] BY DEF v
    <3> QED BY <1>0, <2>1, <2>3, <3>1
  <2>7. Word = c => v = SUITE[ph].value[c] BY DEF v
  <2>8. SUITE[ph].writes /\ Word = c /\ Turns(f, old[c], SUITE[ph].value[c], e) =>
          (f.bit \in new[o] <=> IF f.kind = "forces" THEN f.to ELSE f.bit \notin old[o])
    BY <1>0, <2>1, <2>3, <2>7
  <2>9. ~SUITE[ph].writes \/ (Word # o /\ ~(Word = c /\ Turns(f, old[c], SUITE[ph].value[c], e))) =>
          new[o] = old[o]
    BY <1>0, <2>1, <2>3, <2>7
  <2> QED BY <2>5, <2>6, <2>8, <2>9
<1>w. w = q - (IF c < o THEN 1 ELSE 0) BY <1>0 DEF Poised
<1>p. /\ Past(q, c)' <=> Past(q, c) \/ (q = ph /\ c = Word)
      /\ Past(r, o)' <=> Past(r, o) \/ (r = ph /\ o = Word)
      /\ Past(w, o)' <=> Past(w, o) \/ (w = ph /\ o = Word)
      /\ q \in Int /\ r \in Int /\ w \in Int /\ (r = q \/ r = q + 1)
  <2>1. q \in Int /\ r \in Int /\ (r = q \/ r = q + 1) BY <1>2
  <2>2. w \in Int BY <2>1, <1>w
  <2> QED BY <1>1, <1>3, <2>1, <2>2
<1> HIDE DEF ph, old, new
(* At the transition.                                                         *)
<1>7. ASSUME ph = q, Word = c
      PROVE  ~Past(r, o)' /\ (f.bit \in new[o] <=> t)
  <2>1. SUITE[q].writes /\ SUITE[q].reads /\ (SUITE[q].ascending <=> q < 14)
        /\ (f.bit \in SUITE[q].expect[c] <=> ~e) /\ (f.bit \in SUITE[q].value[c] <=> e)
    <3>1. q \in {13, 15} <=> ~e BY <1>1, <1>2
    <3> QED BY <1>1, <1>2, <1>5, <3>1
  <2>2. ~Past(r, o)'
    <3>1. r = q => ~Passed(o) BY <1>1, <1>2, <1>3, <1>7, <2>1, Sizes
    <3> QED BY <1>p, <1>4, <1>7, <1>1, <3>1
  <2>3. old[c] = SUITE[q].expect[c]
    <3>1. c \notin Suspects(f) BY <1>0, <1>1 DEF Suspects
    <3>2. Near(f, c, old[c], Expected(c)) BY <1>1, <1>3, <1>7, <2>1 DEF Held, ph, old
    <3>3. Expected(c) = SUITE[q].expect[c] BY <1>3, <1>7 DEF Expected, ph
    <3> QED BY <3>1, <3>2, <3>3 DEF Near
  <2>4. Turns(f, old[c], SUITE[q].value[c], e) BY <2>1, <2>3, <1>1 DEF Turns
  <2>5. f.bit \in new[o] <=> IF f.kind = "forces" THEN f.to ELSE f.bit \notin old[o]
    BY <1>6, <1>7, <2>1, <2>4
  <2>6. ASSUME f.kind = "forces" PROVE f.bit \in new[o] <=> t BY <1>0, <2>5, <2>6, <1>1 DEF Wrong
  <2>7. ASSUME f.kind = "inverts" PROVE f.bit \in new[o] <=> t
    <3>1. ~Past(q, c) BY <1>1, <1>2, <1>3, <1>4, <1>7
    <3>2. q < 14 BY <1>2, <2>7
    <3>3. w = q - (IF c < o THEN 1 ELSE 0) BY <1>w
    <3>4. Past(w, o)
      <4>1. CASE c < o BY <1>p, <1>4, <1>7, <3>3, <4>1
      <4>2. CASE ~(c < o)
        <5>1. Passed(o) BY <1>1, <1>3, <1>7, <2>1, <3>2, <4>2, Sizes
        <5> QED BY <1>p, <1>4, <1>7, <3>3, <4>2, <5>1
      <4> QED BY <4>1, <4>2
    <3>5. f.bit \in old[o] <=> ~t BY <1>0, <2>7, <3>1, <3>4 DEF VictimPoised, old
    <3> QED BY <2>5, <2>7, <3>5, <1>2
  <2> QED BY <2>2, <2>6, <2>7
(* Between the transition and the read.                                       *)
<1>8. ASSUME Past(q, c), ~Past(r, o), f.bit \in old[o] <=> t
      PROVE  IF ph = r /\ Word = o THEN 5 \in found'.groups ELSE f.bit \in new[o] <=> t
  <2>0. r \in 12 .. 16 BY <1>2
  <2>1. CASE ph = r /\ Word = o
    <3>1. SUITE[r].group = 5 /\ SUITE[r].reads /\ (f.bit \in SUITE[r].expect[o] <=> ~t)
      BY <1>1, <1>2, <1>5, <2>0
    <3>2. Bad BY <1>6, <1>8, <2>1, <3>1, <1>2 DEF Bad, ph
    <3> QED BY <2>1, <3>1, <3>2, BadSeen DEF ph
  <2>2. CASE ~(ph = r /\ Word = o)
    <3>1. ph \in {q, r} BY <1>p, <1>3, <1>4, <1>8
    <3>2. Word # o
      <4>1. SUFFICES ASSUME Word = o PROVE FALSE OBVIOUS
      <4>2. ph = q /\ r = q + 1 BY <1>2, <2>2, <3>1, <4>1
      <4>3. Passed(c) BY <1>p, <1>4, <1>8, <4>2
      <4>4. SUITE[q].ascending <=> q < 14 BY <1>2, <1>5
      <4> QED BY <1>1, <1>2, <1>3, <4>1, <4>2, <4>3, <4>4, Sizes
    <3>3. ASSUME Word = c, SUITE[ph].writes PROVE ~Turns(f, old[c], SUITE[ph].value[c], e)
      <4>1. ph = r /\ r = q + 1 BY <1>1, <1>2, <1>3, <1>4, <1>8, <3>1, <3>3
      <4>2. r \in {12, 14} <=> ~e BY <1>1, <1>2, <1>5, <2>0, <3>3, <4>1
      <4>3. f.bit \in SUITE[ph].value[c] <=> ~e BY <1>1, <1>5, <2>0, <4>1, <4>2
      <4> QED BY <4>3, <1>1 DEF Turns
    <3>4. new[o] = old[o] BY <1>6, <3>2, <3>3
    <3> QED BY <1>8, <2>2, <3>4
  <2> QED BY <2>1, <2>2
<1>9. CouplingSensed(f)'
  <2>1. Sensed(q, c, r, o, o, t) BY <1>0 DEF CouplingSensed
  <2>2. q \in Int /\ r \in Int BY <1>p
  <2>3. place.phase = q /\ Word = c =>
          5 \in found'.groups \/ (~Past(r, o)' /\ (sdram.fault.bit \in sdram'.mem[o] <=> t))
    BY <1>7 DEF ph, new
  <2>4. Past(q, c) /\ ~Past(r, o) /\ (sdram.fault.bit \in sdram.mem[o] <=> t) =>
          IF place.phase = r /\ Word = o THEN 5 \in found'.groups
          ELSE sdram.fault.bit \in sdram'.mem[o] <=> t
    BY <1>8 DEF ph, old, new
  <2>5. Sensed(q, c, r, o, o, t)'
    <3>1. c \in Index /\ o \in Index /\ t \in BOOLEAN BY <1>1, <1>2
    <3> QED BY <2>1, <2>2, <2>3, <2>4, <3>1, SensedStep
  <2> QED BY <1>0, <2>5 DEF CouplingSensed
(* Before the transition.                                                     *)
<1>10. VictimPoised(f)'
  <2> SUFFICES ASSUME f.kind = "inverts", Past(w, o)', ~Past(q, c)'
               PROVE  f.bit \in new[o] <=> ~t
    BY <1>0 DEF VictimPoised, new
  <2>1. /\ w = q - (IF c < o THEN 1 ELSE 0) /\ w \in 11 .. 13 /\ q \in 12 .. 13
        /\ (t <=> (e <=> c < o))
    BY <1>2, <1>w
  <2>2. ~Past(q, c) /\ ~(ph = q /\ Word = c) BY <1>p
  <2>3. CASE ph = w /\ Word = o
    <3>1. SUITE[w].writes /\ (f.bit \in SUITE[w].value[o] <=> w = 12)
      <4>1. CASE w = 11 BY <4>1, <1>1, MarchRows
      <4>2. CASE w # 11
        <5>1. w \in 12 .. 13 BY <2>1, <4>2
        <5> QED BY <5>1, <1>1, <1>5
      <4> QED BY <4>1, <4>2
    <3>2. w = 12 <=> ~t BY <1>1, <1>2, <2>1
    <3> QED BY <1>6, <2>3, <3>1, <3>2
  <2>4. CASE ~(ph = w /\ Word = o)
    <3>1. Past(w, o) BY <1>p, <2>4
    <3>2. f.bit \in old[o] <=> ~t BY <1>0, <2>2, <3>1 DEF VictimPoised, old
    <3>3. ph \in {w, q} BY <1>3, <1>4, <2>1, <2>2, <3>1
    <3>4. Word # o /\ Word # c
      <4>1. CASE ph = w
        <5>1. Passed(o) BY <1>1, <1>4, <2>1, <3>1, <4>1
        <5>2. CASE w = q
          BY <1>3, <2>2, <4>1, <5>1, <5>2
        <5>3. CASE w # q
          <6>1. c < o /\ w < 14 BY <2>1, <5>3
          <6>2. SUITE[w].ascending
            <7>1. CASE w = 11 BY <7>1, SuiteRows DEF Phase, Write
            <7>2. CASE w # 11
              <8>1. w \in 12 .. 16 BY <2>1, <7>2
              <8> QED BY <8>1, <6>1, <1>5
            <7> QED BY <7>1, <7>2
          <6> QED BY <1>1, <1>3, <4>1, <5>1, <6>1, <6>2, Sizes
        <5> QED BY <5>2, <5>3
      <4>2. CASE ph # w
        <5>1. ph = q /\ c < o BY <2>1, <3>3, <4>2
        <5>2. SUITE[q].ascending BY <2>1, <1>5
        <5>3. ~Passed(c) BY <1>1, <1>2, <1>4, <2>2, <5>1
        <5> QED BY <1>1, <1>3, <2>2, <5>1, <5>2, <5>3, Sizes
      <4> QED BY <4>1, <4>2
    <3>5. new[o] = old[o] BY <1>6, <3>4
    <3> QED BY <3>2, <3>5
  <2> QED BY <2>3, <2>4
<1> QED BY <1>9, <1>10

(* Two addresses of one cell: the first one marched spoils what the second    *)
(* reads; after the own-address writes it holds the later address, which the  *)
(* first one's check sees.                                                    *)
LEMMA AliasStep ==
  ASSUME SdramTestTypeOK, RunWord, NEW f, f = sdram.fault, f.kind = "alias",
         AliasSensed(f), AliasOwned(f)
  PROVE  AliasSensed(f)' /\ AliasOwned(f)'
<1>0. SUFFICES ASSUME NEW lo, lo = Lesser(f.cell, f.other), NEW hi, hi = Greater(f.cell, f.other),
                      NEW o, o = f.other
               PROVE  AliasSensed(f)' /\ AliasOwned(f)'
  OBVIOUS
<1> DEFINE ph == place.phase
           old == sdram.mem
           new == sdram'.mem
<1>1. /\ f \in Faults /\ old \in [Index -> SUBSET Bits] /\ sdram'.fault = f
      /\ lo \in Index /\ hi \in Index /\ lo < hi /\ lo # hi /\ o \in {lo, hi} /\ {f.cell, f.other} = {lo, hi}
      /\ f.bit = 0 /\ 0 \in Bits /\ o \in Index
  <2>1. f \in Faults /\ old \in [Index -> SUBSET Bits] /\ sdram'.fault = f BY <1>0, WordData
  <2>2. f.cell \in Index /\ f.other \in Index /\ f.cell # f.other /\ f.bit = 0 BY <2>1, FaultShape
  <2> QED BY <1>0, <2>1, <2>2, Sizes DEF Lesser, Greater
<1>2. /\ ph \in 1 .. 16 /\ Word \in Index /\ ~Passed(Word) /\ place'.phase = ph
      /\ \A j \in Index : Passed(j) <=> IF SUITE[ph].ascending THEN j < Word ELSE Word < j
      /\ SUITE[ph].value[Word] \in SUBSET Bits
  BY WordPlace, WordData, Sizes
<1>3. \A p \in Int, j \in Index : Past(p, j)' <=> Past(p, j) \/ (p = ph /\ j = Word)
  BY WordPlace
<1>4. \A p \in Int, j \in Index : Past(p, j) <=> ph > p \/ (ph = p /\ Passed(j))
  BY DEF Past
<1>5. /\ Word \in {lo, hi} => Got = old[o]
      /\ new[o] = IF SUITE[ph].writes /\ Word \in {lo, hi} THEN SUITE[ph].value[Word] ELSE old[o]
  <2> DEFINE v == SUITE[ph].value[Word]
  <2>1. new = IF SUITE[ph].writes THEN CellWritten(f, old, Word, v) ELSE old BY <1>0, WordData
  <2>2. v \in SUBSET Bits BY <1>2
  <2>3. Got = CellRead(f, old, Word) BY <1>0 DEF Got
  <2> HIDE DEF v, ph, old
  <2>4. /\ Word \in {f.cell, f.other} => CellRead(f, old, Word) = old[f.other]
        /\ CellWritten(f, old, Word, v)[f.other] = IF Word \in {f.cell, f.other} THEN v ELSE old[f.other]
    BY <1>1, <1>2, <2>2, AliasWrite
  <2> QED BY <1>0, <1>1, <2>1, <2>3, <2>4 DEF v
<1>6. /\ SUITE[12].reads /\ SUITE[12].writes /\ SUITE[12].ascending /\ SUITE[12].group = 5
      /\ \A j \in Index : 0 \notin SUITE[12].expect[j] /\ 0 \in SUITE[12].value[j]
  BY <1>1, MarchRows
<1> HIDE DEF ph, old, new
<1>7. AliasSensed(f)'
  <2>1. Sensed(12, lo, 12, hi, o, TRUE) BY <1>0 DEF AliasSensed
  <2>2. ASSUME ph = 12, Word = lo PROVE ~Past(12, hi)' /\ 0 \in new[o]
    <3>1. 0 \in new[o] BY <1>1, <1>5, <1>6, <2>2
    <3>2. ~Passed(hi) BY <1>1, <1>2, <1>6, <2>2, Sizes
    <3>3. ~Past(12, hi) BY <1>1, <1>4, <2>2, <3>2
    <3> QED BY <1>1, <1>3, <2>2, <3>1, <3>3
  <2>3. ASSUME Past(12, lo), ~Past(12, hi), 0 \in old[o]
        PROVE  IF ph = 12 /\ Word = hi THEN 5 \in found'.groups ELSE 0 \in new[o]
    <3>1. ph = 12 /\ Passed(lo) BY <1>1, <1>2, <1>4, <2>3
    <3>2. CASE Word = hi
      <4>1. Bad BY <1>1, <1>5, <1>6, <2>3, <3>1, <3>2 DEF Bad, ph
      <4> QED BY <1>6, <3>1, <3>2, <4>1, BadSeen DEF ph
    <3>3. CASE Word # hi
      <4>1. Word # lo BY <1>2, <3>1
      <4> QED BY <1>5, <2>3, <3>3, <4>1
    <3> QED BY <3>2, <3>3
  <2>4. place.phase = 12 /\ Word = lo =>
          5 \in found'.groups \/ (~Past(12, hi)' /\ (sdram.fault.bit \in sdram'.mem[o] <=> TRUE))
    BY <1>0, <1>1, <2>2 DEF ph, new
  <2>5. Past(12, lo) /\ ~Past(12, hi) /\ (sdram.fault.bit \in sdram.mem[o] <=> TRUE) =>
          IF place.phase = 12 /\ Word = hi THEN 5 \in found'.groups
          ELSE sdram.fault.bit \in sdram'.mem[o] <=> TRUE
    BY <1>0, <1>1, <2>3 DEF ph, old, new
  <2>6. Sensed(12, lo, 12, hi, o, TRUE)'
    <3>1. lo \in Index /\ hi \in Index /\ o \in Index /\ 12 \in Int /\ TRUE \in BOOLEAN BY <1>1
    <3> QED BY <2>1, <2>4, <2>5, <3>1, SensedStep
  <2> QED BY <1>0, <2>6 DEF AliasSensed
<1>8. AliasOwned(f)'
  <2> SUFFICES ASSUME Past(1, hi)' PROVE 0 \in found'.groups \/ (~Past(2, lo)' /\ new[o] = v_own[hi])
    BY <1>0 DEF AliasOwned, new
  <2>1. CASE ph = 1 /\ Word = hi
    <3>1. new[o] = v_own[hi] BY <1>1, <1>5, <2>1, OwnRows
    <3>2. ~Past(2, lo)' BY <1>1, <1>3, <1>4, <2>1
    <3> QED BY <3>1, <3>2
  <2>2. CASE Past(1, hi) /\ ~(0 \in found.groups)
    <3>1. ~Past(2, lo) /\ old[o] = v_own[hi] BY <1>0, <2>2 DEF AliasOwned, old
    <3>2. CASE ph = 1
      <4>1. Passed(hi) BY <1>1, <1>4, <2>2, <3>2
      <4>2. Word # hi /\ Word # lo BY <1>1, <1>2, <3>2, <4>1, OwnRows, Sizes
      <4>3. ~Past(2, lo)' BY <1>1, <1>3, <3>1, <3>2
      <4> QED BY <1>5, <3>1, <4>2, <4>3
    <3>3. CASE ph = 2 /\ Word = lo
      <4>1. Got = v_own[hi] BY <1>5, <3>1, <3>3
      <4>2. v_own[hi] # v_own[lo] BY <1>1, AddressAssumption, Zenon
      <4>3. Bad /\ SUITE[ph].group = 0 BY <3>3, <4>1, <4>2, OwnRows DEF Bad, ph
      <4> QED BY <4>3, BadSeen DEF ph
    <3>4. CASE ph = 2 /\ Word # lo
      BY <1>1, <1>3, <1>5, <3>1, <3>4, OwnRows
    <3>5. ph = 1 \/ ph = 2 BY <1>1, <1>2, <1>4, <3>1
    <3> QED BY <3>2, <3>3, <3>4, <3>5
  <2>3. CASE Past(1, hi) /\ 0 \in found.groups BY <2>3, BadSeen
  <2>4. Past(1, hi) \/ (ph = 1 /\ Word = hi) BY <1>1, <1>3
  <2> QED BY <2>1, <2>2, <2>3, <2>4
<1> QED BY <1>7, <1>8

LEMMA WordDetected ==
  ASSUME SdramTestTypeOK, Held, RunWord, Detected
  PROVE  Detected'
<1> SUFFICES ASSUME NEW f, f = sdram.fault
             PROVE  Detected'
  OBVIOUS
<1>1. sdram'.fault = f BY WordData
<1>2. StuckSensed(sdram.fault)'
  <2>1. CASE f.kind = "stuck" BY <2>1, StuckStep DEF Detected
  <2>2. CASE f.kind # "stuck" BY <1>1, <2>2 DEF StuckSensed
  <2> QED BY <2>1, <2>2
<1>3. SlowSensed(sdram.fault)'
  <2>1. CASE f.kind = "transition" BY <2>1, SlowStep DEF Detected
  <2>2. CASE f.kind # "transition" BY <1>1, <2>2 DEF SlowSensed
  <2> QED BY <2>1, <2>2
<1>4. CouplingSensed(f)' /\ VictimPoised(f)'
  <2>1. CASE f.kind \in {"forces", "inverts"} BY <2>1, CouplingStep DEF Detected
  <2>2. CASE f.kind \notin {"forces", "inverts"} BY <2>2 DEF CouplingSensed, VictimPoised
  <2> QED BY <2>1, <2>2
<1>5. AliasSensed(f)' /\ AliasOwned(f)'
  <2>1. CASE f.kind = "alias" BY <2>1, AliasStep DEF Detected
  <2>2. CASE f.kind # "alias" BY <2>2 DEF AliasSensed, AliasOwned
  <2> QED BY <2>1, <2>2
<1>6. CouplingSensed(sdram.fault)' /\ VictimPoised(sdram.fault)'
      /\ AliasSensed(sdram.fault)' /\ AliasOwned(sdram.fault)'
  BY <1>1, <1>4, <1>5
<1> QED BY <1>2, <1>3, <1>6 DEF Detected

-----------------------------------------------------------------------------
(* The error log.                                                             *)
LEMMA Wrapped ==
  ASSUME NEW n \in Nat, n > 0, NEW x \in Nat, x < 2 * n
  PROVE  x % n = IF x < n THEN x ELSE x - n
OBVIOUS

(* The cells of the ring, counted back from its head, and its next head.      *)
LEMMA Back ==
  ASSUME NEW n \in Nat, n > 0, NEW h \in 0 .. n - 1, NEW k \in 1 .. n
  PROVE  (h + n - k) % n = IF k =< h THEN h - k ELSE h + n - k
<1> DEFINE x == h + n - k
<1>1. x \in Nat /\ x < 2 * n /\ x - n = h - k /\ (x < n <=> h < k) OBVIOUS
<1>2. x % n = IF x < n THEN x ELSE x - n
  <2> HIDE DEF x
  <2> QED BY <1>1, Wrapped
<1> HIDE DEF x
<1>3. x % n = IF k =< h THEN h - k ELSE x BY <1>1, <1>2
<1> QED BY <1>3 DEF x

LEMMA Forth ==
  ASSUME NEW n \in Nat, n > 0, NEW h \in 0 .. n - 1
  PROVE  (h + 1) % n = IF h + 1 < n THEN h + 1 ELSE 0
<1>1. h + 1 \in Nat /\ h + 1 < 2 * n OBVIOUS
<1>2. (h + 1) % n = IF h + 1 < n THEN h + 1 ELSE h + 1 - n BY <1>1, Wrapped
<1> QED BY <1>2

(* The last failures with one more: it comes last, the others move up when the *)
(* log is full.                                                               *)
LEMMA KeptLast ==
  ASSUME NEW last \in Seq(Failures), NEW e \in Failures, Len(last) =< SdErrLogCap
  PROVE  /\ Kept(last, e) \in Seq(Failures)
         /\ Len(Kept(last, e)) = IF Len(last) < SdErrLogCap THEN Len(last) + 1 ELSE SdErrLogCap
         /\ Kept(last, e)[Len(Kept(last, e))] = e
         /\ \A k \in 1 .. Len(Kept(last, e)) - 1 :
              Kept(last, e)[k] = last[k + Len(last) + 1 - Len(Kept(last, e))]
<1>0. SdErrLogCap \in Nat /\ SdErrLogCap > 0 /\ Len(last) \in Nat BY Sizes, LenProperties
<1>1. CASE Len(last) < SdErrLogCap
  <2>1. Kept(last, e) = Append(last, e) BY <1>1 DEF Kept
  <2> HIDE DEF Failures
  <2> QED BY <1>0, <1>1, <2>1, AppendProperties
<1>2. CASE ~(Len(last) < SdErrLogCap)
  <2>1. Kept(last, e) = Append(Tail(last), e) BY <1>2 DEF Kept
  <2>2. last # <<>> /\ Len(last) = SdErrLogCap BY <1>0, <1>2
  <2>3. /\ Tail(last) \in Seq(Failures) /\ Len(Tail(last)) = Len(last) - 1
        /\ \A k \in 1 .. Len(Tail(last)) : Tail(last)[k] = last[k + 1]
    BY <2>2, HeadTailProperties
  <2> DEFINE t == Tail(last)
  <2> HIDE DEF t
  <2>4. /\ t \in Seq(Failures) /\ Len(t) = SdErrLogCap - 1
        /\ \A k \in 1 .. SdErrLogCap - 1 : t[k] = last[k + 1]
    BY <2>2, <2>3 DEF t
  <2>5. /\ Append(t, e) \in Seq(Failures) /\ Len(Append(t, e)) = SdErrLogCap
        /\ \A k \in 1 .. SdErrLogCap - 1 : Append(t, e)[k] = t[k]
        /\ Append(t, e)[SdErrLogCap] = e
    <3>1. /\ Append(t, e) \in Seq(Failures) /\ Len(Append(t, e)) = Len(t) + 1
          /\ \A k \in 1 .. Len(t) : Append(t, e)[k] = t[k]
          /\ Append(t, e)[Len(t) + 1] = e
      BY <2>4, AppendProperties
    <3>2. Len(t) + 1 = SdErrLogCap BY <1>0, <2>4
    <3> QED BY <2>4, <3>1, <3>2
  <2> QED BY <1>0, <2>1, <2>2, <2>4, <2>5 DEF t
<1> QED BY <1>1, <1>2

(* Reverse, read by place.                                                    *)
LEMMA Reversed ==
  ASSUME NEW S, NEW s \in Seq(S)
  PROVE  Reverse(s) = [i \in 1 .. Len(s) |-> s[Len(s) - i + 1]]
BY DEF Reverse

Logs == [buf : [0 .. (SdErrLogCap - 1) -> Failures], len : 0 .. SdErrLogCap,
         head : 0 .. (SdErrLogCap - 1), total : Nat]

(* ErrLog::push: the failure becomes the most recent one.                     *)
LEMMA LogPushed ==
  ASSUME NEW log \in Logs, NEW last \in Seq(Failures), NEW e \in Failures,
         Recent(log) = Reverse(last)
  PROVE  /\ LogPush(log, e) \in Logs
         /\ Recent(LogPush(log, e)) = Reverse(Kept(last, e))
         /\ LogPush(log, e).total = log.total + 1
<1> DEFINE cap == SdErrLogCap
           at(k) == (log.head + cap - k) % cap
           new == LogPush(log, e)
           l == Len(last)
           kept == Kept(last, e)
           m == Len(kept)
<1>0. cap \in Nat /\ cap > 0 /\ l \in Nat BY Sizes, LenProperties
<1>1. /\ log.buf \in [0 .. cap - 1 -> Failures] /\ log.len \in 0 .. cap
      /\ log.head \in 0 .. cap - 1 /\ log.total \in Nat
  BY DEF Logs
<1> DEFINE B == [log.buf EXCEPT ![log.head] = e]
           L == IF log.len < cap THEN log.len + 1 ELSE cap
           H == (log.head + 1) % cap
<1>2. /\ new.buf = B /\ new.len = L /\ new.head = H /\ new.total = log.total + 1
      /\ new = [buf |-> B, len |-> L, head |-> H, total |-> log.total + 1]
  BY DEF LogPush
<1>3. new.head = IF log.head + 1 < cap THEN log.head + 1 ELSE 0
  BY <1>0, <1>1, <1>2, Forth
<1>4. new \in Logs
  <2>1. B \in [0 .. cap - 1 -> Failures] BY <1>1
  <2>2. L \in 0 .. cap BY <1>0, <1>1
  <2>3. H \in 0 .. cap - 1 BY <1>0, <1>1, <1>2, <1>3
  <2>4. log.total + 1 \in Nat BY <1>1
  <2> HIDE DEF new, B, L, H
  <2> QED BY <1>2, <2>1, <2>2, <2>3, <2>4 DEF Logs
(* What was logged before.                                                    *)
<1>5. log.len = l /\ \A k \in 1 .. l : log.buf[at(k)] = last[l - k + 1]
  <2>1. Reverse(last) = [k \in 1 .. l |-> last[l - k + 1]] BY Reversed
  <2>2. [k \in 1 .. log.len |-> log.buf[at(k)]] = [k \in 1 .. l |-> last[l - k + 1]] BY <2>1 DEF Recent
  <2>3. 1 .. log.len = 1 .. l
    <3>1. DOMAIN [k \in 1 .. log.len |-> log.buf[at(k)]] = DOMAIN [k \in 1 .. l |-> last[l - k + 1]]
      BY <2>2
    <3> QED BY <3>1
  <2>4. log.len = l BY <1>0, <1>1, <2>3
  <2>5. ASSUME NEW k \in 1 .. l PROVE log.buf[at(k)] = last[l - k + 1]
    <3>1. [i \in 1 .. log.len |-> log.buf[at(i)]][k] = [i \in 1 .. l |-> last[l - i + 1]][k] BY <2>2
    <3> HIDE DEF at, l
    <3> QED BY <2>4, <3>1
  <2> QED BY <2>4, <2>5
<1>6. /\ kept \in Seq(Failures) /\ m = (IF l < cap THEN l + 1 ELSE cap) /\ kept[m] = e
      /\ \A k \in 1 .. m - 1 : kept[k] = last[k + l + 1 - m]
  <2>1. Len(last) =< SdErrLogCap BY <1>1, <1>5
  <2> QED BY <2>1, KeptLast
<1>7. new.len = m BY <1>2, <1>5, <1>6
(* What is logged now: the cell before the new head, and those before it.     *)
<1>8. ASSUME NEW k \in 1 .. m
      PROVE  new.buf[(new.head + cap - k) % cap] = kept[m - k + 1]
  <2> HIDE DEF new, kept, m, l
  <2>1. m =< cap /\ m \in Nat BY <1>0, <1>6
  <2>2. (new.head + cap - k) % cap = IF k =< new.head THEN new.head - k ELSE new.head + cap - k
    <3>1. k \in 1 .. cap /\ new.head \in 0 .. cap - 1 BY <1>0, <1>1, <1>3, <2>1
    <3> QED BY <1>0, <3>1, Back
  <2>3. CASE k = 1
    <3>1. (new.head + cap - k) % cap = log.head
      <4> DEFINE back == (new.head + cap - k) % cap
      <4>1. back = IF k =< new.head THEN new.head - k ELSE new.head + cap - k BY <2>2
      <4> HIDE DEF back
      <4>2. CASE log.head + 1 < cap
        <5>1. new.head = log.head + 1 BY <1>3, <4>2
        <5> QED BY <1>1, <2>3, <4>1, <5>1 DEF back
      <4>3. CASE ~(log.head + 1 < cap)
        <5>1. new.head = 0 /\ log.head = cap - 1 BY <1>0, <1>1, <1>3, <4>3
        <5> QED BY <1>0, <2>3, <4>1, <5>1 DEF back
      <4> QED BY <4>2, <4>3
    <3>2. new.buf[log.head] = e BY <1>1, <1>2
    <3> QED BY <1>6, <2>1, <2>3, <3>1, <3>2
  <2>4. CASE k > 1
    <3>1. k - 1 \in 1 .. l /\ k - 1 \in 1 .. cap - 1 BY <1>0, <1>6, <2>1, <2>4
    <3>2. at(k - 1) = IF k - 1 =< log.head THEN log.head - (k - 1) ELSE log.head + cap - (k - 1)
      <4>1. k - 1 \in 1 .. cap BY <1>0, <3>1
      <4> QED BY <1>0, <1>1, <4>1, Back
    <3>3. (new.head + cap - k) % cap = at(k - 1) /\ at(k - 1) # log.head /\ at(k - 1) \in 0 .. cap - 1
      <4> DEFINE back == (new.head + cap - k) % cap
      <4> HIDE DEF back, at
      <4>0. log.head \in 0 .. cap - 1 /\ k - 1 \in 1 .. cap - 1 BY <1>1, <3>1
      <4>1. back = IF k =< new.head THEN new.head - k ELSE new.head + cap - k BY <2>2 DEF back
      <4>3. CASE log.head + 1 < cap
        <5>1. new.head = log.head + 1 BY <1>3, <4>3
        <5>2. back = at(k - 1)
          <6>1. CASE k =< log.head + 1 BY <1>0, <3>2, <4>0, <4>1, <5>1, <6>1
          <6>2. CASE ~(k =< log.head + 1) BY <1>0, <3>2, <4>0, <4>1, <5>1, <6>2
          <6> QED BY <6>1, <6>2
        <5>3. at(k - 1) # log.head /\ at(k - 1) \in 0 .. cap - 1 BY <1>0, <3>2, <4>0
        <5> QED BY <5>2, <5>3 DEF back
      <4>4. CASE ~(log.head + 1 < cap)
        <5>1. new.head = 0 /\ log.head = cap - 1 BY <1>0, <1>3, <4>0, <4>4
        <5>2. back = cap - k /\ at(k - 1) = cap - k BY <1>0, <3>2, <4>0, <4>1, <5>1
        <5>3. at(k - 1) # log.head /\ at(k - 1) \in 0 .. cap - 1 BY <1>0, <3>2, <4>0
        <5> QED BY <5>2, <5>3 DEF back
      <4> QED BY <4>3, <4>4
    <3>4. new.buf[at(k - 1)] = log.buf[at(k - 1)] BY <1>1, <1>2, <3>3
    <3>5. log.buf[at(k - 1)] = last[l - (k - 1) + 1] BY <1>5, <3>1
    <3>6. m - k + 1 \in 1 .. m - 1 BY <2>1, <2>4
    <3>7. kept[m - k + 1] = last[m - k + 1 + l + 1 - m] BY <1>6, <3>6
    <3>8. m - k + 1 + l + 1 - m = l - (k - 1) + 1 BY <1>0, <2>1
    <3> HIDE DEF at
    <3> QED BY <3>3, <3>4, <3>5, <3>7, <3>8
  <2> QED BY <2>1, <2>3, <2>4
<1>9. Recent(new) = Reverse(kept)
  <2>1. Reverse(kept) = [k \in 1 .. m |-> kept[m - k + 1]] BY <1>6, Reversed
  <2>2. Recent(new) = [k \in 1 .. m |-> new.buf[(new.head + cap - k) % cap]]
    <3> HIDE DEF new, m
    <3> QED BY <1>7 DEF Recent
  <2> HIDE DEF new, m, kept
  <2> QED BY <1>8, <2>1, <2>2
<1> QED BY <1>2, <1>4, <1>9

(* One more failure is counted.                                               *)
LEMMA Counted ==
  ASSUME NEW errs \in [0 .. 5 -> Nat], NEW g \in 0 .. 5
  PROVE  /\ [errs EXCEPT ![g] = @ + 1] \in [0 .. 5 -> Nat]
         /\ TotalErrs(errs) \in Nat
         /\ TotalErrs([errs EXCEPT ![g] = @ + 1]) = TotalErrs(errs) + 1
BY DEF TotalErrs

-----------------------------------------------------------------------------
(* One word of run_phase keeps the invariant.                                 *)
LEMMA WordLocated ==
  ASSUME SdramTestTypeOK, Held, RunWord, Bad
  PROVE  /\ sdram.fault.kind # "none"
         /\ <<Word, SUITE[place.phase].expect[Word], Got>> \in Failures
         /\ Located(sdram.fault, <<Word, SUITE[place.phase].expect[Word], Got>>)
<1> DEFINE f == sdram.fault
           x == SUITE[place.phase].expect[Word]
           e == <<Word, x, Got>>
<1>1. f \in Faults /\ Word \in Index /\ x \in SUBSET Bits /\ Got \in SUBSET Bits
  BY WordPlace, WordData
<1>2. f.kind \in {"none", "stuck", "transition", "forces", "inverts", "alias"} /\ f.bit \in Bits
  BY <1>1, FaultShape
<1>3. Near(f, Word, Got, x) /\ Got # x BY WordRead DEF Bad
<1>4. Word \in Suspects(f) BY <1>3 DEF Near
<1>5. f.kind # "none" BY <1>4 DEF Suspects
<1>6. Word \in (CASE f.kind = "alias" -> {f.cell, f.other}
                   [] f.kind \in {"forces", "inverts"} -> {f.other}
                   [] OTHER -> {f.cell})
  <2>1. CASE f.kind = "alias" BY <1>4, <2>1 DEF Suspects
  <2>2. CASE f.kind \in {"forces", "inverts"} BY <1>4, <2>2 DEF Suspects
  <2>3. CASE f.kind \in {"stuck", "transition"} BY <1>4, <2>3 DEF Suspects
  <2> QED BY <1>2, <1>5, <2>1, <2>2, <2>3
<1>7. f.kind # "alias" => \A b \in Bits : (b \in x <=> b \in Got) <=> b # f.bit
  <2> HIDE DEF f, x
  <2>1. SUFFICES ASSUME SameBut(f.bit, Got, x), NEW b \in Bits
                 PROVE  (b \in x <=> b \in Got) <=> b # f.bit
    BY <1>3 DEF Near
  <2>2. PICK k \in Bits : ~(k \in x <=> k \in Got) BY <1>1, <1>3
  <2>3. k = f.bit BY <2>1, <2>2 DEF SameBut
  <2> QED BY <2>1, <2>2, <2>3 DEF SameBut
<1>8. e[1] = Word /\ e[2] = x /\ e[3] = Got OBVIOUS
<1>9. e \in Failures BY <1>1 DEF Failures
<1> HIDE DEF e, f, x
<1>10. Located(f, e) BY <1>6, <1>7, <1>8 DEF Located
<1> QED BY <1>5, <1>9, <1>10 DEF e, f, x

Tallies == [errs : [0 .. 5 -> Nat], log : Logs]

(* The count, the log and the last failures.                                  *)
LEMMA WordTallied ==
  ASSUME SdramTestTypeOK, Held, RunWord, NeverAccused, FaultsLocated, LogShowsLast
  PROVE  /\ tally' \in Tallies /\ found'.last \in Seq(Failures) /\ found'.groups \in SUBSET (0 .. 5)
         /\ found' \in [groups : SUBSET (0..5), last : Seq(Failures),
                        keys : SUBSET (UNION {Range(read) : read \in KeyReads})]
         /\ NeverAccused' /\ FaultsLocated' /\ LogShowsLast'
<1> DEFINE e == <<Word, SUITE[place.phase].expect[Word], Got>>
           g == SUITE[place.phase].group
           Keys == SUBSET (UNION {Range(read) : read \in KeyReads})
<1>1. tally \in Tallies /\ tally.errs \in [0 .. 5 -> Nat] /\ tally.log \in Logs
  BY DEF SdramTestTypeOK, Tallies, Logs
<1>2. found \in [groups : SUBSET (0..5), last : Seq(Failures), keys : Keys]
  BY DEF SdramTestTypeOK
<1>3. g \in 0 .. 5 BY WordPlace DEF Row
<1>4. sdram'.fault = sdram.fault BY WordData
<1>5. {} \in Keys OBVIOUS
<1> HIDE DEF Keys
<1>6. CASE Bad
  <2>1. /\ tally' = [errs |-> [tally.errs EXCEPT ![g] = @ + 1], log |-> LogPush(tally.log, e)]
        /\ found' = [groups |-> found.groups \cup {g}, last |-> Kept(found.last, e), keys |-> {}]
    BY <1>6, WordReport
  <2>2. sdram.fault.kind # "none" /\ e \in Failures /\ Located(sdram.fault, e) BY <1>6, WordLocated
  <2>3. Recent(tally.log) = Reverse(found.last) /\ tally.log.total = TotalErrs(tally.errs)
    BY DEF LogShowsLast
  <2> HIDE DEF e, g
  <2>4. /\ LogPush(tally.log, e) \in Logs
        /\ Recent(LogPush(tally.log, e)) = Reverse(Kept(found.last, e))
        /\ LogPush(tally.log, e).total = tally.log.total + 1
    BY <1>1, <1>2, <2>2, <2>3, LogPushed
  <2>5. /\ [tally.errs EXCEPT ![g] = @ + 1] \in [0 .. 5 -> Nat]
        /\ TotalErrs([tally.errs EXCEPT ![g] = @ + 1]) = TotalErrs(tally.errs) + 1
    BY <1>1, <1>3, Counted
  <2>6. Len(found.last) =< SdErrLogCap
    <3>1. Reverse(found.last) = [i \in 1 .. Len(found.last) |-> found.last[Len(found.last) - i + 1]]
      BY <1>2, Reversed
    <3>2. DOMAIN Recent(tally.log) = 1 .. tally.log.len BY DEF Recent
    <3>3. 1 .. tally.log.len = 1 .. Len(found.last) BY <2>3, <3>1, <3>2
    <3>4. tally.log.len \in 0 .. SdErrLogCap BY <1>1 DEF Logs
    <3>5. Len(found.last) \in Nat BY <1>2, LenProperties
    <3> QED BY <3>3, <3>4, <3>5, Sizes
  <2>7. /\ Kept(found.last, e) \in Seq(Failures)
        /\ Kept(found.last, e)[Len(Kept(found.last, e))] = e
        /\ \A k \in 1 .. Len(Kept(found.last, e)) - 1 :
             Kept(found.last, e)[k] = found.last[k + Len(found.last) + 1 - Len(Kept(found.last, e))]
        /\ Len(Kept(found.last, e)) = IF Len(found.last) < SdErrLogCap THEN Len(found.last) + 1 ELSE SdErrLogCap
    BY <1>2, <2>2, <2>6, KeptLast
  <2>8. tally' \in Tallies BY <2>1, <2>4, <2>5 DEF Tallies
  <2>9. found' \in [groups : SUBSET (0..5), last : Seq(Failures), keys : Keys]
    BY <1>2, <1>3, <1>5, <2>1, <2>7
  <2>10. NeverAccused' BY <1>4, <2>2 DEF NeverAccused
  <2>11. FaultsLocated'
    <3> DEFINE kept == Kept(found.last, e)
               l == Len(found.last)
    <3> SUFFICES ASSUME NEW k \in 1 .. Len(kept) PROVE Located(sdram.fault, kept[k])
      BY <1>4, <2>1 DEF FaultsLocated, Located
    <3>1. CASE k = Len(kept) BY <2>2, <2>7, <3>1
    <3>2. CASE k # Len(kept)
      <4>1. l \in Nat /\ Len(kept) \in Nat BY <1>2, <2>7, LenProperties
      <4>2. k \in 1 .. Len(kept) - 1 BY <3>2, <4>1
      <4>3. k + l + 1 - Len(kept) \in 1 .. l
        <5> DEFINE m == Len(kept)
        <5>1. m = (IF l < SdErrLogCap THEN l + 1 ELSE SdErrLogCap) /\ l =< SdErrLogCap BY <2>6, <2>7
        <5> HIDE DEF m, l, kept
        <5>2. m = l + 1 \/ m = l BY <4>1, <5>1, Sizes
        <5> QED BY <4>1, <4>2, <5>2 DEF m
      <4>4. kept[k] = found.last[k + l + 1 - Len(kept)] BY <2>7, <4>2
      <4> HIDE DEF kept
      <4> QED BY <4>3, <4>4 DEF FaultsLocated
    <3> QED BY <3>1, <3>2
  <2>12. LogShowsLast' BY <2>1, <2>3, <2>4, <2>5 DEF LogShowsLast
  <2> QED BY <2>8, <2>9, <2>10, <2>11, <2>12 DEF Keys
<1>7. CASE ~Bad
  <2>1. tally' = tally /\ found' = [found EXCEPT !.keys = {}] /\ found'.groups = found.groups
        /\ found'.last = found.last
    BY <1>7, WordReport
  <2>2. found' \in [groups : SUBSET (0..5), last : Seq(Failures), keys : Keys] BY <1>2, <1>5, <2>1
  <2>3. NeverAccused' BY <1>4, <2>1 DEF NeverAccused
  <2>4. FaultsLocated' BY <1>4, <2>1 DEF FaultsLocated, Located
  <2>5. LogShowsLast' BY <2>1 DEF LogShowsLast
  <2> QED BY <1>1, <2>1, <2>2, <2>3, <2>4, <2>5 DEF Keys
<1> QED BY <1>6, <1>7

Places == [phase : 1 .. Len(SUITE), done : 0 .. SdWords, left : 0 .. SdWords]

LEMMA WordStep ==
  ASSUME TestInv, RunWord
  PROVE  TestInv'
<1>1. SdramTestTypeOK /\ Underway /\ Held /\ Detected /\ NeverAccused /\ FaultsLocated /\ LogShowsLast
      /\ KeysObeyed
  BY DEF TestInv
<1>2. /\ place \in Places /\ place.done + place.left =< SdWords /\ place.left > 0
      /\ place' = [place EXCEPT !.done = @ + 1, !.left = @ - 1]
      /\ test' = test /\ test.status = "Running" /\ found'.keys = {}
  BY <1>1, WordReport DEF SdramTestTypeOK, RunWord, Places
<1>3. place.done < SdWords BY <1>1, WordPlace
<1>4. place' \in Places /\ place'.done + place'.left =< SdWords /\ place'.done > 0
  <2>1. /\ place.phase \in 1 .. Len(SUITE) /\ place.done \in 0 .. SdWords /\ place.left \in 0 .. SdWords
        /\ place' = [phase |-> place.phase, done |-> place.done + 1, left |-> place.left - 1]
    BY <1>2 DEF Places
  <2>2. place.done + 1 \in 0 .. SdWords /\ place.left - 1 \in 0 .. SdWords
        /\ place.done + 1 + (place.left - 1) =< SdWords /\ place.done + 1 > 0
    BY <1>2, <1>3, <2>1, Sizes
  <2> QED BY <2>1, <2>2 DEF Places
<1>5. SdramTestTypeOK'
  <2>1. sdram' \in [fault : Faults, mem : [Index -> SUBSET Bits]] BY <1>1, WordData
  <2>2. tally' \in Tallies /\ found' \in [groups : SUBSET (0..5), last : Seq(Failures),
                        keys : SUBSET (UNION {Range(read) : read \in KeyReads})]
    BY <1>1, WordTallied
  <2>3. test' = test BY <1>2
  <2> QED BY <1>1, <1>4, <2>1, <2>2, <2>3 DEF SdramTestTypeOK, Tallies, Logs, Places
<1>6. Underway' BY <1>2, <1>4 DEF Underway
<1>7. KeysObeyed' BY <1>2 DEF KeysObeyed
<1>8. Held' BY <1>1, WordHeld
<1>9. Detected' BY <1>1, WordDetected
<1>10. NeverAccused' /\ FaultsLocated' /\ LogShowsLast' BY <1>1, WordTallied
<1> QED BY <1>5, <1>6, <1>7, <1>8, <1>9, <1>10 DEF TestInv

-----------------------------------------------------------------------------
(* Between two words: the same place, the next phase, or the first one.       *)
LEMMA ChunkSize ==
  ASSUME NEW d \in 0 .. SdWords
  PROVE  ChunkAt(d) \in 0 .. SdWords - d /\ (d < SdWords => ChunkAt(d) > 0)
BY Sizes DEF ChunkAt

LEMMA FaultPhases ==
  ASSUME NEW f \in Faults
  PROVE  /\ First(f.to) \in 12 .. 13
         /\ f.kind \in {"forces", "inverts"} =>
              Sense(f) \in 12 .. 15 /\ See(f) \in Int /\ Poised(f) \in 11 .. 15
         /\ f.cell \in Index /\ f.other \in Index
         /\ Lesser(f.cell, f.other) \in Index /\ Greater(f.cell, f.other) \in Index
<1>1. f.cell \in Index /\ f.other \in Index BY FaultShape
<1>2. ASSUME f.kind \in {"forces", "inverts"} PROVE Sense(f) \in 12 .. 15 /\ See(f) \in Int
  BY <1>2, CouplingPlan
<1>3. First(f.to) \in 12 .. 13 BY DEF First
<1> QED BY <1>1, <1>2, <1>3 DEF Poised, Lesser, Greater

(* What is past, the memory and the groups decide what has been detected.     *)
LEMMA DetectedKept ==
  ASSUME SdramTestTypeOK, Detected, sdram' = sdram, found'.groups = found.groups,
         \A q \in Int, i \in Index : Past(q, i)' <=> Past(q, i)
  PROVE  Detected'
<1> SUFFICES ASSUME NEW f, f = sdram.fault
             PROVE  Detected'
  OBVIOUS
<1>1. f \in Faults /\ sdram'.fault = f BY DEF SdramTestTypeOK
<1>2. /\ First(f.to) \in Int /\ First(f.to) + 1 \in Int
      /\ f.kind \in {"forces", "inverts"} => Sense(f) \in Int /\ See(f) \in Int /\ Poised(f) \in Int
      /\ f.cell \in Index /\ f.other \in Index
      /\ Lesser(f.cell, f.other) \in Index /\ Greater(f.cell, f.other) \in Index
  BY <1>1, FaultPhases
<1>3. \A at, wrong : \A q, r \in Int, i, j \in Index :
        Sensed(q, i, r, j, at, wrong) => Sensed(q, i, r, j, at, wrong)'
  BY DEF Sensed
<1>4. StuckSensed(f)' /\ SlowSensed(f)' BY <1>2, <1>3 DEF Detected, StuckSensed, SlowSensed
<1>5. CouplingSensed(f)' BY <1>2, <1>3 DEF Detected, CouplingSensed
<1>6. VictimPoised(f)' BY <1>2 DEF Detected, VictimPoised
<1>7. AliasSensed(f)' /\ AliasOwned(f)'
  <2>1. SUFFICES ASSUME NEW lo \in Index, lo = Lesser(f.cell, f.other),
                        NEW hi \in Index, hi = Greater(f.cell, f.other)
                 PROVE  AliasSensed(f)' /\ AliasOwned(f)'
    BY <1>2
  <2>2. AliasSensed(f)'
    <3>1. f.kind = "alias" => Sensed(12, lo, 12, hi, f.other, TRUE) BY <2>1 DEF Detected, AliasSensed
    <3>2. 12 \in Int OBVIOUS
    <3>3. f.kind = "alias" => Sensed(12, lo, 12, hi, f.other, TRUE)' BY <1>3, <3>1, <3>2
    <3> QED BY <2>1, <3>3 DEF AliasSensed
  <2>3. AliasOwned(f)'
    <3>1. (Past(1, hi)' <=> Past(1, hi)) /\ (Past(2, lo)' <=> Past(2, lo)) OBVIOUS
    <3> QED BY <2>1, <3>1 DEF Detected, AliasOwned
  <2> QED BY <2>2, <2>3
<1> QED BY <1>1, <1>4, <1>5, <1>6, <1>7 DEF Detected

(* The same place: no word more, no word less.                                *)
LEMMA Stayed ==
  ASSUME SdramTestTypeOK, Held, Detected, sdram' = sdram, found'.groups = found.groups,
         place'.phase = place.phase, place'.done = place.done
  PROVE  Held' /\ Detected'
<1>1. \A i : Passed(i)' <=> Passed(i) BY DEF Passed
<1>2. \A q \in Int, i \in Index : Past(q, i)' <=> Past(q, i) BY <1>1 DEF Past
<1>3. \A i \in Index : Expected(i)' = Expected(i) BY <1>1 DEF Expected
<1>4. Held' BY <1>1, <1>3 DEF Held, Near, Suspects
<1> QED BY <1>2, <1>4, DetectedKept

(* A phase is over: the next one expects what this one left, and every word   *)
(* it passed stays past.                                                      *)
LEMMA Turned ==
  ASSUME SdramTestTypeOK, Held, Detected, sdram' = sdram, found'.groups = found.groups,
         place.done = SdWords, place.phase # Len(SUITE), place' = FirstOf(place.phase + 1)
  PROVE  /\ place' \in Places /\ place'.done + place'.left =< SdWords /\ place'.left > 0
         /\ Held' /\ Detected'
<1>1. place.phase \in 1 .. 15 BY SuiteRows DEF SdramTestTypeOK
<1>2. place'.phase = place.phase + 1 /\ place'.done = 0 /\ place'.left = ChunkAt(0)
      /\ place' = [phase |-> place.phase + 1, done |-> 0, left |-> ChunkAt(0)]
  BY DEF FirstOf
<1>3. ChunkAt(0) \in 0 .. SdWords /\ ChunkAt(0) > 0 BY ChunkSize, Sizes
<1>4. place' \in Places /\ place'.done + place'.left =< SdWords /\ place'.left > 0
  <2>1. place.phase + 1 \in 1 .. Len(SUITE) /\ 0 \in 0 .. SdWords BY <1>1, SuiteRows, Sizes
  <2>2. place' \in Places BY <1>2, <1>3, <2>1 DEF Places
  <2> QED BY <1>2, <1>3, <2>2, Sizes
<1>5. \A i \in Index : Passed(i) /\ ~Passed(i)' BY <1>2, Sizes DEF Passed
<1>6. \A q \in Int, i \in Index : Past(q, i)' <=> Past(q, i) BY <1>1, <1>2, <1>5 DEF Past
<1>7. Held'
  <2> SUFFICES ASSUME NEW i \in Index, SUITE[place.phase + 1].reads
               PROVE  Near(sdram.fault, i, sdram.mem[i], Expected(i))'
    BY <1>2, <1>5 DEF Held
  <2>1. Expected(i)' = SUITE[place.phase + 1].expect[i] BY <1>2, <1>5 DEF Expected
  <2>2. Expected(i) = SUITE[place.phase].value[i] BY <1>5 DEF Expected
  <2>3. Expected(i)' = Expected(i) BY <1>1, <2>1, <2>2, SuiteShape
  <2>4. Near(sdram.fault, i, sdram.mem[i], Expected(i)) BY <1>5 DEF Held
  <2> QED BY <2>3, <2>4 DEF Near, Suspects
<1> QED BY <1>4, <1>6, <1>7, DetectedKept

(* A new pass, or a new run: nothing is past, whatever the memory holds.      *)
LEMMA NothingPast ==
  sdram.fault \in Faults /\ place.phase = 1 /\ place.done = 0 => Held /\ Detected
<1> SUFFICES ASSUME sdram.fault \in Faults, place.phase = 1, place.done = 0
             PROVE  Held /\ Detected
  OBVIOUS
<1> DEFINE f == sdram.fault
<1>1. \A i \in Index : ~Passed(i) BY Sizes DEF Passed
<1>2. Held BY <1>1, OwnRows DEF Held
<1>3. \A q \in 1 .. 15, i \in Index : ~Past(q, i) BY <1>1 DEF Past
<1>4. /\ First(f.to) \in 1 .. 15
      /\ f.kind \in {"forces", "inverts"} => Sense(f) \in 1 .. 15 /\ Poised(f) \in 1 .. 15
      /\ f.cell \in Index /\ f.other \in Index
      /\ Lesser(f.cell, f.other) \in Index /\ Greater(f.cell, f.other) \in Index
  BY FaultPhases
<1>5. StuckSensed(f) /\ SlowSensed(f) BY <1>3, <1>4 DEF StuckSensed, SlowSensed, Sensed
<1>6. CouplingSensed(f) BY <1>3, <1>4 DEF CouplingSensed, Sensed
<1>7. VictimPoised(f) BY <1>3, <1>4 DEF VictimPoised
<1>8. AliasSensed(f) /\ AliasOwned(f) BY <1>3, <1>4 DEF AliasSensed, AliasOwned, Sensed
<1> QED BY <1>2, <1>5, <1>6, <1>7, <1>8 DEF Detected

LEMMA Started ==
  ASSUME SdramTestTypeOK, sdram' = sdram, place' = FirstOf(1)
  PROVE  /\ place' \in Places /\ place'.done + place'.left =< SdWords /\ place'.left > 0
         /\ Held' /\ Detected'
<1>1. place'.phase = 1 /\ place'.done = 0 /\ place'.left = ChunkAt(0)
      /\ place' = [phase |-> 1, done |-> 0, left |-> ChunkAt(0)]
  BY DEF FirstOf
<1>2. ChunkAt(0) \in 0 .. SdWords /\ ChunkAt(0) > 0 BY ChunkSize, Sizes
<1>3. place' \in Places /\ place'.done + place'.left =< SdWords /\ place'.left > 0
  BY <1>1, <1>2, SuiteRows, Sizes DEF Places
<1>4. (sdram.fault \in Faults /\ place.phase = 1 /\ place.done = 0 => Held /\ Detected)'
  BY NothingPast, PTL
<1>5. sdram'.fault \in Faults BY DEF SdramTestTypeOK
<1> QED BY <1>1, <1>3, <1>4, <1>5

LEMMA TallyKept ==
  ASSUME NeverAccused, FaultsLocated, LogShowsLast, sdram' = sdram, tally' = tally,
         found'.last = found.last, found'.groups \in {found.groups, {}}
  PROVE  NeverAccused' /\ FaultsLocated' /\ LogShowsLast'
<1>1. NeverAccused' BY DEF NeverAccused
<1>2. FaultsLocated' BY DEF FaultsLocated, Located
<1>3. LogShowsLast' BY DEF LogShowsLast
<1> QED BY <1>1, <1>2, <1>3

-----------------------------------------------------------------------------
(* The keys.                                                                  *)
AllKeys == UNION {Range(read) : read \in KeyReads}

LEMMA ReadKeys ==
  ASSUME NEW read \in KeyReads
  PROVE  /\ Range(read) \in SUBSET AllKeys /\ Reboots(read) \in SUBSET AllKeys
         /\ Reboots(read) = Range(read) \cap {"r", "b"}
         /\ Reboots(read) \subseteq {"r", "b"}
         /\ Stop(read) <=> "s" \in Range(read)
         /\ Rebooted(read) \in {"Reboot", "Bootloader"}
         /\ Stop(read) \in BOOLEAN /\ Toggle(read) \in BOOLEAN
<1>1. Range(read) \in SUBSET AllKeys BY Zenon DEF AllKeys
<1>2. Reboots(read) = Range(read) \cap {"r", "b"} BY DEF Reboots
<1> QED BY <1>1, <1>2 DEF Stop, Rebooted, Toggle

Statuses == {"Waiting", "Running", "Paused", "Stopped", "Reboot", "Bootloader"}
Tests == [status : Statuses, pass : Nat, led : BOOLEAN, addr : Index]
Finds == [groups : SUBSET (0 .. 5), last : Seq(Failures), keys : SUBSET AllKeys]

LEMMA Typed ==
  SdramTestTypeOK <=>
    /\ sdram \in [fault : Faults, mem : [Index -> SUBSET Bits]]
    /\ place \in Places /\ place.done + place.left =< SdWords
    /\ test \in Tests /\ tally \in Tallies /\ found \in Finds
BY DEF SdramTestTypeOK, Places, Tests, Statuses, Tallies, Logs, Finds, AllKeys

LEMMA TypedNext ==
  SdramTestTypeOK' <=>
    /\ sdram' \in [fault : Faults, mem : [Index -> SUBSET Bits]]
    /\ place' \in Places /\ place'.done + place'.left =< SdWords
    /\ test' \in Tests /\ tally' \in Tallies /\ found' \in Finds
BY DEF SdramTestTypeOK, Places, Tests, Statuses, Tallies, Logs, Finds, AllKeys

(* The address shown after a chunk is in the memory.                          *)
LEMMA ShownAddress ==
  ASSUME SdramTestTypeOK, Underway, AtService
  PROVE  Shown \in Index /\ Verdict \in BOOLEAN
<1>1. place.done \in 0 .. SdWords /\ place.left \in 0 .. SdWords BY DEF SdramTestTypeOK
<1>2. place.done > 0 BY <1>1 DEF Underway, AtService
<1>3. Shown \in Index BY <1>1, <1>2, Sizes DEF Shown
<1> QED BY <1>3 DEF Verdict

-----------------------------------------------------------------------------
(* What the control loop does with a read keeps the invariant.                *)
LEMMA WaitingStep ==
  ASSUME TestInv, NEW read \in KeyReads, Waiting(read)
  PROVE  TestInv'
<1>1. /\ SdramTestTypeOK /\ Underway /\ Held /\ Detected /\ NeverAccused /\ FaultsLocated
      /\ LogShowsLast /\ KeysObeyed
  BY DEF TestInv
<1>2. /\ sdram \in [fault : Faults, mem : [Index -> SUBSET Bits]]
      /\ place \in Places /\ place.done + place.left =< SdWords
      /\ test \in Tests /\ tally \in Tallies /\ found \in Finds
  BY <1>1, Typed
<1>3. /\ sdram' = sdram /\ tally' = tally /\ found' = [found EXCEPT !.keys = Reboots(read)]
  BY DEF Waiting
<1>4. found'.last = found.last /\ found'.groups = found.groups /\ found'.keys = Reboots(read)
  BY <1>2, <1>3 DEF Finds
<1>5. found' \in Finds BY <1>2, <1>3, ReadKeys DEF Finds
<1>6. NeverAccused' /\ FaultsLocated' /\ LogShowsLast' BY <1>1, <1>3, <1>4, TallyKept
<1>7. CASE Reboots(read) # {}
  <2>1. test' = [test EXCEPT !.status = Rebooted(read)] /\ place' = place BY <1>7 DEF Waiting
  <2>2. test' \in Tests /\ test'.status \in {"Reboot", "Bootloader"}
    BY <1>2, <2>1, ReadKeys DEF Tests, Statuses
  <2>3. Held' /\ Detected' BY <1>1, <1>3, <1>4, <2>1, Stayed
  <2>4. SdramTestTypeOK' BY <1>2, <1>3, <1>5, <2>1, <2>2, TypedNext
  <2>5. Underway' BY <2>2 DEF Underway
  <2>6. KeysObeyed' BY <1>4, <1>7, <2>2, ReadKeys DEF KeysObeyed
  <2> QED BY <1>6, <2>3, <2>4, <2>5, <2>6 DEF TestInv
<1>8. CASE Reboots(read) = {}
  <2>1. test' = [test EXCEPT !.status = "Running", !.pass = 1] /\ place' = FirstOf(1)
    BY <1>8 DEF Waiting
  <2>2. test' \in Tests /\ test'.status = "Running" BY <1>2, <2>1 DEF Tests, Statuses
  <2>3. place' \in Places /\ place'.done + place'.left =< SdWords /\ place'.left > 0 /\ Held' /\ Detected'
    BY <1>1, <1>3, <2>1, Started
  <2>4. SdramTestTypeOK' BY <1>2, <1>3, <1>5, <2>2, <2>3, TypedNext
  <2>5. Underway' BY <2>2, <2>3 DEF Underway
  <2>6. KeysObeyed' BY <1>4, <1>8, <2>2 DEF KeysObeyed
  <2> QED BY <1>6, <2>3, <2>4, <2>5, <2>6 DEF TestInv
<1> QED BY <1>7, <1>8

LEMMA ServiceStep ==
  ASSUME TestInv, NEW read \in KeyReads, Service(read)
  PROVE  TestInv'
<1>1. /\ SdramTestTypeOK /\ Underway /\ Held /\ Detected /\ NeverAccused /\ FaultsLocated
      /\ LogShowsLast /\ KeysObeyed
  BY DEF TestInv
<1>2. /\ sdram \in [fault : Faults, mem : [Index -> SUBSET Bits]]
      /\ place \in Places /\ place.done + place.left =< SdWords
      /\ test \in Tests /\ tally \in Tallies /\ found \in Finds
  BY <1>1, Typed
<1>3. AtService /\ sdram' = sdram /\ tally' = tally
  BY DEF Service, ServiceReboots, ServiceHolds, ServiceGoesOn, PassOver
<1>4. /\ found'.last = found.last /\ found'.groups \in {found.groups, {}} /\ found'.keys = Range(read)
      /\ found' \in Finds
  BY <1>2, ReadKeys DEF Finds, Service, ServiceReboots, ServiceHolds, ServiceGoesOn, PassOver
<1>5. NeverAccused' /\ FaultsLocated' /\ LogShowsLast' BY <1>1, <1>3, <1>4, TallyKept
<1>6. Shown \in Index /\ Verdict \in BOOLEAN BY <1>1, <1>3, ShownAddress
<1>7. test.status \in {"Running", "Paused"} /\ place.done > 0
  BY <1>1, <1>2, <1>3 DEF AtService, Underway, Places
<1>8. CASE ServiceReboots(read)
  <2>1. /\ test' = [test EXCEPT !.status = Rebooted(read), !.addr = Shown] /\ place' = place
        /\ Reboots(read) # {} /\ found'.groups = found.groups
    BY <1>2, <1>8 DEF ServiceReboots, Finds
  <2>2. test' \in Tests /\ test'.status \in {"Reboot", "Bootloader"}
    BY <1>2, <1>6, <2>1, ReadKeys DEF Tests, Statuses
  <2>3. Held' /\ Detected' BY <1>1, <1>3, <2>1, Stayed
  <2>4. SdramTestTypeOK' BY <1>2, <1>3, <1>4, <2>1, <2>2, TypedNext
  <2>5. Underway' BY <2>2 DEF Underway
  <2>6. KeysObeyed' BY <1>4, <2>1, <2>2, ReadKeys DEF KeysObeyed
  <2> QED BY <1>5, <2>3, <2>4, <2>5, <2>6 DEF TestInv
<1>9. CASE ServiceHolds(read)
  <2>1. /\ test' = [test EXCEPT !.status = Served(read), !.addr = Shown,
                                !.led = IF Served(read) = "Stopped" THEN Verdict ELSE @]
        /\ place' = place /\ Reboots(read) = {} /\ found'.groups = found.groups
        /\ Served(read) \in {"Paused", "Stopped"}
    BY <1>2, <1>9 DEF ServiceHolds, Finds
  <2>2. test' \in Tests /\ test'.status = Served(read) BY <1>2, <1>6, <2>1 DEF Tests, Statuses
  <2>3. Held' /\ Detected' BY <1>1, <1>3, <2>1, Stayed
  <2>4. SdramTestTypeOK' BY <1>2, <1>3, <1>4, <2>1, <2>2, TypedNext
  <2>5. Underway' BY <1>7, <2>1, <2>2 DEF Underway
  <2>6. Stop(read) => Served(read) = "Stopped" BY DEF Served
  <2>7. KeysObeyed' BY <1>4, <2>1, <2>2, <2>6, ReadKeys DEF KeysObeyed
  <2> QED BY <1>5, <2>3, <2>4, <2>5, <2>7 DEF TestInv
<1>10. CASE ServiceGoesOn(read)
  <2>1. /\ place' = IF PhaseEnds THEN FirstOf(place.phase + 1)
                    ELSE [place EXCEPT !.left = ChunkAt(place.done)]
        /\ test' = [test EXCEPT !.status = "Running", !.addr = Shown]
        /\ Reboots(read) = {} /\ found'.groups = found.groups /\ Served(read) = "Running" /\ ~PassEnds
    BY <1>2, <1>10 DEF ServiceGoesOn, Finds
  <2>2. test' \in Tests /\ test'.status = "Running" BY <1>2, <1>6, <2>1 DEF Tests, Statuses
  <2>3. place' \in Places /\ place'.done + place'.left =< SdWords /\ place'.left > 0 /\ Held' /\ Detected'
    <3>1. CASE PhaseEnds
      <4>1. place.done = SdWords /\ place.phase # Len(SUITE) BY <2>1, <3>1 DEF PhaseEnds, PassEnds
      <4>2. place' = FirstOf(place.phase + 1) BY <2>1, <3>1
      <4> QED BY <1>1, <1>3, <2>1, <4>1, <4>2, Turned
    <3>2. CASE ~PhaseEnds
      <4>1. place' = [place EXCEPT !.left = ChunkAt(place.done)] BY <2>1, <3>2
      <4>2. place.done \in 0 .. SdWords /\ place.done # SdWords BY <1>2, <3>2 DEF Places, PhaseEnds
      <4>3. ChunkAt(place.done) \in 0 .. SdWords - place.done /\ ChunkAt(place.done) > 0
        <5>1. place.done < SdWords BY <4>2, Sizes
        <5> QED BY <4>2, <5>1, ChunkSize
      <4>4. place'.phase = place.phase /\ place'.done = place.done /\ place'.left = ChunkAt(place.done)
        BY <1>2, <4>1 DEF Places
      <4>5. place' \in Places /\ place'.done + place'.left =< SdWords
        <5>1. ChunkAt(place.done) \in 0 .. SdWords /\ place.done + ChunkAt(place.done) =< SdWords
          BY <4>2, <4>3, Sizes
        <5>2. place' \in Places BY <1>2, <4>1, <5>1 DEF Places
        <5> QED BY <4>4, <5>1, <5>2
      <4>6. Held' /\ Detected' BY <1>1, <1>3, <2>1, <4>4, Stayed
      <4> QED BY <4>3, <4>4, <4>5, <4>6
    <3> QED BY <3>1, <3>2
  <2>4. SdramTestTypeOK' BY <1>2, <1>3, <1>4, <2>2, <2>3, TypedNext
  <2>5. Underway' BY <2>2, <2>3 DEF Underway
  <2>6. ~Stop(read) BY <2>1 DEF Served
  <2>7. KeysObeyed' BY <1>4, <2>1, <2>2, <2>6, ReadKeys DEF KeysObeyed
  <2> QED BY <1>5, <2>3, <2>4, <2>5, <2>7 DEF TestInv
<1>11. CASE PassOver(read)
  <2>1. /\ place' = FirstOf(1) /\ Reboots(read) = {} /\ Served(read) = "Running"
        /\ test' = [status |-> "Running", pass |-> test.pass + 1, led |-> Verdict, addr |-> Shown]
    BY <1>11 DEF PassOver
  <2>2. test' \in Tests /\ test'.status = "Running" BY <1>2, <1>6, <2>1 DEF Tests, Statuses
  <2>3. place' \in Places /\ place'.done + place'.left =< SdWords /\ place'.left > 0 /\ Held' /\ Detected'
    BY <1>1, <1>3, <2>1, Started
  <2>4. SdramTestTypeOK' BY <1>2, <1>3, <1>4, <2>2, <2>3, TypedNext
  <2>5. Underway' BY <2>2, <2>3 DEF Underway
  <2>6. ~Stop(read) BY <2>1 DEF Served
  <2>7. KeysObeyed' BY <1>4, <2>1, <2>2, <2>6, ReadKeys DEF KeysObeyed
  <2> QED BY <1>5, <2>3, <2>4, <2>5, <2>7 DEF TestInv
<1> QED BY <1>8, <1>9, <1>10, <1>11 DEF Service

LEMMA StoppedStep ==
  ASSUME TestInv, NEW read \in KeyReads, Stopped(read)
  PROVE  TestInv'
<1>1. /\ SdramTestTypeOK /\ Underway /\ Held /\ Detected /\ NeverAccused /\ FaultsLocated
      /\ LogShowsLast /\ KeysObeyed
  BY DEF TestInv
<1>2. /\ sdram \in [fault : Faults, mem : [Index -> SUBSET Bits]]
      /\ place \in Places /\ place.done + place.left =< SdWords
      /\ test \in Tests /\ tally \in Tallies /\ found \in Finds
  BY <1>1, Typed
<1>3. /\ sdram' = sdram /\ tally' = tally /\ place' = place /\ found' = [found EXCEPT !.keys = Reboots(read)]
      /\ test.status = "Stopped"
      /\ test' = IF Reboots(read) # {} THEN [test EXCEPT !.status = Rebooted(read)]
                 ELSE [test EXCEPT !.led = Verdict]
  BY DEF Stopped
<1>4. found'.last = found.last /\ found'.groups = found.groups /\ found'.keys = Reboots(read)
      /\ found' \in Finds
  BY <1>2, <1>3, ReadKeys DEF Finds
<1>5. NeverAccused' /\ FaultsLocated' /\ LogShowsLast' BY <1>1, <1>3, <1>4, TallyKept
<1>6. Held' /\ Detected' BY <1>1, <1>3, <1>4, Stayed
<1>7. Verdict \in BOOLEAN BY DEF Verdict
<1>8. /\ test' \in Tests
      /\ IF Reboots(read) # {} THEN test'.status \in {"Reboot", "Bootloader"} ELSE test'.status = "Stopped"
  BY <1>2, <1>3, <1>7, ReadKeys DEF Tests, Statuses
<1>9. SdramTestTypeOK' BY <1>2, <1>3, <1>4, <1>8, TypedNext
<1>10. Underway' BY <1>8 DEF Underway
<1>11. KeysObeyed' BY <1>4, <1>8, ReadKeys DEF KeysObeyed
<1> QED BY <1>5, <1>6, <1>9, <1>10, <1>11 DEF TestInv

(* The empty log.                                                             *)
LEMMA EmptyLog ==
  /\ [errs |-> NoErrs, log |-> ErrLogNew] \in Tallies /\ TotalErrs(NoErrs) = 0 /\ ErrLogNew.total = 0
  /\ Recent(ErrLogNew) = Reverse(<<>>)
  /\ <<>> \in Seq(Failures) /\ Len(<<>>) = 0
<1>1. ErrLogNew \in Logs /\ ErrLogNew.total = 0 /\ ErrLogNew.len = 0
  <2>1. <<0, {}, {}>> \in Failures BY Sizes DEF Failures
  <2> QED BY <2>1, Sizes DEF ErrLogNew, Logs
<1>2. NoErrs \in [0 .. 5 -> Nat] /\ TotalErrs(NoErrs) = 0 BY DEF NoErrs, TotalErrs
<1>3. Recent(ErrLogNew) = Reverse(<<>>)
  <2>1. <<>> \in Seq(Failures) /\ Len(<<>>) = 0 BY EmptySeq
  <2> DEFINE s == <<>>
  <2> HIDE DEF s
  <2>2. s \in Seq(Failures) /\ Len(s) = 0 BY <2>1 DEF s
  <2>3. Reverse(s) = [i \in 1 .. Len(s) |-> s[Len(s) - i + 1]] BY <2>2, Reversed
  <2>4. Reverse(s) = [i \in {} |-> s[Len(s) - i + 1]] BY <2>2, <2>3
  <2>5. Recent(ErrLogNew) = [k \in {} |-> ErrLogNew.buf[(ErrLogNew.head + SdErrLogCap - k) % SdErrLogCap]]
    BY <1>1 DEF Recent
  <2>6. Recent(ErrLogNew) = Reverse(s) BY <2>4, <2>5
  <2> QED BY <2>6 DEF s
<1> QED BY <1>1, <1>2, <1>3, EmptySeq DEF Tallies

LEMMA RestartedStep ==
  ASSUME TestInv, NEW read \in KeyReads, Restarted(read)
  PROVE  TestInv'
<1>1. SdramTestTypeOK BY DEF TestInv
<1>2. /\ sdram \in [fault : Faults, mem : [Index -> SUBSET Bits]] /\ test \in Tests
  BY <1>1, Typed
<1>3. /\ sdram' = sdram /\ place' = FirstOf(1) /\ tally' = [errs |-> NoErrs, log |-> ErrLogNew]
      /\ test' = [test EXCEPT !.status = "Running", !.pass = 1, !.led = Verdict]
      /\ found' = [groups |-> {}, last |-> <<>>, keys |-> {}]
  BY DEF Restarted
<1>4. Verdict \in BOOLEAN BY DEF Verdict
<1>5. test' \in Tests /\ test'.status = "Running" BY <1>2, <1>3, <1>4 DEF Tests, Statuses
<1>6. place' \in Places /\ place'.done + place'.left =< SdWords /\ place'.left > 0 /\ Held' /\ Detected'
  BY <1>1, <1>3, Started
<1>7. tally' \in Tallies /\ found' \in Finds BY <1>3, EmptyLog DEF Finds
<1>8. SdramTestTypeOK' BY <1>2, <1>3, <1>5, <1>6, <1>7, TypedNext
<1>9. Underway' BY <1>5, <1>6 DEF Underway
<1>10. NeverAccused' /\ LogShowsLast' /\ FaultsLocated'
  BY <1>3, EmptyLog DEF NeverAccused, LogShowsLast, FaultsLocated
<1>11. KeysObeyed' BY <1>3, <1>5 DEF KeysObeyed
<1> QED BY <1>6, <1>8, <1>9, <1>10, <1>11 DEF TestInv

-----------------------------------------------------------------------------
LEMMA TestInit == SdramTestInit => TestInv
<1> SUFFICES ASSUME SdramTestInit PROVE TestInv OBVIOUS
<1>1. PICK f \in Faults, m \in [Index -> SdPowerUp] : sdram = [fault |-> f, mem |-> m]
  BY DEF SdramTestInit
<1>2. m \in [Index -> SUBSET Bits] BY SdramAssumption
<1>3. sdram \in [fault : Faults, mem : [Index -> SUBSET Bits]] /\ sdram.fault = f BY <1>1, <1>2
<1>4. /\ place = [phase |-> 1, done |-> 0, left |-> 0]
      /\ test = [status |-> "Waiting", pass |-> 0, led |-> TRUE, addr |-> 0]
      /\ tally = [errs |-> NoErrs, log |-> ErrLogNew]
      /\ found = [groups |-> {}, last |-> <<>>, keys |-> {}]
  BY DEF SdramTestInit
<1>5. place \in Places /\ place.done + place.left =< SdWords /\ place.phase = 1 /\ place.done = 0
  BY <1>4, SuiteRows, Sizes DEF Places
<1>6. test \in Tests BY <1>4, Sizes DEF Tests, Statuses
<1>7. tally \in Tallies /\ found \in Finds BY <1>4, EmptyLog DEF Finds
<1>8. SdramTestTypeOK BY <1>3, <1>5, <1>6, <1>7, Typed
<1>9. Underway BY <1>4, <1>5 DEF Underway
<1>10. Held /\ Detected BY <1>3, <1>5, NothingPast
<1>11. NeverAccused /\ LogShowsLast /\ FaultsLocated
  BY <1>4, EmptyLog DEF NeverAccused, LogShowsLast, FaultsLocated
<1>12. KeysObeyed BY <1>4 DEF KeysObeyed
<1> QED BY <1>8, <1>9, <1>10, <1>11, <1>12 DEF TestInv

LEMMA TestNext == TestInv /\ [SdramTestNext]_sdramVars => TestInv'
<1> SUFFICES ASSUME TestInv, [SdramTestNext]_sdramVars PROVE TestInv' OBVIOUS
<1>1. CASE RunWord BY <1>1, WordStep
<1>2. ASSUME NEW read \in KeyReads, Waiting(read) PROVE TestInv' BY <1>2, WaitingStep
<1>3. ASSUME NEW read \in KeyReads, Service(read) PROVE TestInv' BY <1>3, ServiceStep
<1>4. ASSUME NEW read \in KeyReads, Stopped(read) PROVE TestInv' BY <1>4, StoppedStep
<1>5. ASSUME NEW read \in KeyReads, Restarted(read) PROVE TestInv' BY <1>5, RestartedStep
<1>6. CASE UNCHANGED sdramVars
  <2>1. /\ SdramTestTypeOK /\ Underway /\ Held /\ Detected /\ NeverAccused /\ FaultsLocated
        /\ LogShowsLast /\ KeysObeyed
    BY DEF TestInv
  <2>2. sdram' = sdram /\ place' = place /\ test' = test /\ tally' = tally /\ found' = found
    BY <1>6 DEF sdramVars
  <2>3. Held' /\ Detected' BY <2>1, <2>2, Stayed
  <2>4. NeverAccused' /\ FaultsLocated' /\ LogShowsLast' BY <2>1, <2>2, TallyKept
  <2>5. SdramTestTypeOK' BY <2>1, <2>2, Typed, TypedNext
  <2>6. Underway' /\ KeysObeyed' BY <2>1, <2>2 DEF Underway, KeysObeyed
  <2> QED BY <2>3, <2>4, <2>5, <2>6 DEF TestInv
<1> QED BY <1>1, <1>2, <1>3, <1>4, <1>5, <1>6 DEF SdramTestNext

(* At the end of a pass every word is past in every phase, so that what was   *)
(* sensed has been seen.                                                      *)
LEMMA PassSeen == TestInv => MemoryTestSound
<1> SUFFICES ASSUME TestInv PROVE MemoryTestSound OBVIOUS
<1> DEFINE f == sdram.fault
<1>1. SdramTestTypeOK /\ Detected /\ NeverAccused /\ FaultsLocated /\ LogShowsLast /\ KeysObeyed
  BY DEF TestInv
<1>2. f \in Faults BY <1>1 DEF SdramTestTypeOK
<1>3. f.kind = "none" <=> f = NoFault BY <1>2, FaultShape
<1>4. f.kind \in {"none", "stuck", "transition", "forces", "inverts", "alias"} BY <1>2, FaultShape
<1>5. ASSUME PassEnds PROVE \A q \in 1 .. 16, i \in Index : Past(q, i)
  <2>1. place.phase = 16 /\ place.done = SdWords BY <1>5, SuiteRows DEF PassEnds, PhaseEnds
  <2>2. \A i \in Index : Passed(i) BY <2>1, Sizes DEF Passed
  <2> QED BY <2>1, <2>2 DEF Past
<1>6. /\ First(f.to) \in 1 .. 15 /\ First(f.to) + 1 \in 1 .. 16
      /\ f.kind \in {"forces", "inverts"} => Sense(f) \in 1 .. 16 /\ See(f) \in 1 .. 16
      /\ f.cell \in Index /\ f.other \in Index
      /\ Lesser(f.cell, f.other) \in Index /\ Greater(f.cell, f.other) \in Index
  BY <1>2, FaultPhases, CouplingPlan
<1>7. ASSUME PassEnds, f.kind # "none" PROVE 5 \in found.groups
  <2>1. CASE f.kind = "stuck" BY <1>1, <1>5, <1>6, <1>7, <2>1 DEF Detected, StuckSensed, Sensed
  <2>2. CASE f.kind = "transition" BY <1>1, <1>5, <1>6, <1>7, <2>2 DEF Detected, SlowSensed, Sensed
  <2>3. CASE f.kind \in {"forces", "inverts"}
    BY <1>1, <1>5, <1>6, <1>7, <2>3 DEF Detected, CouplingSensed, Sensed
  <2>4. CASE f.kind = "alias" BY <1>1, <1>5, <1>6, <1>7, <2>4 DEF Detected, AliasSensed, Sensed
  <2> QED BY <1>4, <1>7, <2>1, <2>2, <2>3, <2>4
<1>8. ASSUME PassEnds, f.kind = "alias" PROVE 0 \in found.groups
  BY <1>1, <1>5, <1>6, <1>8 DEF Detected, AliasOwned
<1>9. FaultsFound BY <1>1, <1>3, <1>7, <1>8 DEF FaultsFound, NeverAccused
<1> QED BY <1>1, <1>9 DEF MemoryTestSound

(* The memory test (sdram-march run_phase, daisy-sdramtest main): whatever    *)
(* the size of the memory, the width of its words, its power-up contents, the *)
(* chunk and the reads of the keys, each pass finds each single fault, where  *)
(* it is and never elsewhere; the log shows the last failures; the keys do    *)
(* what they say.                                                             *)
THEOREM MemoryTestProved == SdramTestSpec => [](SdramTestTypeOK /\ MemoryTestSound)
<1>1. TestInv => SdramTestTypeOK BY DEF TestInv
<1> QED BY <1>1, TestInit, TestNext, PassSeen, PTL DEF SdramTestSpec
=============================================================================
