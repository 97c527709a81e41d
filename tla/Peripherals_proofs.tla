------------------------- MODULE Peripherals_proofs -------------------------
(* Proofs about three parts of the board that stand alone: the front panels,  *)
(* for every register width, counter modulus, hold time and pass length, the  *)
(* USB-MIDI encoder with its endpoint, for every wire, and the USB classes,   *)
(* for every sample width and ring target.                                    *)
EXTENDS Controls, Midi, UsbClasses, SequenceTheorems, TLAPS

-----------------------------------------------------------------------------
(* The front panels.                                                          *)
(* The Hothouse: a start time is kept exactly while the gesture is seen, and  *)
(* the wrapping counter measures the time since then, which stays far below a *)
(* wrap because a hold that is long enough ends the loop.                     *)
Gesture(deb) == \A f \in Footswitches : Pressed(deb[f])
PedalInv ==
  /\ pedal \in [deb : [Footswitches -> Register], now : 0 .. CycleWrap - 1,
                sampled : 0 .. CycleWrap - 1, start : -1 .. CycleWrap - 1, leds : BOOLEAN,
                held : Nat, dfu : BOOLEAN]
  /\ pedal.start # -1 <=> Gesture(pedal.deb)
  /\ pedal.leds => pedal.start # -1
  /\ pedal.start = -1 => pedal.held = 0
  /\ pedal.start # -1 => (pedal.now - pedal.start) % CycleWrap = pedal.held
  /\ GestureHeld

(* The Pod: the two samples of each phase are the levels of the quarter the   *)
(* knob is in, or of the one it has just left.                                *)
PodInv ==
  /\ pod \in [a : {0, 1} \X {0, 1}, b : {0, 1} \X {0, 1}, quarter : 0 .. 3, dwell : {1, 2},
              count : Int, turn : {-1, 1}, quarters : Nat]
  /\ pod.quarter = (pod.turn * pod.quarters) % 4
  /\ pod.a[2] = Levels[pod.quarter][1] /\ pod.b[2] = Levels[pod.quarter][2]
  /\ pod.dwell = 2 => pod.a[1] = pod.a[2] /\ pod.b[1] = pod.b[2]
  /\ TurnsCounted

(* The switch: the press was told one sample before the register is full.     *)
SwitchInv ==
  /\ switch \in [state : Register, told : {"pressed", "released"}]
  /\ RisingEdge(switch.state) => switch.told = "pressed"
  /\ HeldIsReported

ControlsInv == PedalInv /\ PodInv /\ SwitchInv

(* Time on a counter that wraps: elapsed times add as long as they fit.       *)
LEMMA WrapAdds ==
  ASSUME NEW w \in Nat \ {0}, NEW now \in 0 .. w - 1, NEW start \in 0 .. w - 1, NEW d \in Nat,
         NEW h \in Nat, (now - start) % w = h, h + d < w
  PROVE  /\ (now + d) % w \in 0 .. w - 1
         /\ (((now + d) % w) - start) % w = h + d
<1>1. \A x \in Int, q \in Int, r \in 0 .. w - 1 : x = w * q + r => x % w = r
  OBVIOUS
<1>2. (now + d) % w \in 0 .. w - 1 OBVIOUS
<1>3. h = IF now >= start THEN now - start ELSE now - start + w
  <2>1. CASE now >= start
    <3>1. now - start \in 0 .. w - 1 /\ now - start = w * 0 + (now - start) BY <2>1
    <3> QED BY <1>1, <2>1, <3>1
  <2>2. CASE ~(now >= start)
    <3>1. now - start + w \in 0 .. w - 1 /\ now - start = w * (-1) + (now - start + w) BY <2>2
    <3> QED BY <1>1, <2>2, <3>1
  <2> QED BY <2>1, <2>2
<1>4. (now + d) % w = IF now + d < w THEN now + d ELSE now + d - w
  <2>1. CASE now + d < w
    <3>1. now + d \in 0 .. w - 1 /\ now + d = w * 0 + (now + d) BY <2>1
    <3> QED BY <1>1, <2>1, <3>1
  <2>2. CASE ~(now + d < w)
    <3>1. now + d - w \in 0 .. w - 1 /\ now + d = w * 1 + (now + d - w) BY <2>2
    <3> QED BY <1>1, <2>2, <3>1
  <2> QED BY <2>1, <2>2
<1> DEFINE later == (now + d) % w
<1>5. later \in 0 .. w - 1 BY <1>2
<1>6. later = IF now + d < w THEN now + d ELSE now + d - w BY <1>4
<1> HIDE DEF later
<1>7. later - start = w * 0 + (h + d) \/ later - start = w * (-1) + (h + d)
  BY <1>3, <1>5, <1>6
<1>8. h + d \in 0 .. w - 1 /\ later - start \in Int /\ 0 \in Int /\ -1 \in Int BY <1>5
<1>9. (later - start) % w = h + d BY <1>1, <1>7, <1>8
<1> QED BY <1>5, <1>9 DEF later

LEMMA ShiftedType ==
  ASSUME NEW s \in Register, NEW e \in BOOLEAN
  PROVE  /\ Shifted(s, e) \in Register
         /\ \A t \in Taps : Shifted(s, e)[t] = IF t = 1 THEN e ELSE s[t - 1]
<1>1. DebounceBits \in Nat BY PanelAssumption
<1>2. \A t \in Taps : t # 1 => t - 1 \in Taps BY <1>1 DEF Taps
<1>3. \A t \in Taps : (IF t = 1 THEN e ELSE s[t - 1]) \in BOOLEAN BY <1>2 DEF Register
<1> QED BY <1>3 DEF Shifted, Register

LEMMA PedalStep == PedalInv /\ PanelNext => PedalInv'
<1> SUFFICES ASSUME PedalInv, NEW d \in PassCycles, NEW contacts \in SUBSET Footswitches,
                    LoopPass(d, contacts)
             PROVE  PedalInv'
  BY DEF PanelNext
<1>a. /\ CycleWrap \in Nat \ {0} /\ d \in Nat \ {0} /\ DfuHold \in Nat \ {0} /\ DfuHold + d < CycleWrap
      /\ DebouncePeriod \in Nat \ {0}
  BY PanelAssumption
<1> DEFINE now     == (pedal.now + d) % CycleWrap
           due     == ((now - pedal.sampled) % CycleWrap) >= DebouncePeriod
           deb     == IF due THEN [f \in Footswitches |-> Shifted(pedal.deb[f], f \in contacts)] ELSE pedal.deb
           gesture == \A f \in Footswitches : Pressed(deb[f])
           start   == StartOf(gesture, pedal.start, now)
           held    == IF gesture THEN (now - start) % CycleWrap ELSE 0
           commits == gesture /\ held >= DfuHold
           blink   == (held \div DebouncePeriod) % 2 = 0
           truth   == IF gesture /\ pedal.start # -1 THEN pedal.held + d ELSE 0
           lit     == IF gesture THEN commits \/ blink
                      ELSE IF pedal.start # -1 THEN FALSE ELSE pedal.leds
<1>1. /\ ~pedal.dfu
      /\ pedal' = [pedal EXCEPT !.now = now, !.sampled = IF due THEN now ELSE @, !.deb = deb,
                                !.start = start, !.dfu = commits, !.held = truth, !.leds = lit]
  BY DEF LoopPass
<1>t. /\ pedal \in [deb : [Footswitches -> Register], now : 0 .. CycleWrap - 1,
                   sampled : 0 .. CycleWrap - 1, start : -1 .. CycleWrap - 1, leds : BOOLEAN,
                   held : Nat, dfu : BOOLEAN]
      /\ pedal.start # -1 <=> Gesture(pedal.deb)
      /\ pedal.leds => pedal.start # -1
      /\ pedal.start = -1 => pedal.held = 0
      /\ pedal.start # -1 => (pedal.now - pedal.start) % CycleWrap = pedal.held
      /\ pedal.held < DfuHold
  BY <1>1 DEF PedalInv, GestureHeld
<1>2. deb \in [Footswitches -> Register]
  <2>1. ASSUME NEW f \in Footswitches PROVE Shifted(pedal.deb[f], f \in contacts) \in Register
    <3>1. pedal.deb[f] \in Register BY <1>t
    <3>2. CASE f \in contacts
      <4>1. (f \in contacts) = TRUE BY <3>2
      <4> QED BY <3>1, <4>1, ShiftedType
    <3>3. CASE f \notin contacts
      <4>1. (f \in contacts) = FALSE BY <3>3
      <4> QED BY <3>1, <4>1, ShiftedType
    <3> QED BY <3>2, <3>3
  <2> QED BY <1>t, <2>1
<1>g. gesture = Gesture(deb) BY DEF Gesture
<1>3. now \in 0 .. CycleWrap - 1 BY <1>a, <1>t
<1> HIDE DEF now, deb, due, gesture
<1>4. start \in -1 .. CycleWrap - 1 /\ (start # -1 <=> gesture)
  <2>1. CASE gesture
    <3>1. start = IF pedal.start = -1 THEN now ELSE pedal.start BY <2>1 DEF StartOf
    <3> HIDE DEF start
    <3> QED BY <1>a, <1>3, <1>t, <2>1, <3>1
  <2>2. CASE ~gesture
    <3>1. start = -1 BY <2>2 DEF StartOf
    <3> HIDE DEF start
    <3> QED BY <1>a, <2>2, <3>1
  <2> QED BY <2>1, <2>2
<1>5. gesture => held = truth /\ (now - start) % CycleWrap = truth /\ truth < DfuHold + d
  <2>1. CASE gesture /\ pedal.start # -1
    <3>1. start = pedal.start BY <2>1 DEF StartOf
    <3>2. /\ pedal.start \in 0 .. CycleWrap - 1 /\ pedal.now \in 0 .. CycleWrap - 1 /\ pedal.held \in Nat
          /\ (pedal.now - pedal.start) % CycleWrap = pedal.held
      BY <1>a, <1>t, <2>1
    <3>3. pedal.held + d < CycleWrap /\ pedal.held + d < DfuHold + d BY <1>a, <1>t, <3>2
    <3>4. (now - pedal.start) % CycleWrap = pedal.held + d
      <4> DEFINE w == CycleWrap
                 n == pedal.now
                 b == pedal.start
                 h == pedal.held
      <4>1. /\ w \in Nat \ {0} /\ b \in 0 .. w - 1 /\ n \in 0 .. w - 1 /\ h \in Nat /\ d \in Nat
            /\ (n - b) % w = h /\ h + d < w
        BY <1>a, <3>2, <3>3
      <4> HIDE DEF w, n, b, h
      <4>2. (((n + d) % w) - b) % w = h + d BY <4>1, WrapAdds
      <4> QED BY <4>2 DEF w, n, b, h, now
    <3>5. held = (now - pedal.start) % CycleWrap /\ truth = pedal.held + d BY <2>1, <3>1
    <3> QED BY <3>1, <3>3, <3>4, <3>5
  <2>2. CASE gesture /\ pedal.start = -1
    <3>1. start = now BY <2>2 DEF StartOf
    <3>2. \A w \in Nat \ {0} : \A x \in 0 .. w - 1 : (x - x) % w = 0 OBVIOUS
    <3>3. held = (now - now) % CycleWrap /\ truth = 0 BY <2>2, <3>1
    <3>4. (now - now) % CycleWrap = 0 /\ 0 < DfuHold + d BY <1>a, <1>3, <3>2
    <3> QED BY <3>1, <3>3, <3>4
  <2> QED BY <2>1, <2>2
<1>6. truth \in Nat /\ (start = -1 => truth = 0) BY <1>a, <1>t, <1>4
<1>7. commits \in BOOLEAN /\ lit \in BOOLEAN /\ (lit => gesture)
  <2>1. gesture \in BOOLEAN BY DEF gesture
  <2>2. lit => gesture BY <1>t
  <2>3. lit \in BOOLEAN BY <1>t, <2>1
  <2> QED BY <2>1, <2>2, <2>3
<1> HIDE DEF start, held, truth, lit, commits
<1>8. /\ pedal'.now = now /\ pedal'.deb = deb /\ pedal'.start = start /\ pedal'.held = truth
      /\ pedal'.leds = lit /\ pedal'.dfu = commits
      /\ pedal'.sampled = IF due THEN now ELSE pedal.sampled
      /\ pedal' \in [deb : [Footswitches -> Register], now : 0 .. CycleWrap - 1,
                     sampled : 0 .. CycleWrap - 1, start : -1 .. CycleWrap - 1, leds : BOOLEAN,
                     held : Nat, dfu : BOOLEAN]
  BY <1>1, <1>2, <1>3, <1>4, <1>6, <1>7, <1>t
<1>9. GestureHeld'
  <2>1. commits <=> gesture /\ truth >= DfuHold BY <1>5 DEF commits
  <2>2. ~gesture => truth = 0 BY DEF truth
  <2>3. commits => truth >= DfuHold /\ truth < DfuHold + d BY <1>5, <2>1
  <2>4. ~commits => truth < DfuHold BY <1>a, <1>6, <2>1, <2>2
  <2>5. lit => \A f \in Footswitches : Pressed(deb[f]) BY <1>7, <1>g DEF Gesture
  <2> QED BY <1>8, <2>3, <2>4, <2>5 DEF GestureHeld
<1> QED BY <1>4, <1>5, <1>6, <1>7, <1>8, <1>9, <1>g DEF PedalInv

(* How the quarter of the knob and the full turns follow the quarter turns.   *)
LEMMA QuarterTurn ==
  ASSUME NEW n \in Nat
  PROVE  /\ n % 4 \in 0 .. 3
         /\ (n + 3) \div 4 = (n + 2) \div 4 + (IF n % 4 = 1 THEN 1 ELSE 0)
         /\ (n + 1) % 4 = IF n % 4 = 3 THEN 0 ELSE (n % 4) + 1
         /\ ((-1) * n) % 4 = IF n % 4 = 0 THEN 0 ELSE 4 - (n % 4)
         /\ ((-1) * (n + 1)) % 4 = 3 - (n % 4)
<1>1. \A x \in Int, q \in Int, r \in 0 .. 3 : x = 4 * q + r => x % 4 = r /\ x \div 4 = q
  OBVIOUS
<1>2. PICK k \in Nat, r \in 0 .. 3 : n = 4 * k + r
  <2>1. n \div 4 \in Nat /\ n % 4 \in 0 .. 3 /\ n = 4 * (n \div 4) + (n % 4) OBVIOUS
  <2> QED BY <2>1
<1>3. n % 4 = r BY <1>1, <1>2
<1>4. (n + 1) % 4 = IF r = 3 THEN 0 ELSE r + 1
  <2>1. CASE r = 3
    <3>1. n + 1 = 4 * (k + 1) + 0 BY <1>2, <2>1
    <3> QED BY <1>1, <2>1, <3>1
  <2>2. CASE r # 3
    <3>1. n + 1 = 4 * k + (r + 1) /\ r + 1 \in 0 .. 3 BY <1>2, <2>2
    <3> QED BY <1>1, <2>2, <3>1
  <2> QED BY <2>1, <2>2
<1>5. ((-1) * n) % 4 = IF r = 0 THEN 0 ELSE 4 - r
  <2>1. CASE r = 0
    <3>1. (-1) * n = 4 * (-k) + 0 BY <1>2, <2>1
    <3> QED BY <1>1, <2>1, <3>1
  <2>2. CASE r # 0
    <3>1. (-1) * n = 4 * (-k - 1) + (4 - r) /\ 4 - r \in 0 .. 3 BY <1>2, <2>2
    <3> QED BY <1>1, <2>2, <3>1
  <2> QED BY <2>1, <2>2
<1>6. ((-1) * (n + 1)) % 4 = 3 - r
  <2>1. (-1) * (n + 1) = 4 * (-k - 1) + (3 - r) /\ 3 - r \in 0 .. 3 /\ -k - 1 \in Int BY <1>2
  <2>2. (-1) * (n + 1) \in Int OBVIOUS
  <2> QED BY <1>1, <2>1, <2>2
<1>7. (n + 2) \div 4 = (IF r >= 2 THEN k + 1 ELSE k) /\ (n + 3) \div 4 = (IF r >= 1 THEN k + 1 ELSE k)
  <2>1. CASE r = 0
    <3>1. n + 2 = 4 * k + 2 /\ n + 3 = 4 * k + 3 BY <1>2, <2>1
    <3> QED BY <1>1, <2>1, <3>1
  <2>2. CASE r = 1
    <3>1. n + 2 = 4 * k + 3 /\ n + 3 = 4 * (k + 1) + 0 BY <1>2, <2>2
    <3> QED BY <1>1, <2>2, <3>1
  <2>3. CASE r = 2
    <3>1. n + 2 = 4 * (k + 1) + 0 /\ n + 3 = 4 * (k + 1) + 1 BY <1>2, <2>3
    <3> QED BY <1>1, <2>3, <3>1
  <2>4. CASE r = 3
    <3>1. n + 2 = 4 * (k + 1) + 1 /\ n + 3 = 4 * (k + 1) + 2 BY <1>2, <2>4
    <3> QED BY <1>1, <2>4, <3>1
  <2> QED BY <2>1, <2>2, <2>3, <2>4
<1>8. (n + 3) \div 4 = (n + 2) \div 4 + (IF r = 1 THEN 1 ELSE 0)
  BY <1>7
<1> QED BY <1>3, <1>4, <1>5, <1>6, <1>8

(* One sample of the encoder: an edge of a phase is seen exactly when the     *)
(* knob has just moved, and only the quarters where the other phase is low    *)
(* count.                                                                     *)
LEMMA PodStep == PodInv /\ PodNext => PodInv'
<1> SUFFICES ASSUME PodInv, NEW moves \in BOOLEAN,
                    moves => pod.dwell >= 2 /\ pod.quarters < QuarterTurns,
                    LET q == IF moves THEN (pod.quarter + pod.turn) % 4 ELSE pod.quarter
                        a == << pod.a[2], Levels[q][1] >>
                        b == << pod.b[2], Levels[q][2] >>
                    IN pod' = [pod EXCEPT !.a = a, !.b = b, !.quarter = q,
                                          !.dwell = IF moves THEN 1 ELSE IF @ < 2 THEN @ + 1 ELSE @,
                                          !.quarters = IF moves THEN @ + 1 ELSE @,
                                          !.count = @ + Increment(a, b)]
             PROVE  PodInv'
  BY DEF PodNext, EncoderUpdate
<1> DEFINE q == IF moves THEN (pod.quarter + pod.turn) % 4 ELSE pod.quarter
           a == << pod.a[2], Levels[q][1] >>
           b == << pod.b[2], Levels[q][2] >>
<1>t. pod \in [a : {0, 1} \X {0, 1}, b : {0, 1} \X {0, 1}, quarter : 0 .. 3, dwell : {1, 2},
               count : Int, turn : {-1, 1}, quarters : Nat]
  BY DEF PodInv
<1>1. /\ pod.quarter = (pod.turn * pod.quarters) % 4
      /\ pod.a[2] = Levels[pod.quarter][1] /\ pod.b[2] = Levels[pod.quarter][2]
      /\ pod.turn * pod.count = (pod.quarters + 2) \div 4
  BY DEF PodInv, TurnsCounted
<1>l. /\ Levels[0] = <<1, 1>> /\ Levels[1] = <<1, 0>> /\ Levels[2] = <<0, 0>> /\ Levels[3] = <<0, 1>>
  BY DEF Levels
<1>2. q \in 0 .. 3 BY <1>t
<1>3. a \in {0, 1} \X {0, 1} /\ b \in {0, 1} \X {0, 1} /\ Increment(a, b) \in {-1, 0, 1}
  <2>1. \A k \in 0 .. 3 : Levels[k][1] \in {0, 1} /\ Levels[k][2] \in {0, 1} BY <1>l
  <2>2. Levels[q][1] \in {0, 1} /\ Levels[q][2] \in {0, 1} BY <1>2, <2>1
  <2>3. pod.a[2] \in {0, 1} /\ pod.b[2] \in {0, 1} BY <1>t
  <2> HIDE DEF q
  <2> QED BY <2>2, <2>3 DEF Increment
<1> DEFINE g == Increment(a, b)
<1>4. /\ pod'.a = a /\ pod'.b = b /\ pod'.quarter = q /\ pod'.turn = pod.turn
      /\ pod'.dwell = IF moves THEN 1 ELSE 2
      /\ pod'.quarters = IF moves THEN pod.quarters + 1 ELSE pod.quarters
      /\ pod'.count = pod.count + g
      /\ pod' \in [a : {0, 1} \X {0, 1}, b : {0, 1} \X {0, 1}, quarter : 0 .. 3, dwell : {1, 2},
                   count : Int, turn : {-1, 1}, quarters : Nat]
  <2>1. g \in {-1, 0, 1} BY <1>3
  <2>2. pod' = [pod EXCEPT !.a = a, !.b = b, !.quarter = q,
                           !.dwell = IF moves THEN 1 ELSE IF @ < 2 THEN @ + 1 ELSE @,
                           !.quarters = IF moves THEN @ + 1 ELSE @, !.count = @ + g]
    OBVIOUS
  <2> HIDE DEF q, a, b, g
  <2>3. pod.dwell \in {1, 2} /\ pod.count \in Int /\ pod.quarters \in Nat BY <1>t
  <2>4. /\ pod'.a = a /\ pod'.b = b /\ pod'.quarter = q /\ pod'.turn = pod.turn
        /\ pod'.dwell = (IF moves THEN 1 ELSE IF pod.dwell < 2 THEN pod.dwell + 1 ELSE pod.dwell)
        /\ pod'.quarters = (IF moves THEN pod.quarters + 1 ELSE pod.quarters)
        /\ pod'.count = pod.count + g
    BY <1>t, <2>2
  <2>5. pod'.dwell = IF moves THEN 1 ELSE 2 BY <2>3, <2>4
  <2>6. pod'.dwell \in {1, 2} /\ pod'.count \in Int /\ pod'.quarters \in Nat
    BY <2>1, <2>3, <2>4, <2>5
  <2>7. pod.turn \in {-1, 1} BY <1>t
  <2>8. pod' = [a |-> pod'.a, b |-> pod'.b, quarter |-> pod'.quarter, dwell |-> pod'.dwell,
                count |-> pod'.count, turn |-> pod'.turn, quarters |-> pod'.quarters]
    BY <1>t, <2>2
  <2> QED BY <1>2, <1>3, <2>4, <2>5, <2>6, <2>7, <2>8
<1>5. a[2] = Levels[q][1] /\ b[2] = Levels[q][2] OBVIOUS
<1>p. pod.turn \in {-1, 1} /\ pod.count \in Int /\ pod.quarters \in Nat BY <1>t
<1>6. CASE ~moves
  <2>1. q = pod.quarter /\ a[1] = a[2] /\ b[1] = b[2] BY <1>1, <1>6
  <2>2. g = 0
    <3>1. a # <<1, 0>> /\ b # <<1, 0>> BY <2>1
    <3> HIDE DEF a, b
    <3> QED BY <3>1 DEF Increment
  <2> HIDE DEF q, a, b, g
  <2>3. pod'.count = pod.count /\ pod'.quarters = pod.quarters /\ pod'.turn = pod.turn
    BY <1>4, <1>6, <1>p, <2>2
  <2>4. (pod.turn * pod.count = (pod.quarters + 2) \div 4)' BY <1>1, <2>3
  <2>5. (pod.quarter = (pod.turn * pod.quarters) % 4)'
    <3>1. pod'.quarter = pod.quarter BY <1>4, <2>1
    <3> QED BY <1>1, <2>3, <3>1, Zenon
  <2>6. /\ pod' \in [a : {0, 1} \X {0, 1}, b : {0, 1} \X {0, 1}, quarter : 0 .. 3, dwell : {1, 2},
                     count : Int, turn : {-1, 1}, quarters : Nat]
    BY <1>4
  <2>7. pod'.a = a /\ pod'.b = b /\ pod'.quarter = q BY <1>4
  <2>8. (pod.a[2] = Levels[pod.quarter][1] /\ pod.b[2] = Levels[pod.quarter][2])' BY <1>5, <2>7
  <2>9. pod'.a[1] = pod'.a[2] /\ pod'.b[1] = pod'.b[2] BY <2>1, <2>7
  <2>10. TurnsCounted' BY <2>4 DEF TurnsCounted
  <2> QED BY <2>5, <2>6, <2>8, <2>9, <2>10 DEF PodInv
<1>7. CASE moves
  <2> DEFINE n == pod.quarters
             r == n % 4
  <2>1. n \in Nat /\ r \in 0 .. 3 BY <1>p, QuarterTurn
  <2>2. /\ (n + 3) \div 4 = (n + 2) \div 4 + (IF r = 1 THEN 1 ELSE 0)
        /\ (n + 1) % 4 = IF r = 3 THEN 0 ELSE r + 1
        /\ ((-1) * n) % 4 = IF r = 0 THEN 0 ELSE 4 - r
        /\ ((-1) * (n + 1)) % 4 = 3 - r
    BY <1>p, QuarterTurn
  <2>3. n % 4 = r /\ 1 * n = n /\ 1 * (n + 1) = n + 1 BY <2>1
  <2>4. pod.quarter = IF pod.turn = 1 THEN r ELSE IF r = 0 THEN 0 ELSE 4 - r
    <3>1. CASE pod.turn = 1
      <4>1. pod.quarter = (1 * n) % 4 BY <1>1, <3>1
      <4> QED BY <2>3, <3>1, <4>1
    <3>2. CASE pod.turn = -1
      <4>1. pod.quarter = ((-1) * n) % 4 BY <1>1, <3>2
      <4> QED BY <2>2, <3>2, <4>1
    <3> QED BY <1>p, <3>1, <3>2
  <2> HIDE DEF r
  <2>5. q = IF pod.turn = 1 THEN (IF r = 3 THEN 0 ELSE r + 1) ELSE 3 - r
    BY <1>7, <1>p, <2>1, <2>4
  <2>6. q = (pod.turn * (n + 1)) % 4
    <3>1. CASE pod.turn = 1 BY <2>2, <2>3, <2>5, <3>1
    <3>2. CASE pod.turn = -1 BY <2>2, <2>5, <3>2
    <3> QED BY <1>p, <3>1, <3>2
  <2>7. g = IF r = 1 THEN pod.turn ELSE 0
    <3>1. a = <<Levels[pod.quarter][1], Levels[q][1]>> /\ b = <<Levels[pod.quarter][2], Levels[q][2]>>
      BY <1>1
    <3> HIDE DEF q, a, b
    <3>2. CASE pod.turn = 1
      <4>1. CASE r = 0 BY <1>l, <2>4, <2>5, <3>1, <3>2, <4>1 DEF Increment
      <4>2. CASE r = 1 BY <1>l, <2>4, <2>5, <3>1, <3>2, <4>2 DEF Increment
      <4>3. CASE r = 2 BY <1>l, <2>4, <2>5, <3>1, <3>2, <4>3 DEF Increment
      <4>4. CASE r = 3 BY <1>l, <2>4, <2>5, <3>1, <3>2, <4>4 DEF Increment
      <4> QED BY <2>1, <4>1, <4>2, <4>3, <4>4
    <3>3. CASE pod.turn = -1
      <4>1. CASE r = 0 BY <1>l, <2>4, <2>5, <3>1, <3>3, <4>1 DEF Increment
      <4>2. CASE r = 1 BY <1>l, <2>4, <2>5, <3>1, <3>3, <4>2 DEF Increment
      <4>3. CASE r = 2 BY <1>l, <2>4, <2>5, <3>1, <3>3, <4>3 DEF Increment
      <4>4. CASE r = 3 BY <1>l, <2>4, <2>5, <3>1, <3>3, <4>4 DEF Increment
      <4> QED BY <2>1, <4>1, <4>2, <4>3, <4>4
    <3> QED BY <1>p, <3>2, <3>3
  <2>8. /\ pod'.count = pod.count + g /\ pod'.quarters = n + 1 /\ pod'.turn = pod.turn
        /\ pod'.dwell = 1
    BY <1>4, <1>7
  <2> HIDE DEF q, a, b, g, n
  <2>9. pod.turn * (pod.count + g) = pod.turn * pod.count + (IF r = 1 THEN 1 ELSE 0)
    <3>1. CASE pod.turn = 1 BY <1>p, <2>7, <3>1
    <3>2. CASE pod.turn = -1 BY <1>p, <2>7, <3>2
    <3> QED BY <1>p, <3>1, <3>2
  <2>10. pod.turn * pod.count = (n + 2) \div 4 BY <1>1 DEF n
  <2>11. (n + 1) + 2 = n + 3 BY <2>1
  <2>12. (pod.turn * pod.count = (pod.quarters + 2) \div 4)'
    BY <2>2, <2>8, <2>9, <2>10, <2>11
  <2>13. (pod.quarter = (pod.turn * pod.quarters) % 4)' BY <1>4, <2>6, <2>8
  <2>14. ~(pod'.dwell = 2) BY <2>8
  <2>15. /\ pod' \in [a : {0, 1} \X {0, 1}, b : {0, 1} \X {0, 1}, quarter : 0 .. 3, dwell : {1, 2},
                      count : Int, turn : {-1, 1}, quarters : Nat]
         /\ (pod.a[2] = Levels[pod.quarter][1] /\ pod.b[2] = Levels[pod.quarter][2])'
    BY <1>4, <1>5
  <2>16. TurnsCounted' BY <2>12 DEF TurnsCounted
  <2> QED BY <2>13, <2>14, <2>15, <2>16 DEF PodInv
<1> QED BY <1>6, <1>7

(* The oldest tap is the last to fill: before the register reads pressed it   *)
(* reads as the rising edge, and before that edge nothing can report a release. *)
LEMMA SwitchStep == SwitchInv /\ SwitchNext => SwitchInv'
<1> SUFFICES ASSUME SwitchInv, NEW engaged \in BOOLEAN,
                    LET state == Shifted(switch.state, engaged)
                    IN switch' = [state |-> state,
                                  told  |-> IF RisingEdge(state) THEN "pressed"
                                            ELSE IF FallingEdge(state) THEN "released" ELSE switch.told]
             PROVE  SwitchInv'
  BY DEF SwitchNext, SwitchUpdate
<1> DEFINE state == Shifted(switch.state, engaged)
<1>n. DebounceBits \in Nat /\ DebounceBits >= 2 BY PanelAssumption
<1>1. /\ switch'.state = state
      /\ switch'.told = IF RisingEdge(state) THEN "pressed"
                        ELSE IF FallingEdge(state) THEN "released" ELSE switch.told
      /\ switch.state \in Register /\ switch.told \in {"pressed", "released"}
      /\ switch' = [state |-> switch'.state, told |-> switch'.told]
  BY DEF SwitchInv
<1>2. state \in Register /\ \A t \in Taps : state[t] = IF t = 1 THEN engaged ELSE switch.state[t - 1]
  BY <1>1, ShiftedType
<1> HIDE DEF state
<1>3. ASSUME Pressed(state) PROVE switch'.told = "pressed"
  <2>1. \A t \in Taps : t # DebounceBits => switch.state[t]
    <3> SUFFICES ASSUME NEW t \in Taps, t # DebounceBits PROVE switch.state[t] OBVIOUS
    <3>1. t + 1 \in Taps /\ t + 1 # 1 /\ (t + 1) - 1 = t BY <1>n DEF Taps
    <3>2. state[t + 1] BY <1>3, <3>1 DEF Pressed
    <3>3. state[t + 1] = IF t + 1 = 1 THEN engaged ELSE switch.state[(t + 1) - 1] BY <1>2, <3>1, Zenon
    <3>4. state[t + 1] = switch.state[t] BY <3>1, <3>3, Zenon
    <3> QED BY <3>2, <3>4
  <2>2. DebounceBits \in Taps /\ 1 \in Taps /\ DebounceBits # 1 BY <1>n DEF Taps
  <2>3. ~RisingEdge(state) /\ ~FallingEdge(state)
    <3>1. state[DebounceBits] /\ state[1] BY <1>3, <2>2 DEF Pressed
    <3> QED BY <2>2, <3>1 DEF RisingEdge, FallingEdge
  <2>4. switch.told = "pressed"
    <3>1. CASE switch.state[DebounceBits]
      <4>1. Pressed(switch.state) BY <2>1, <3>1 DEF Pressed
      <4> QED BY <4>1 DEF SwitchInv, HeldIsReported
    <3>2. CASE ~switch.state[DebounceBits]
      <4>1. RisingEdge(switch.state) BY <2>1, <3>2 DEF RisingEdge
      <4> QED BY <4>1 DEF SwitchInv
    <3> QED BY <3>1, <3>2
  <2> QED BY <1>1, <2>3, <2>4
<1>4. switch' \in [state : Register, told : {"pressed", "released"}] BY <1>1, <1>2
<1> QED BY <1>1, <1>3, <1>4 DEF SwitchInv, HeldIsReported

LEMMA PanelInitInv == PanelInit => ControlsInv
<1> SUFFICES ASSUME PanelInit PROVE ControlsInv OBVIOUS
<1>n. /\ DebounceBits \in Nat /\ DebounceBits >= 2 /\ DfuHold \in Nat \ {0} /\ CycleWrap \in Nat \ {0}
      /\ \A d \in PassCycles : d \in Nat /\ DfuHold + d < CycleWrap
  BY PanelAssumption
<1>1. Released \in Register /\ ~Pressed(Released) /\ ~RisingEdge(Released)
  <2>1. 1 \in Taps /\ 1 # DebounceBits BY <1>n DEF Taps
  <2> QED BY <2>1 DEF Released, Register, Pressed, RisingEdge
<1>2. PedalInv
  <2>1. pedal = [deb |-> [f \in Footswitches |-> Released], now |-> 0, sampled |-> 0,
                 start |-> -1, leds |-> FALSE, held |-> 0, dfu |-> FALSE]
    BY DEF PanelInit
  <2>2. [f \in Footswitches |-> Released] \in [Footswitches -> Register] BY <1>1
  <2>4. 0 \in 0 .. CycleWrap - 1 /\ -1 \in -1 .. CycleWrap - 1 BY <1>n
  <2>5. ~Gesture(pedal.deb) BY <1>1, <2>1 DEF Gesture, Footswitches
  <2>6. GestureHeld BY <1>n, <2>1 DEF GestureHeld
  <2> QED BY <2>1, <2>2, <2>4, <2>5, <2>6 DEF PedalInv
<1>3. PodInv
  <2>1. PICK turn \in {-1, 1} :
           pod = [a |-> <<1, 1>>, b |-> <<1, 1>>, quarter |-> 0, dwell |-> 2, count |-> 0,
                  turn |-> turn, quarters |-> 0]
    BY DEF PanelInit
  <2>2. Levels[0] = <<1, 1>> BY DEF Levels
  <2>3. turn * 0 = 0 /\ 0 % 4 = 0 /\ (0 + 2) \div 4 = 0 OBVIOUS
  <2>4. TurnsCounted BY <2>1, <2>3 DEF TurnsCounted
  <2>5. pod.quarter = (pod.turn * pod.quarters) % 4 BY <2>1, <2>3
  <2> QED BY <2>1, <2>2, <2>4, <2>5 DEF PodInv
<1>4. SwitchInv BY <1>1 DEF PanelInit, SwitchInv, HeldIsReported
<1> QED BY <1>2, <1>3, <1>4 DEF ControlsInv

LEMMA ControlsStep == ControlsInv /\ [ControlsNext]_pedalVars => ControlsInv'
<1> SUFFICES ASSUME ControlsInv, [ControlsNext]_pedalVars PROVE ControlsInv' OBVIOUS
<1> USE DEF ControlsInv
<1>1. UNCHANGED pedal => PedalInv' BY DEF PedalInv, GestureHeld
<1>2. UNCHANGED pod => PodInv' BY DEF PodInv, TurnsCounted
<1>3. UNCHANGED switch => SwitchInv' BY DEF SwitchInv, HeldIsReported
<1>4. CASE PanelNext BY <1>2, <1>3, <1>4, PedalStep DEF PanelNext
<1>5. CASE PodNext BY <1>1, <1>3, <1>5, PodStep DEF PodNext
<1>6. CASE SwitchNext BY <1>1, <1>2, <1>6, SwitchStep DEF SwitchNext
<1>7. CASE UNCHANGED pedalVars BY <1>1, <1>2, <1>3, <1>7 DEF pedalVars
<1> QED BY <1>4, <1>5, <1>6, <1>7 DEF ControlsNext

(* The reboot to DFU needs an unbroken hold of both footswitches and comes no *)
(* later than the pass after it, the LEDs show nothing else, the encoder      *)
(* counts one per full turn, and whoever follows the edges alone misses no    *)
(* press (panel.rs, pod.rs).                                                  *)
THEOREM PanelsSound == ControlsSpec => []ControlsSound
<1>1. ControlsInv => ControlsSound
  BY DEF ControlsInv, PedalInv, PodInv, SwitchInv, ControlsSound
<1> QED BY PanelInitInv, ControlsStep, <1>1, PTL DEF ControlsSpec

-----------------------------------------------------------------------------
(* The USB-MIDI encoder.                                                      *)
(* What the encoder keeps of the wire: the status byte the message under way  *)
(* began with, how many bytes it takes, how many are in and the first of two. *)
Byte == 0 .. 255
Dump(wire) == wire # <<>> /\ wire[1] = 240
Need(status) == IF status \in {241, 243} THEN 1 ELSE IF status = 242 THEN 2 ELSE channel_data_len(status)
EncType(e) ==
  e \in [status : Byte, data : [1 .. 2 -> Byte], count : 0 .. 1, expected : 0 .. 2,
         sysex : BOOLEAN, sx : Seq(Byte)]
MessageKept(e, wire) ==
  /\ ~e.sysex /\ e.sx = <<>>
  /\ wire = <<>> <=> e.status = 0
  /\ wire # <<>> =>
       /\ e.status = wire[1] /\ e.status \in 128 .. 243
       /\ e.expected = Need(e.status)
       /\ e.count = (Len(wire) - 1) % e.expected
       /\ e.status >= 240 => Len(wire) = e.count + 1
       /\ e.count = 1 => e.data[1] = wire[Len(wire)]

(* In a dump, the bytes of the packet being filled are the last of the wire.  *)
DumpKept(e, wire) ==
  /\ e.sysex /\ e.status = 0
  /\ Len(e.sx) = Len(wire) % 3
  /\ \A i \in 1 .. Len(e.sx) : e.sx[i] = wire[Len(wire) - Len(e.sx) + i]

Follows(e, wire) ==
  /\ EncType(e)
  /\ wire \in Seq(Byte)
  /\ ~Dump(wire) => MessageKept(e, wire)
  /\ Dump(wire) => DumpKept(e, wire)

MidiInv ==
  /\ Follows(enc, mlog.wire)
  /\ mlog = [wire |-> mlog.wire, right |-> mlog.right]
  /\ mtx = [slot |-> mtx.slot, host |-> mtx.host, lost |-> mtx.lost]
  /\ mtx.host \in Seq(Byte) /\ mtx.slot \in [cin : Nat, bytes : Seq(Byte)]
  /\ MidiFaithful

LEMMA TailAppend ==
  ASSUME NEW w \in Seq(Byte), NEW b \in Byte, NEW t \in Seq(Byte), Len(t) <= Len(w),
         \A i \in 1 .. Len(t) : t[i] = w[Len(w) - Len(t) + i]
  PROVE  SubSeq(Append(w, b), Len(w) + 1 - Len(t), Len(w) + 1) = Append(t, b)
<1> DEFINE all == Append(w, b)
           n   == Len(w)
           k   == Len(t)
           m   == n + 1 - k
           u   == SubSeq(all, m, n + 1)
           v   == Append(t, b)
<1>1. n \in Nat /\ k \in Nat /\ k <= n BY LenProperties
<1>2. /\ all \in Seq(Byte) /\ Len(all) = n + 1 /\ all[n + 1] = b
      /\ \A i \in 1 .. n : all[i] = w[i]
  BY AppendProperties
<1>3. /\ v \in Seq(Byte) /\ Len(v) = k + 1 /\ v[k + 1] = b
      /\ \A i \in 1 .. k : v[i] = t[i]
  BY AppendProperties
<1>4. \A i \in 1 .. k : t[i] = w[n - k + i] OBVIOUS
<1> HIDE DEF all, v, n, k
<1>5. \A i \in 1 .. n + 1 : all[i] \in Byte
  <2> SUFFICES ASSUME NEW i \in 1 .. n + 1 PROVE all[i] \in Byte OBVIOUS
  <2>1. i \in 1 .. Len(all) BY <1>2
  <2> QED BY <1>2, <2>1, ElementOfSeq
<1>6. m \in Int /\ n + 1 \in Int /\ m >= 1 /\ m <= n + 1 /\ \A i \in m .. n + 1 : all[i] \in Byte
  BY <1>1, <1>5
<1> HIDE DEF m
<1>7. /\ u \in Seq(Byte)
      /\ Len(u) = IF m <= n + 1 THEN (n + 1) - m + 1 ELSE 0
      /\ \A i \in 1 .. (n + 1) - m + 1 : u[i] = all[m + i - 1]
  BY <1>6, SubSeqProperties
<1> HIDE DEF u
<1>8. Len(u) = k + 1 /\ (n + 1) - m + 1 = k + 1 BY <1>1, <1>6, <1>7 DEF m
<1>9. ASSUME NEW i \in 1 .. k + 1 PROVE u[i] = v[i]
  <2>1. u[i] = all[m + i - 1] BY <1>7, <1>8
  <2>2. CASE i = k + 1
    <3>1. m + i - 1 = n + 1 BY <1>1, <2>2 DEF m
    <3> QED BY <1>2, <1>3, <2>1, <2>2, <3>1
  <2>3. CASE i # k + 1
    <3>1. i \in 1 .. k /\ m + i - 1 = n - k + i /\ n - k + i \in 1 .. n BY <1>1, <2>3 DEF m
    <3> QED BY <1>2, <1>3, <1>4, <2>1, <3>1
  <2> QED BY <2>2, <2>3
<1>10. u = v BY <1>3, <1>7, <1>8, <1>9, SeqEqual
<1> QED BY <1>10 DEF u, v, m, n, k, all

PacketType == [cin : Nat, bytes : Seq(Byte)]

LEMMA NeedType == \A s \in 128 .. 239 : Need(s) = channel_data_len(s) /\ Need(s) \in {1, 2}
BY DEF Need, channel_data_len

LEMMA OneByte ==
  ASSUME NEW b \in Byte
  PROVE  /\ <<b>> \in Seq(Byte) /\ Len(<<b>>) = 1 /\ <<b>>[1] = b /\ <<b>> # <<>>
         /\ <<>> \in Seq(Byte) /\ Len(<<>>) = 0 /\ Append(<<>>, b) = <<b>>
OBVIOUS

LEMMA EmptyFollows ==
  ASSUME NEW e, EncType(e), ~e.sysex, e.sx = <<>>, e.status = 0
  PROVE  Follows(e, <<>>)
BY DEF Follows, MessageKept, Dump

(* A status byte outside a dump starts its message, ends the one under way or *)
(* is a message of its own; a stray F7 changes nothing.                       *)
LEMMA StatusPushed ==
  ASSUME NEW e, NEW w, NEW b \in Byte, Follows(e, w), ~Dump(w), Status(b), ~Real(b)
  PROVE  /\ push_status(e, b).p = Due(w, b) /\ push_status(e, b).p \in PacketType
         /\ Follows(push_status(e, b).e, Onward(w, b))
<1> DEFINE r == push_status(e, b)
<1>b. b \in 128 .. 247 /\ (b = 240 \/ b = 247 \/ b \in {241, 243} \/ b = 242 \/ b = 246 \/ b \in {244, 245}
                            \/ b \in 128 .. 239)
  BY DEF Status, Real, Byte
<1>e. EncType(e) /\ ~e.sysex /\ e.sx = <<>> BY DEF Follows, MessageKept
<1>n. NoPacket \in PacketType BY DEF NoPacket, PacketType
<1>1. CASE b = 247
  <2>1. Onward(w, b) = w /\ Due(w, b) = NoPacket BY <1>1 DEF Onward, Due, Dump, Real, Status
  <2>2. r = [e |-> e, p |-> NoPacket] BY <1>1 DEF push_status
  <2> QED BY <1>n, <2>1, <2>2
<1>2. CASE b \in {244, 245, 246}
  <2>1. Onward(w, b) = <<>> BY <1>2 DEF Onward, Real
  <2>2. Due(w, b) = IF b = 246 THEN Packet(5, <<246>>) ELSE NoPacket BY <1>2 DEF Due, Real, Status
  <2>3. r = [e |-> [e EXCEPT !.status = 0], p |-> IF b = 246 THEN Packet(5, <<246>>) ELSE NoPacket]
    BY <1>2 DEF push_status
  <2>4. r.p = Due(w, b) BY <2>2, <2>3
  <2>5. r.p \in PacketType
    <3>1. <<246>> \in Seq(Byte) BY DEF Byte
    <3> QED BY <1>n, <2>3, <3>1 DEF Packet, PacketType
  <2>6. r.e = [e EXCEPT !.status = 0] BY <2>3
  <2>7. EncType(r.e) /\ ~r.e.sysex /\ r.e.sx = <<>> /\ r.e.status = 0
    <3> HIDE DEF r
    <3>1. 0 \in Byte BY DEF Byte
    <3> QED BY <1>e, <2>6, <3>1 DEF EncType
  <2>8. Follows(r.e, <<>>) BY <2>7, EmptyFollows
  <2> QED BY <2>1, <2>4, <2>5, <2>8
<1>3. CASE b = 240
  <2>1. Onward(w, b) = <<b>> /\ Due(w, b) = NoPacket BY <1>3 DEF Onward, Due, Real, Status
  <2>2. r = [e |-> [e EXCEPT !.status = 0, !.sysex = TRUE, !.sx = <<240>>], p |-> NoPacket]
    BY <1>3 DEF push_status
  <2>3. /\ r.e = [e EXCEPT !.status = 0, !.sysex = TRUE, !.sx = <<240>>]
        /\ r.p = NoPacket
    BY <2>2
  <2>4. EncType(r.e) /\ r.e.sysex /\ r.e.sx = <<b>> /\ r.e.status = 0
    <3> HIDE DEF r
    <3> DEFINE t == <<240>>
    <3>1. 0 \in Byte /\ t \in Seq(Byte) /\ t = <<b>> BY <1>3, OneByte DEF Byte
    <3>2. r.e = [e EXCEPT !.status = 0, !.sysex = TRUE, !.sx = t] BY <2>3
    <3> HIDE DEF t
    <3>3. EncType(r.e) BY <1>e, <3>1, <3>2 DEF EncType
    <3>4. r.e.sysex /\ r.e.sx = t /\ r.e.status = 0 BY <1>e, <3>2 DEF EncType
    <3> QED BY <3>1, <3>3, <3>4
  <2>5. Dump(<<b>>) /\ <<b>> \in Seq(Byte) BY <1>3, OneByte DEF Dump
  <2>6. Len(r.e.sx) = Len(<<b>>) % 3 BY <2>4, OneByte
  <2>7. \A i \in 1 .. Len(r.e.sx) : r.e.sx[i] = <<b>>[Len(<<b>>) - Len(r.e.sx) + i]
    <3> HIDE DEF r
    <3> QED BY <2>4, OneByte
  <2>8. DumpKept(r.e, <<b>>) BY <2>4, <2>6, <2>7 DEF DumpKept
  <2>9. Follows(r.e, <<b>>) BY <2>4, <2>5, <2>8 DEF Follows
  <2> QED BY <1>n, <2>1, <2>3, <2>9
<1>4. CASE b \in {241, 242, 243} \/ b \in 128 .. 239
  <2>a. b >= 128 /\ b < 248 /\ b # 247 /\ b \notin {244, 245, 246} /\ b # 246 /\ b # 240 /\ b # 0
    BY <1>4
  <2>1. Onward(w, b) = <<b>> /\ Due(w, b) = NoPacket BY <2>a DEF Onward, Due, Real, Status
  <2>2. r = [e |-> Awaits(e, b, Need(b)), p |-> NoPacket] BY <1>4 DEF push_status, Need
  <2>3. r.e = [e EXCEPT !.status = b, !.expected = Need(b), !.count = 0] /\ r.p = NoPacket
    BY <2>2 DEF Awaits
  <2>4. Need(b) \in {1, 2} BY <1>4, NeedType DEF Need
  <2>5. /\ EncType(r.e) /\ ~r.e.sysex /\ r.e.sx = <<>> /\ r.e.status = b
        /\ r.e.expected = Need(b) /\ r.e.count = 0
    <3> HIDE DEF r
    <3>1. Need(b) \in 0 .. 2 /\ 0 \in 0 .. 1 BY <2>4
    <3> HIDE DEF Need
    <3>2. /\ r.e.status = b /\ r.e.expected = Need(b) /\ r.e.count = 0 /\ r.e.sysex = e.sysex
          /\ r.e.sx = e.sx /\ r.e.data = e.data
      BY <1>e, <2>3 DEF EncType
    <3>3. EncType(r.e) BY <1>e, <2>3, <3>1 DEF EncType
    <3> QED BY <1>e, <3>2, <3>3
  <2>6. ~Dump(<<b>>) /\ <<b>> \in Seq(Byte) BY <2>a, OneByte DEF Dump
  <2>7. MessageKept(r.e, <<b>>)
    <3> DEFINE f == r.e
    <3>1. (Len(<<b>>) - 1) % Need(b) = 0 BY <2>4, OneByte
    <3>2. b \in 128 .. 243 BY <1>4
    <3>3. /\ ~f.sysex /\ f.sx = <<>> /\ f.status = b /\ f.expected = Need(b) /\ f.count = 0
      BY <2>5
    <3> HIDE DEF f
    <3>4. f.status = <<b>>[1] /\ f.status \in 128 .. 243 /\ f.status # 0 BY <2>a, <3>2, <3>3, OneByte
    <3>5. f.count = (Len(<<b>>) - 1) % f.expected BY <3>1, <3>3
    <3>6. <<b>> # <<>> /\ Len(<<b>>) = f.count + 1 /\ f.count # 1 BY <3>3, OneByte
    <3>7. f.expected = Need(f.status) BY <3>3
    <3>8. MessageKept(f, <<b>>) BY <3>3, <3>4, <3>5, <3>6, <3>7 DEF MessageKept
    <3> QED BY <3>8 DEF f
  <2>8. Follows(r.e, <<b>>) BY <2>5, <2>6, <2>7 DEF Follows
  <2> QED BY <1>n, <2>1, <2>3, <2>8
<1> QED BY <1>b, <1>1, <1>2, <1>3, <1>4

LEMMA TwoBytes ==
  ASSUME NEW d \in [1 .. 2 -> Byte]
  PROVE  SubSeq(d, 1, 1) = <<d[1]>> /\ SubSeq(d, 1, 2) = <<d[1], d[2]>>
<1>1. d[1] \in Byte /\ d[2] \in Byte /\ \A i \in 1 .. 2 : d[i] \in Byte OBVIOUS
<1>2. /\ SubSeq(d, 1, 1) \in Seq(Byte) /\ Len(SubSeq(d, 1, 1)) = 1
      /\ SubSeq(d, 1, 1)[1] = d[1]
  <2>1. \A i \in 1 .. 1 : d[i] \in Byte BY <1>1
  <2> DEFINE u == SubSeq(d, 1, 1)
  <2>2. u \in Seq(Byte) /\ Len(u) = (IF 1 <= 1 THEN 1 - 1 + 1 ELSE 0) /\ \A i \in 1 .. 1 - 1 + 1 : u[i] = d[1 + i - 1]
    BY <2>1, SubSeqProperties
  <2> HIDE DEF u
  <2>3. u \in Seq(Byte) /\ Len(u) = 1 /\ u[1] = d[1] BY <2>2
  <2> QED BY <2>3 DEF u
<1>3. /\ SubSeq(d, 1, 2) \in Seq(Byte) /\ Len(SubSeq(d, 1, 2)) = 2
      /\ SubSeq(d, 1, 2)[1] = d[1] /\ SubSeq(d, 1, 2)[2] = d[2]
  <2> DEFINE u == SubSeq(d, 1, 2)
  <2>2. u \in Seq(Byte) /\ Len(u) = (IF 1 <= 2 THEN 2 - 1 + 1 ELSE 0) /\ \A i \in 1 .. 2 - 1 + 1 : u[i] = d[1 + i - 1]
    BY <1>1, SubSeqProperties
  <2> HIDE DEF u
  <2>3. u \in Seq(Byte) /\ Len(u) = 2 /\ u[1] = d[1] /\ u[2] = d[2] BY <2>2
  <2> QED BY <2>3 DEF u
<1>4. <<d[1]>> \in Seq(Byte) /\ Len(<<d[1]>>) = 1 /\ <<d[1]>>[1] = d[1] BY <1>1, OneByte
<1>5. /\ <<d[1], d[2]>> \in Seq(Byte) /\ Len(<<d[1], d[2]>>) = 2
      /\ <<d[1], d[2]>>[1] = d[1] /\ <<d[1], d[2]>>[2] = d[2]
  BY <1>1
<1>6. ASSUME NEW u \in Seq(Byte), NEW v \in Seq(Byte), Len(u) = 1, Len(v) = 1, u[1] = v[1] PROVE u = v
  <2>1. \A i \in 1 .. Len(u) : u[i] = v[i] BY <1>6
  <2> QED BY <1>6, <2>1, SeqEqual
<1>7. ASSUME NEW u \in Seq(Byte), NEW v \in Seq(Byte), Len(u) = 2, Len(v) = 2, u[1] = v[1], u[2] = v[2] PROVE u = v
  <2>1. \A i \in 1 .. Len(u) : u[i] = v[i] BY <1>7
  <2> QED BY <1>7, <2>1, SeqEqual
<1>8. SubSeq(d, 1, 1) = <<d[1]>> BY <1>2, <1>4, <1>6
<1>9. SubSeq(d, 1, 2) = <<d[1], d[2]>> BY <1>3, <1>5, <1>7
<1> QED BY <1>8, <1>9

(* A data byte outside a dump is dropped when no message is under way, kept   *)
(* when it is the first of two, and otherwise completes the packet.           *)
LEMMA DataPushed ==
  ASSUME NEW e, NEW w, NEW b \in Byte, Follows(e, w), ~Dump(w), ~Status(b)
  PROVE  /\ push_data(e, b).p = Due(w, b) /\ push_data(e, b).p \in PacketType
         /\ Follows(push_data(e, b).e, Onward(w, b))
<1> DEFINE r == push_data(e, b)
<1>b. b < 128 /\ b # 246 /\ b # 247 /\ b \notin {244, 245, 246} /\ ~Real(b) BY DEF Status, Byte, Real
<1>e. EncType(e) /\ MessageKept(e, w) /\ w \in Seq(Byte) BY DEF Follows
<1>n. NoPacket \in PacketType BY DEF NoPacket, PacketType
<1>1. CASE w = <<>>
  <2>1. Onward(w, b) = w /\ Due(w, b) = NoPacket BY <1>1, <1>b DEF Onward, Due
  <2>2. r = [e |-> e, p |-> NoPacket] BY <1>1, <1>e DEF push_data, MessageKept
  <2> QED BY <1>n, <2>1, <2>2
<1>2. CASE w # <<>>
  <2> DEFINE L    == Len(w)
             n    == e.expected
             c    == e.count
             s    == e.status
             data == [e.data EXCEPT ![c + 1] = b]
             all  == Append(w, b)
  <2>1. /\ s = w[1] /\ s \in 128 .. 243 /\ n = Need(s) /\ c = (L - 1) % n
        /\ s >= 240 => L = c + 1
        /\ c = 1 => e.data[1] = w[L]
        /\ ~e.sysex /\ e.sx = <<>> /\ s # 0
    BY <1>2, <1>e DEF MessageKept
  <2>2. s # 240 BY <1>2, <2>1 DEF Dump
  <2>3. L \in Nat /\ L >= 1 BY <1>2, <1>e, LenProperties, EmptySeq
  <2>s. s \in 128 .. 239 \/ s \in {241, 242, 243} BY <2>1, <2>2
  <2>4. n \in {1, 2} /\ n = IF s \in {241, 243} THEN 1 ELSE IF s = 242 THEN 2 ELSE channel_data_len(s)
    <3>1. n = Need(s) BY <2>1
    <3>2. CASE s \in 128 .. 239
      <4>1. Need(s) = channel_data_len(s) /\ Need(s) \in {1, 2} BY <3>2, NeedType
      <4> QED BY <3>1, <3>2, <4>1
    <3>3. CASE s \in {241, 242, 243} BY <3>1, <3>3 DEF Need
    <3> QED BY <2>s, <3>2, <3>3
  <2>5. c \in 0 .. 1 /\ e.data \in [1 .. 2 -> Byte] BY <1>e DEF EncType
  <2>6. /\ all \in Seq(Byte) /\ all # <<>> /\ Len(all) = L + 1 /\ all[L + 1] = b /\ all[1] = w[1]
    BY <1>e, <2>3, AppendProperties
  <2>7. ~Dump(all) BY <2>1, <2>2, <2>6 DEF Dump
  <2>8. data \in [1 .. 2 -> Byte] /\ data[c + 1] = b /\ (c = 1 => data[1] = w[L])
    BY <2>1, <2>5
  <2>9. Onward(w, b) = IF s \in {241, 243} \/ (s = 242 /\ L = 2) THEN <<>> ELSE all
    BY <1>2, <1>b, <2>1 DEF Onward, Status
  <2>10. r = IF c + 1 < n
             THEN [e |-> [e EXCEPT !.data = data, !.count = @ + 1], p |-> NoPacket]
             ELSE [e |-> [e EXCEPT !.data = data, !.count = 0, !.status = IF Runs(s) THEN s ELSE 0],
                   p |-> Packet(IF s < 240 THEN s \div 16 ELSE IF s = 242 THEN 3 ELSE 2,
                                <<s>> \o SubSeq(data, 1, n))]
    BY <2>1 DEF push_data
  <2>11. Due(w, b) = IF L % n # 0 THEN NoPacket
                     ELSE Packet(IF s = 242 THEN 3 ELSE IF s > 240 THEN 2 ELSE s \div 16,
                                 <<s>> \o SubSeq(all, L - n + 2, L + 1))
    <3>1. ~(w # <<>> /\ w[1] = 240) BY DEF Dump
    <3> QED BY <1>2, <1>b, <2>1, <2>4, <3>1 DEF Due
  <2>k. L % n = IF n = 1 THEN 0 ELSE IF c = 0 THEN 1 ELSE 0
    <3>1. CASE n = 1 BY <2>3, <3>1
    <3>2. CASE n = 2
      <4>1. c = (L - 1) % 2 BY <2>1, <3>2
      <4> HIDE DEF L, c
      <4> QED BY <2>3, <2>5, <3>2, <4>1
    <3> QED BY <2>4, <3>1, <3>2
  <2>c. n = 1 => c = 0
    BY <2>1, <2>3
  <2> HIDE DEF L, data, all
  <2>12. CASE c + 1 < n
    <3>1. c = 0 /\ n = 2 BY <2>4, <2>5, <2>12
    <3>2. r = [e |-> [e EXCEPT !.data = data, !.count = @ + 1], p |-> NoPacket] BY <2>10, <2>12
    <3>3. Due(w, b) = NoPacket BY <2>11, <2>k, <3>1
    <3>4. Onward(w, b) = all BY <2>1, <2>4, <2>9, <3>1
    <3>5. r.e = [e EXCEPT !.data = data, !.count = @ + 1] /\ r.p = NoPacket BY <3>2
    <3> DEFINE f == r.e
    <3>6. EncType(f) /\ f.sysex = e.sysex /\ f.sx = e.sx /\ f.status = s /\ f.expected = n
          /\ f.data = data /\ f.count = 1
      <4> DEFINE k == e.count + 1
      <4>1. r.e = [e EXCEPT !.data = data, !.count = k] BY <3>5
      <4>2. k = 1 BY <3>1
      <4> HIDE DEF r, k
      <4>3. f.data = data /\ f.count = k /\ f.sysex = e.sysex /\ f.sx = e.sx /\ f.status = e.status
            /\ f.expected = e.expected
        BY <1>e, <4>1 DEF EncType
      <4>f. f = [status |-> f.status, data |-> f.data, count |-> f.count, expected |-> f.expected,
                 sysex |-> f.sysex, sx |-> f.sx]
        BY <1>e, <4>1 DEF EncType
      <4>g. e.status \in Byte /\ e.expected \in 0 .. 2 /\ e.sysex \in BOOLEAN /\ e.sx \in Seq(Byte)
        BY <1>e DEF EncType
      <4>h. /\ f.status \in Byte /\ f.data \in [1 .. 2 -> Byte] /\ f.count \in 0 .. 1
            /\ f.expected \in 0 .. 2 /\ f.sx \in Seq(Byte)
        BY <2>8, <4>2, <4>3, <4>g
      <4>i. f.sysex \in BOOLEAN BY <4>3, <4>g
      <4>4. EncType(f) BY <4>f, <4>h, <4>i DEF EncType
      <4> QED BY <4>2, <4>3, <4>4
    <3> HIDE DEF f
    <3>7. f.count = (Len(all) - 1) % f.expected BY <2>3, <2>6, <2>k, <3>1, <3>6
    <3>8. f.status >= 240 => Len(all) = f.count + 1 BY <2>1, <2>3, <2>6, <3>1, <3>6
    <3>9. f.data[1] = all[Len(all)] BY <2>3, <2>6, <2>8, <3>1, <3>6
    <3>10. MessageKept(f, all) BY <2>1, <2>6, <3>6, <3>7, <3>8, <3>9 DEF MessageKept
    <3>11. Follows(f, all) BY <2>6, <2>7, <3>6, <3>10 DEF Follows
    <3> QED BY <1>n, <3>3, <3>4, <3>5, <3>11 DEF f
  <2>13. CASE ~(c + 1 < n)
    <3>1. n = c + 1 /\ L % n = 0 BY <2>4, <2>5, <2>k, <2>c, <2>13
    <3> DEFINE cin == IF s < 240 THEN s \div 16 ELSE IF s = 242 THEN 3 ELSE 2
               bs  == SubSeq(data, 1, n)
    <3>2. bs = SubSeq(all, L - n + 2, L + 1) /\ bs \in Seq(Byte)
      <4>1. SubSeq(data, 1, 1) = <<data[1]>> /\ SubSeq(data, 1, 2) = <<data[1], data[2]>>
        BY <2>8, TwoBytes
      <4>2. CASE n = 1
        <5>1. SubSeq(data, 1, 1) = <<data[1]>> BY <4>1
        <5>2. <<>> \in Seq(Byte) /\ Len(<<>>) = 0 BY OneByte
        <5> DEFINE t == <<>>
        <5>t. t \in Seq(Byte) /\ Len(t) = 0 BY <5>2
        <5> HIDE DEF t
        <5>u. Len(t) <= L /\ \A i \in 1 .. Len(t) : t[i] = w[L - Len(t) + i] BY <2>3, <5>t
        <5>3. SubSeq(all, L + 1 - Len(t), L + 1) = Append(t, b)
          BY <1>e, <5>t, <5>u, TailAppend DEF all, L
        <5>4. L + 1 - 0 = L + 1 /\ L - 1 + 2 = L + 1 BY <2>3
        <5>5. SubSeq(all, L + 1, L + 1) = <<b>> BY <5>t, <5>3, <5>4, OneByte DEF t
        <5>6. data[1] = b BY <2>8, <3>1, <4>2, <2>5
        <5> QED BY <4>2, <5>1, <5>4, <5>5, <5>6, OneByte
      <4>3. CASE n = 2
        <5> DEFINE t == <<w[L]>>
        <5>0. w[L] \in Byte BY <1>e, <2>3, ElementOfSeq DEF L
        <5>1. t \in Seq(Byte) /\ Len(t) = 1 /\ t[1] = w[L] BY <5>0, OneByte
        <5> HIDE DEF t
        <5>2. Len(t) <= L /\ \A i \in 1 .. Len(t) : t[i] = w[L - Len(t) + i] BY <2>3, <5>1
        <5>3. SubSeq(all, L + 1 - Len(t), L + 1) = Append(t, b)
          BY <1>e, <5>1, <5>2, TailAppend DEF all, L
        <5>4. L + 1 - 1 = L /\ L - 2 + 2 = L BY <2>3
        <5>5. SubSeq(all, L, L + 1) = Append(t, b) BY <5>1, <5>3, <5>4
        <5>6. data[1] = w[L] /\ data[2] = b BY <2>5, <2>8, <3>1, <4>3
        <5>7. SubSeq(data, 1, 2) = <<data[1], data[2]>> BY <4>1
        <5>8. Append(t, b) = <<w[L], b>>
          <6> DEFINE v == <<w[L], b>>
                     u == Append(t, b)
          <6>1. v \in Seq(Byte) /\ Len(v) = 2 /\ v[1] = w[L] /\ v[2] = b BY <5>0
          <6>2. /\ u \in Seq(Byte) /\ Len(u) = Len(t) + 1 /\ u[Len(t) + 1] = b
                /\ \A i \in 1 .. Len(t) : u[i] = t[i]
            <7>1. t \in Seq(Byte) /\ b \in Byte BY <5>1
            <7> QED BY ONLY <7>1, AppendProperties
          <6> HIDE DEF u, v
          <6>3. Len(u) = 2 /\ u[2] = b /\ u[1] = w[L] BY <5>1, <6>2
          <6>4. \A i \in 1 .. Len(u) : u[i] = v[i] BY <6>1, <6>3
          <6>5. u = v BY <6>1, <6>2, <6>3, <6>4, SeqEqual
          <6> QED BY <6>5 DEF u, v
        <5>9. <<w[L], b>> \in Seq(Byte) BY <5>0
        <5> QED BY <4>3, <5>4, <5>5, <5>6, <5>7, <5>8, <5>9
      <4> QED BY <2>4, <4>2, <4>3
    <3>3. cin = IF s = 242 THEN 3 ELSE IF s > 240 THEN 2 ELSE s \div 16 BY <2>s
    <3>4. cin \in Nat BY <2>s
    <3> HIDE DEF cin, bs
    <3>5. r.p = Packet(cin, <<s>> \o bs) BY <2>10, <2>13 DEF cin, bs
    <3>6. Due(w, b) = Packet(cin, <<s>> \o bs) BY <2>11, <3>1, <3>2, <3>3
    <3>7. Packet(cin, <<s>> \o bs) \in PacketType
      <4>1. <<s>> \in Seq(Byte) BY <2>1 DEF Byte
      <4>2. <<s>> \o bs \in Seq(Byte) BY <3>2, <4>1, ConcatProperties
      <4> QED BY <3>4, <4>2 DEF Packet, PacketType
    <3>8. r.e = [e EXCEPT !.data = data, !.count = 0, !.status = IF Runs(s) THEN s ELSE 0]
      BY <2>10, <2>13
    <3> DEFINE f  == r.e
               st == IF Runs(s) THEN s ELSE 0
    <3>9. st \in Byte /\ st = IF s < 240 THEN s ELSE 0 BY <2>1 DEF Runs, Byte
    <3> HIDE DEF st
    <3>10. EncType(f) /\ f.sysex = e.sysex /\ f.sx = e.sx /\ f.status = st /\ f.expected = n
           /\ f.data = data /\ f.count = 0
      <4>1. r.e = [e EXCEPT !.data = data, !.count = 0, !.status = st] BY <3>8 DEF st
      <4>2. st \in Byte BY <3>9
      <4> HIDE DEF r
      <4>3. f.data = data /\ f.count = 0 /\ f.sysex = e.sysex /\ f.sx = e.sx /\ f.status = st
            /\ f.expected = e.expected
        BY <1>e, <4>1 DEF EncType
      <4>f. f = [status |-> f.status, data |-> f.data, count |-> f.count, expected |-> f.expected,
                 sysex |-> f.sysex, sx |-> f.sx]
        BY <1>e, <4>1 DEF EncType
      <4>g. e.status \in Byte /\ e.expected \in 0 .. 2 /\ e.sysex \in BOOLEAN /\ e.sx \in Seq(Byte)
        BY <1>e DEF EncType
      <4>h. /\ f.status \in Byte /\ f.data \in [1 .. 2 -> Byte] /\ f.count \in 0 .. 1
            /\ f.expected \in 0 .. 2 /\ f.sx \in Seq(Byte)
        BY <2>8, <4>2, <4>3, <4>g
      <4>i. f.sysex \in BOOLEAN BY <4>3, <4>g
      <4>4. EncType(f) BY <4>f, <4>h, <4>i DEF EncType
      <4> QED BY <4>3, <4>4
    <3> HIDE DEF f
    <3>11. CASE s < 240
      <4>1. Onward(w, b) = all BY <2>9, <3>11
      <4>2. f.count = (Len(all) - 1) % f.expected BY <2>3, <2>6, <3>1, <3>10
      <4>3. MessageKept(f, all)
        <5>1. f.status = s BY <3>9, <3>10, <3>11
        <5>2. ~(f.status >= 240) /\ f.count # 1 BY <2>s, <3>10, <3>11, <5>1
        <5> QED BY <2>1, <2>6, <3>10, <4>2, <5>1, <5>2 DEF MessageKept
      <4>4. Follows(f, all) BY <2>6, <2>7, <3>10, <4>3 DEF Follows
      <4> QED BY <3>5, <3>6, <3>7, <4>1, <4>4 DEF f
    <3>12. CASE s >= 240
      <4>a. s >= 240 => L = c + 1 BY <2>1
      <4>b. L = n BY <3>1, <3>12, <4>a
      <4>c. s \in {241, 243} \/ s = 242
        <5> HIDE DEF s
        <5> QED BY <2>s, <3>12
      <4>1. L = n /\ (s \in {241, 243} \/ s = 242) BY <4>b, <4>c
      <4>2. s = 242 => L = 2 BY <2>4, <4>1
      <4>3. Onward(w, b) = <<>> BY <2>9, <4>1, <4>2
      <4>d. ~(s < 240)
        <5> HIDE DEF s
        <5> QED BY <4>c
      <4>e. st = 0 BY <3>9, <4>d
      <4>4. f.status = 0 /\ ~f.sysex /\ f.sx = <<>> BY <2>1, <3>10, <4>e
      <4>5. Follows(f, <<>>) BY <3>10, <4>4, EmptyFollows
      <4> QED BY <3>5, <3>6, <3>7, <4>3, <4>5 DEF f
    <3> QED BY <2>s, <3>11, <3>12
  <2> QED BY <2>12, <2>13
<1> QED BY <1>1, <1>2

(* In a dump a data byte joins the packet being filled, or completes it; F7   *)
(* ends the dump with whatever the packet holds, another status byte ends it  *)
(* without a packet and is then handled as outside a dump.                    *)
LEMMA DumpPushed ==
  ASSUME NEW e, NEW w, NEW b \in Byte, Follows(e, w), Dump(w), ~Real(b)
  PROVE  /\ push_sysex(e, b).p = Due(w, b) /\ push_sysex(e, b).p \in PacketType
         /\ Follows(push_sysex(e, b).e, Onward(w, b))
         /\ ~Status(b) =>
              /\ Onward(w, b) = Append(w, b)
              /\ \/ /\ push_sysex(e, b).p = NoPacket
                    /\ push_sysex(e, b).e.sx = Append(e.sx, b)
                 \/ /\ push_sysex(e, b).p = Packet(4, Append(e.sx, b)) /\ Len(Append(e.sx, b)) = 3
                    /\ push_sysex(e, b).e.sx = <<>>
<1> DEFINE r == push_sysex(e, b)
           L == Len(w)
           k == Len(e.sx)
           all == Append(w, b)
           chunk == Append(e.sx, b)
           done == EndSysex(e)
<1>e. EncType(e) /\ DumpKept(e, w) /\ w \in Seq(Byte) /\ e.sx \in Seq(Byte) BY DEF Follows, EncType
<1>k. e.status = 0 /\ k = L % 3 /\ \A i \in 1 .. k : e.sx[i] = w[L - k + i]
  BY <1>e DEF DumpKept
<1>w. w # <<>> /\ w[1] = 240 BY DEF Dump
<1>l. L \in Nat /\ L >= 1 /\ k \in 0 .. 2 /\ k <= L
  <2>1. L \in Nat /\ L >= 1 BY <1>e, <1>w, LenProperties, EmptySeq
  <2> HIDE DEF L, k
  <2>2. L % 3 \in 0 .. 2 /\ L % 3 <= L BY <2>1
  <2> QED BY <1>k, <2>1, <2>2
<1>a. /\ all \in Seq(Byte) /\ all # <<>> /\ Len(all) = L + 1 /\ all[1] = w[1] /\ all[L + 1] = b
      /\ \A i \in 1 .. L : all[i] = w[i]
  BY <1>e, <1>l, AppendProperties
<1>c. /\ chunk \in Seq(Byte) /\ Len(chunk) = k + 1 /\ chunk[k + 1] = b
      /\ \A i \in 1 .. k : chunk[i] = e.sx[i]
  BY <1>e, AppendProperties
<1>s. SubSeq(all, Len(all) - ((Len(all) - 1) % 3), Len(all)) = chunk
  <2>1. SubSeq(all, L + 1 - k, L + 1) = chunk BY <1>e, <1>k, <1>l, TailAppend
  <2>2. Len(all) = L + 1 BY <1>a
  <2>3. k = L % 3 BY <1>k
  <2> HIDE DEF all, chunk, L, k
  <2>4. Len(all) - 1 = L BY <1>l, <2>2
  <2>5. Len(all) - ((Len(all) - 1) % 3) = L + 1 - k BY <1>l, <2>2, <2>3, <2>4
  <2> QED BY <2>1, <2>2, <2>5
<1>n. NoPacket \in PacketType BY DEF NoPacket, PacketType
<1>d. EncType(done) /\ ~done.sysex /\ done.sx = <<>> /\ done.status = 0
  <2>1. done = [e EXCEPT !.sysex = FALSE, !.sx = <<>>] BY DEF EndSysex
  <2>2. <<>> \in Seq(Byte) OBVIOUS
  <2> HIDE DEF done
  <2> QED BY <1>e, <1>k, <2>1, <2>2 DEF EncType
<1>f. Follows(done, <<>>) BY <1>d, EmptyFollows
<1> HIDE DEF all, chunk, done, L, k
<1>1. CASE Status(b) /\ b # 247
  <2>1. r = push_status(done, b) BY <1>1 DEF push_sysex, done
  <2>2. Onward(w, b) = Onward(<<>>, b) BY <1>1 DEF Onward
  <2>3. Due(w, b) = Due(<<>>, b) BY <1>1 DEF Due
  <2>4. ~Dump(<<>>) BY DEF Dump
  <2>5. /\ push_status(done, b).p = Due(<<>>, b) /\ push_status(done, b).p \in PacketType
        /\ Follows(push_status(done, b).e, Onward(<<>>, b))
    BY <1>1, <1>f, <2>4, StatusPushed
  <2> QED BY <1>1, <2>1, <2>2, <2>3, <2>5
<1>2. CASE b = 247
  <2>1. r = [e |-> done, p |-> Packet(EndCode(chunk), chunk)] BY <1>2 DEF push_sysex, Status, done, chunk
  <2>2. Onward(w, b) = <<>> BY <1>2, <1>w DEF Onward, Real
  <2>3. Due(w, b) = Packet(4 + Len(chunk), chunk)
    <3> DEFINE last == SubSeq(Append(w, b), Len(Append(w, b)) - ((Len(Append(w, b)) - 1) % 3), Len(Append(w, b)))
    <3>1. Due(w, b) = Packet(4 + Len(last), last)
      <4>1. ~Real(b) /\ b # 246 /\ b = 247 BY <1>2
      <4> HIDE DEF Real
      <4> QED BY <1>w, <4>1 DEF Due
    <3>2. last = chunk BY <1>s DEF all
    <3> QED BY <3>1, <3>2
  <2>4. Packet(4 + Len(chunk), chunk) \in PacketType
    <3>1. 4 + Len(chunk) \in Nat BY <1>c, <1>l
    <3> QED BY <1>c, <3>1 DEF Packet, PacketType
  <2>5. r.e = done /\ r.p = Packet(4 + Len(chunk), chunk) BY <2>1 DEF EndCode
  <2>6. Status(b) BY <1>2 DEF Status
  <2> QED BY <1>f, <2>2, <2>3, <2>4, <2>5, <2>6
<1>3. CASE ~Status(b)
  <2>b. b < 128 /\ b # 246 /\ b # 247 /\ b \notin {244, 245, 246}
    BY <1>3 DEF Status, Byte
  <2>1. Onward(w, b) = all
    BY <1>3, <1>w, <2>b DEF Onward, all
  <2>2. Due(w, b) = IF Len(chunk) = 3 THEN Packet(4, chunk) ELSE NoPacket
    BY <1>3, <1>w, <1>s, <2>b DEF Due, all
  <2>3. Dump(all) BY <1>a, <1>w DEF Dump
  <2>4. r = IF Len(chunk) = 3 THEN [e |-> [e EXCEPT !.sx = <<>>], p |-> Packet(4, chunk)]
            ELSE [e |-> [e EXCEPT !.sx = chunk], p |-> NoPacket]
    BY <1>3, <2>b DEF push_sysex, chunk
  <2> DEFINE f == r.e
  <2>5. CASE Len(chunk) = 3
    <3>1. r.e = [e EXCEPT !.sx = <<>>] /\ r.p = Packet(4, chunk) BY <2>4, <2>5
    <3>2. Packet(4, chunk) \in PacketType BY <1>c DEF Packet, PacketType
    <3>3. f.sx = <<>> /\ EncType(f) /\ f.sysex = e.sysex /\ f.status = 0
      <4> HIDE DEF r
      <4>1. <<>> \in Seq(Byte) OBVIOUS
      <4> QED BY <1>e, <1>k, <3>1, <4>1 DEF EncType
    <3> HIDE DEF f
    <3>4. Len(f.sx) = Len(all) % 3
      <4>0. Len(chunk) = k + 1 BY <1>c
      <4>1. k = 2 BY <1>l, <2>5, <4>0
      <4>2. (L + 1) % 3 = 0 BY <1>k, <1>l, <4>1
      <4> QED BY <1>a, <3>3, <4>2
    <3>5. DumpKept(f, all) BY <1>e, <3>3, <3>4 DEF DumpKept
    <3>6. Follows(f, all) BY <1>a, <2>3, <3>3, <3>5 DEF Follows
    <3> QED BY <2>1, <2>2, <2>5, <3>1, <3>2, <3>3, <3>6 DEF f, all, chunk
  <2>6. CASE Len(chunk) # 3
    <3>1. r.e = [e EXCEPT !.sx = chunk] /\ r.p = NoPacket BY <2>4, <2>6
    <3>3. f.sx = chunk /\ EncType(f) /\ f.sysex = e.sysex /\ f.status = 0
      <4> HIDE DEF r
      <4> QED BY <1>e, <1>k, <1>c, <3>1 DEF EncType
    <3> HIDE DEF f
    <3>4. Len(f.sx) = Len(all) % 3
      <4>1. k # 2 BY <1>c, <1>l, <2>6
      <4>2. (L + 1) % 3 = k + 1 BY <1>k, <1>l, <4>1
      <4> QED BY <1>a, <1>c, <3>3, <4>2
    <3>5. ASSUME NEW i \in 1 .. k + 1 PROVE chunk[i] = all[(L + 1) - (k + 1) + i]
      <4>1. CASE i = k + 1
        <5>1. (L + 1) - (k + 1) + i = L + 1 BY <1>l, <4>1
        <5>2. all[L + 1] = b /\ chunk[k + 1] = b BY <1>a, <1>c
        <5> QED BY <4>1, <5>1, <5>2
      <4>2. CASE i # k + 1
        <5>1. i \in 1 .. k /\ (L + 1) - (k + 1) + i = L - k + i /\ L - k + i \in 1 .. L BY <1>l, <4>2
        <5>2. chunk[i] = e.sx[i] /\ e.sx[i] = w[L - k + i] BY <1>c, <1>k, <5>1
        <5>3. all[L - k + i] = w[L - k + i] BY <1>a, <5>1
        <5> QED BY <5>1, <5>2, <5>3
      <4> QED BY <4>1, <4>2
    <3>6. \A i \in 1 .. Len(f.sx) : f.sx[i] = all[Len(all) - Len(f.sx) + i] BY <1>a, <1>c, <3>3, <3>5
    <3>7. DumpKept(f, all) BY <1>e, <3>3, <3>4, <3>6 DEF DumpKept
    <3>8. Follows(f, all) BY <1>a, <2>3, <3>3, <3>7 DEF Follows
    <3> QED BY <1>n, <2>1, <2>2, <2>6, <3>1, <3>3, <3>8 DEF f, all, chunk
  <2> QED BY <2>5, <2>6
<1>4. b = 247 \/ (Status(b) /\ b # 247) \/ ~Status(b) OBVIOUS
<1> QED BY <1>1, <1>2, <1>3, <1>4

(* Whatever was sent before, one byte yields the packet that is due and       *)
(* leaves the encoder with what the wire holds of the message under way.      *)
LEMMA PushFollows ==
  ASSUME NEW e, NEW w, NEW b \in Byte, Follows(e, w)
  PROVE  /\ push(e, b).p = Due(w, b) /\ push(e, b).p \in PacketType
         /\ Follows(push(e, b).e, Onward(w, b))
<1>1. CASE Real(b)
  <2>1. push(e, b) = [e |-> e, p |-> Packet(15, <<b>>)] BY <1>1 DEF push
  <2>2. Onward(w, b) = w /\ Due(w, b) = Packet(15, <<b>>) BY <1>1 DEF Onward, Due
  <2>3. Packet(15, <<b>>) \in PacketType BY OneByte DEF Packet, PacketType
  <2> QED BY <2>1, <2>2, <2>3
<1>2. CASE ~Real(b) /\ Dump(w)
  <2>1. e.sysex BY <1>2 DEF Follows, DumpKept
  <2>2. push(e, b) = push_sysex(e, b) BY <1>2, <2>1 DEF push
  <2> QED BY <1>2, <2>2, DumpPushed
<1>3. CASE ~Real(b) /\ ~Dump(w)
  <2>1. ~e.sysex BY <1>3 DEF Follows, MessageKept
  <2>2. CASE Status(b)
    <3>1. push(e, b) = push_status(e, b) BY <1>3, <2>1, <2>2 DEF push
    <3> QED BY <1>3, <2>2, <3>1, StatusPushed
  <2>3. CASE ~Status(b)
    <3>1. push(e, b) = push_data(e, b) BY <1>3, <2>1, <2>3 DEF push
    <3> QED BY <1>3, <2>3, <3>1, DataPushed
  <2> QED BY <2>2, <2>3
<1> QED BY <1>1, <1>2, <1>3

(* A byte leaves a dump under way only when it starts one, or is a data byte  *)
(* of it, or a real-time byte in between.                                     *)
LEMMA DumpGoesOn ==
  ASSUME NEW e, NEW w, NEW b \in Byte, Follows(e, w), Dump(Onward(w, b))
  PROVE  \/ b = 240 /\ push(e, b).p = NoPacket /\ push(e, b).e.sx = Onward(w, b)
         \/ /\ b # 240 /\ Dump(w) /\ Real(b) /\ Onward(w, b) = w
            /\ push(e, b).p = Packet(15, <<b>>) /\ push(e, b).e.sx = e.sx
         \/ /\ b # 240 /\ Dump(w) /\ Onward(w, b) = Append(w, b)
            /\ \/ push(e, b).p = NoPacket /\ push(e, b).e.sx = Append(e.sx, b)
               \/ /\ push(e, b).p = Packet(4, Append(e.sx, b)) /\ Len(Append(e.sx, b)) = 3
                  /\ push(e, b).e.sx = <<>>
<1> DEFINE r == push(e, b)
<1>w. w \in Seq(Byte) BY DEF Follows
<1>1. CASE Real(b)
  <2>1. push(e, b) = [e |-> e, p |-> Packet(15, <<b>>)] BY <1>1 DEF push
  <2>2. Onward(w, b) = w /\ b # 240 BY <1>1 DEF Onward, Real
  <2> QED BY <1>1, <2>1, <2>2
<1>2. CASE b = 240
  <2>1. Onward(w, b) = <<b>> /\ Due(w, b) = NoPacket BY <1>2 DEF Onward, Due, Real, Status
  <2>2. r.p = NoPacket /\ Follows(r.e, <<b>>) BY <2>1, PushFollows
  <2>3. DumpKept(r.e, <<b>>) /\ r.e.sx \in Seq(Byte) BY <2>1, <2>2 DEF Follows, EncType
  <2>4. Len(<<b>>) = 1 /\ <<b>>[1] = b /\ <<b>> \in Seq(Byte) BY OneByte
  <2> DEFINE t == r.e.sx
             v == <<b>>
  <2>5. Len(t) = Len(v) % 3 /\ \A i \in 1 .. Len(t) : t[i] = v[Len(v) - Len(t) + i]
    BY <2>3 DEF DumpKept
  <2>t. t \in Seq(Byte) /\ v \in Seq(Byte) /\ Len(v) = 1 BY <2>3, <2>4
  <2> HIDE DEF t, v
  <2>6. Len(t) = 1 BY <2>5, <2>t
  <2>7. \A i \in 1 .. Len(t) : t[i] = v[i] BY <2>5, <2>6, <2>t
  <2>8. t = v BY <2>6, <2>7, <2>t, SeqEqual
  <2> QED BY <1>2, <2>1, <2>2, <2>8 DEF t, v
<1>3. CASE ~Real(b) /\ b # 240
  <2>1. Dump(w) /\ ~Status(b)
    <3>1. ~Status(b)
      <4> SUFFICES ASSUME Status(b) PROVE FALSE OBVIOUS
      <4>1. CASE b = 247
        <5>1. Onward(w, b) = IF w # <<>> /\ w[1] = 240 THEN <<>> ELSE w BY <1>3, <4>1 DEF Onward
        <5> QED BY <5>1 DEF Dump
      <4>2. CASE b \in {244, 245, 246}
        <5>1. Onward(w, b) = <<>> BY <1>3, <4>2 DEF Onward
        <5> QED BY <5>1 DEF Dump
      <4>3. CASE b # 247 /\ b \notin {244, 245, 246}
        <5>1. Onward(w, b) = <<b>> BY <1>3, <4>3 DEF Onward
        <5> QED BY <1>3, <5>1, OneByte DEF Dump
      <4> QED BY <4>1, <4>2, <4>3
    <3>2. b # 247 /\ b \notin {244, 245, 246} BY <3>1 DEF Status
    <3>3. w # <<>> BY <1>3, <3>1, <3>2 DEF Onward, Dump
    <3>4. Onward(w, b) = <<>> \/ Onward(w, b) = Append(w, b) BY <1>3, <3>1, <3>2, <3>3 DEF Onward
    <3>5. Append(w, b)[1] = w[1]
      <4>1. Len(w) \in Nat /\ Len(w) >= 1 BY <1>w, <3>3, LenProperties, EmptySeq
      <4> QED BY <1>w, <4>1, AppendProperties
    <3> QED BY <3>1, <3>3, <3>4, <3>5 DEF Dump
  <2>2. e.sysex BY <2>1 DEF Follows, DumpKept
  <2>3. push(e, b) = push_sysex(e, b) BY <1>3, <2>2 DEF push
  <2> QED BY <1>3, <2>1, <2>3, DumpPushed
<1> QED BY <1>1, <1>2, <1>3

Pending(slot) == IF SysexPacket(slot) THEN slot.bytes ELSE <<>>
HostInv == ~mtx.lost /\ Dump(mlog.wire) => mlog.wire = mtx.host \o Pending(mtx.slot) \o enc.sx

LEMMA FaithfulParts == MidiFaithful <=> mlog.right /\ HostInv
BY DEF MidiFaithful, HostInv, Pending, Dump

LEMMA PendingType == ASSUME NEW slot \in PacketType PROVE Pending(slot) \in Seq(Byte)
<1>1. slot.bytes \in Seq(Byte) BY DEF PacketType
<1>2. <<>> \in Seq(Byte) OBVIOUS
<1> QED BY <1>1, <1>2 DEF Pending

LEMMA ForwardStep == MidiInv /\ Forward => MidiInv'
<1> SUFFICES ASSUME MidiInv, NEW b \in Wire,
                    LET r == push(enc, b)
                        wire == Onward(mlog.wire, b)
                        refused == r.p # NoPacket /\ mtx.slot # NoPacket
                        dump == wire # <<>> /\ wire[1] = 240
                        lost == dump /\ IF b = 240 THEN mtx.slot # NoPacket ELSE mtx.lost \/ refused
                    IN  /\ enc' = r.e
                        /\ mlog' = [wire |-> wire, right |-> mlog.right /\ r.p = Due(mlog.wire, b)]
                        /\ mtx' = [slot |-> IF r.p = NoPacket \/ refused THEN mtx.slot ELSE r.p,
                                   host |-> IF dump /\ ~lost /\ b # 240 THEN mtx.host ELSE <<>>,
                                   lost |-> lost]
             PROVE  MidiInv'
  BY DEF Forward
<1> DEFINE r == push(enc, b)
           wire == Onward(mlog.wire, b)
           refused == r.p # NoPacket /\ mtx.slot # NoPacket
           lost == Dump(wire) /\ IF b = 240 THEN mtx.slot # NoPacket ELSE mtx.lost \/ refused
           slot == IF r.p = NoPacket \/ refused THEN mtx.slot ELSE r.p
           host == IF Dump(wire) /\ ~lost /\ b # 240 THEN mtx.host ELSE <<>>
<1>b. b \in Byte BY MidiAssumption DEF Byte
<1>i. /\ Follows(enc, mlog.wire) /\ mtx.host \in Seq(Byte) /\ mtx.slot \in PacketType
      /\ mlog.right /\ HostInv
  BY FaithfulParts DEF MidiInv, PacketType
<1>1. r.p = Due(mlog.wire, b) /\ r.p \in PacketType /\ Follows(r.e, wire)
  BY <1>b, <1>i, PushFollows
<1>2. /\ enc' = r.e /\ mlog' = [wire |-> wire, right |-> mlog.right /\ r.p = Due(mlog.wire, b)]
      /\ mtx' = [slot |-> slot, host |-> host, lost |-> lost]
  BY DEF Dump
<1>d. Dump(wire) =>
        \/ b = 240 /\ r.p = NoPacket /\ r.e.sx = wire
        \/ /\ b # 240 /\ Dump(mlog.wire) /\ Real(b) /\ wire = mlog.wire
           /\ r.p = Packet(15, <<b>>) /\ r.e.sx = enc.sx
        \/ /\ b # 240 /\ Dump(mlog.wire) /\ wire = Append(mlog.wire, b)
           /\ \/ r.p = NoPacket /\ r.e.sx = Append(enc.sx, b)
              \/ /\ r.p = Packet(4, Append(enc.sx, b)) /\ Len(Append(enc.sx, b)) = 3
                 /\ r.e.sx = <<>>
  BY <1>b, <1>i, DumpGoesOn
<1>h. ~lost /\ Dump(wire) => wire = host \o Pending(slot) \o r.e.sx
  <2> SUFFICES ASSUME ~lost, Dump(wire) PROVE wire = host \o Pending(slot) \o r.e.sx OBVIOUS
  <2>e. <<>> \in Seq(Byte) /\ (\A t \in Seq(Byte) : <<>> \o t = t /\ t \o <<>> = t)
    BY ConcatEmptySeq
  <2>s. wire \in Seq(Byte) /\ r.e.sx \in Seq(Byte) /\ enc.sx \in Seq(Byte) /\ mlog.wire \in Seq(Byte)
    BY <1>1, <1>i DEF Follows, EncType
  <2>n. Pending(NoPacket) = <<>> BY DEF Pending, SysexPacket, NoPacket
  <2>1. CASE b = 240
    <3>1. r.p = NoPacket /\ r.e.sx = wire /\ mtx.slot = NoPacket
      BY <1>d, <2>1
    <3>2. slot = NoPacket /\ host = <<>> BY <2>1, <3>1
    <3> HIDE DEF slot, host, wire, r
    <3> QED BY <2>e, <2>s, <2>n, <3>1, <3>2
  <2>2. CASE b # 240
    <3>1. ~mtx.lost /\ ~refused /\ host = mtx.host /\ Dump(mlog.wire) BY <1>d, <2>2
    <3>2. mlog.wire = mtx.host \o Pending(mtx.slot) \o enc.sx BY <1>i, <3>1 DEF HostInv
    <3>3. CASE Real(b) /\ wire = mlog.wire /\ r.p = Packet(15, <<b>>) /\ r.e.sx = enc.sx
      <4>1. r.p # NoPacket /\ Pending(r.p) = <<>>
        <5>1. r.p.cin = 15 /\ NoPacket.cin = 0 BY <3>3 DEF Packet, NoPacket
        <5> HIDE DEF r
        <5> QED BY <5>1 DEF Pending, SysexPacket
      <4>2. mtx.slot = NoPacket /\ slot = r.p BY <3>1, <4>1
      <4> HIDE DEF slot, host, wire, r
      <4> QED BY <2>n, <3>1, <3>2, <3>3, <4>1, <4>2
    <3>4. CASE wire = Append(mlog.wire, b) /\ r.p = NoPacket /\ r.e.sx = Append(enc.sx, b)
      <4>1. slot = mtx.slot BY <3>4
      <4> DEFINE u == mtx.host \o Pending(mtx.slot)
                 x == enc.sx
      <4>2. u \in Seq(Byte) BY <1>i, PendingType, ConcatProperties
      <4>3. mlog.wire = u \o x BY <3>2
      <4>4. wire = Append(u \o x, b) /\ r.e.sx = Append(x, b) BY <3>4, <4>3
      <4>5. host \o Pending(slot) = u BY <3>1, <4>1
      <4>6. x \in Seq(Byte) BY <2>s
      <4> HIDE DEF u, x
      <4>7. Append(u \o x, b) = u \o Append(x, b)
        <5>1. <<b>> \in Seq(Byte) /\ u \o x \in Seq(Byte) BY <1>b, <4>2, <4>6, OneByte, ConcatProperties
        <5>2. Append(u \o x, b) = (u \o x) \o <<b>> /\ Append(x, b) = x \o <<b>>
          BY <1>b, <4>6, <5>1, AppendIsConcat
        <5>3. (u \o x) \o <<b>> = u \o (x \o <<b>>) BY <4>2, <4>6, <5>1, ConcatAssociative
        <5> QED BY <5>2, <5>3
      <4> HIDE DEF slot, host, wire, r
      <4> QED BY <4>4, <4>5, <4>7
    <3>5. CASE /\ wire = Append(mlog.wire, b) /\ r.p = Packet(4, Append(enc.sx, b))
               /\ Len(Append(enc.sx, b)) = 3 /\ r.e.sx = <<>>
      <4> DEFINE c == Append(enc.sx, b)
                 h == mtx.host
                 x == enc.sx
      <4>1. r.p.cin = 4 /\ r.p.bytes = c BY <3>5 DEF Packet
      <4>2. c # <<246>> /\ c \in Seq(Byte)
        <5>1. Len(<<246>>) = 1 OBVIOUS
        <5>2. c \in Seq(Byte) BY <1>b, <2>s, AppendProperties
        <5>3. Len(c) = 3 BY <3>5
        <5> HIDE DEF c
        <5> QED BY <5>1, <5>2, <5>3
      <4>3. r.p # NoPacket
        <5>1. NoPacket.cin = 0 BY DEF NoPacket
        <5> QED BY <4>1, <5>1
      <4>4. mtx.slot = NoPacket /\ slot = r.p BY <3>1, <4>3
      <4>5. Pending(slot) = c
        <5> DEFINE y == r.p
        <5>1. slot = y /\ y.cin = 4 /\ y.bytes = c /\ c # <<246>> BY <4>1, <4>2, <4>4
        <5> HIDE DEF r, slot, c, y
        <5>2. y.cin \in 4 .. 7 /\ y.bytes # <<246>> BY <5>1
        <5>3. SysexPacket(y) BY <5>2 DEF SysexPacket
        <5> QED BY <5>1, <5>3 DEF Pending
      <4>6. h \in Seq(Byte) /\ x \in Seq(Byte) BY <1>i, <2>s
      <4>7. mlog.wire = h \o x
        <5>1. h \o <<>> = h BY <2>e, <4>6
        <5> QED BY <2>n, <3>2, <4>4, <5>1
      <4>8. wire = Append(h \o x, b) BY <3>5, <4>7
      <4>9. Append(h \o x, b) = h \o c
        <5> HIDE DEF h, x
        <5>1. <<b>> \in Seq(Byte) /\ h \o x \in Seq(Byte) BY <1>b, <4>6, OneByte, ConcatProperties
        <5>2. Append(h \o x, b) = (h \o x) \o <<b>> /\ Append(x, b) = x \o <<b>>
          BY <1>b, <4>6, <5>1, AppendIsConcat
        <5>3. (h \o x) \o <<b>> = h \o (x \o <<b>>) BY <4>6, <5>1, ConcatAssociative
        <5> QED BY <5>2, <5>3 DEF x
      <4>10. h \o c \in Seq(Byte) BY <4>2, <4>6, ConcatProperties
      <4>11. (h \o c) \o <<>> = h \o c BY <2>e, <4>10
      <4>12. host = h /\ r.e.sx = <<>> BY <3>1, <3>5
      <4> HIDE DEF slot, host, wire, r, c, h
      <4> QED BY <4>5, <4>8, <4>9, <4>11, <4>12
    <3> QED BY <1>d, <2>2, <3>3, <3>4, <3>5
  <2> QED BY <2>1, <2>2
<1>3. host \in Seq(Byte) /\ slot \in PacketType BY <1>1, <1>i
<1> DEFINE right == mlog.right /\ r.p = Due(mlog.wire, b)
<1>r. right BY <1>1, <1>i
<1>m. mlog' = [wire |-> wire, right |-> right] BY <1>2
<1> HIDE DEF r, wire, slot, host, lost, right
<1>4. /\ mlog'.wire = wire /\ mtx'.slot = slot /\ mtx'.host = host /\ enc' = r.e
  BY <1>2, <1>m
<1>l. mlog'.right /\ mtx'.lost = lost
  <2>1. mlog'.right = right BY <1>m
  <2>2. mtx'.lost = lost BY <1>2
  <2> QED BY <1>r, <2>1, <2>2
<1>5. HostInv' BY <1>4, <1>l, <1>h DEF HostInv
<1>6. (MidiFaithful <=> mlog.right /\ HostInv)' BY FaithfulParts, PTL
<1>7. (mlog = [wire |-> mlog.wire, right |-> mlog.right])' BY <1>2
<1>8. (mtx = [slot |-> mtx.slot, host |-> mtx.host, lost |-> mtx.lost])' BY <1>2
<1> QED BY <1>1, <1>3, <1>4, <1>l, <1>5, <1>6, <1>7, <1>8 DEF MidiInv, PacketType

LEMMA CollectStep == MidiInv /\ MidiCollect => MidiInv'
<1> SUFFICES ASSUME MidiInv, MidiCollect PROVE MidiInv' OBVIOUS
<1> DEFINE slot == mtx.slot
           host == IF SysexPacket(slot) /\ enc.sysex /\ ~mtx.lost THEN mtx.host \o slot.bytes ELSE mtx.host
<1>i. /\ Follows(enc, mlog.wire) /\ mtx.host \in Seq(Byte) /\ mtx.slot \in PacketType
      /\ mlog.right /\ HostInv /\ mtx = [slot |-> mtx.slot, host |-> mtx.host, lost |-> mtx.lost]
      /\ mlog = [wire |-> mlog.wire, right |-> mlog.right]
  BY FaithfulParts DEF MidiInv, PacketType
<1>1. enc' = enc /\ mlog' = mlog BY DEF MidiCollect
<1>2. mtx' = [mtx EXCEPT !.slot = NoPacket, !.host = host] BY DEF MidiCollect
<1>3. NoPacket \in PacketType BY DEF NoPacket, PacketType
<1>4. host \in Seq(Byte)
  <2>1. slot.bytes \in Seq(Byte) BY <1>i DEF PacketType
  <2>2. mtx.host \o slot.bytes \in Seq(Byte) BY <1>i, <2>1, ConcatProperties
  <2> QED BY <1>i, <2>2
<1>5. ~mtx.lost /\ Dump(mlog.wire) => mlog.wire = host \o Pending(NoPacket) \o enc.sx
  <2> SUFFICES ASSUME ~mtx.lost, Dump(mlog.wire)
               PROVE  mlog.wire = host \o Pending(NoPacket) \o enc.sx
    OBVIOUS
  <2>1. enc.sysex BY <1>i DEF Follows, DumpKept
  <2>2. mlog.wire = mtx.host \o Pending(slot) \o enc.sx BY <1>i DEF HostInv
  <2>3. \A t \in Seq(Byte) : t \o <<>> = t BY ConcatEmptySeq
  <2>4. Pending(NoPacket) = <<>> BY DEF Pending, SysexPacket, NoPacket
  <2>5. mtx.host \o Pending(slot) = host
    <3>1. CASE SysexPacket(slot) BY <2>1, <3>1 DEF Pending
    <3>2. CASE ~SysexPacket(slot)
      <4>1. Pending(slot) = <<>> /\ host = mtx.host BY <3>2 DEF Pending
      <4> QED BY <1>i, <2>3, <4>1
    <3> QED BY <3>1, <3>2
  <2>6. host \o Pending(NoPacket) = host BY <1>4, <2>3, <2>4
  <2> HIDE DEF host, slot
  <2> QED BY <2>2, <2>5, <2>6
<1> HIDE DEF host, slot
<1>6. mtx' = [slot |-> NoPacket, host |-> host, lost |-> mtx.lost] BY <1>2, <1>i
<1>7. HostInv' BY <1>1, <1>5, <1>6 DEF HostInv
<1>8. (MidiFaithful <=> mlog.right /\ HostInv)' BY FaithfulParts, PTL
<1>9. mlog'.right BY <1>1, <1>i
<1>10. mtx'.host \in Seq(Byte) /\ mtx'.slot \in PacketType BY <1>3, <1>4, <1>6
<1>11. (mtx = [slot |-> mtx.slot, host |-> mtx.host, lost |-> mtx.lost])' BY <1>6
<1>12. (mlog = [wire |-> mlog.wire, right |-> mlog.right])' BY <1>1, <1>i
<1>13. Follows(enc, mlog.wire)' BY <1>1, <1>i
<1> QED BY <1>7, <1>8, <1>9, <1>10, <1>11, <1>12, <1>13 DEF MidiInv, PacketType

LEMMA MidiInitInv == MidiInit => MidiInv
<1> SUFFICES ASSUME MidiInit PROVE MidiInv OBVIOUS
<1>1. enc = Idle /\ mlog = [wire |-> <<>>, right |-> TRUE]
      /\ mtx = [slot |-> NoPacket, host |-> <<>>, lost |-> FALSE]
  BY DEF MidiInit
<1>2. EncType(enc) /\ ~enc.sysex /\ enc.sx = <<>> /\ enc.status = 0
  <2>1. <<0, 0>> \in [1 .. 2 -> Byte] BY DEF Byte
  <2>2. 0 \in Byte /\ <<>> \in Seq(Byte) BY DEF Byte
  <2> QED BY <1>1, <2>1, <2>2 DEF Idle, EncType
<1>3. Follows(enc, mlog.wire)
  <2>1. mlog.wire = <<>> BY <1>1
  <2> QED BY <1>2, <2>1, EmptyFollows
<1>4. HostInv BY <1>1 DEF HostInv, Dump
<1>5. NoPacket \in PacketType /\ <<>> \in Seq(Byte) BY DEF NoPacket, PacketType
<1>6. MidiFaithful BY <1>1, <1>4, FaithfulParts
<1> QED BY <1>1, <1>3, <1>5, <1>6 DEF MidiInv, PacketType

(* Whatever was sent before, a byte yields exactly the packet the wire's      *)
(* rules give for the message it belongs to, and a dump the host collected    *)
(* without a refusal is the dump on the wire (UsbMidiEncoder, MidiClass).     *)
THEOREM WireIsKept == MidiSpec => []MidiFaithful
<1>1. MidiInv /\ [MidiNext]_midiVars => MidiInv'
  <2> SUFFICES ASSUME MidiInv, [MidiNext]_midiVars PROVE MidiInv' OBVIOUS
  <2>1. CASE MidiNext BY <2>1, ForwardStep, CollectStep DEF MidiNext
  <2>2. CASE UNCHANGED midiVars
    <3>1. enc' = enc /\ mtx' = mtx /\ mlog' = mlog BY <2>2 DEF midiVars
    <3> QED BY <3>1 DEF MidiInv, MidiFaithful
  <2> QED BY <2>1, <2>2
<1>2. MidiInv => MidiFaithful BY DEF MidiInv
<1> QED BY <1>1, <1>2, MidiInitInv, PTL DEF MidiSpec

-----------------------------------------------------------------------------
(* The USB classes: what is said of them that needs an argument is arithmetic, *)
(* for every sample width; the rest is two tables and two equal copies.        *)

(* What the quotient of a natural number is (the casts to i16).               *)
LEMMA QuotientBounds ==
  ASSUME NEW n \in Nat, NEW d \in Nat \ {0}
  PROVE  (n \div d) \in Nat /\ (n \div d) * d <= n /\ n < (n \div d) * d + d
OBVIOUS

LEMMA QuotientMonotone ==
  ASSUME NEW n \in Nat, NEW m \in Nat, NEW d \in Nat \ {0}, n <= m
  PROVE  n \div d <= m \div d
<1> DEFINE q == n \div d
           r == m \div d
<1>1. q \in Nat /\ r \in Nat /\ q * d <= n /\ m < r * d + d BY QuotientBounds
<1> SUFFICES ASSUME q >= r + 1 PROVE FALSE BY <1>1
<1> HIDE DEF q, r
<1>2. q * d >= (r + 1) * d BY <1>1
<1>3. (r + 1) * d = r * d + d BY <1>1
<1>4. q * d \in Int /\ r * d \in Int BY <1>1
<1> QED BY <1>1, <1>2, <1>3, <1>4

(* Truncation keeps the order and the sign, and stays within a bound that is  *)
(* a multiple of the divisor.                                                 *)
LEMMA TruncMonotone ==
  ASSUME NEW n \in Int, NEW m \in Int, NEW d \in Nat \ {0}, n <= m
  PROVE  Trunc(n, d) \in Int /\ Trunc(m, d) \in Int /\ Trunc(n, d) <= Trunc(m, d)
<1>1. CASE n >= 0
  <2>1. n \in Nat /\ m \in Nat BY <1>1
  <2>2. n \div d <= m \div d BY <2>1, QuotientMonotone
  <2>3. Trunc(n, d) = n \div d /\ Trunc(m, d) = m \div d BY <2>1 DEF Trunc
  <2>4. (n \div d) \in Nat /\ (m \div d) \in Nat BY <2>1, QuotientBounds
  <2> QED BY <2>2, <2>3, <2>4
<1>2. CASE m < 0
  <2>1. -n \in Nat /\ -m \in Nat /\ -m <= -n BY <1>2
  <2>2. (-m) \div d <= (-n) \div d BY <2>1, QuotientMonotone
  <2>3. Trunc(n, d) = -((-n) \div d) /\ Trunc(m, d) = -((-m) \div d) BY <1>2 DEF Trunc
  <2>4. ((-n) \div d) \in Nat /\ ((-m) \div d) \in Nat BY <2>1, QuotientBounds
  <2> QED BY <2>2, <2>3, <2>4
<1>3. CASE n < 0 /\ m >= 0
  <2>1. -n \in Nat /\ m \in Nat BY <1>3
  <2>2. Trunc(n, d) = -((-n) \div d) /\ Trunc(m, d) = m \div d BY <1>3 DEF Trunc
  <2>3. ((-n) \div d) \in Nat /\ (m \div d) \in Nat BY <2>1, QuotientBounds
  <2> QED BY <2>2, <2>3
<1> QED BY <1>1, <1>2, <1>3

LEMMA TruncSign ==
  ASSUME NEW n \in Int, NEW d \in Nat \ {0}
  PROVE  /\ Trunc(n, d) \in Int
         /\ n >= 0 => Trunc(n, d) >= 0
         /\ n <= 0 => Trunc(n, d) <= 0
<1>1. Trunc(0, d) = 0 BY DEF Trunc
<1>2. Trunc(n, d) \in Int BY TruncMonotone
<1>3. n >= 0 => Trunc(0, d) <= Trunc(n, d) BY TruncMonotone
<1>4. n <= 0 => Trunc(n, d) <= Trunc(0, d) BY TruncMonotone
<1> QED BY <1>1, <1>2, <1>3, <1>4

LEMMA TruncWhole ==
  ASSUME NEW k \in Nat, NEW d \in Nat \ {0}
  PROVE  Trunc(d * k, d) = k /\ Trunc(-(d * k), d) = -k
<1>1. d * k \in Nat /\ (d * k) \div d = k OBVIOUS
<1>2. CASE k = 0 BY <1>2 DEF Trunc
<1>3. CASE k > 0
  <2>1. d * k > 0 BY <1>3
  <2> QED BY <1>1, <2>1 DEF Trunc
<1> QED BY <1>2, <1>3

(* A sample that left through the clamp: a 16-bit value, of the sign of what  *)
(* came in, no quieter for a louder one (pop_capture_bytes).                  *)
LEMMA ToSampleSound ==
  ASSUME NEW n \in Int, NEW d \in Nat \ {0}
  PROVE  /\ ToSample(n, d) \in I16
         /\ n >= 0 => ToSample(n, d) >= 0
         /\ n <= 0 => ToSample(n, d) <= 0
         /\ \A m \in Int : n <= m => ToSample(n, d) <= ToSample(m, d)
<1> DEFINE c(x) == Clamped(x, -d, d)
           p(x) == c(x) * (Top - 1)
<1>t. Top - 1 \in Nat BY ClassesAssumption
<1>1. \A x \in Int : c(x) \in Int /\ -d <= c(x) /\ c(x) <= d BY DEF Clamped
<1>2. (n >= 0 => c(n) >= 0) /\ (n <= 0 => c(n) <= 0) BY DEF Clamped
<1>3. \A m \in Int : n <= m => c(n) <= c(m) BY DEF Clamped
<1>4. \A x \in Int : ToSample(x, d) = Trunc(p(x), d) BY DEF ToSample
<1> HIDE DEF c
<1>5. \A x \in Int : p(x) \in Int BY <1>1, <1>t
<1>6. ToSample(n, d) \in I16
  <2>1. p(n) <= d * (Top - 1) /\ -(d * (Top - 1)) <= p(n)
    <3> DEFINE y == c(n)
               t == Top - 1
    <3>1. y \in Int /\ -d <= y /\ y <= d /\ t \in Nat BY <1>1, <1>t
    <3> HIDE DEF y, t
    <3>2. y * t <= d * t BY <3>1
    <3>3. (-d) * t <= y * t BY <3>1
    <3>4. (-d) * t = -(d * t) BY <3>1
    <3>5. p(n) = y * t BY DEF y, t
    <3> QED BY <3>2, <3>3, <3>4, <3>5 DEF t
  <2>2. d * (Top - 1) \in Int /\ p(n) \in Int BY <1>t, <1>5
  <2>3. Trunc(p(n), d) <= Top - 1 BY <2>1, <2>2, <1>t, TruncMonotone, TruncWhole
  <2>4. -(Top - 1) <= Trunc(p(n), d) BY <2>1, <2>2, <1>t, TruncMonotone, TruncWhole
  <2>5. Trunc(p(n), d) \in Int BY <2>2, TruncSign
  <2> QED BY <1>4, <2>3, <2>4, <2>5, ClassesAssumption DEF I16
<1>7. n >= 0 => ToSample(n, d) >= 0
  <2> SUFFICES ASSUME n >= 0 PROVE ToSample(n, d) >= 0 OBVIOUS
  <2>1. c(n) \in Nat BY <1>1, <1>2
  <2>2. p(n) >= 0 BY <2>1, <1>t
  <2> QED BY <1>4, <1>5, <2>2, TruncSign
<1>8. n <= 0 => ToSample(n, d) <= 0
  <2> SUFFICES ASSUME n <= 0 PROVE ToSample(n, d) <= 0 OBVIOUS
  <2>1. c(n) \in Int /\ c(n) <= 0 BY <1>1, <1>2
  <2>2. p(n) <= 0 BY <2>1, <1>t
  <2> QED BY <1>4, <1>5, <2>2, TruncSign
<1>9. ASSUME NEW m \in Int, n <= m PROVE ToSample(n, d) <= ToSample(m, d)
  <2>1. c(n) \in Int /\ c(m) \in Int /\ c(n) <= c(m) BY <1>1, <1>3, <1>9
  <2>2. p(n) <= p(m) BY <2>1, <1>t
  <2> QED BY <1>4, <1>5, <2>2, TruncMonotone
<1> QED BY <1>6, <1>7, <1>8, <1>9

(* Where both gains are one the clamp is idle, and 32767 for 32768 costs a    *)
(* sample at most one step (pop_capture_bytes).                               *)
LEMMA UnityWithinOne ==
  ASSUME NEW s \in I16
  PROVE  ToSample(s * 16, Top * 4 * 4) - s \in -1 .. 1
<1> DEFINE d == Top * 4 * 4
           n == s * 16 * (Top - 1)
<1>t. Top \in Nat /\ Top > 0 /\ s \in Int /\ -Top <= s /\ s < Top BY ClassesAssumption DEF I16
<1>1. d \in Nat \ {0} /\ d = 16 * Top BY <1>t
<1>2. s * 16 \in Int /\ -d <= s * 16 /\ s * 16 <= d BY <1>t
<1>3. ToSample(s * 16, d) = Trunc(n, d)
  <2>1. Clamped(s * 16, -d, d) = s * 16 BY <1>1, <1>2 DEF Clamped
  <2> QED BY <2>1 DEF ToSample
<1>4. n \in Int /\ n = s * d - 16 * s
  <2>1. s * 16 * (Top - 1) = s * (16 * Top) - 16 * s BY <1>t
  <2> QED BY <2>1, <1>1, <1>t
<1>5. CASE s > 0
  <2> DEFINE k == s - 1
  <2>1. k \in Nat /\ s \in Nat /\ k * d = s * d - d BY <1>1, <1>5, <1>t
  <2>2. d * k \in Int /\ d * s \in Int /\ d * k = k * d /\ d * s = s * d BY <1>1, <1>t
  <2>3. 16 * s <= d BY <1>1, <1>t
  <2>4. d * k <= n /\ n <= d * s BY <1>4, <1>5, <1>1, <1>t, <2>1, <2>2, <2>3
  <2>5. Trunc(d * k, d) = k /\ Trunc(d * s, d) = s BY <2>1, <1>1, TruncWhole
  <2> HIDE DEF d, n
  <2>6. k <= Trunc(n, d) BY <1>1, <1>4, <2>2, <2>4, <2>5, TruncMonotone
  <2>7. Trunc(n, d) <= s BY <1>1, <1>4, <2>2, <2>4, <2>5, TruncMonotone
  <2>8. Trunc(n, d) \in Int BY <1>1, <1>4, TruncSign
  <2>9. Trunc(n, d) - s \in -1 .. 1 BY <2>6, <2>7, <2>8, <1>t
  <2> QED BY <1>3, <2>9 DEF d
<1>6. CASE s < 0
  <2> DEFINE j == -s
             k == -s - 1
  <2>1. k \in Nat /\ j \in Nat /\ j * d = -(s * d) /\ k * d = -(s * d) - d BY <1>1, <1>6, <1>t
  <2>2. d * k \in Int /\ d * j \in Int /\ d * k = k * d /\ d * j = j * d BY <1>1, <2>1
  <2>3. -(16 * s) <= d BY <1>1, <1>t
  <2>4. -(d * j) <= n /\ n <= -(d * k) BY <1>4, <1>6, <1>1, <1>t, <2>1, <2>2, <2>3
  <2>5. Trunc(-(d * k), d) = -k /\ Trunc(-(d * j), d) = -j BY <2>1, <1>1, TruncWhole
  <2>s. -k = s + 1 /\ -j = s BY <1>t
  <2>i. -(d * k) \in Int /\ -(d * j) \in Int BY <2>2
  <2> HIDE DEF d, n, j, k
  <2>6. Trunc(n, d) <= -k BY <1>1, <1>4, <2>i, <2>4, <2>5, TruncMonotone
  <2>7. -j <= Trunc(n, d) BY <1>1, <1>4, <2>i, <2>4, <2>5, TruncMonotone
  <2>8. Trunc(n, d) \in Int BY <1>1, <1>4, TruncSign
  <2>9. Trunc(n, d) - s \in -1 .. 1 BY <2>6, <2>7, <2>8, <2>s, <1>t
  <2> QED BY <1>3, <2>9 DEF d
<1>7. CASE s = 0
  <2>1. s * 16 = 0 BY <1>7
  <2>2. ToSample(0, d) = 0
    <3>1. 0 \in Int /\ (0 >= 0) /\ (0 <= 0) /\ I16 \subseteq Int BY ClassesAssumption DEF I16
    <3>2. ToSample(0, d) \in I16 /\ ToSample(0, d) >= 0 /\ ToSample(0, d) <= 0
      BY <3>1, <1>1, ToSampleSound
    <3>3. ToSample(0, d) \in Int BY <3>1, <3>2
    <3> QED BY <3>2, <3>3
  <2> QED BY <1>7, <2>1, <2>2
<1> QED BY <1>5, <1>6, <1>7, <1>t

(* The path of a sample under any two gains, not only those of the table.     *)
LEMMA PathSound ==
  ASSUME NEW a \in Nat, NEW b \in Nat, NEW s \in I16
  PROVE  /\ Captured(s, a, b) \in I16 /\ Looped(s, a, b) \in I16
         /\ s >= 0 => Captured(s, a, b) >= 0 /\ Looped(s, a, b) >= 0
         /\ s <= 0 => Captured(s, a, b) <= 0 /\ Looped(s, a, b) <= 0
         /\ a = 0 \/ b = 0 => Captured(s, a, b) = 0 /\ Looped(s, a, b) = 0
         /\ Captured(s, a, b) - Looped(s, a, b) \in -1 .. 1
         /\ \A t \in I16 : s <= t => /\ Captured(s, a, b) <= Captured(t, a, b)
                                     /\ Looped(s, a, b) <= Looped(t, a, b)
<1> DEFINE g == a * b
           d == Top * 4 * 4
           v(x) == ToSample(x * g, d)
<1>t. I16 \subseteq Int /\ s \in Int /\ g \in Nat BY ClassesAssumption DEF I16
<1>d. d \in Nat \ {0} BY ClassesAssumption
<1>1. \A x \in I16 : Captured(x, a, b) = v(x)
  <2>1. \A x \in I16 : (x * a) * b = x * (a * b) BY <1>t
  <2> QED BY <2>1 DEF Captured, Popped, GainedUp, GainFull
<1>2. \A x \in I16 : Looped(x, a, b) = IF g = 16 THEN x ELSE v(x)
  BY DEF Looped, apply_gain_i16le, GainFull
<1>z. a = 0 \/ b = 0 => g = 0 BY DEF g
<1> HIDE DEF g, d
<1>3. s * g \in Int /\ (s >= 0 => s * g >= 0) /\ (s <= 0 => s * g <= 0) BY <1>t
<1>4. v(s) \in I16 /\ (s >= 0 => v(s) >= 0) /\ (s <= 0 => v(s) <= 0)
  BY <1>3, <1>d, ToSampleSound
<1>5. ASSUME NEW t \in I16, s <= t PROVE v(s) <= v(t)
  <2>1. s * g <= t * g /\ t * g \in Int BY <1>t, <1>5
  <2> QED BY <2>1, <1>3, <1>d, ToSampleSound
<1>6. g = 0 => v(s) = 0
  <2> SUFFICES ASSUME g = 0 PROVE v(s) = 0 OBVIOUS
  <2>1. s * g = 0 BY <1>t
  <2>2. v(s) = ToSample(0, d) BY <2>1
  <2>3. ToSample(0, d) \in I16 /\ ToSample(0, d) >= 0 /\ ToSample(0, d) <= 0
    BY <1>d, ToSampleSound
  <2>4. ToSample(0, d) \in Int BY <2>3, <1>t
  <2> QED BY <2>2, <2>3, <2>4
<1>7. g = 16 => v(s) - s \in -1 .. 1 BY UnityWithinOne DEF d
<1>c. Captured(s, a, b) = v(s) /\ Looped(s, a, b) = IF g = 16 THEN s ELSE v(s) BY <1>1, <1>2
<1>8. ASSUME NEW t \in I16, s <= t
      PROVE  Captured(s, a, b) <= Captured(t, a, b) /\ Looped(s, a, b) <= Looped(t, a, b)
  <2>1. Captured(t, a, b) = v(t) /\ Looped(t, a, b) = IF g = 16 THEN t ELSE v(t) BY <1>1, <1>2
  <2>2. v(s) <= v(t) BY <1>5, <1>8
  <2> HIDE DEF v
  <2> QED BY <1>8, <1>c, <2>1, <2>2
<1>i. v(s) \in Int BY <1>4, <1>t
<1> HIDE DEF v
<1>9. Captured(s, a, b) - Looped(s, a, b) \in -1 .. 1
  <2>1. CASE g = 16 BY <1>c, <1>7, <2>1
  <2>2. CASE g # 16
    <3>1. v(s) - v(s) = 0 BY <1>i
    <3> QED BY <1>c, <2>2, <3>1
  <2> QED BY <2>1, <2>2
<1> QED BY <1>4, <1>6, <1>8, <1>9, <1>c, <1>z

(* Volume and mute do to every sample what they stand for, at every width.    *)
LEMMA GainsProved == GainSound
<1> SUFFICES ASSUME NEW muteOut \in BOOLEAN, NEW muteIn \in BOOLEAN,
                    NEW volumeOut \in Volumes, NEW volumeIn \in Volumes
             PROVE  GainKept(gain_of(muteOut, volumeOut), gain_of(muteIn, volumeIn), muteOut \/ muteIn)
  BY DEF GainSound
<1> DEFINE out == gain_of(muteOut, volumeOut)
           in == gain_of(muteIn, volumeIn)
<1>1. out \in Nat /\ in \in Nat BY DEF gain_of, GainFull, Volumes, Silence16
<1>2. muteOut \/ muteIn => out = 0 \/ in = 0 BY DEF gain_of
<1>3. \A s \in I16 \ {Top - 1} : s \in I16 /\ s + 1 \in I16 /\ s <= s + 1
  BY ClassesAssumption DEF I16
<1> HIDE DEF out, in
<1>4. ASSUME NEW s \in I16
      PROVE  /\ Captured(s, out, in) \in I16 /\ Looped(s, out, in) \in I16
             /\ s >= 0 => Captured(s, out, in) >= 0 /\ Looped(s, out, in) >= 0
             /\ s <= 0 => Captured(s, out, in) <= 0 /\ Looped(s, out, in) <= 0
             /\ muteOut \/ muteIn => Captured(s, out, in) = 0 /\ Looped(s, out, in) = 0
             /\ Captured(s, out, in) - Looped(s, out, in) \in -1 .. 1
  <2>1. out = 0 \/ in = 0 => Captured(s, out, in) = 0 /\ Looped(s, out, in) = 0
    BY <1>1, PathSound
  <2>2. muteOut \/ muteIn => Captured(s, out, in) = 0 /\ Looped(s, out, in) = 0
    BY <1>2, <2>1, Zenon
  <2> QED BY <1>1, <2>2, PathSound
<1>5. ASSUME NEW s \in I16 \ {Top - 1}
      PROVE  /\ Captured(s, out, in) <= Captured(s + 1, out, in)
             /\ Looped(s, out, in) <= Looped(s + 1, out, in)
  BY <1>1, <1>3, PathSound
<1>6. GainKept(out, in, muteOut \/ muteIn) BY <1>4, <1>5, Zenon DEF GainKept
<1> QED BY <1>6, Zenon DEF out, in

(* The feedback and the packet sizes, for every target and every fill.        *)
LEMMA RateLoopProved == RateLoopSound
<1>1. RingTarget \in Nat /\ FillBound \in Nat BY ClassesAssumption
<1>2. OneSample \in Nat /\ OneSample > 0 /\ Nominal1014 = 48 * OneSample
      /\ 49 * OneSample < FeedbackRange
  BY DEF OneSample, Nominal1014, FeedbackRange
<1>3. ASSUME NEW e \in Int
      PROVE  /\ Clamped(e, -OneSample, OneSample) \in -OneSample .. OneSample
             /\ Clamped(e, -OneSample, OneSample) > 0 <=> e > 0
             /\ \A f \in Int : f <= e => Clamped(f, -OneSample, OneSample)
                                           <= Clamped(e, -OneSample, OneSample)
  BY <1>2 DEF Clamped
<1> DEFINE e(fill) == (RingTarget - fill) * 64
           a(fill) == Clamped(e(fill), -OneSample, OneSample)
<1>4. \A fill \in Nat : e(fill) \in Int /\ (fill < RingTarget <=> e(fill) > 0)
                        /\ e(fill + 1) <= e(fill)
  BY <1>1
<1>5. \A fill \in Nat : Feedback(fill) = Nominal1014 + a(fill) BY DEF Feedback
<1> HIDE DEF e
<1>6. \A fill \in Nat : a(fill) \in -OneSample .. OneSample /\ (a(fill) > 0 <=> fill < RingTarget)
  BY <1>3, <1>4
<1>7. \A fill \in Nat : a(fill + 1) <= a(fill)
  <2> SUFFICES ASSUME NEW fill \in Nat PROVE a(fill + 1) <= a(fill) OBVIOUS
  <2>1. e(fill) \in Int /\ e(fill + 1) \in Int /\ e(fill + 1) <= e(fill)
    BY <1>4, fill + 1 \in Nat
  <2> QED BY <1>3, <2>1
<1> HIDE DEF a
<1>8. \A fill \in 0 .. FillBound :
        /\ Feedback(fill) \in (Nominal1014 - OneSample) .. (Nominal1014 + OneSample)
        /\ Feedback(fill) < FeedbackRange
        /\ (fill < RingTarget <=> Feedback(fill) > Nominal1014)
  <2> SUFFICES ASSUME NEW fill \in 0 .. FillBound
               PROVE  /\ Feedback(fill) \in (Nominal1014 - OneSample) .. (Nominal1014 + OneSample)
                      /\ Feedback(fill) < FeedbackRange
                      /\ (fill < RingTarget <=> Feedback(fill) > Nominal1014)
    OBVIOUS
  <2>1. fill \in Nat BY <1>1
  <2>2. Feedback(fill) = Nominal1014 + a(fill) BY <2>1, <1>5
  <2>3. a(fill) \in -OneSample .. OneSample /\ (a(fill) > 0 <=> fill < RingTarget) BY <2>1, <1>6
  <2>4. FeedbackRange \in Int BY DEF FeedbackRange
  <2> QED BY <1>1, <1>2, <2>1, <2>2, <2>3, <2>4
<1>9. \A fill \in 0 .. FillBound : CaptureBytes(fill) <= PacketBytes /\ CaptureBytes(fill) % 4 = 0
  BY <1>1 DEF CaptureBytes, PacketBytes
<1>10. \A fill \in 0 .. (FillBound - 1) :
         Feedback(fill + 1) <= Feedback(fill) /\ CaptureBytes(fill) <= CaptureBytes(fill + 1)
  <2> SUFFICES ASSUME NEW fill \in 0 .. (FillBound - 1)
               PROVE  /\ Feedback(fill + 1) <= Feedback(fill)
                      /\ CaptureBytes(fill) <= CaptureBytes(fill + 1)
    OBVIOUS
  <2>1. fill \in Nat /\ fill + 1 \in Nat BY <1>1
  <2>2. a(fill) \in Int /\ a(fill + 1) \in Int BY <2>1, <1>2, <1>6
  <2>3. Feedback(fill + 1) <= Feedback(fill) BY <1>2, <1>5, <1>7, <2>1, <2>2
  <2>4. CaptureBytes(fill) <= CaptureBytes(fill + 1) BY <1>1, <2>1 DEF CaptureBytes
  <2> QED BY <2>3, <2>4
<1> QED BY <1>8, <1>9, <1>10, Zenon DEF RateLoopSound

(* The two tables, row by row.                                                *)
LEMMA AudioRows ==
  /\ DOMAIN AudioControl = 1 .. 7 /\ Len(AudioControl) = 7 /\ Members(AudioControl) = 2 .. 7
  /\ AudioControl[1] = Unit("header", 0, 0, "none", 8)
  /\ AudioControl[2] = Unit("input", 1, 0, "usb", 10)
  /\ AudioControl[3] = Unit("feature", 5, 1, "none", 8)
  /\ AudioControl[4] = Unit("output", 2, 5, "speaker", 7)
  /\ AudioControl[5] = Unit("input", 3, 0, "mic", 10)
  /\ AudioControl[6] = Unit("feature", 6, 3, "none", 8)
  /\ AudioControl[7] = Unit("output", 4, 6, "usb", 7)
<1>1. DOMAIN AudioControl = 1 .. 7 /\ Len(AudioControl) = 7 BY DEF AudioControl
<1>2. /\ AudioControl[1] = Unit("header", 0, 0, "none", 8)
      /\ AudioControl[2] = Unit("input", 1, 0, "usb", 10)
      /\ AudioControl[3] = Unit("feature", 5, 1, "none", 8)
      /\ AudioControl[4] = Unit("output", 2, 5, "speaker", 7)
      /\ AudioControl[5] = Unit("input", 3, 0, "mic", 10)
      /\ AudioControl[6] = Unit("feature", 6, 3, "none", 8)
      /\ AudioControl[7] = Unit("output", 4, 6, "usb", 7)
  BY DEF AudioControl
<1>3. Members(AudioControl) = {i \in 1 .. 7 : AudioControl[i].kind # "header"}
  BY <1>1 DEF Members
<1>4. /\ AudioControl[1].kind = "header"
      /\ \A i \in 2 .. 7 : AudioControl[i].kind # "header"
  BY <1>2 DEF Unit
<1> HIDE DEF AudioControl
<1>5. Members(AudioControl) = 2 .. 7 BY <1>3, <1>4
<1> QED BY <1>1, <1>2, <1>5

LEMMA MidiRows ==
  /\ DOMAIN MidiStreaming = 1 .. 5 /\ Len(MidiStreaming) = 5 /\ Members(MidiStreaming) = 2 .. 5
  /\ MidiStreaming[1] = Unit("header", 0, 0, "none", 5)
  /\ MidiStreaming[2] = Unit("input", 1, 0, "embedded", 4)
  /\ MidiStreaming[3] = Unit("input", 2, 0, "external", 4)
  /\ MidiStreaming[4] = Unit("output", 3, 2, "embedded", 7)
  /\ MidiStreaming[5] = Unit("output", 4, 1, "external", 7)
<1>1. DOMAIN MidiStreaming = 1 .. 5 /\ Len(MidiStreaming) = 5 BY DEF MidiStreaming
<1>2. /\ MidiStreaming[1] = Unit("header", 0, 0, "none", 5)
      /\ MidiStreaming[2] = Unit("input", 1, 0, "embedded", 4)
      /\ MidiStreaming[3] = Unit("input", 2, 0, "external", 4)
      /\ MidiStreaming[4] = Unit("output", 3, 2, "embedded", 7)
      /\ MidiStreaming[5] = Unit("output", 4, 1, "external", 7)
  BY DEF MidiStreaming
<1>3. Members(MidiStreaming) = {i \in 1 .. 5 : MidiStreaming[i].kind # "header"}
  BY <1>1 DEF Members
<1>4. /\ MidiStreaming[1].kind = "header"
      /\ \A i \in 2 .. 5 : MidiStreaming[i].kind # "header"
  BY <1>2 DEF Unit
<1>5. Members(MidiStreaming) = 2 .. 5 BY <1>3, <1>4
<1> QED BY <1>1, <1>2, <1>5

(* The totals are recursive sums over a fixed table: the table of the sums    *)
(* witnesses that the recursion has a solution, and a solution agrees with it *)
(* row by row.                                                                *)
LEMMA AudioLength == Lengths(AudioControl) = 72
<1> DEFINE P(f) == f = [n \in 0 .. 7 |-> IF n = 0 THEN 0 ELSE f[n - 1] + AudioControl[n].len]
           g == [n \in 0 .. 7 |-> IF n = 0 THEN 0 ELSE IF n = 1 THEN 10 ELSE IF n = 2 THEN 22
                                  ELSE IF n = 3 THEN 32 ELSE IF n = 4 THEN 41
                                  ELSE IF n = 5 THEN 53 ELSE IF n = 6 THEN 63 ELSE 72]
           sum == CHOOSE f : P(f)
<1>1. /\ AudioControl[1].len = 10 /\ AudioControl[2].len = 12 /\ AudioControl[3].len = 10
      /\ AudioControl[4].len = 9 /\ AudioControl[5].len = 12 /\ AudioControl[6].len = 10
      /\ AudioControl[7].len = 9
  BY AudioRows DEF Unit
<1>2. P(g) BY <1>1, SMT
<1>3. P(sum) BY <1>2, Zenon
<1> HIDE DEF sum, g
<1>4. \A n \in 0 .. 7 : sum[n] = IF n = 0 THEN 0 ELSE sum[n - 1] + AudioControl[n].len BY <1>3, Zenon
<1>5. sum[7] = 72
  <2>1. sum[0] = 0 /\ sum[1] = sum[0] + 10 /\ sum[2] = sum[1] + 12 /\ sum[3] = sum[2] + 10
    BY <1>4, <1>1, SMT
  <2>2. sum[4] = sum[3] + 9 /\ sum[5] = sum[4] + 12 /\ sum[6] = sum[5] + 10 /\ sum[7] = sum[6] + 9
    BY <1>4, <1>1, SMT
  <2> QED BY <2>1, <2>2
<1>6. Lengths(AudioControl) = sum[7] BY AudioRows, Zenon DEF Lengths, sum
<1> QED BY <1>5, <1>6

LEMMA MidiTotalLength == Lengths(MidiStreaming) = 37
<1> DEFINE P(f) == f = [n \in 0 .. 5 |-> IF n = 0 THEN 0 ELSE f[n - 1] + MidiStreaming[n].len]
           g == [n \in 0 .. 5 |-> IF n = 0 THEN 0 ELSE IF n = 1 THEN 7 ELSE IF n = 2 THEN 13
                                  ELSE IF n = 3 THEN 19 ELSE IF n = 4 THEN 28 ELSE 37]
           sum == CHOOSE f : P(f)
<1>1. /\ MidiStreaming[1].len = 7 /\ MidiStreaming[2].len = 6 /\ MidiStreaming[3].len = 6
      /\ MidiStreaming[4].len = 9 /\ MidiStreaming[5].len = 9
  BY MidiRows DEF Unit
<1>2. P(g) BY <1>1, SMT
<1>3. P(sum) BY <1>2, Zenon
<1> HIDE DEF sum, g
<1>4. \A n \in 0 .. 5 : sum[n] = IF n = 0 THEN 0 ELSE sum[n - 1] + MidiStreaming[n].len BY <1>3, Zenon
<1>5. sum[5] = 37
  <2>1. /\ sum[0] = 0 /\ sum[1] = sum[0] + 7 /\ sum[2] = sum[1] + 6
        /\ sum[3] = sum[2] + 6 /\ sum[4] = sum[3] + 9 /\ sum[5] = sum[4] + 9
    BY <1>4, <1>1, SMT
  <2> QED BY <2>1
<1>6. Lengths(MidiStreaming) = sum[5] BY MidiRows, Zenon DEF Lengths, sum
<1> QED BY <1>5, <1>6

(* A unit is found by its number where numbers do not repeat.                 *)
LEMMA UnitFound ==
  ASSUME NEW units, NEW i \in Members(units),
         \A j, k \in Members(units) : units[j].id = units[k].id => j = k
  PROVE  UnitOf(units, units[i].id) = units[i]
<1> DEFINE w == CHOOSE j \in Members(units) : units[j].id = units[i].id
<1>1. w \in Members(units) /\ units[w].id = units[i].id BY Zenon
<1>2. w = i BY <1>1, Zenon
<1> QED BY <1>2, Zenon DEF UnitOf

(* What the host is told adds up: lengths, numbers, links and endpoints       *)
(* (get_configuration_descriptors of both classes).                           *)
LEMMA DescriptorsProved == DescriptorsSound
<1>1. AudioTotal = Lengths(AudioControl) /\ MidiTotal = Lengths(MidiStreaming)
  BY AudioLength, MidiTotalLength DEF AudioTotal, MidiTotal
<1>a. \A i, j \in Members(AudioControl) : AudioControl[i].id = AudioControl[j].id => i = j
  BY AudioRows DEF Unit
<1>m. \A i, j \in Members(MidiStreaming) : MidiStreaming[i].id = MidiStreaming[j].id => i = j
  BY MidiRows DEF Unit
<1>b. /\ AudioControl[2].id = 1 /\ AudioControl[3].id = 5 /\ AudioControl[4].id = 2
      /\ AudioControl[5].id = 3 /\ AudioControl[6].id = 6 /\ AudioControl[7].id = 4
      /\ AudioControl[1].source = 0
      /\ AudioControl[2].source = 0 /\ AudioControl[3].source = 1 /\ AudioControl[4].source = 5
      /\ AudioControl[5].source = 0 /\ AudioControl[6].source = 3 /\ AudioControl[7].source = 6
      /\ AudioControl[2].type = "usb" /\ AudioControl[5].type = "mic" /\ AudioControl[7].type = "usb"
  BY AudioRows DEF Unit
<1>n. /\ MidiStreaming[2].id = 1 /\ MidiStreaming[3].id = 2
      /\ MidiStreaming[4].id = 3 /\ MidiStreaming[5].id = 4
      /\ MidiStreaming[1].source = 0 /\ MidiStreaming[2].source = 0 /\ MidiStreaming[3].source = 0
      /\ MidiStreaming[4].source = 2 /\ MidiStreaming[5].source = 1
      /\ MidiStreaming[3].type = "external"
  BY MidiRows DEF Unit
<1>2. \A i \in DOMAIN AudioControl : AudioControl[i].source \in Ids(AudioControl) \cup {0}
  <2>1. {1, 5, 2, 3, 6, 4} \subseteq Ids(AudioControl) BY <1>b, AudioRows DEF Ids
  <2> QED BY <2>1, <1>b, AudioRows
<1>3. \A i \in DOMAIN MidiStreaming : MidiStreaming[i].source \in Ids(MidiStreaming) \cup {0}
  <2>1. {1, 2, 3, 4} \subseteq Ids(MidiStreaming) BY <1>n, MidiRows DEF Ids
  <2> QED BY <2>1, <1>n, MidiRows
<1>4. /\ UnitOf(AudioControl, 1) = AudioControl[2] /\ UnitOf(AudioControl, 5) = AudioControl[3]
      /\ UnitOf(AudioControl, 2) = AudioControl[4] /\ UnitOf(AudioControl, 3) = AudioControl[5]
      /\ UnitOf(AudioControl, 6) = AudioControl[6] /\ UnitOf(AudioControl, 4) = AudioControl[7]
  <2>1. \A i \in 2 .. 7 : UnitOf(AudioControl, AudioControl[i].id) = AudioControl[i]
    BY <1>a, AudioRows, UnitFound
  <2> QED BY <2>1, <1>b
<1>5. /\ UnitOf(MidiStreaming, 1) = MidiStreaming[2] /\ UnitOf(MidiStreaming, 2) = MidiStreaming[3]
      /\ UnitOf(MidiStreaming, 3) = MidiStreaming[4] /\ UnitOf(MidiStreaming, 4) = MidiStreaming[5]
  <2>1. \A i \in 2 .. 5 : UnitOf(MidiStreaming, MidiStreaming[i].id) = MidiStreaming[i]
    BY <1>m, MidiRows, UnitFound
  <2> QED BY <2>1, <1>n
<1>6. Origin(AudioControl, 2) = 1 /\ Origin(AudioControl, 4) = 3
  <2>1. /\ Upstream(AudioControl, 2) = 5 /\ Upstream(AudioControl, 5) = 1
        /\ Upstream(AudioControl, 4) = 6 /\ Upstream(AudioControl, 6) = 3
    BY <1>4, <1>b DEF Upstream
  <2> QED BY <2>1 DEF Origin
<1>7. Origin(MidiStreaming, 4) = 1 /\ Origin(MidiStreaming, 3) = 2
  <2>1. /\ Upstream(MidiStreaming, 4) = 1 /\ Upstream(MidiStreaming, 1) = 1
        /\ Upstream(MidiStreaming, 3) = 2 /\ Upstream(MidiStreaming, 2) = 2
    BY <1>5, <1>n DEF Upstream
  <2> QED BY <2>1 DEF Origin
<1>8. /\ UnitOf(AudioControl, 1).type = "usb"
      /\ UnitOf(AudioControl, Origin(AudioControl, 4)).type = "mic"
      /\ UnitOf(AudioControl, 2).source # UnitOf(AudioControl, 4).source
  BY <1>4, <1>6, <1>b
<1>9. \A s \in AudioStreams :
        /\ s.iface \in Collected /\ (s.eps = {} <=> s.alt = 0)
        /\ s.sync \in s.eps \cup {"none"}
        /\ s.alt = 1 => UnitOf(AudioControl, s.link).type = "usb"
  <2>1. UnitOf(AudioControl, 1).type = "usb" /\ UnitOf(AudioControl, 4).type = "usb" BY <1>4, <1>b
  <2> QED BY <2>1 DEF AudioStreams, Collected
<1>10. /\ UnitOf(MidiStreaming, MidiJacks["ep_out"]) = UnitOf(MidiStreaming, Origin(MidiStreaming, 4))
       /\ UnitOf(MidiStreaming, Origin(MidiStreaming, MidiJacks["ep_in"])).type = "external"
  <2>1. MidiJacks["ep_out"] = 1 /\ MidiJacks["ep_in"] = 3 BY DEF MidiJacks
  <2> QED BY <2>1, <1>5, <1>7, <1>n
<1>11. \A units \in {AudioControl, MidiStreaming} :
         /\ \A i, j \in Members(units) : units[i].id = units[j].id => i = j
         /\ \A i \in DOMAIN units : units[i].source \in Ids(units) \cup {0}
  BY <1>2, <1>3, <1>a, <1>m, Zenon
<1> QED BY <1>1, <1>6, <1>8, <1>9, <1>10, <1>11, Zenon DEF DescriptorsSound

(* Host and device agree: both records start alike and take the same writes,  *)
(* and an answer is the addressed unit's (control_in, control_out).           *)
UnitsInv == ClassesTypeOK /\ FeatureUnitsAgree

LEMMA SetCurStep == UnitsInv /\ SetCur => UnitsInv'
<1> SUFFICES ASSUME UnitsInv, NEW r \in Requests, NEW mute \in BOOLEAN, NEW volume \in Volumes,
                    LET accepted == Ours(r) /\ r.len >= FieldBytes(r.selector)
                        With(state, e) == IF r.selector = "mute" THEN [state EXCEPT ![e].mute = mute]
                                          ELSE [state EXCEPT ![e].volume = volume]
                    IN  /\ fu' = IF accepted THEN With(fu, Addressed(r.entity)) ELSE fu
                        /\ belief' = IF accepted THEN With(belief, r.entity) ELSE belief
                        /\ reply' = [reply EXCEPT !.kind = "none"]
             PROVE  UnitsInv'
  BY DEF SetCur
<1>1. /\ fu \in [Units -> [mute : BOOLEAN, volume : Volumes]] /\ fu = belief
      /\ reply \in [kind : {"none", "mute", "volume"}, unit : Units, mute : BOOLEAN, volume : Volumes]
  BY DEF UnitsInv, ClassesTypeOK, FeatureUnitsAgree
<1>2. reply' = [reply EXCEPT !.kind = "none"] OBVIOUS
<1>3. reply'.kind = "none"
      /\ reply' \in [kind : {"none", "mute", "volume"}, unit : Units, mute : BOOLEAN, volume : Volumes]
  BY <1>1, <1>2
<1>4. fu' = belief' BY <1>1 DEF Addressed
<1>5. fu' \in [Units -> [mute : BOOLEAN, volume : Volumes]]
  <2>1. CASE fu' = fu BY <1>1, <2>1
  <2>2. CASE Ours(r)
    <3>1. r.entity \in Units BY <2>2 DEF Ours
    <3>2. [fu EXCEPT ![r.entity].mute = mute] \in [Units -> [mute : BOOLEAN, volume : Volumes]]
      BY <1>1, <3>1
    <3>3. [fu EXCEPT ![r.entity].volume = volume] \in [Units -> [mute : BOOLEAN, volume : Volumes]]
      BY <1>1, <3>1
    <3>4. \/ fu' = [fu EXCEPT ![r.entity].mute = mute]
          \/ fu' = [fu EXCEPT ![r.entity].volume = volume]
          \/ fu' = fu
      BY DEF Addressed
    <3> QED BY <1>1, <3>2, <3>3, <3>4
  <2> QED BY <2>1, <2>2
<1> QED BY <1>3, <1>4, <1>5 DEF UnitsInv, ClassesTypeOK, FeatureUnitsAgree

LEMMA GetCurStep == UnitsInv /\ GetCur => UnitsInv'
<1> SUFFICES ASSUME UnitsInv, NEW r \in Requests, Ours(r), UNCHANGED <<fu, belief>>,
                    reply' = [kind |-> r.selector, unit |-> r.entity,
                              mute |-> fu[r.entity].mute, volume |-> fu[r.entity].volume]
             PROVE  UnitsInv'
  BY DEF GetCur
<1>1. fu \in [Units -> [mute : BOOLEAN, volume : Volumes]] /\ fu = belief
  BY DEF UnitsInv, ClassesTypeOK, FeatureUnitsAgree
<1>2. r.entity \in Units /\ r.selector \in {"mute", "volume"} BY DEF Ours, Requests
<1>3. fu[r.entity].mute \in BOOLEAN /\ fu[r.entity].volume \in Volumes BY <1>1, <1>2
<1>4. reply' \in [kind : {"none", "mute", "volume"}, unit : Units, mute : BOOLEAN, volume : Volumes]
  BY <1>2, <1>3
<1>5. /\ reply'.unit = r.entity /\ reply'.mute = fu[r.entity].mute
      /\ reply'.volume = fu[r.entity].volume
  OBVIOUS
<1> QED BY <1>1, <1>4, <1>5 DEF UnitsInv, ClassesTypeOK, FeatureUnitsAgree

(* Whatever the host asks, the two agree about both Feature Units; what it is *)
(* told adds up; and gains, feedback and packet sizes do what they stand for, *)
(* at every sample width and ring target (UsbAudioClass, MidiClass, codec.rs).*)
THEOREM ClassesProved == UnitsSpec => [](ClassesTypeOK /\ ClassesSound)
<1>1. UnitsInit => UnitsInv
  <2> SUFFICES ASSUME UnitsInit PROVE UnitsInv OBVIOUS
  <2>1. fu = Fresh /\ belief = Fresh
        /\ reply = [kind |-> "none", unit |-> 5, mute |-> FALSE, volume |-> 0]
    BY DEF UnitsInit
  <2>2. 0 \in Volumes /\ 5 \in Units BY DEF Volumes, Units
  <2>3. Fresh \in [Units -> [mute : BOOLEAN, volume : Volumes]] BY <2>2 DEF Fresh
  <2> QED BY <2>1, <2>2, <2>3 DEF UnitsInv, ClassesTypeOK, FeatureUnitsAgree
<1>2. UnitsInv /\ [UnitsNext]_unitVars => UnitsInv'
  <2> SUFFICES ASSUME UnitsInv, [UnitsNext]_unitVars PROVE UnitsInv' OBVIOUS
  <2>1. CASE SetCur BY <2>1, SetCurStep
  <2>2. CASE GetCur BY <2>2, GetCurStep
  <2>3. CASE UnitsReset
    <3>1. fu' = fu /\ belief' = belief /\ reply' = [reply EXCEPT !.kind = "none"]
      BY <2>3 DEF UnitsReset
    <3> QED BY <3>1 DEF UnitsInv, ClassesTypeOK, FeatureUnitsAgree
  <2>4. CASE UNCHANGED unitVars
    BY <2>4 DEF unitVars, UnitsInv, ClassesTypeOK, FeatureUnitsAgree
  <2> QED BY <2>1, <2>2, <2>3, <2>4 DEF UnitsNext
<1>3. UnitsInv => ClassesTypeOK /\ ClassesSound
  BY DescriptorsProved, GainsProved, RateLoopProved, Zenon DEF UnitsInv, ClassesSound
<1> QED BY <1>1, <1>2, <1>3, PTL DEF UnitsSpec
=============================================================================
