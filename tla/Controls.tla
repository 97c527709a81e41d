------------------------------ MODULE Controls ------------------------------
(* The front panels: the shift-register debouncer of both boards, the Pod's  *)
(* quadrature decoder, and the Hothouse loop that paces the debouncers off   *)
(* the wrapping cycle counter and turns a long hold of both footswitches     *)
(* into a reboot to DFU.                                                     *)
EXTENDS Integers, FiniteSets

CONSTANTS DebounceBits,   \* width of the shift register (8)
          CycleWrap,      \* the cycle counter's modulus (2^32), scaled down
          DebouncePeriod, \* cycles between two samples (1 ms)
          DfuHold,        \* dfu_hold_cycles (2 s)
          PassCycles,     \* cycles one pass of the main loop may take
          QuarterTurns    \* bound: quarter turns of the knob

VARIABLES pedal,          \* the Hothouse: debouncers, timers, LEDs
          pod,            \* the Pod's encoder and the knob on it
          switch          \* one debouncer on its own, with what it has told
pedalVars == <<pedal, pod, switch>>

ASSUME PanelAssumption ==
    /\ DebounceBits \in Nat \ {0, 1} /\ DebouncePeriod \in Nat \ {0}
    /\ PassCycles \subseteq Nat \ {0} /\ DfuHold \in Nat \ {0} /\ CycleWrap \in Nat \ {0}
    /\ \A d \in PassCycles : DfuHold + d < CycleWrap
    /\ QuarterTurns \in Nat

Footswitches == {1, 2}

-----------------------------------------------------------------------------
(* Debouncer and decode_toggle.                                              *)

(* The register as its bits: tap 1 is the newest sample, the last one the oldest. *)
Taps == 1..DebounceBits
Register == [Taps -> BOOLEAN]
Released == [t \in Taps |-> FALSE]
\* a slip: the register shifts in the raw pin, high when open
ShiftedRaw(state, engaged) == [t \in Taps |-> IF t = 1 THEN ~engaged ELSE state[t - 1]]
Shifted(state, engaged) == [t \in Taps |-> IF t = 1 THEN engaged ELSE state[t - 1]]
Pressed(state) == \A t \in Taps : state[t]
RisingEdge(state) == \A t \in Taps : state[t] <=> t # DebounceBits
FallingEdge(state) == \A t \in Taps : state[t] <=> t = DebounceBits

-----------------------------------------------------------------------------
(* EncoderDecoder: two samples of each phase decide the increment.           *)

\* a slip: a fall of A counts whatever B is
IncrementAnyB(a, b) == IF a = <<1, 0>> THEN 1 ELSE IF b = <<1, 0>> /\ a = <<0, 0>> THEN -1 ELSE 0
Increment(a, b) ==
    IF a = <<1, 0>> /\ b = <<0, 0>> THEN 1
    ELSE IF b = <<1, 0>> /\ a = <<0, 0>> THEN -1
    ELSE 0

(* The knob itself (external): the levels of A and B at each quarter turn,   *)
(* each held for two samples or more.                                        *)
Levels == [q \in 0..3 |-> CASE q = 0 -> <<1, 1>> [] q = 1 -> <<1, 0>>
                            [] q = 2 -> <<0, 0>> [] q = 3 -> <<0, 1>>]

-----------------------------------------------------------------------------
(* The Hothouse loop.                                                        *)

PanelInit ==
    /\ pedal = [deb |-> [f \in Footswitches |-> Released], now |-> 0, sampled |-> 0,
                start |-> -1, leds |-> FALSE, held |-> 0, dfu |-> FALSE]
    /\ \E turn \in {-1, 1} :
           pod = [a |-> <<1, 1>>, b |-> <<1, 1>>, quarter |-> 0, dwell |-> 2, count |-> 0,
                  turn |-> turn, quarters |-> 0]
    /\ switch = [state |-> Released, told |-> "released"]

Elapsed(since) == (pedal.now - since) % CycleWrap

\* a slip: a released gesture leaves its start time behind
StartKept(gesture, start, now) == IF start = -1 /\ gesture THEN now ELSE start
StartOf(gesture, start, now) == IF ~gesture THEN -1 ELSE IF start = -1 THEN now ELSE start

(* One pass: the counter advances, the contacts are sampled when a period is *)
(* over, then the gesture is judged.  held is the true time the gesture has  *)
(* been seen, which the code does not know.                                  *)
LoopPass(d, contacts) ==
    LET now     == (pedal.now + d) % CycleWrap
        due     == ((now - pedal.sampled) % CycleWrap) >= DebouncePeriod
        deb     == IF due THEN [f \in Footswitches |-> Shifted(pedal.deb[f], f \in contacts)] ELSE pedal.deb
        gesture == \A f \in Footswitches : Pressed(deb[f])
        start   == StartOf(gesture, pedal.start, now)
        held    == IF gesture THEN (now - start) % CycleWrap ELSE 0
        commits == gesture /\ held >= DfuHold
        blink   == (held \div DebouncePeriod) % 2 = 0
    IN /\ ~pedal.dfu
       /\ pedal' = [pedal EXCEPT !.now = now, !.sampled = IF due THEN now ELSE @, !.deb = deb,
                                 !.start = start, !.dfu = commits,
                                 !.held = IF gesture /\ pedal.start # -1 THEN @ + d ELSE 0,
                                 !.leds = IF gesture THEN commits \/ blink
                                          ELSE IF pedal.start # -1 THEN FALSE ELSE @]

PanelNext ==
    /\ \E d \in PassCycles, contacts \in SUBSET Footswitches : LoopPass(d, contacts)
    /\ UNCHANGED <<pod, switch>>

-----------------------------------------------------------------------------
(* The Pod: a sample of the encoder, with the knob turning one way; RgbLeds  *)
(* drives a lit channel low.                                                 *)

EncoderUpdate ==
    \E moves \in BOOLEAN :
        /\ moves => pod.dwell >= 2 /\ pod.quarters < QuarterTurns
        /\ LET q     == IF moves THEN (pod.quarter + pod.turn) % 4 ELSE pod.quarter
               a     == << pod.a[2], Levels[q][1] >>
               b     == << pod.b[2], Levels[q][2] >>
           IN pod' = [pod EXCEPT !.a = a, !.b = b, !.quarter = q,
                                 !.dwell = IF moves THEN 1 ELSE IF @ < 2 THEN @ + 1 ELSE @,
                                 !.quarters = IF moves THEN @ + 1 ELSE @,
                                 !.count = @ + Increment(a, b)]

PodNext == EncoderUpdate /\ UNCHANGED <<pedal, switch>>

(* A debounced switch on its own and the edges it reports.                   *)
SwitchUpdate ==
    \E engaged \in BOOLEAN :
        LET state == Shifted(switch.state, engaged)
        IN switch' = [state |-> state,
                      told  |-> IF RisingEdge(state) THEN "pressed"
                                ELSE IF FallingEdge(state) THEN "released" ELSE switch.told]
SwitchNext == SwitchUpdate /\ UNCHANGED <<pedal, pod>>

ControlsNext == PanelNext \/ PodNext \/ SwitchNext
ControlsSpec == PanelInit /\ [][ControlsNext]_pedalVars

-----------------------------------------------------------------------------
(* Types.                                                                    *)
PanelTypeOK ==
    /\ pedal.now \in 0..(CycleWrap - 1) /\ pedal.start \in -1..(CycleWrap - 1)
    /\ pedal.deb \in [Footswitches -> Register]
    /\ pod.a \in {0, 1} \X {0, 1} /\ pod.b \in {0, 1} \X {0, 1}
    /\ switch.state \in Register

(* The reboot to DFU is asked for when both footswitches have been held, by  *)
(* the debouncers, for the whole hold time without a break, and no later     *)
(* than the pass after; a released gesture leaves the LEDs dark.             *)
GestureHeld ==
    /\ pedal.dfu => pedal.held >= DfuHold /\ \E d \in PassCycles : pedal.held < DfuHold + d
    /\ ~pedal.dfu => pedal.held < DfuHold
    /\ pedal.leds => \A f \in Footswitches : Pressed(pedal.deb[f])

(* A knob turned one way counts one per full turn of the phases, in the      *)
(* direction of the turn, when each phase is sampled at least twice.         *)
TurnsCounted == pod.turn * pod.count = (pod.quarters + 2) \div 4

(* Whoever follows the edges alone never misses a press: a switch that reads *)
(* as pressed has reported one, and no release since.                        *)
HeldIsReported == Pressed(switch.state) => switch.told = "pressed"

(* A reboot to DFU needs an unbroken hold, the encoder counts the turns, and *)
(* the edges of a switch tell of every press.                                *)
ControlsSound == GestureHeld /\ TurnsCounted /\ HeldIsReported
=============================================================================
