------------------------------- MODULE SaiDma -------------------------------
(* The double-buffered audio driver of daisy-audio (src/lib.rs): two circular *)
(* DMA streams over rings of two halves and the DMA1_STR1 interrupt, which    *)
(* serves one half each time the capture stream has left it. The streams run  *)
(* from Audio::new on, the interrupt from start() on. A half is 0 or 1 for    *)
(* the offset 0 or STEREO_BLOCK; samples are abstracted to whether a half     *)
(* holds a block nobody has served yet, or output nobody has sent yet.        *)
EXTENDS Naturals

VARIABLES rxHalf, txHalf,  \* the half each DMA stream is in
          ht, tc,          \* half-transfer and transfer-complete flags
          unmasked,        \* the NVIC passes the interrupt
          isr,             \* [pc, half]: the interrupt, between its accesses
          unserved,        \* captured blocks the interrupt has not read
          rendered,        \* halves written since the transmitter left them
          calm             \* interrupts begun since start() or a late advance

saiVars == <<rxHalf, txHalf, ht, tc, unmasked, isr, unserved, rendered, calm>>

Halves == {0, 1}
Warm == 3                  \* calm counts no further (bound)
Off == [pc |-> "off", half |-> 0]
Serving == isr.pc # "off"

(* Audio::new: both streams are started on half 0, the interrupt is masked.   *)
SaiInit ==
  /\ rxHalf = 0 /\ txHalf = 0
  /\ ht = FALSE /\ tc = FALSE
  /\ unmasked = FALSE /\ isr = Off
  /\ unserved = {} /\ rendered = {}
  /\ calm = 0

Start ==
  /\ ~unmasked
  /\ unmasked' = TRUE
  /\ UNCHANGED <<rxHalf, txHalf, ht, tc, isr, unserved, rendered, calm>>

-----------------------------------------------------------------------------
(* The streams. The transmitter was started with its FIFO filled ahead, so it *)
(* crosses into each half shortly before the receiver does. An advance is     *)
(* late while the interrupt for an earlier half is pending or running.        *)

Late == unmasked /\ (ht \/ tc \/ Serving)
CalmAfter == IF Late THEN 0 ELSE calm

TxAdvance ==
  /\ txHalf = rxHalf
  /\ txHalf' = 1 - txHalf
  /\ rendered' = rendered \ {txHalf}
  /\ calm' = CalmAfter
  /\ UNCHANGED <<rxHalf, ht, tc, unmasked, isr, unserved>>

RxAdvance ==
  /\ txHalf # rxHalf
  /\ rxHalf' = 1 - rxHalf
  /\ ht' = (ht \/ rxHalf = 0) /\ tc' = (tc \/ rxHalf = 1)
  /\ unserved' = unserved \cup {rxHalf}
  /\ calm' = CalmAfter
  /\ UNCHANGED <<txHalf, unmasked, isr, rendered>>

-----------------------------------------------------------------------------
(* The interrupt. drain() looks at the half-transfer flag first, and clears   *)
(* only the flag it answers for.                                              *)
Serve(half) == isr' = [pc |-> "convert", half |-> half]
Uncleared == ht /\ UNCHANGED <<ht, tc>> /\ Serve(0)           \* a slip
DrainHalf == ht /\ ht' = FALSE /\ UNCHANGED tc /\ Serve(0)
SameHalf == ~ht /\ tc /\ tc' = FALSE /\ UNCHANGED ht /\ Serve(0)   \* a slip
DrainComplete == ~ht /\ tc /\ tc' = FALSE /\ UNCHANGED ht /\ Serve(1)

AlwaysTaken == ~Serving                                     \* a slip: unmasked early
IrqTaken == unmasked /\ ~Serving

Drain ==
  /\ IrqTaken
  /\ DrainHalf \/ DrainComplete
  /\ calm' = IF calm < Warm THEN calm + 1 ELSE Warm
  /\ UNCHANGED <<rxHalf, txHalf, unmasked, unserved, rendered>>

(* The captured half is converted to f32 ...                                  *)
Convert ==
  /\ isr.pc = "convert"
  /\ isr' = [isr EXCEPT !.pc = "render"]
  /\ unserved' = unserved \ {isr.half}
  /\ UNCHANGED <<rxHalf, txHalf, ht, tc, unmasked, rendered, calm>>

(* ... and, the callback done, its output goes to the same half of the other  *)
(* ring.                                                                      *)
RenderOther(half) == rendered' = rendered \cup {1 - half}     \* a slip
RenderInto(half) == rendered' = rendered \cup {half}
Render ==
  /\ isr.pc = "render"
  /\ isr' = Off
  /\ RenderInto(isr.half)
  /\ UNCHANGED <<rxHalf, txHalf, ht, tc, unmasked, unserved, calm>>

SaiNext ==
  \/ Start \/ TxAdvance \/ RxAdvance
  \/ Drain \/ Convert \/ Render

SaiSpec == SaiInit /\ [][SaiNext]_saiVars

-----------------------------------------------------------------------------
(* Types; and while masked nothing has been served.                           *)
SaiTypeOK ==
  /\ rxHalf \in Halves /\ txHalf \in Halves
  /\ ht \in BOOLEAN /\ tc \in BOOLEAN /\ unmasked \in BOOLEAN
  /\ isr \in [pc : {"off", "convert", "render"}, half : Halves]
  /\ unserved \subseteq Halves /\ rendered \subseteq Halves
  /\ calm \in 0 .. Warm
  /\ ~unmasked => ~Serving /\ calm = 0 /\ rendered = {}

(* However far the interrupt has fallen behind, and however stale the flags   *)
(* start() finds, two interrupts later the buffers are in step again: the     *)
(* half being served is in use by neither stream ...                          *)
InStep == Serving /\ calm >= Warm => isr.half # rxHalf /\ isr.half # txHalf

(* ... every block the receiver starts to overwrite has been served, and none *)
(* is served twice ...                                                        *)
NoBlockLost ==
  calm >= Warm => /\ rxHalf \notin unserved
                  /\ isr.pc = "convert" => isr.half \in unserved

(* ... and the transmitter only sends output nobody has heard.                *)
NoOutputRepeated == calm >= Warm => txHalf \in rendered

(* Two interrupts after any delay the driver serves the half that just filled, *)
(* and the codec's blocks are served once each: no input block is lost or      *)
(* served twice, and no output block is heard twice.                           *)
BlocksServedOnce == InStep /\ NoBlockLost /\ NoOutputRepeated
=============================================================================
