------------------------------- MODULE RateLoop -------------------------------
(* The playback side of the codec build closed into a loop, one USB frame of  *)
(* 1 ms a step and at the sizes of the code: the service steers the host by   *)
(* the fill of its ring, the host reads the value at its own pace and sends    *)
(* whole frames, and the codec takes blocks by a clock that is a little off.  *)
EXTENDS UsbClasses

CONSTANTS DriftStep,    \* how far off the codec may be, in 1/256 frame per ms
          Refreshes,    \* ms from one reading of the feedback endpoint to the next
          SettleTime,   \* ms the loop is given after a disturbance
          RateBand,     \* samples around the target it must then stay in
          RateHorizon,  \* bound: ms a stream is followed
          RateStride    \* bound: ms between the moments a disturbance may come

ASSUME RateAssumption ==
  /\ DriftStep \in Nat /\ Refreshes \subseteq Nat \ {0} /\ SettleTime \in Nat 
  /\ RateBand \in Nat /\ RateHorizon \in Nat /\ RateStride \in Nat \ {0}

VARIABLE loop   \* the ring, the feedback endpoint, the host, the codec, and how long all was calm

BlockPhase == 48 * 256
BlockSamples == 2 * 48

\* playback_active has just become true: the ring was drained, the endpoint is empty.
LoopInit ==
  \E drift \in {-DriftStep, 0, DriftStep}, refresh \in Refreshes :
    loop = [drift |-> drift, refresh |-> refresh, ms |-> 0, ring |-> 0, fill |-> 0, asked |-> Nominal1014,
            rate |-> Nominal1014, part |-> 0, phase |-> BlockPhase \div 2, calm |-> 0, spent |-> FALSE,
            excused |-> TRUE, gap |-> FALSE]

\* The host takes the value it finds; the endpoint refuses another until it has.
HostReads == loop.ms % loop.refresh = 0
HostRate == IF HostReads THEN loop.asked ELSE loop.rate
Sent == 2 * ((loop.part + HostRate) \div OneSample)

\* push_playback_bytes into the ring, audio_process out of it.
Filled(ring, samples) == Clamped(ring + samples, 0, FillBound)
DrainedBy(ring, blocks) == Clamped(ring - blocks * BlockSamples, 0, FillBound)

\* One frame: its packet and service, and the blocks of the codec, in either order
\* when the service is late; the packet may be lost on the wire.
UsbFrame(late, lost) ==
  LET turned == loop.phase + BlockPhase + loop.drift
      blocks == turned \div BlockPhase
      packet == IF lost THEN 0 ELSE Sent
      served == Filled(IF late THEN DrainedBy(loop.ring, blocks) ELSE loop.ring, packet)
      before == IF late THEN loop.ring ELSE served
      dry == before < blocks * BlockSamples
      over == served - packet # IF late THEN DrainedBy(loop.ring, blocks) ELSE loop.ring
      upset == late \/ lost \/ blocks # 1
      excused == IF upset THEN loop.calm < SettleTime \/ ((late \/ lost) /\ blocks # 1)
                 ELSE loop.excused /\ loop.calm + 1 < SettleTime
  IN  /\ loop.ms < RateHorizon
      /\ loop' = [loop EXCEPT
           !.ms = @ + 1, !.fill = served,
           !.ring = IF late THEN served ELSE DrainedBy(served, blocks),
           !.rate = HostRate, !.part = (@ + HostRate) % OneSample,
           !.asked = IF HostReads THEN Feedback(served) ELSE @,
           !.phase = turned % BlockPhase,
           !.calm = IF upset THEN 0 ELSE Clamped(@ + 1, 0, SettleTime),
           !.spent = @ \/ late \/ lost, !.excused = excused,
           !.gap = (dry \/ over) /\ ~excused]

\* A frame as it should be, and one disturbance in a stream that has settled.
Regular == UsbFrame(FALSE, FALSE)
Disturbed ==
  /\ ~loop.spent /\ loop.calm = SettleTime /\ loop.ms % RateStride = 0
  /\ UsbFrame(TRUE, FALSE) \/ UsbFrame(FALSE, TRUE)
LoopNext == Regular \/ Disturbed
LoopEnded == loop.ms = RateHorizon

-----------------------------------------------------------------------------
\* The feedback holds the ring near half full against any drift, whether the host
\* reads it every frame or at the pace the descriptor announces: once settled a
\* late service, a lost packet or a slipped block is absorbed without a gap, and the
\* fill is back in its band in the time given.
RateHolds ==
  /\ ~loop.gap
  /\ loop.calm = SettleTime => loop.fill \in (RingTarget - RateBand)..(RingTarget + RateBand)
=============================================================================
