--------------------------------- MODULE Midi ---------------------------------
(* USB-MIDI: the encoder that packs a serial MIDI wire into event packets      *)
(* (daisy-midi/src/lib.rs), the main loop that forwards them (pod-midi and the *)
(* pod build of daisy-usb-audio) and the one-packet bulk endpoint they are     *)
(* written to, whose refusal both loops ignore. A byte of the wire is its      *)
(* value; the packets are kept as their code and the bytes they carry.         *)
EXTENDS Integers, Sequences

CONSTANTS Wire,        \* bytes the instrument may send
          MidiLength   \* bound: bytes since the last status byte

ASSUME MidiAssumption == Wire \subseteq 0..255 /\ MidiLength \in Nat \ {0}

VARIABLES enc,   \* UsbMidiEncoder
          mtx,   \* the endpoint, and what the host collected of the SysEx under way
          mlog   \* the wire since its last status byte, and whether every packet was due

midiVars == <<enc, mtx, mlog>>

NoPacket == [cin |-> 0, bytes |-> <<>>]
Packet(cin, bytes) == [cin |-> cin, bytes |-> bytes]
Real(b) == b >= 248
Status(b) == b >= 128

Idle == [status |-> 0, data |-> <<0, 0>>, count |-> 0, expected |-> 0,
         sysex |-> FALSE, sx |-> <<>>]

channel_data_len(b) == IF b \div 16 \in {12, 13} THEN 1 ELSE 2

\* Each handler gives the next encoder and the packet, NoPacket for None.
Awaits(e, b, n) == [e EXCEPT !.status = b, !.expected = n, !.count = 0]

push_status(e, b) ==
  CASE b = 240 -> [e |-> [e EXCEPT !.status = 0, !.sysex = TRUE, !.sx = <<240>>], p |-> NoPacket]
    [] b = 247 -> [e |-> e, p |-> NoPacket]
    [] b \in {241, 243} -> [e |-> Awaits(e, b, 1), p |-> NoPacket]
    [] b = 242 -> [e |-> Awaits(e, b, 2), p |-> NoPacket]
    [] b = 246 -> [e |-> [e EXCEPT !.status = 0], p |-> Packet(5, <<246>>)]
    [] b \in {244, 245} -> [e |-> [e EXCEPT !.status = 0], p |-> NoPacket]
    [] OTHER -> [e |-> Awaits(e, b, channel_data_len(b)), p |-> NoPacket]

\* a slip: system common messages run on like channel messages
RunsAlways(status) == TRUE
Runs(status) == status < 240

push_data(e, b) ==
  IF e.status = 0 THEN [e |-> e, p |-> NoPacket]
  ELSE LET data == [e.data EXCEPT ![e.count + 1] = b]
           s == e.status
       IN  IF e.count + 1 < e.expected
           THEN [e |-> [e EXCEPT !.data = data, !.count = @ + 1], p |-> NoPacket]
           ELSE [e |-> [e EXCEPT !.data = data, !.count = 0, !.status = IF Runs(s) THEN s ELSE 0],
                 p |-> Packet(IF s < 240 THEN s \div 16 ELSE IF s = 242 THEN 3 ELSE 2,
                              <<s>> \o SubSeq(data, 1, e.expected))]

EndSysex(e) == [e EXCEPT !.sysex = FALSE, !.sx = <<>>]

\* a slip: the end code counts the bytes before the F7
EndCodeBefore(chunk) == 4 + Len(chunk) - 1
EndCode(chunk) == 4 + Len(chunk)

\* A status byte other than F7 ends the dump without a packet and is pushed again.
push_sysex(e, b) ==
  IF Status(b) /\ b # 247 THEN push_status(EndSysex(e), b)
  ELSE LET chunk == Append(e.sx, b)
       IN  IF b = 247 THEN [e |-> EndSysex(e), p |-> Packet(EndCode(chunk), chunk)]
           ELSE IF Len(chunk) = 3 THEN [e |-> [e EXCEPT !.sx = <<>>], p |-> Packet(4, chunk)]
           ELSE [e |-> [e EXCEPT !.sx = chunk], p |-> NoPacket]

push(e, b) ==
  IF Real(b) THEN [e |-> e, p |-> Packet(15, <<b>>)]
  ELSE IF e.sysex THEN push_sysex(e, b)
  ELSE IF Status(b) THEN push_status(e, b)
  ELSE push_data(e, b)

-------------------------------------------------------------------------------
SysexPacket(p) == p.cin \in 4..7 /\ p.bytes # <<246>>
Starts(b) == b = 240

MidiInit ==
  /\ enc = Idle
  /\ mtx = [slot |-> NoPacket, host |-> <<>>, lost |-> FALSE]
  /\ mlog = [wire |-> <<>>, right |-> TRUE]

\* What the wire holds since the byte that began the message under way.
Onward(wire, b) ==
  IF Real(b) THEN wire
  ELSE IF b = 247 THEN IF wire # <<>> /\ wire[1] = 240 THEN <<>> ELSE wire
  ELSE IF b \in {244, 245, 246} THEN <<>>
  ELSE IF Status(b) THEN <<b>>
  ELSE IF wire = <<>> THEN <<>>
  ELSE IF wire[1] \in {241, 243} \/ (wire[1] = 242 /\ Len(wire) = 2) THEN <<>>
  ELSE Append(wire, b)

\* The packet a byte completes, by the wire's own rules from the message so far.
Due(wire, b) ==
  LET all == Append(wire, b)
      need == IF wire = <<>> THEN 0
              ELSE IF wire[1] \in {241, 243} THEN 1
              ELSE IF wire[1] = 242 THEN 2
              ELSE channel_data_len(wire[1])
      got == Len(wire)
      dump == wire # <<>> /\ wire[1] = 240
      chunk == SubSeq(all, Len(all) - ((Len(all) - 1) % 3), Len(all))
  IN  IF Real(b) THEN Packet(15, <<b>>)
      ELSE IF b = 246 THEN Packet(5, <<b>>)
      ELSE IF b = 247 THEN IF dump THEN Packet(4 + Len(chunk), chunk) ELSE NoPacket
      ELSE IF Status(b) \/ wire = <<>> THEN NoPacket
      ELSE IF dump THEN IF Len(chunk) = 3 THEN Packet(4, chunk) ELSE NoPacket
      ELSE IF got % need # 0 THEN NoPacket
      ELSE Packet(IF wire[1] = 242 THEN 3 ELSE IF wire[1] > 240 THEN 2 ELSE wire[1] \div 16,
                  <<wire[1]>> \o SubSeq(all, got - need + 2, got + 1))

\* One turn of the loop: rx.read, enc.push and, for a packet, midi.write, which
\* answers WouldBlock while the host has not collected the one before.
Forward ==
  \E b \in Wire :
    LET r == push(enc, b)
        wire == Onward(mlog.wire, b)
        refused == r.p # NoPacket /\ mtx.slot # NoPacket
        dump == wire # <<>> /\ wire[1] = 240
        lost == dump /\ IF b = 240 THEN mtx.slot # NoPacket ELSE mtx.lost \/ refused
    IN  /\ Len(wire) <= MidiLength
        /\ enc' = r.e
        /\ mlog' = [wire |-> wire, right |-> mlog.right /\ r.p = Due(mlog.wire, b)]
        /\ mtx' = [slot |-> IF r.p = NoPacket \/ refused THEN mtx.slot ELSE r.p,
                   host |-> IF dump /\ ~lost /\ b # 240 THEN mtx.host ELSE <<>>, lost |-> lost]

\* The host polls the bulk IN endpoint; the bytes of the dump under way are kept.
MidiCollect ==
  /\ mtx.slot # NoPacket
  /\ mtx' = [mtx EXCEPT !.slot = NoPacket,
                        !.host = IF SysexPacket(mtx.slot) /\ enc.sysex /\ ~mtx.lost
                                 THEN @ \o mtx.slot.bytes ELSE @]
  /\ UNCHANGED <<enc, mlog>>

MidiNext == Forward \/ MidiCollect
MidiSpec == MidiInit /\ [][MidiNext]_midiVars

\* The indices the encoder writes its two arrays with stay inside them.
MidiTypeOK ==
  /\ enc.count \in 0..1 /\ enc.expected \in 0..2 /\ Len(enc.sx) <= 2
  /\ enc.count < enc.expected \/ enc.count = 0
  /\ mtx.slot.cin \in 0..15 /\ Len(mtx.slot.bytes) <= 3

\* Whatever was sent before, a byte yields exactly the packet the wire's rules give
\* for the message it belongs to, and a dump the host collected without a refusal is
\* the dump on the wire, up to what still waits in the endpoint and the encoder.
MidiFaithful ==
  /\ mlog.right
  /\ ~mtx.lost /\ mlog.wire # <<>> /\ mlog.wire[1] = 240 =>
       mlog.wire = mtx.host \o (IF SysexPacket(mtx.slot) THEN mtx.slot.bytes ELSE <<>>) \o enc.sx
=============================================================================
