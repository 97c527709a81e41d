---------------------------- MODULE MCUsbAudio ----------------------------
(* Receive FIFO of two data packets and a SETUP: enough for a packet stuck at *)
(* its head with a control request behind it.                                 *)
EXTENDS UsbAudio
=============================================================================
