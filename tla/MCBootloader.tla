---------------------------- MODULE MCBootloader ----------------------------
(* TLC instance of Bootloader: the two words of the vector table in two     *)
(* sectors, so that an erase can take one and leave the other.              *)
EXTENDS Bootloader
=============================================================================
