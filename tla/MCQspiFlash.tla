---------------------------- MODULE MCQspiFlash -----------------------------
(* TLC instance of QspiFlash: two sectors of one two-cell page each, so an  *)
(* erase has cells it must not touch and a program has every alignment.     *)
EXTENDS QspiFlash
=============================================================================
