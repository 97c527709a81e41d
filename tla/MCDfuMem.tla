------------------------------ MODULE MCDfuMem ------------------------------
(* TLC instance of DfuMem: a two-cell block on two-cell pages, so a block   *)
(* written at an odd address straddles two pages (and two sectors).         *)
EXTENDS DfuMem
=============================================================================
