------------------------------ MODULE NorStore ------------------------------
(***************************************************************************)
(* What a NOR flash driver promises its caller: one erase or program call   *)
(* at a time, its effect applied exactly once before the call returns, and  *)
(* a crash in the middle of a call leaving every cell it does not address   *)
(* untouched.  No chip modes, no bus framing, no command sequences.         *)
(***************************************************************************)
EXTENDS IS25LP064A

VARIABLES
  store,    \* contents of the array
  pending,  \* the call in progress, or NoCall
  applied   \* whether its effect is in the array already

storeVars == <<store, pending, applied>>

NoCall == [kind |-> "none", addr |-> 0, data |-> <<>>]

EraseCall(a)      == [kind |-> "erase", addr |-> a, data |-> <<>>]
ProgramCall(a, d) == [kind |-> "program", addr |-> a, data |-> d]

(* The array after call c took its full effect. *)
Effect(s, c) == IF c.kind = "erase" THEN Erased(s, c.addr)
                                    ELSE Programmed(s, c.addr, c.data)

Touched(c) == IF c.kind = "erase" THEN SectorOf(c.addr)
              ELSE {ProgramTarget(c.addr, i) : i \in 0 .. Len(c.data) - 1}

StoreInit == store \in [Cells -> Bit] /\ pending = NoCall /\ applied = FALSE

Begin(c) ==
  /\ pending = NoCall
  /\ pending' = c
  /\ applied' = FALSE
  /\ UNCHANGED store

Apply ==
  /\ pending # NoCall /\ ~applied
  /\ store' = Effect(store, pending)
  /\ applied' = TRUE
  /\ UNCHANGED pending

Return ==
  /\ pending # NoCall /\ applied
  /\ pending' = NoCall
  /\ applied' = FALSE
  /\ UNCHANGED store

(* A reset or a power cut: the cells of the interrupted call are anything. *)
Crash ==
  /\ pending' = NoCall
  /\ applied' = FALSE
  /\ store' \in [Cells -> Bit]
  /\ \A x \in Cells : store'[x] # store[x] => pending # NoCall /\ x \in Touched(pending)

StoreNext ==
  \/ \E a \in Cells : Begin(EraseCall(a))
  \/ \E a \in Cells : \E d \in UNION {[1 .. n -> Bit] : n \in 1 .. PageSize} :
        Begin(ProgramCall(a, d))
  \/ Apply \/ Return \/ Crash

StoreSpec == StoreInit /\ [][StoreNext]_storeVars
=============================================================================
