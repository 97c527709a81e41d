------------------------------ MODULE DfuStore ------------------------------
(***************************************************************************)
(* What the DFU memory promises the host: a request that is refused changes *)
(* nothing; a request that is accepted changes exactly the cells it names,  *)
(* to exactly the values the host sent (ANDed in, or erased), before the    *)
(* answer is given; an upload returns what the flash holds.  A crash stops  *)
(* a request part-way, with only its own cells affected.                    *)
(***************************************************************************)
EXTENDS IS25LP064A

CONSTANTS TransferSize

VARIABLES
  image,   \* contents of the flash
  block,   \* the block sent for the next program request
  req,     \* request being served, or NoRequest
  left,    \* cells the request has not settled yet
  answer   \* the last answer given

dfuStoreVars == <<image, block, req, left, answer>>

Blocks     == UNION {[1 .. n -> Bit] : n \in 0 .. TransferSize}
Addresses  == -1 .. FlashSize + 1
Request(o, a, n) == [op |-> o, addr |-> a, len |-> n]
NoRequest  == Request("none", 0, 0)
Answer(s, d) == [status |-> s, data |-> d]

Range(a, n)       == {x \in Cells : a <= x /\ x < a + n}
ContainsRange(a, n) == 0 <= a /\ a + n <= FlashSize

(* The cells a request changes and the value it gives each of them.         *)
Target(r) == CASE r.op = "program"  -> Range(r.addr, r.len)
               [] r.op = "erase"    -> SectorOf(r.addr)
               [] r.op = "eraseAll" -> Cells
               [] OTHER             -> {}
Final(r, b, x, old) == IF r.op = "program" THEN (IF b[x - r.addr + 1] = 0 THEN 0 ELSE old)
                                            ELSE 1

DfuStoreInit ==
  /\ image \in [Cells -> Bit]
  /\ block = <<>> /\ req = NoRequest /\ left = {} /\ answer = Answer("none", <<>>)

Send(b) ==
  /\ req = NoRequest
  /\ block' = b /\ answer' = Answer("ok", <<>>)
  /\ UNCHANGED <<image, req, left>>

Refuse ==
  /\ req = NoRequest
  /\ \E s \in {"Address", "Prog", "Size"} : answer' = Answer(s, <<>>)
  /\ block' \in {block, <<>>}
  /\ UNCHANGED <<image, req, left>>

Accept(r) ==
  /\ req = NoRequest /\ r.op # "none"
  /\ r.op \in {"read", "program"} => ContainsRange(r.addr, r.len)
  /\ r.op = "erase" => r.addr \in Cells
  /\ req' = r /\ left' = Target(r) /\ answer' = Answer("none", <<>>)
  /\ block' = IF r.op = "program" THEN block ELSE <<>>
  /\ UNCHANGED image

Progress ==
  /\ left' \in SUBSET left
  /\ image' = [x \in Cells |-> IF x \in left \ left' THEN Final(req, block, x, image[x])
                                                    ELSE image[x]]
  /\ UNCHANGED <<block, req, answer>>

Finish ==
  /\ req # NoRequest /\ left = {}
  /\ answer' = Answer("ok", IF req.op = "read"
                             THEN [i \in 1 .. req.len |-> image[req.addr + i - 1]]
                             ELSE <<>>)
  /\ req' = NoRequest
  /\ UNCHANGED <<image, block, left>>

(* Restarting also loses the block and the answer. *)
Crash ==
  /\ req' = NoRequest /\ left' = {} /\ block' = <<>> /\ answer' = Answer("none", <<>>)
  /\ image' \in [Cells -> Bit]
  /\ \A x \in Cells : image'[x] # image[x] => x \in Target(req)

DfuStoreNext ==
  \/ \E b \in Blocks : Send(b)
  \/ Refuse
  \/ \E o \in {"read", "program", "erase", "eraseAll", "manifest"},
        a \in Addresses, n \in 0 .. TransferSize : Accept(Request(o, a, n))
  \/ Progress \/ Finish \/ Crash

DfuStoreSpec == DfuStoreInit /\ [][DfuStoreNext]_dfuStoreVars
=============================================================================
