--------------------------- MODULE TransferProofs ---------------------------
(***************************************************************************)
(* Proofs about module Transfer, for every size of buffer and file and     *)
(* every way the calls may cut the transfer up.                            *)
(***************************************************************************)
EXTENDS Transfer, TLAPS

\* Between two calls the address lags behind by what the last call returned;
\* a transfer ends at the end of the file or with one call that did it all.
TransferInv ==
  /\ size \in Nat /\ avail \in Nat /\ moved \in Nat /\ ret \in Int /\ nbytes \in Int
  /\ pc \in {"loop", "call", "done", "failed"} /\ addr \in Nat
  /\ pc = "loop" => ret \in Nat /\ ret <= moved /\ addr + ret = moved
  /\ pc = "call" => addr = moved
  /\ WholeOrEnd

LEMMA InitTransferInv == Init => TransferInv
BY SizesAssumption DEF Init, TransferInv, WholeOrEnd

LEMMA PrepareTransferInv == TransferInv /\ Prepare => TransferInv'
<1> SUFFICES ASSUME TransferInv, Prepare PROVE TransferInv'
  OBVIOUS
<1>1. nbytes' \in Int /\ addr' = moved /\ addr' \in Nat
  BY DEF TransferInv, Prepare
<1>2. pc' = "done" => moved' >= size'
  <2> SUFFICES ASSUME pc' = "done" PROVE moved' >= size'
    OBVIOUS
  <2>1. size = ret
    BY DEF TransferInv, Prepare
  <2>2. QED
    BY <2>1 DEF TransferInv, Prepare
<1>3. QED
  BY <1>1, <1>2 DEF TransferInv, Prepare, WholeOrEnd

\* A call moves at least one byte unless the file has come to its end, and
\* never more than the file has left.
LEMMA ReturnsFacts ==
  ASSUME avail \in Nat, nbytes \in Int, NEW r \in Returns
  PROVE  /\ r \in Nat /\ r <= avail
         /\ r = 0 => avail = 0
BY DEF Returns, Least

LEMMA CallTransferInv == TransferInv /\ Call => TransferInv'
<1> SUFFICES ASSUME TransferInv, Call PROVE TransferInv'
  OBVIOUS
<1>1. CASE \E r \in Returns :
             /\ ret' = r /\ avail' = avail - r /\ moved' = moved + r
             /\ pc' = IF r > 0 THEN "loop" ELSE "done"
  <2>1. PICK r \in Returns :
          /\ ret' = r /\ avail' = avail - r /\ moved' = moved + r
          /\ pc' = IF r > 0 THEN "loop" ELSE "done"
    BY <1>1
  <2>2. r \in Nat /\ r <= avail /\ (r = 0 => avail = 0)
    BY <2>1, ReturnsFacts DEF TransferInv
  <2>3. QED
    BY <2>1, <2>2 DEF TransferInv, Call, WholeOrEnd
<1>2. CASE ret' = -1 /\ pc' = "failed" /\ UNCHANGED <<avail, moved>>
  BY <1>2 DEF TransferInv, Call, WholeOrEnd
<1>3. QED
  BY <1>1, <1>2 DEF Call

LEMMA TransferInvariant == Spec => []TransferInv
<1>1. TransferInv /\ [Next]_vars => TransferInv'
  <2> SUFFICES ASSUME TransferInv, [Next]_vars PROVE TransferInv'
    OBVIOUS
  <2>1. CASE UNCHANGED vars
    BY <2>1 DEF vars, TransferInv, WholeOrEnd
  <2>2. QED
    BY <2>1, PrepareTransferInv, CallTransferInv DEF Next
<1>2. QED
  BY <1>1, InitTransferInv, PTL DEF Spec

\* do_read and do_write fill, or empty, the buffer from its start without gap
\* or overlap, however read(2) and write(2) cut the transfer up.
THEOREM TransferContiguous == Spec => []Contiguous
<1>1. TransferInv => Contiguous
  BY DEF TransferInv, Contiguous
<1>2. QED
  BY <1>1, TransferInvariant, PTL

\* They report success only for a whole buffer or at the end of the file.
THEOREM TransferWholeOrEnd == Spec => []WholeOrEnd
<1>1. TransferInv => WholeOrEnd
  BY DEF TransferInv
<1>2. QED
  BY <1>1, TransferInvariant, PTL

=============================================================================
