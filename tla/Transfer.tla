------------------------------ MODULE Transfer ------------------------------
(***************************************************************************)
(* do_read and do_write of test-v4l2-m2m: "Wrapper to read to read whole   *)
(* buffer in one call".  They repeat read(2) or write(2), either of which  *)
(* may move fewer bytes than it is asked for.                              *)
(***************************************************************************)
EXTENDS Integers

CONSTANTS
  Sizes,      \* the sizes a buffer may have
  Avail       \* the bytes that the file may have left (or take)

ASSUME SizesAssumption == Sizes \subseteq Nat /\ Avail \subseteq Nat

VARIABLES
  pc,      \* "loop", "call", "done" or "failed"
  size,    \* the buffer's size
  avail,   \* what the file has left
  addr,    \* the offset of addr from the start of the buffer
  ret,     \* what the last call returned
  nbytes,  \* what the next call asks for
  moved    \* history: the bytes moved so far

vars == <<pc, size, avail, addr, ret, nbytes, moved>>

Init ==
  /\ size \in Sizes /\ avail \in Avail
  /\ pc = "loop" /\ addr = 0 /\ ret = 0 /\ nbytes = size /\ moved = 0

\* The rest is computed from the last call alone, not from all of them.
Prepare ==
  /\ pc = "loop"
  /\ nbytes' = size - ret
  /\ addr' = addr + ret
  /\ pc' = IF nbytes' = 0 THEN "done" ELSE "call"
  /\ UNCHANGED <<size, avail, ret, moved>>

\* What a call may return; 0 at the end of the file.
Least(a, b) == IF a <= b THEN a ELSE b
Returns == IF avail = 0 THEN {0} ELSE 1 .. Least(nbytes, avail)

\* Faulty variant: the loop ends as soon as a call has moved anything.
CallOnce ==
  /\ pc = "call"
  /\ \E r \in Returns :
       /\ ret' = r
       /\ avail' = avail - r
       /\ moved' = moved + r
       /\ pc' = "done"
  /\ UNCHANGED <<size, addr, nbytes>>

Call ==
  /\ pc = "call"
  /\ \/ \E r \in Returns :
          /\ ret' = r
          /\ avail' = avail - r
          /\ moved' = moved + r
          /\ pc' = IF r > 0 THEN "loop" ELSE "done"
     \/ /\ ret' = -1
        /\ pc' = "failed"
        /\ UNCHANGED <<avail, moved>>
  /\ UNCHANGED <<size, addr, nbytes>>

Next == Prepare \/ Call

Spec == Init /\ [][Next]_vars

-----------------------------------------------------------------------------
(* Properties. *)

\* The bytes moved lie one after another from the start of the buffer,
\* however they were cut up.
Contiguous == pc = "call" => addr = moved

\* A transfer that reports success has moved the whole buffer, or has come to
\* the end of the file.
WholeOrEnd == pc = "done" => moved >= size \/ avail = 0

\* "Wrapper to read to read whole buffer in one call": no byte is moved to or
\* from a place beyond the end of the buffer.
InsideBuffer == moved <= size

=============================================================================
