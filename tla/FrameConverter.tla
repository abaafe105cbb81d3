--------------------------- MODULE FrameConverter ---------------------------
(***************************************************************************)
(* What a conversion of video promises: of the frames asked for none is    *)
(* written twice, skipped or swapped, the i-th is made from the i-th field *)
(* (or frame) of the input.  A conversion may break off.                   *)
(***************************************************************************)
EXTENDS Naturals, Sequences

VARIABLES
  asked,   \* the frames to be written
  out      \* for each frame written, the field it was made from

vars == <<asked, out>>

Init == asked \in Nat /\ out = <<>>

Write ==
  /\ Len(out) < asked
  /\ out' = Append(out, Len(out) + 1)
  /\ UNCHANGED asked

Spec == Init /\ [][Write]_vars

=============================================================================
