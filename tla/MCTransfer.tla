---------------------------- MODULE MCTransfer ----------------------------
(***************************************************************************)
(* Transfer for TLC: files shorter, as long as and longer than the buffer. *)
(***************************************************************************)
EXTENDS Transfer

MCSizes == 1 .. 5
MCAvail == 0 .. 8

=============================================================================
