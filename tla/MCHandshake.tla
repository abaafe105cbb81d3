---------------------------- MODULE MCHandshake ----------------------------
(***************************************************************************)
(* Handshake for TLC: every plan of one or two threads over all three      *)
(* directions, two message sizes and two message counts, and the plans of  *)
(* three one-way threads of different sizes.                               *)
(***************************************************************************)
EXTENDS Handshake

MCConfs == [direction : ThreadDirection, msgSize : {4, 8}, msgCount : {1, 2}]

MCThreeThreads ==
  {<<[direction |-> d, msgSize |-> 4, msgCount |-> 2],
     [direction |-> e, msgSize |-> 8, msgCount |-> 1],
     [direction |-> 0, msgSize |-> 0, msgCount |-> 3]>> : d, e \in {0, 1}}

MCPlans == [1 .. 1 -> MCConfs] \cup [1 .. 2 -> MCConfs] \cup MCThreeThreads

=============================================================================
