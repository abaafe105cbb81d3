----------------------------- MODULE MCStreams -----------------------------
(***************************************************************************)
(* Streams for TLC: plans of up to two threads.  Sizes differ between the  *)
(* lines of a plan so that a confusion of regions shows.                   *)
(***************************************************************************)
EXTENDS Streams

Line(d, size, n) == [direction |-> d, msgSize |-> size, msgCount |-> n]

\* All one-way plans of two lines, with one to three messages each.
MCOneWayPlans ==
  {<<Line(d, 8, m), Line(e, 4, n)>> : d, e \in {0, 1}, m, n \in {1, 3}}

\* The same with lines that are not one-way.
MCMixedPlans ==
  {<<Line(d, 8, 2), Line(e, 4, 1)>> : d, e \in ThreadDirection}

=============================================================================
