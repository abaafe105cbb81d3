----------------------------- MODULE MCSession -----------------------------
(***************************************************************************)
(* Session for TLC: two runs, the second with a cfg file that may differ   *)
(* from the first in the number of threads, their directions and sizes.    *)
(***************************************************************************)
EXTENDS Session

Line(d, size, n) == [direction |-> d, msgSize |-> size, msgCount |-> n]

MCPlans == {<<Line(0, 8, 2), Line(1, 4, 1)>>, <<Line(1, 4, 2)>>}

MCFaultPlans == {<<Line(0, 8, 1), Line(1, 4, 2)>>}

=============================================================================
