---------------------------- MODULE MCV4l2M2M ----------------------------
(***************************************************************************)
(* V4l2M2M for TLC.  The input file is just as long as the frames asked    *)
(* for need; the driver grants few buffers or all six, and is told of      *)
(* transactions of one buffer up to more than there are.                   *)
(***************************************************************************)
EXTENDS V4l2M2M

JobsWith(interlace, counts, srcs, dsts, lens) ==
  {[interlace |-> interlace, translen |-> t, num_frames |-> n,
    frames |-> IF interlace >= 2 THEN (n + 1) \div 2 ELSE n,
    src_numbuf |-> s, dst_numbuf |-> d] : n \in counts, s \in srcs, d \in dsts, t \in lens}

\* Sequential types only with even counts.
MCJobs ==
  JobsWith(0, {1, 2, 7}, {3, 6}, {2, 6}, {1, 3})
    \cup JobsWith(1, {1, 3, 4, 9}, {4, 6}, {2, 6}, {1, 2, 3})
    \cup JobsWith(2, {2, 4, 10}, {3, 6}, {2, 6}, {1, 3})
    \cup JobsWith(3, {6}, {3}, {2}, {1})

MCOddJobs == JobsWith(2, {3}, {3}, {2}, {1})

=============================================================================
