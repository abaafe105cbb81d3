------------------------------ MODULE V4l2M2M ------------------------------
(***************************************************************************)
(* test-v4l2-m2m: the program hands buffers to a mem-to-mem driver and     *)
(* takes them back, source buffers with video fields read from a file and  *)
(* destination buffers with the progressive frames made from them.  The    *)
(* driver works at its own pace.                                           *)
(***************************************************************************)
EXTENDS Integers, Sequences, FiniteSets

CONSTANT
  Jobs        \* what the program may be asked to do: set of Job

V4L2_FIELD_TOP    == "TOP"
V4L2_FIELD_BOTTOM == "BOTTOM"
V4L2_FIELD_SEQ_TB == "SEQ_TB"
V4L2_FIELD_SEQ_BT == "SEQ_BT"
Field == {V4L2_FIELD_TOP, V4L2_FIELD_BOTTOM, V4L2_FIELD_SEQ_TB, V4L2_FIELD_SEQ_BT}

\* interlace, translen and num_frames are arguments (translen is 1 for a driver
\* other than vpe, which is not told it); frames is the length of the input
\* file in source buffers; the driver grants the numbers of buffers.
Job == [interlace : 0 .. 3, translen : Nat \ {0}, num_frames : Nat, frames : Nat,
        src_numbuf : Nat \ {0}, dst_numbuf : Nat \ {0}]

ASSUME JobsAssumption == Jobs \subseteq Job

VARIABLES
  job,
  pc,          \* where the program is
  num_frames, frame_no, field, last, iter,   \* its variables
  cur,         \* buf.index of the buffer dequeued last
  reads,       \* how often it has filled a source buffer from the file
  src, dst,    \* what each buffer holds: source frame read, field shown
  out,         \* the output file: for each frame the field it was made from
  streaming,   \* both streams are on
  srcQ, dstQ,  \* buffers queued in the driver
  half,        \* the fields of Head(srcQ) that have been used
  left,        \* the frames that the transaction under way has still to make
  held,        \* source buffers the deinterlacer still uses
  srcDone, dstDone   \* buffers the driver has finished with

progVars   == <<job, pc, num_frames, frame_no, field, last, iter, cur, reads,
                src, out, streaming>>
driverVars == <<dst, srcQ, dstQ, half, left, held, srcDone, dstDone>>
vars == <<progVars, driverVars>>

PC == {"queueAll", "prime", "streamOn", "loop", "srcDequeue", "srcRead",
       "srcQueue", "dstDequeue", "dstWrite", "dstQueue", "streamOff", "done",
       "exited"}

SrcIndex == 0 .. job.src_numbuf - 1
DstIndex == 0 .. job.dst_numbuf - 1

\* A sequential source buffer holds both fields of a frame.
FieldsPerBuffer == IF job.interlace >= 2 THEN 2 ELSE 1

-----------------------------------------------------------------------------
(* The program. *)

FirstField(interlace) ==
  CASE interlace = 2 -> V4L2_FIELD_SEQ_TB
    [] interlace = 3 -> V4L2_FIELD_SEQ_BT
    [] OTHER -> V4L2_FIELD_TOP

\* Faulty variant: the field is never changed.
ToggledStays(f) == f

\* The main loop's change of field, whatever the type of deinterlacing.
Toggled(f) ==
  IF f = V4L2_FIELD_TOP THEN V4L2_FIELD_BOTTOM ELSE V4L2_FIELD_TOP

\* do_read of one source buffer: at the end of the file the buffer keeps what
\* it holds and the read still counts as complete.
Filled(index) ==
  IF reads < job.frames THEN [src EXCEPT ![index] = reads + 1] ELSE src

\* queueAllBuffers: stops at the first buffer it cannot queue, and that is an
\* error only if it is the very first.
QueueAllBuffers ==
  /\ pc = "queueAll"
  /\ \E n \in 1 .. job.dst_numbuf : dstQ' = [i \in 1 .. n |-> i - 1]
  /\ pc' = "prime"
  /\ UNCHANGED <<job, num_frames, frame_no, field, last, iter, cur, reads, src,
                 out, streaming, dst, srcQ, half, left, held, srcDone, dstDone>>

\* The source buffers are filled and queued before the streams are started.
Prime ==
  /\ pc = "prime"
  /\ LET i == Len(srcQ)
     IN  \/ /\ i < job.src_numbuf /\ i < num_frames
            /\ src' = Filled(i)
            /\ reads' = reads + 1
            /\ srcQ' = Append(srcQ, [index |-> i, field |-> field])
            /\ field' = IF job.interlace >= 2 THEN FirstField(job.interlace)
                                              ELSE Toggled(field)
            /\ UNCHANGED pc
         \/ /\ i >= job.src_numbuf \/ i >= num_frames
            /\ pc' = "streamOn"
            /\ UNCHANGED <<src, reads, srcQ, field>>
  /\ UNCHANGED <<job, num_frames, frame_no, last, iter, cur, out, streaming, dst,
                 dstQ, half, left, held, srcDone, dstDone>>

StreamOn ==
  /\ pc = "streamOn"
  /\ streaming' = TRUE
  /\ pc' = "loop"
  /\ UNCHANGED <<job, num_frames, frame_no, field, last, iter, cur, reads, src,
                 out, driverVars>>

\* Faulty variant: a source buffer is taken back from the very first pass on.
LeavesSourceNever == FALSE

\* The passes of the inner loop, and whether a pass leaves the source alone
\* because the deinterlacer keeps the last two buffers.
Passes == IF job.interlace >= 2 THEN 2 ELSE 1
LeavesSource == job.interlace # 0 /\ frame_no <= 2

Loop ==
  /\ pc = "loop"
  /\ \/ /\ num_frames # 0
        /\ last' = (num_frames = 1)
        /\ iter' = Passes
        /\ pc' = IF LeavesSource THEN "dstDequeue" ELSE "srcDequeue"
     \/ /\ num_frames = 0
        /\ pc' = "streamOff"
        /\ UNCHANGED <<last, iter>>
  /\ UNCHANGED <<job, num_frames, frame_no, field, cur, reads, src, out,
                 streaming, driverVars>>

SrcDequeue ==
  /\ pc = "srcDequeue" /\ srcDone # <<>>
  /\ cur' = Head(srcDone)
  /\ srcDone' = Tail(srcDone)
  /\ pc' = IF last THEN "dstDequeue" ELSE "srcRead"
  /\ UNCHANGED <<job, num_frames, frame_no, field, last, iter, reads, src, out,
                 streaming, dst, srcQ, dstQ, half, left, held, dstDone>>

SrcRead ==
  /\ pc = "srcRead"
  /\ src' = Filled(cur)
  /\ reads' = reads + 1
  /\ pc' = "srcQueue"
  /\ UNCHANGED <<job, num_frames, frame_no, field, last, iter, cur, out,
                 streaming, driverVars>>

\* Faulty variant: source buffers are queued in turn, not as they come back.
SrcQueueInTurn ==
  /\ pc = "srcQueue"
  /\ srcQ' = Append(srcQ, [index |-> frame_no % job.src_numbuf, field |-> field])
  /\ field' = Toggled(field)
  /\ pc' = "dstDequeue"
  /\ UNCHANGED <<job, num_frames, frame_no, last, iter, cur, reads, src, out,
                 streaming, dst, dstQ, half, left, held, srcDone, dstDone>>

SrcQueue ==
  /\ pc = "srcQueue"
  /\ srcQ' = Append(srcQ, [index |-> cur, field |-> field])
  /\ field' = Toggled(field)
  /\ pc' = "dstDequeue"
  /\ UNCHANGED <<job, num_frames, frame_no, last, iter, cur, reads, src, out,
                 streaming, dst, dstQ, half, left, held, srcDone, dstDone>>

\* Faulty variant: the buffer is given back before it has been written out.
DstDequeueEarly ==
  /\ pc = "dstDequeue" /\ dstDone # <<>>
  /\ cur' = Head(dstDone)
  /\ dstDone' = Tail(dstDone)
  /\ dstQ' = Append(dstQ, Head(dstDone))
  /\ pc' = "dstWrite"
  /\ UNCHANGED <<job, num_frames, frame_no, field, last, iter, reads, src, out,
                 streaming, dst, srcQ, half, left, held, srcDone>>

DstDequeue ==
  /\ pc = "dstDequeue" /\ dstDone # <<>>
  /\ cur' = Head(dstDone)
  /\ dstDone' = Tail(dstDone)
  /\ pc' = "dstWrite"
  /\ UNCHANGED <<job, num_frames, frame_no, field, last, iter, reads, src, out,
                 streaming, dst, srcQ, dstQ, half, left, held, srcDone>>

DstWrite ==
  /\ pc = "dstWrite"
  /\ out' = Append(out, dst[cur])
  /\ pc' = "dstQueue"
  /\ UNCHANGED <<job, num_frames, frame_no, field, last, iter, cur, reads, src,
                 streaming, driverVars>>

DstQueue ==
  /\ pc = "dstQueue"
  /\ dstQ' = IF last THEN dstQ ELSE Append(dstQ, cur)
  /\ num_frames' = num_frames - 1
  /\ frame_no' = frame_no + 1
  /\ iter' = iter - 1
  /\ pc' = IF iter > 1 THEN "dstDequeue" ELSE "loop"
  /\ UNCHANGED <<job, field, last, cur, reads, src, out, streaming, dst, srcQ,
                 half, left, held, srcDone, dstDone>>

\* The driver drops every buffer; the buffers are unmapped, the files closed.
StreamOff ==
  /\ pc = "streamOff"
  /\ streaming' = FALSE
  /\ srcQ' = <<>> /\ dstQ' = <<>> /\ half' = 0 /\ left' = 0 /\ held' = <<>>
  /\ srcDone' = <<>> /\ dstDone' = <<>>
  /\ pc' = "done"
  /\ UNCHANGED <<job, num_frames, frame_no, field, last, iter, cur, reads, src,
                 out, dst>>

\* Any ioctl, read or write may fail: pexit, or exit(1) in do_read and
\* do_write, ends the program at once.
Fail ==
  /\ pc \notin {"loop", "done", "exited"}
  /\ pc' = "exited"
  /\ streaming' = FALSE
  /\ UNCHANGED <<job, num_frames, frame_no, field, last, iter, cur, reads, src,
                 out, driverVars>>

Program ==
  \/ QueueAllBuffers \/ Prime \/ StreamOn \/ Loop \/ SrcDequeue \/ SrcRead
  \/ SrcQueue \/ DstDequeue \/ DstWrite \/ DstQueue \/ StreamOff

-----------------------------------------------------------------------------
(* The driver: one frame for every field, in order.  "Deinterlacer keeps    *)
(* last two buffers in use": those are given back later.  translen is the   *)
(* "number of buffers to process in one transaction": one starts when so    *)
(* many source and destination buffers are queued.                          *)

TransactionReady == Len(srcQ) >= job.translen /\ Len(dstQ) >= job.translen

Driver ==
  /\ streaming /\ srcQ # <<>> /\ dstQ # <<>>
  /\ \/ left = 0 /\ TransactionReady /\ left' = job.translen - 1
     \/ left > 0 /\ left' = left - 1
  /\ dst' = [dst EXCEPT ![Head(dstQ)] =
               (src[Head(srcQ).index] - 1) * FieldsPerBuffer + half + 1]
  /\ dstDone' = Append(dstDone, Head(dstQ))
  /\ dstQ' = Tail(dstQ)
  /\ \/ /\ half + 1 < FieldsPerBuffer
        /\ half' = half + 1
        /\ UNCHANGED <<srcQ, held, srcDone>>
     \/ /\ half + 1 = FieldsPerBuffer
        /\ half' = 0
        /\ srcQ' = Tail(srcQ)
        /\ LET used == Append(held, Head(srcQ))
               keep == IF job.interlace = 0 THEN 0 ELSE 2
           IN  IF Len(used) > keep
               THEN /\ held' = Tail(used)
                    /\ srcDone' = Append(srcDone, Head(used).index)
               ELSE /\ held' = used
                    /\ UNCHANGED srcDone
  /\ UNCHANGED progVars

Init ==
  /\ job \in Jobs
  /\ pc = "queueAll"
  /\ num_frames = job.num_frames /\ frame_no = 0
  /\ field = FirstField(job.interlace)
  /\ last = FALSE /\ iter = 0 /\ cur = 0 /\ reads = 0
  /\ src = [i \in SrcIndex |-> 0] /\ dst = [i \in DstIndex |-> 0]
  /\ out = <<>>
  /\ streaming = FALSE
  /\ srcQ = <<>> /\ dstQ = <<>> /\ half = 0 /\ left = 0 /\ held = <<>>
  /\ srcDone = <<>> /\ dstDone = <<>>

Next == Program \/ Fail \/ Driver

\* The program runs on whenever the driver has what it waits for, and the
\* driver whenever it has the buffers of a transaction.
Fairness == WF_vars(Program) /\ WF_vars(Driver)

Spec == Init /\ [][Next]_vars /\ Fairness

-----------------------------------------------------------------------------
(* Properties. *)

TypeOK ==
  /\ job \in Jobs /\ pc \in PC
  /\ num_frames \in 0 .. job.num_frames /\ frame_no \in Nat
  /\ field \in Field /\ last \in BOOLEAN /\ iter \in 0 .. 2
  /\ cur \in SrcIndex \cup DstIndex /\ reads \in Nat
  /\ src \in [SrcIndex -> 0 .. job.frames] /\ dst \in [DstIndex -> Int]
  /\ out \in Seq(Int) /\ streaming \in BOOLEAN
  /\ srcQ \in Seq([index : SrcIndex, field : Field])
  /\ held \in Seq([index : SrcIndex, field : Field])
  /\ dstQ \in Seq(DstIndex) /\ dstDone \in Seq(DstIndex) /\ srcDone \in Seq(SrcIndex)
  /\ half \in 0 .. 1 /\ left \in 0 .. job.translen - 1

\* The source buffers that are with the driver, in the order they were queued.
SrcWithDriver == srcDone \o [i \in 1 .. Len(held \o srcQ) |-> (held \o srcQ)[i].index]
DstWithDriver == dstDone \o dstQ

Distinct(s) == \A i, j \in 1 .. Len(s) : s[i] = s[j] => i = j

\* No buffer is queued twice, and the buffer the program reads into, writes
\* out or is about to queue is not with the driver at the same time.  (The
\* types of all variables are part of it.)
BuffersOwnedOnce ==
  /\ TypeOK
  /\ Distinct(SrcWithDriver) /\ Distinct(DstWithDriver)
  /\ pc \in {"srcRead", "srcQueue"} =>
       \A i \in 1 .. Len(SrcWithDriver) : SrcWithDriver[i] # cur
  /\ pc \in {"dstWrite", "dstQueue"} =>
       \A i \in 1 .. Len(DstWithDriver) : DstWithDriver[i] # cur

\* With alternating fields (interlace 1) the program, which reads fields from
\* the file in one loop before and another loop during streaming, calls every
\* odd field of the file a top field and every even one a bottom field.
FieldMatchesData ==
  job.interlace = 1 /\ reads <= job.frames =>
    \A i \in 1 .. Len(srcQ) :
      srcQ[i].field = (IF src[srcQ[i].index] % 2 = 1 THEN V4L2_FIELD_TOP
                                                     ELSE V4L2_FIELD_BOTTOM)

\* However program and driver interleave, and however many buffers are
\* granted, what is written is the frames asked for, once and in order, also
\* when the file ends with the last field needed: module FrameConverter.
Converter == INSTANCE FrameConverter WITH asked <- job.num_frames

ConvertsInOrder == Converter!Spec

\* The source buffers that are not queued at worst: kept by the deinterlacer, or
\* taken back before the last frame and not queued again.
Lent == CASE job.interlace = 0 -> 0 [] job.interlace = 1 -> 3 [] OTHER -> 2

\* Besides, the source buffers primed and all destination buffers, of which a
\* sequential type may lack one, hold a transaction.
TransactionsFit ==
  /\ job.translen + Lent <= job.src_numbuf /\ job.translen + Lent <= job.num_frames
  /\ job.translen + FieldsPerBuffer - 1 <= job.dst_numbuf

\* Fewer buffers are primed or granted than a transaction takes.
NoTransaction == \E n \in {job.src_numbuf, job.dst_numbuf, job.num_frames} : job.translen > n

\* The program ends with all frames written unless a call fails: no dequeue
\* waits for a buffer that never comes, provided the transactions fit.  It writes
\* no frame and does not end, unless none is asked for, when there is never
\* enough for a transaction, as with the default translen 3 and one frame.
\* (queueAllBuffers does not say so when it has queued only some buffers.)
AllQueued == [](pc = "prime" => Len(dstQ) = job.dst_numbuf)

MainEnds ==
  /\ AllQueued /\ TransactionsFit => <>(pc = "exited" \/ (pc = "done" /\ Len(out) = job.num_frames))
  /\ [](NoTransaction => out = <<>> /\ (pc = "done" => job.num_frames = 0))

\* "<numframes>": no more frames are written than were asked for.
FramesAsAsked == Len(out) <= job.num_frames

=============================================================================
