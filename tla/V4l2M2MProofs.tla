--------------------------- MODULE V4l2M2MProofs ---------------------------
(***************************************************************************)
(* Proofs about the mem-to-mem test: for every set of jobs, every length   *)
(* of the input file and every number of buffers the driver grants, a      *)
(* buffer is with the driver or with the program, never with both; and     *)
(* what is written is the frames asked for, in order.                      *)
(*                                                                         *)
(* The source buffers with the driver, whatever it is doing with them,     *)
(* are one queue, SrcWithDriver: the program appends to it and takes from  *)
(* its front, and the driver's own steps do not change it.  The same holds *)
(* of DstWithDriver.  All invariants are about these two queues.           *)
(***************************************************************************)
EXTENDS V4l2M2M, SequenceTheorems, TLAPS

-----------------------------------------------------------------------------
(* Sequences. *)

\* Taking a sequence's head to the end of the one before it changes nothing
\* of the two together.
LEMMA MoveHead ==
  ASSUME NEW S, NEW s \in Seq(S), NEW t \in Seq(S), t # <<>>
  PROVE  Append(s, Head(t)) \o Tail(t) = s \o t
<1>1. Head(t) \in S /\ Tail(t) \in Seq(S) /\ Append(s, Head(t)) \in Seq(S)
  BY HeadTailProperties, AppendProperties
<1>2. t = <<Head(t)>> \o Tail(t) /\ <<Head(t)>> \in Seq(S)
  <2>1. <<Head(t)>> \in Seq(S) /\ <<Head(t)>> \o Tail(t) \in Seq(S)
    BY <1>1, ConcatProperties
  <2>2. Len(<<Head(t)>> \o Tail(t)) = Len(t)
    BY <1>1, <2>1, ConcatProperties, HeadTailProperties
  <2>3. \A i \in 1 .. Len(t) : t[i] = (<<Head(t)>> \o Tail(t))[i]
    BY <1>1, <2>1, ConcatProperties, HeadTailProperties
  <2>4. QED
    BY <2>1, <2>2, <2>3, SeqEqual
<1>3. Append(s, Head(t)) = s \o <<Head(t)>>
  BY <1>1, AppendIsConcat
<1>4. QED
  BY <1>1, <1>2, <1>3, ConcatAssociative

\* Appending to the second of two sequences.
LEMMA AppendSecond ==
  ASSUME NEW S, NEW s \in Seq(S), NEW t \in Seq(S), NEW e \in S
  PROVE  s \o Append(t, e) = Append(s \o t, e)
<1>1. Append(t, e) = t \o <<e>> /\ Append(s \o t, e) = (s \o t) \o <<e>>
  BY AppendIsConcat, ConcatProperties
<1>2. <<e>> \in Seq(S)
  OBVIOUS
<1>3. QED
  BY <1>1, <1>2, ConcatAssociative

\* Taking the head of the first of two sequences.
LEMMA TailFirst ==
  ASSUME NEW S, NEW s \in Seq(S), NEW t \in Seq(S), s # <<>>
  PROVE  Tail(s) \o t = Tail(s \o t) /\ Head(s) = Head(s \o t) /\ s \o t # <<>>
<1>1. /\ s \o t \in Seq(S) /\ Len(s \o t) = Len(s) + Len(t) /\ Len(s) \in Nat \ {0} /\ Len(t) \in Nat
      /\ \A i \in 1 .. Len(s) + Len(t) : (s \o t)[i] = IF i <= Len(s) THEN s[i] ELSE t[i - Len(s)]
  BY ConcatProperties, EmptySeq, LenProperties
<1>2. s \o t # <<>>
  BY <1>1
<1>3. /\ Tail(s) \in Seq(S) /\ Tail(s \o t) \in Seq(S)
      /\ Len(Tail(s)) = Len(s) - 1 /\ Len(Tail(s \o t)) = Len(s) + Len(t) - 1
      /\ \A i \in 1 .. Len(s) - 1 : Tail(s)[i] = s[i + 1]
      /\ \A i \in 1 .. Len(s) + Len(t) - 1 : Tail(s \o t)[i] = (s \o t)[i + 1]
  BY <1>1, <1>2, HeadTailProperties
<1>4. /\ Tail(s) \o t \in Seq(S) /\ Len(Tail(s) \o t) = Len(s) + Len(t) - 1
      /\ \A i \in 1 .. Len(s) + Len(t) - 1 :
            (Tail(s) \o t)[i] = IF i <= Len(s) - 1 THEN Tail(s)[i] ELSE t[i - (Len(s) - 1)]
  BY <1>1, <1>3, ConcatProperties
<1>5. \A i \in 1 .. Len(s) + Len(t) - 1 : (Tail(s) \o t)[i] = Tail(s \o t)[i]
  BY <1>1, <1>3, <1>4
<1>6. Tail(s) \o t = Tail(s \o t)
  BY <1>3, <1>4, <1>5, SeqEqual
<1>7. Head(s) = Head(s \o t)
  BY <1>1, <1>2
<1>8. QED
  BY <1>2, <1>6, <1>7

-----------------------------------------------------------------------------
(* Queues of buffers.  A queued source buffer comes with its field; for    *)
(* the question who has it only its index counts.                          *)

Queued == [index : SrcIndex, field : Field]
Indexes(q) == [i \in 1 .. Len(q) |-> q[i].index]

LEMMA IndexesOf ==
  ASSUME NEW q \in Seq(Queued)
  PROVE  /\ Indexes(q) \in Seq(SrcIndex) /\ Len(Indexes(q)) = Len(q)
         /\ \A i \in 1 .. Len(q) : Indexes(q)[i] = q[i].index /\ q[i].index \in SrcIndex
<1>1. Len(q) \in Nat /\ \A i \in 1 .. Len(q) : q[i] \in Queued
  BY LenProperties, ElementOfSeq
<1>2. \A b \in Queued : b.index \in SrcIndex
  BY DEF Queued
<1>3. \A i \in 1 .. Len(q) : q[i].index \in SrcIndex
  BY <1>1, <1>2
<1>4. QED
  BY <1>1, <1>3 DEF Indexes

LEMMA QueuedIndexes ==
  ASSUME NEW q \in Seq(Queued)
  PROVE  /\ Indexes(q) \in Seq(SrcIndex) /\ Len(Indexes(q)) = Len(q)
         /\ \A i \in 1 .. Len(q) : Indexes(q)[i] = q[i].index
         /\ \A b \in Queued : Indexes(Append(q, b)) = Append(Indexes(q), b.index)
         /\ q # <<>> => /\ Indexes(Tail(q)) = Tail(Indexes(q)) /\ Indexes(q) # <<>>
                        /\ Head(Indexes(q)) = Head(q).index /\ Head(q).index \in SrcIndex
<1>1. Len(q) \in Nat /\ Indexes(q) \in Seq(SrcIndex) /\ Len(Indexes(q)) = Len(q)
  BY IndexesOf, LenProperties
<1>2. \A i \in 1 .. Len(q) : Indexes(q)[i] = q[i].index /\ q[i].index \in SrcIndex
  BY IndexesOf
<1>3. ASSUME NEW b \in Queued PROVE Indexes(Append(q, b)) = Append(Indexes(q), b.index)
  <2>1. /\ Append(q, b) \in Seq(Queued) /\ Len(Append(q, b)) = Len(q) + 1
        /\ \A i \in 1 .. Len(q) : Append(q, b)[i] = q[i]
        /\ Append(q, b)[Len(q) + 1] = b
    BY AppendProperties
  <2>2. b.index \in SrcIndex
    BY DEF Queued
  <2>3. /\ Append(Indexes(q), b.index) \in Seq(SrcIndex)
        /\ Len(Append(Indexes(q), b.index)) = Len(q) + 1
        /\ \A i \in 1 .. Len(q) : Append(Indexes(q), b.index)[i] = Indexes(q)[i]
        /\ Append(Indexes(q), b.index)[Len(q) + 1] = b.index
    BY <1>1, <2>2, AppendProperties
  <2>4. /\ Indexes(Append(q, b)) \in Seq(SrcIndex) /\ Len(Indexes(Append(q, b))) = Len(q) + 1
        /\ \A i \in 1 .. Len(q) + 1 : Indexes(Append(q, b))[i] = Append(q, b)[i].index
    BY <2>1, IndexesOf
  <2>5. \A i \in 1 .. Len(q) + 1 : i = Len(q) + 1 \/ i \in 1 .. Len(q)
    BY <1>1
  <2>6. ASSUME NEW i \in 1 .. Len(q)
        PROVE  Indexes(Append(q, b))[i] = Append(Indexes(q), b.index)[i]
    <3>1. i \in 1 .. Len(q) + 1
      BY <1>1
    <3>2. Indexes(Append(q, b))[i] = q[i].index
      BY <2>1, <2>4, <3>1
    <3>3. QED
      BY <1>2, <2>3, <3>2
  <2>7. Indexes(Append(q, b))[Len(q) + 1] = Append(Indexes(q), b.index)[Len(q) + 1]
    <3>1. Len(q) + 1 \in 1 .. Len(q) + 1
      BY <1>1
    <3>2. QED
      BY <2>1, <2>3, <2>4, <3>1
  <2>8. \A i \in 1 .. Len(q) + 1 : Indexes(Append(q, b))[i] = Append(Indexes(q), b.index)[i]
    BY <2>5, <2>6, <2>7
  <2>9. QED
    BY <2>3, <2>4, <2>8, SeqEqual
<1>4. ASSUME q # <<>>
      PROVE  /\ Indexes(Tail(q)) = Tail(Indexes(q)) /\ Indexes(q) # <<>>
             /\ Head(Indexes(q)) = Head(q).index /\ Head(q).index \in SrcIndex
  <2>1. /\ Tail(q) \in Seq(Queued) /\ Len(Tail(q)) = Len(q) - 1 /\ Len(q) \in Nat \ {0}
        /\ \A i \in 1 .. Len(q) - 1 : Tail(q)[i] = q[i + 1]
    BY <1>4, HeadTailProperties, EmptySeq
  <2>2. Indexes(q) # <<>>
    BY <1>1, <2>1
  <2>3. /\ Tail(Indexes(q)) \in Seq(SrcIndex) /\ Len(Tail(Indexes(q))) = Len(q) - 1
        /\ \A i \in 1 .. Len(q) - 1 : Tail(Indexes(q))[i] = Indexes(q)[i + 1]
    BY <1>1, <2>2, HeadTailProperties
  <2>4. /\ Indexes(Tail(q)) \in Seq(SrcIndex) /\ Len(Indexes(Tail(q))) = Len(q) - 1
        /\ \A i \in 1 .. Len(q) - 1 : Indexes(Tail(q))[i] = Tail(q)[i].index
    BY <2>1, IndexesOf
  <2>5. \A i \in 1 .. Len(q) - 1 : Indexes(Tail(q))[i] = Tail(Indexes(q))[i]
    BY <1>2, <2>1, <2>3, <2>4
  <2>6. Indexes(Tail(q)) = Tail(Indexes(q))
    BY <2>3, <2>4, <2>5, SeqEqual
  <2>7. Head(Indexes(q)) = Head(q).index /\ Head(q).index \in SrcIndex
    BY <1>1, <1>2, <2>1, <2>2
  <2>8. QED
    BY <2>2, <2>6, <2>7
<1>5. QED
  BY <1>1, <1>2, <1>3, <1>4

-----------------------------------------------------------------------------
(* Types, and where the program is. *)

Passing == {"srcDequeue", "srcRead", "srcQueue", "dstDequeue", "dstWrite", "dstQueue"}
Starting == {"queueAll", "prime", "streamOn"}

\* TypeOK, but that the program may count below zero (see FramesCounted), and
\* the more exact types that depend on where the program is.
Types ==
  /\ job \in Jobs /\ pc \in PC
  /\ num_frames \in Int /\ frame_no \in Nat
  /\ field \in Field /\ last \in BOOLEAN /\ iter \in 0 .. 2
  /\ cur \in SrcIndex \cup DstIndex /\ reads \in Nat
  /\ src \in [SrcIndex -> 0 .. job.frames] /\ dst \in [DstIndex -> Int]
  /\ out \in Seq(Int) /\ streaming \in BOOLEAN
  /\ srcQ \in Seq(Queued) /\ held \in Seq(Queued)
  /\ dstQ \in Seq(DstIndex) /\ dstDone \in Seq(DstIndex) /\ srcDone \in Seq(SrcIndex)
  /\ half \in 0 .. FieldsPerBuffer - 1 /\ left \in 0 .. job.translen - 1
  /\ pc \in {"srcRead", "srcQueue"} => cur \in SrcIndex
  /\ pc \in {"dstWrite", "dstQueue"} => cur \in DstIndex
  /\ pc \in Passing => iter \in 1 .. 2

\* Nothing has come back, and the driver keeps nothing, before the streams run.
NothingBack ==
  pc \in Starting => /\ ~streaming /\ half = 0
                     /\ held = <<>> /\ srcDone = <<>> /\ dstDone = <<>>
                     /\ pc = "queueAll" => dstQ = <<>>

LEMMA JobTypes ==
  ASSUME job \in Jobs
  PROVE  /\ job.interlace \in 0 .. 3 /\ job.num_frames \in Nat /\ job.frames \in Nat
         /\ job.src_numbuf \in Nat \ {0} /\ job.dst_numbuf \in Nat \ {0} /\ job.translen \in Nat \ {0}
         /\ FieldsPerBuffer \in 1 .. 2 /\ Passes = FieldsPerBuffer
         /\ SrcIndex \subseteq Nat /\ DstIndex \subseteq Nat
         /\ 0 \in SrcIndex /\ 0 \in DstIndex
<1>1. job \in Job
  BY JobsAssumption
<1>2. /\ job.interlace \in 0 .. 3 /\ job.num_frames \in Nat /\ job.frames \in Nat
      /\ job.src_numbuf \in Nat \ {0} /\ job.dst_numbuf \in Nat \ {0} /\ job.translen \in Nat \ {0}
  BY <1>1 DEF Job
<1>3. QED
  BY <1>2 DEF FieldsPerBuffer, Passes, SrcIndex, DstIndex

LEMMA FieldTypes ==
  /\ \A i : FirstField(i) \in Field
  /\ \A f \in Field : Toggled(f) \in Field
BY DEF FirstField, Toggled, Field, V4L2_FIELD_TOP, V4L2_FIELD_BOTTOM, V4L2_FIELD_SEQ_TB, V4L2_FIELD_SEQ_BT

LEMMA FilledTypes ==
  ASSUME Types, NEW i \in SrcIndex
  PROVE  Filled(i) \in [SrcIndex -> 0 .. job.frames]
<1>1. job.frames \in Nat /\ reads \in Nat /\ src \in [SrcIndex -> 0 .. job.frames]
  BY JobTypes DEF Types
<1>2. reads < job.frames => reads + 1 \in 0 .. job.frames
  BY <1>1
<1>3. QED
  BY <1>1, <1>2 DEF Filled

LEMMA TypesInit ==
  ASSUME Init
  PROVE  Types /\ NothingBack
<1>1. job \in Jobs
  BY DEF Init
<1>2. FirstField(job.interlace) \in Field
  BY FieldTypes
<1>3. src \in [SrcIndex -> 0 .. job.frames] /\ dst \in [DstIndex -> Int]
  BY <1>1, JobTypes DEF Init
<1>4. /\ half \in 0 .. FieldsPerBuffer - 1 /\ left \in 0 .. job.translen - 1
      /\ num_frames \in Int /\ cur \in SrcIndex
  BY <1>1, JobTypes DEF Init
<1>5. /\ srcQ \in Seq(Queued) /\ held \in Seq(Queued) /\ out \in Seq(Int)
      /\ dstQ \in Seq(DstIndex) /\ dstDone \in Seq(DstIndex) /\ srcDone \in Seq(SrcIndex)
  BY DEF Init
<1>6. Types
  <2>1. /\ pc = "queueAll" /\ pc \in PC /\ field \in Field /\ last \in BOOLEAN /\ iter \in 0 .. 2
        /\ frame_no \in Nat /\ reads \in Nat /\ streaming \in BOOLEAN
    <3>1. /\ pc = "queueAll" /\ field = FirstField(job.interlace) /\ last = FALSE /\ iter = 0
          /\ frame_no = 0 /\ reads = 0 /\ streaming = FALSE
      BY DEF Init
    <3>2. pc \in PC /\ field \in Field /\ iter \in 0 .. 2 /\ frame_no \in Nat /\ reads \in Nat
      BY <1>2, <3>1 DEF PC
    <3>3. last \in BOOLEAN /\ streaming \in BOOLEAN
      BY <3>1
    <3>4. QED
      BY <3>1, <3>2, <3>3
  <2>2. pc \notin Passing /\ pc \notin {"srcRead", "srcQueue"} /\ pc \notin {"dstWrite", "dstQueue"}
    BY <2>1 DEF Passing
  <2>3. QED
    BY <1>1, <1>3, <1>4, <1>5, <2>1, <2>2 DEF Types
<1>7. QED
  BY <1>6 DEF Init, NothingBack, Starting

LEMMA TypesProgram ==
  ASSUME Types, NothingBack, Program
  PROVE  Types' /\ NothingBack'
<1>0. /\ job' = job /\ SrcIndex' = SrcIndex /\ DstIndex' = DstIndex /\ Queued' = Queued
      /\ FieldsPerBuffer' = FieldsPerBuffer
  BY DEF Program, QueueAllBuffers, Prime, StreamOn, Loop, SrcDequeue, SrcRead, SrcQueue,
         DstDequeue, DstWrite, DstQueue, StreamOff, SrcIndex, DstIndex, FieldsPerBuffer, Queued
<1>1. CASE QueueAllBuffers
  <2>1. PICK n \in 1 .. job.dst_numbuf : dstQ' = [i \in 1 .. n |-> i - 1]
    BY <1>1 DEF QueueAllBuffers
  <2>2. dstQ' \in Seq(DstIndex)
    BY <2>1, JobTypes DEF Types, DstIndex
  <2>3. QED
    BY <1>0, <1>1, <2>2 DEF QueueAllBuffers, Types, NothingBack, PC, Passing, Starting
<1>2. CASE Prime
  <2>1. CASE pc' = "streamOn" /\ UNCHANGED <<src, reads, srcQ, field>>
    BY <1>0, <1>2, <2>1 DEF Prime, Types, NothingBack, PC, Passing, Starting
  <2>2. CASE Len(srcQ) < job.src_numbuf /\ pc' = pc
    <3>1. /\ Len(srcQ) < job.src_numbuf /\ pc' = pc
          /\ src' = Filled(Len(srcQ)) /\ reads' = reads + 1
          /\ srcQ' = Append(srcQ, [index |-> Len(srcQ), field |-> field])
          /\ field' = IF job.interlace >= 2 THEN FirstField(job.interlace) ELSE Toggled(field)
      BY <1>2, <2>2 DEF Prime
    <3>2. Len(srcQ) \in SrcIndex
      BY <3>1, JobTypes DEF Types, SrcIndex
    <3>3. /\ src' \in [SrcIndex -> 0 .. job.frames] /\ srcQ' \in Seq(Queued)
          /\ field' \in Field
      BY <3>1, <3>2, FilledTypes, FieldTypes DEF Types, Queued
    <3>4. QED
      BY <1>0, <1>2, <3>1, <3>3 DEF Prime, Types, NothingBack, PC, Passing, Starting
  <2>3. QED
    BY <1>2, <2>1, <2>2 DEF Prime
<1>3. CASE StreamOn
  BY <1>0, <1>3 DEF StreamOn, driverVars, Types, NothingBack, PC, Passing, Starting
<1>4. CASE Loop
  <2>1. CASE num_frames # 0
    <3>1. iter' \in 1 .. 2 /\ last' = (num_frames = 1) /\ pc' \in {"dstDequeue", "srcDequeue"}
      BY <1>4, <2>1, JobTypes DEF Loop, Types
    <3>2. last' \in BOOLEAN
      BY <3>1
    <3>3. QED
      BY <1>0, <1>4, <3>1, <3>2 DEF Loop, driverVars, Types, NothingBack, PC, Passing, Starting
  <2>2. CASE num_frames = 0
    BY <1>0, <1>4, <2>2 DEF Loop, driverVars, Types, NothingBack, PC, Passing, Starting
  <2>3. QED
    BY <2>1, <2>2
<1>5. CASE SrcDequeue
  <2>1. cur' \in SrcIndex /\ srcDone' \in Seq(SrcIndex)
    BY <1>5, HeadTailProperties DEF SrcDequeue, Types
  <2>2. QED
    BY <1>0, <1>5, <2>1 DEF SrcDequeue, Types, NothingBack, PC, Passing, Starting
<1>6. CASE SrcRead
  <2>1. src' \in [SrcIndex -> 0 .. job.frames]
    BY <1>6, FilledTypes DEF SrcRead, Types
  <2>2. QED
    BY <1>0, <1>6, <2>1 DEF SrcRead, driverVars, Types, NothingBack, PC, Passing, Starting
<1>7. CASE SrcQueue
  <2>1. srcQ' \in Seq(Queued) /\ field' \in Field
    BY <1>7, FieldTypes DEF SrcQueue, Types, Queued
  <2>2. QED
    BY <1>0, <1>7, <2>1 DEF SrcQueue, Types, NothingBack, PC, Passing, Starting
<1>8. CASE DstDequeue
  <2>1. cur' \in DstIndex /\ dstDone' \in Seq(DstIndex)
    BY <1>8, HeadTailProperties DEF DstDequeue, Types
  <2>2. QED
    BY <1>0, <1>8, <2>1 DEF DstDequeue, Types, NothingBack, PC, Passing, Starting
<1>9. CASE DstWrite
  <2>1. out' \in Seq(Int)
    BY <1>9 DEF DstWrite, Types
  <2>2. QED
    BY <1>0, <1>9, <2>1 DEF DstWrite, driverVars, Types, NothingBack, PC, Passing, Starting
<1>10. CASE DstQueue
  <2>1. dstQ' \in Seq(DstIndex)
    BY <1>10 DEF DstQueue, Types
  <2>2. QED
    BY <1>0, <1>10, <2>1 DEF DstQueue, Types, NothingBack, PC, Passing, Starting
<1>11. CASE StreamOff
  <2>1. half' \in 0 .. FieldsPerBuffer - 1 /\ left' \in 0 .. job.translen - 1
    BY <1>11, JobTypes DEF StreamOff, Types
  <2>2. /\ srcQ' \in Seq(Queued) /\ held' \in Seq(Queued)
        /\ dstQ' \in Seq(DstIndex) /\ dstDone' \in Seq(DstIndex) /\ srcDone' \in Seq(SrcIndex)
    BY <1>11 DEF StreamOff
  <2>3. QED
    BY <1>0, <1>11, <2>1, <2>2 DEF StreamOff, Types, NothingBack, PC, Passing, Starting
<1>12. QED
  BY <1>1, <1>2, <1>3, <1>4, <1>5, <1>6, <1>7, <1>8, <1>9, <1>10, <1>11 DEF Program

LEMMA TypesDriver ==
  ASSUME Types, NothingBack, Driver
  PROVE  Types' /\ NothingBack'
<1>0. /\ UNCHANGED progVars /\ SrcIndex' = SrcIndex /\ DstIndex' = DstIndex /\ Queued' = Queued
      /\ FieldsPerBuffer' = FieldsPerBuffer
  BY DEF Driver, progVars, SrcIndex, DstIndex, FieldsPerBuffer, Queued
<1>1. pc \notin Starting
  BY DEF Driver, NothingBack
<1>2. Head(srcQ) \in Queued /\ Tail(srcQ) \in Seq(Queued)
  BY HeadTailProperties DEF Driver, Types
<1>3. Head(dstQ) \in DstIndex /\ Tail(dstQ) \in Seq(DstIndex)
  BY HeadTailProperties DEF Driver, Types
<1>4. Head(srcQ).index \in SrcIndex
  BY <1>2 DEF Queued
<1>5. (src[Head(srcQ).index] - 1) * FieldsPerBuffer + half + 1 \in Int
  <2>1. src[Head(srcQ).index] \in Int
    BY <1>4 DEF Types
  <2>2. FieldsPerBuffer = 1 \/ FieldsPerBuffer = 2
    BY DEF FieldsPerBuffer
  <2>h. half \in Int
    BY <2>2 DEF Types
  <2>3. QED
    BY <2>1, <2>2, <2>h
<1>6. /\ dst' \in [DstIndex -> Int] /\ dstDone' \in Seq(DstIndex) /\ dstQ' \in Seq(DstIndex)
  BY <1>3, <1>5 DEF Driver, Types
<1>f. FieldsPerBuffer \in 1 .. 2 /\ half \in 0 .. FieldsPerBuffer - 1
  BY JobTypes DEF Types
<1>g. \/ half + 1 < FieldsPerBuffer /\ half' = half + 1 /\ UNCHANGED <<srcQ, held, srcDone>>
      \/ half + 1 = FieldsPerBuffer /\ half' = 0
  BY DEF Driver
<1>h. \/ UNCHANGED <<srcQ, held, srcDone>>
      \/ LET used == Append(held, Head(srcQ))
         IN  /\ srcQ' = Tail(srcQ)
             /\ \/ held' = Tail(used) /\ srcDone' = Append(srcDone, Head(used).index)
                \/ held' = used /\ srcDone' = srcDone
  BY DEF Driver
<1>l. left' \in 0 .. job.translen - 1
  <2>1. left' = job.translen - 1 \/ (left > 0 /\ left' = left - 1)
    BY DEF Driver
  <2>2. job.translen \in Nat \ {0} /\ left \in 0 .. job.translen - 1
    BY JobTypes DEF Types
  <2>3. QED
    BY <2>1, <2>2
<1>7. half' \in 0 .. FieldsPerBuffer - 1
  BY <1>f, <1>g
<1>8. srcQ' \in Seq(Queued) /\ held' \in Seq(Queued) /\ srcDone' \in Seq(SrcIndex)
  <2>1. CASE UNCHANGED <<srcQ, held, srcDone>>
    BY <2>1 DEF Types
  <2>2. CASE ~UNCHANGED <<srcQ, held, srcDone>>
    <3> DEFINE used == Append(held, Head(srcQ))
    <3>1. /\ srcQ' = Tail(srcQ)
          /\ \/ held' = Tail(used) /\ srcDone' = Append(srcDone, Head(used).index)
             \/ held' = used /\ srcDone' = srcDone
      BY <1>h, <2>2
    <3>a. held \in Seq(Queued) /\ srcDone \in Seq(SrcIndex)
      BY DEF Types
    <3>2. used \in Seq(Queued) /\ used # <<>>
      BY <1>2, <3>a, AppendProperties
    <3>3. Head(used) \in Queued /\ Tail(used) \in Seq(Queued)
      BY <3>2, HeadTailProperties
    <3>4. Head(used).index \in SrcIndex
      BY <3>3 DEF Queued
    <3>5. QED
      <4>1. Append(srcDone, Head(used).index) \in Seq(SrcIndex)
        BY <3>a, <3>4, AppendProperties
      <4> HIDE DEF used
      <4>2. QED
        BY <1>2, <3>1, <3>a, <3>2, <3>3, <4>1
  <2>3. QED
    BY <2>1, <2>2
<1>9. QED
  BY <1>0, <1>1, <1>6, <1>7, <1>8, <1>l DEF progVars, Types, NothingBack

TypesAll == Types /\ NothingBack

LEMMA TypesStep ==
  ASSUME TypesAll, [Next]_vars
  PROVE  TypesAll'
<1>1. CASE Fail
  BY <1>1, JobTypes DEF Fail, driverVars, TypesAll, Types, NothingBack, PC, Passing, Starting,
     SrcIndex, DstIndex, Queued, FieldsPerBuffer
<1>2. CASE UNCHANGED vars
  BY <1>2 DEF vars, progVars, driverVars, TypesAll, Types, NothingBack,
     SrcIndex, DstIndex, Queued, FieldsPerBuffer
<1>3. QED
  BY <1>1, <1>2, TypesProgram, TypesDriver DEF Next, TypesAll

LEMMA TypesInvariant == Spec => []TypesAll
<1>1. Init => TypesAll
  BY TypesInit DEF TypesAll
<1>2. TypesAll /\ [Next]_vars => TypesAll'
  BY TypesStep
<1>3. QED
  BY <1>1, <1>2, PTL DEF Spec

-----------------------------------------------------------------------------
(* The two queues: what a step does to the buffers with the driver. *)

Sources == SrcWithDriver
Destinations == DstWithDriver

\* The driver's own steps, and those that are not about these queues.
Rests == Sources' = Sources /\ Destinations' = Destinations

\* The program gives a buffer away, or takes one back.
GivesSource(b) == Sources' = Append(Sources, b) /\ Destinations' = Destinations
TakesSource == Sources # <<>> /\ cur' = Head(Sources) /\ Sources' = Tail(Sources) /\ Destinations' = Destinations
GivesDestination(b) == Destinations' = Append(Destinations, b) /\ Sources' = Sources
TakesDestination == Destinations # <<>> /\ cur' = Head(Destinations) /\ Destinations' = Tail(Destinations) /\ Sources' = Sources

LEMMA QueueTypes ==
  ASSUME Types
  PROVE  /\ Sources \in Seq(SrcIndex) /\ Destinations \in Seq(DstIndex)
         /\ held \o srcQ \in Seq(Queued)
         /\ Sources = srcDone \o Indexes(held \o srcQ)
         /\ Indexes(held \o srcQ) \in Seq(SrcIndex)
<1>1. held \o srcQ \in Seq(Queued)
  BY ConcatProperties DEF Types
<1>2. Indexes(held \o srcQ) \in Seq(SrcIndex)
  BY <1>1, QueuedIndexes
<1>3. Sources = srcDone \o Indexes(held \o srcQ)
  BY DEF Sources, SrcWithDriver, Indexes
<1>4. QED
  BY <1>1, <1>2, <1>3, ConcatProperties DEF Types, Destinations, DstWithDriver

\* Nothing queued anywhere.
LEMMA NoIndexes == <<>> \o <<>> = <<>> /\ <<>> \o Indexes(<<>> \o <<>>) = <<>>
<1>1. <<>> \o <<>> = <<>>
  BY ConcatEmptySeq
<1>2. Indexes(<<>>) \in Seq(Int) /\ Len(Indexes(<<>>)) = 0
  BY DEF Indexes
<1>3. Indexes(<<>>) = <<>>
  BY <1>2, EmptySeq
<1>4. QED
  BY <1>1, <1>3

\* The driver moves its buffers along, but they stay where they are in the
\* two queues.
LEMMA DriverRests ==
  ASSUME Types, Driver
  PROVE  Rests
<1>1. Head(srcQ) \in Queued /\ Tail(srcQ) \in Seq(Queued) /\ srcQ # <<>>
  BY HeadTailProperties DEF Driver, Types
<1>2. Destinations' = Destinations
  <2>1. dstDone' \o dstQ' = Append(dstDone, Head(dstQ)) \o Tail(dstQ)
    BY DEF Driver
  <2>2. dstDone' \o dstQ' = dstDone \o dstQ
    BY <2>1, MoveHead DEF Driver, Types
  <2>3. QED
    BY <2>2 DEF Destinations, DstWithDriver
<1>t. held \in Seq(Queued) /\ srcQ \in Seq(Queued) /\ srcDone \in Seq(SrcIndex)
  BY DEF Types
<1>3. CASE UNCHANGED <<srcQ, held, srcDone>>
  BY <1>2, <1>3 DEF Rests, Sources, SrcWithDriver
<1>4. ASSUME ~ UNCHANGED <<srcQ, held, srcDone>>
      PROVE  Rests
  <2> DEFINE used == Append(held, Head(srcQ))
  <2>1. /\ srcQ' = Tail(srcQ)
        /\ \/ held' = Tail(used) /\ srcDone' = Append(srcDone, Head(used).index)
           \/ held' = used /\ srcDone' = srcDone
    BY <1>4 DEF Driver
  <2>2. used \in Seq(Queued) /\ used # <<>>
    BY <1>1, <1>t, AppendProperties
  <2>3. used \o Tail(srcQ) = held \o srcQ
    BY <1>1, <1>t, MoveHead
  <2> HIDE DEF used
  <2>4. CASE held' = used /\ srcDone' = srcDone
    <3>1. held' \o srcQ' = held \o srcQ
      BY <2>1, <2>3, <2>4
    <3>2. QED
      BY <1>2, <2>4, <3>1 DEF Rests, Sources, SrcWithDriver
  <2>5. CASE held' = Tail(used) /\ srcDone' = Append(srcDone, Head(used).index)
    <3> DEFINE all == held \o srcQ
    <3>1. /\ held' \o srcQ' = Tail(all) /\ Head(used) = Head(all) /\ all # <<>> /\ all \in Seq(Queued)
      <4>1. all = used \o Tail(srcQ) /\ held' \o srcQ' = Tail(used) \o Tail(srcQ)
        BY <2>1, <2>3, <2>5
      <4>2. used \o Tail(srcQ) \in Seq(Queued)
        BY <1>1, <2>2, ConcatProperties
      <4> HIDE DEF all
      <4>3. QED
        BY <1>1, <2>2, <4>1, <4>2, TailFirst
    <3> HIDE DEF all
    <3>2. /\ Indexes(all) \in Seq(SrcIndex) /\ Indexes(all) # <<>>
          /\ Indexes(Tail(all)) = Tail(Indexes(all)) /\ Head(Indexes(all)) = Head(all).index
      BY <3>1, QueuedIndexes
    <3>3. Append(srcDone, Head(Indexes(all))) \o Tail(Indexes(all)) = srcDone \o Indexes(all)
      BY <1>t, <3>2, MoveHead
    <3>4. Sources' = srcDone' \o Indexes(held' \o srcQ')
      BY DEF Sources, SrcWithDriver, Indexes
    <3>5. Sources = srcDone \o Indexes(all)
      BY DEF Sources, SrcWithDriver, Indexes, all
    <3>6. QED
      BY <1>2, <2>5, <3>1, <3>2, <3>3, <3>4, <3>5 DEF Rests
  <2>6. QED
    BY <2>1, <2>4, <2>5
<1>5. QED
  BY <1>3, <1>4

LEMMA PrimeGives ==
  ASSUME Types, NothingBack, Prime
  PROVE  \/ pc' = "streamOn" /\ Rests /\ UNCHANGED <<src, reads, srcQ, field>>
         \/ /\ pc' = "prime" /\ Len(Sources) = Len(srcQ) /\ Len(srcQ) \in SrcIndex
            /\ src' = Filled(Len(srcQ)) /\ reads' = reads + 1
            /\ srcQ' = Append(srcQ, [index |-> Len(srcQ), field |-> field])
            /\ GivesSource(Len(srcQ))
<1>1. held = <<>> /\ srcDone = <<>> /\ held' = <<>> /\ srcDone' = <<>> /\ Destinations' = Destinations
  BY DEF Prime, NothingBack, Starting, Destinations, DstWithDriver
<1>2. CASE pc' = "streamOn" /\ UNCHANGED <<src, reads, srcQ, field>>
  BY <1>1, <1>2 DEF Rests, Sources, SrcWithDriver
<1>3. CASE Len(srcQ) < job.src_numbuf /\ pc' = pc
  <2> DEFINE b == [index |-> Len(srcQ), field |-> field]
  <2>1. /\ src' = Filled(Len(srcQ)) /\ reads' = reads + 1 /\ srcQ' = Append(srcQ, b)
    BY <1>3 DEF Prime
  <2>2. /\ srcQ \in Seq(Queued) /\ Len(srcQ) \in SrcIndex /\ b \in Queued
    BY <1>3, JobTypes DEF Types, SrcIndex, Queued
  <2>3. b.index = Len(srcQ)
    OBVIOUS
  <2> HIDE DEF b
  <2>4. /\ held \o srcQ = srcQ /\ held' \o srcQ' = srcQ' /\ srcQ' \in Seq(Queued)
    BY <1>1, <2>1, <2>2, ConcatEmptySeq, AppendProperties
  <2>5. /\ Indexes(srcQ) \in Seq(SrcIndex) /\ Len(Indexes(srcQ)) = Len(srcQ)
        /\ Indexes(srcQ') = Append(Indexes(srcQ), Len(srcQ))
    BY <2>1, <2>2, <2>3, QueuedIndexes
  <2>6. Append(Indexes(srcQ), Len(srcQ)) \in Seq(SrcIndex)
    BY <2>2, <2>5, AppendProperties
  <2>7. Sources = Indexes(srcQ) /\ Sources' = Indexes(srcQ')
    <3>1. Sources = srcDone \o Indexes(held \o srcQ) /\ Sources' = srcDone' \o Indexes(held' \o srcQ')
      BY DEF Sources, SrcWithDriver, Indexes
    <3>2. QED
      BY <1>1, <2>4, <2>5, <2>6, <3>1, ConcatEmptySeq
  <2>8. QED
    BY <1>1, <1>3, <2>1, <2>2, <2>5, <2>7 DEF GivesSource, b, Prime
<1>4. QED
  BY <1>2, <1>3 DEF Prime

LEMMA SrcQueueGives ==
  ASSUME Types, SrcQueue
  PROVE  GivesSource(cur)
<1> DEFINE b == [index |-> cur, field |-> field]
<1>1. /\ srcQ' = Append(srcQ, b) /\ held' = held /\ srcDone' = srcDone /\ Destinations' = Destinations
  BY DEF SrcQueue, Destinations, DstWithDriver
<1>2. /\ srcQ \in Seq(Queued) /\ held \in Seq(Queued) /\ srcDone \in Seq(SrcIndex)
      /\ b \in Queued /\ cur \in SrcIndex
  BY DEF SrcQueue, Types, Queued
<1>3. b.index = cur
  OBVIOUS
<1> HIDE DEF b
<1>4. /\ held' \o srcQ' = Append(held \o srcQ, b) /\ held \o srcQ \in Seq(Queued)
  BY <1>1, <1>2, AppendSecond, ConcatProperties
<1>5. /\ Indexes(held \o srcQ) \in Seq(SrcIndex)
      /\ Indexes(held' \o srcQ') = Append(Indexes(held \o srcQ), cur)
  BY <1>2, <1>3, <1>4, QueuedIndexes
<1>6. srcDone \o Append(Indexes(held \o srcQ), cur) = Append(srcDone \o Indexes(held \o srcQ), cur)
  BY <1>2, <1>5, AppendSecond
<1>7. Sources = srcDone \o Indexes(held \o srcQ) /\ Sources' = srcDone' \o Indexes(held' \o srcQ')
  BY DEF Sources, SrcWithDriver, Indexes
<1>8. QED
  BY <1>1, <1>5, <1>6, <1>7 DEF GivesSource

LEMMA SrcDequeueTakes ==
  ASSUME Types, SrcDequeue
  PROVE  TakesSource
<1>1. /\ srcDone # <<>> /\ cur' = Head(srcDone) /\ srcDone' = Tail(srcDone)
      /\ held' = held /\ srcQ' = srcQ /\ Destinations' = Destinations
  BY DEF SrcDequeue, Destinations, DstWithDriver
<1>2. srcDone \in Seq(SrcIndex) /\ Indexes(held \o srcQ) \in Seq(SrcIndex)
  BY QueueTypes DEF Types
<1>3. Sources = srcDone \o Indexes(held \o srcQ) /\ Sources' = srcDone' \o Indexes(held' \o srcQ')
  BY DEF Sources, SrcWithDriver, Indexes
<1>4. QED
  BY <1>1, <1>2, <1>3, TailFirst DEF TakesSource

LEMMA DstDequeueTakes ==
  ASSUME Types, DstDequeue
  PROVE  TakesDestination
<1>1. /\ dstDone # <<>> /\ cur' = Head(dstDone) /\ dstDone' = Tail(dstDone) /\ dstQ' = dstQ
      /\ Sources' = Sources
  BY DEF DstDequeue, Sources, SrcWithDriver
<1>2. dstDone \in Seq(DstIndex) /\ dstQ \in Seq(DstIndex)
  BY DEF Types
<1>3. QED
  BY <1>1, <1>2, TailFirst DEF TakesDestination, Destinations, DstWithDriver

LEMMA DstQueueGives ==
  ASSUME Types, DstQueue
  PROVE  Rests \/ GivesDestination(cur)
<1>1. /\ dstDone' = dstDone /\ (dstQ' = dstQ \/ dstQ' = Append(dstQ, cur)) /\ Sources' = Sources
  BY DEF DstQueue, Sources, SrcWithDriver
<1>2. dstDone \in Seq(DstIndex) /\ dstQ \in Seq(DstIndex) /\ cur \in DstIndex
  BY DEF Types, DstQueue
<1>3. dstDone \o Append(dstQ, cur) = Append(dstDone \o dstQ, cur)
  BY <1>2, AppendSecond
<1>4. QED
  BY <1>1, <1>3 DEF Rests, GivesDestination, Destinations, DstWithDriver

-----------------------------------------------------------------------------
(* Who has a buffer. *)

Absent(b, s) == \A i \in 1 .. Len(s) : s[i] # b

\* While the source buffers are being primed, the next one is the first that
\* is not queued yet.
Owned ==
  /\ Distinct(Sources) /\ Distinct(Destinations)
  /\ pc \in {"srcRead", "srcQueue"} => Absent(cur, Sources)
  /\ pc \in {"dstWrite", "dstQueue"} => Absent(cur, Destinations)
  /\ pc \in {"queueAll", "prime"} => \A i \in 1 .. Len(Sources) : Sources[i] = i - 1

LEMMA DistinctAppend ==
  ASSUME NEW S, NEW s \in Seq(S), NEW e \in S, Distinct(s), Absent(e, s)
  PROVE  Distinct(Append(s, e))
<1>1. /\ Len(Append(s, e)) = Len(s) + 1 /\ Len(s) \in Nat
      /\ \A i \in 1 .. Len(s) : Append(s, e)[i] = s[i]
      /\ Append(s, e)[Len(s) + 1] = e
  BY AppendProperties, LenProperties
<1>2. \A i \in 1 .. Len(s) + 1 : i = Len(s) + 1 \/ i \in 1 .. Len(s)
  BY <1>1
<1>3. QED
  BY <1>1, <1>2 DEF Distinct, Absent

LEMMA DistinctTail ==
  ASSUME NEW S, NEW s \in Seq(S), s # <<>>, Distinct(s)
  PROVE  Distinct(Tail(s)) /\ Absent(Head(s), Tail(s))
<1>1. /\ Len(Tail(s)) = Len(s) - 1 /\ Len(s) \in Nat \ {0}
      /\ \A i \in 1 .. Len(s) - 1 : Tail(s)[i] = s[i + 1]
      /\ Head(s) = s[1]
  BY HeadTailProperties, EmptySeq
<1>2. ASSUME NEW i \in 1 .. Len(s) - 1, NEW j \in 1 .. Len(s) - 1, Tail(s)[i] = Tail(s)[j]
      PROVE  i = j
  <2>1. i + 1 \in 1 .. Len(s) /\ j + 1 \in 1 .. Len(s) /\ s[i + 1] = s[j + 1]
    BY <1>1, <1>2
  <2>2. i + 1 = j + 1
    BY <2>1 DEF Distinct
  <2>3. QED
    BY <1>1, <2>2
<1>3. ASSUME NEW i \in 1 .. Len(s) - 1 PROVE Tail(s)[i] # Head(s)
  <2>1. i + 1 \in 1 .. Len(s) /\ 1 \in 1 .. Len(s) /\ i + 1 # 1
    BY <1>1
  <2>2. s[i + 1] # s[1]
    BY <2>1 DEF Distinct
  <2>3. QED
    BY <1>1, <2>2
<1>4. QED
  BY <1>1, <1>2, <1>3 DEF Distinct, Absent

LEMMA OwnedInit ==
  ASSUME Init
  PROVE  Owned
<1>1. TypesAll
  BY TypesInit DEF TypesAll
<1>2. srcDone = <<>> /\ held = <<>> /\ srcQ = <<>> /\ dstDone = <<>> /\ dstQ = <<>> /\ pc = "queueAll"
  BY DEF Init
<1>3. Sources = <<>> /\ Destinations = <<>>
  BY <1>2, NoIndexes DEF Sources, SrcWithDriver, Destinations, DstWithDriver, Indexes
<1>4. QED
  BY <1>2, <1>3 DEF Owned, Distinct

\* Every step but for the first and the last puts at most one buffer behind
\* one of the queues or takes one from its front.
Stays ==
  /\ Rests
  /\ \/ pc' = pc /\ cur' = cur
     \/ pc' \notin {"queueAll", "prime", "srcRead", "srcQueue", "dstWrite", "dstQueue"}
     \/ cur' = cur /\ pc = "srcRead" /\ pc' = "srcQueue"
     \/ cur' = cur /\ pc = "dstWrite" /\ pc' = "dstQueue"

Moves ==
  \/ Stays
  \/ pc = "prime" /\ pc' = "prime" /\ Len(Sources) \in SrcIndex /\ GivesSource(Len(Sources))
  \/ pc = "srcQueue" /\ pc' = "dstDequeue" /\ GivesSource(cur)
  \/ pc = "dstQueue" /\ pc' \in {"dstDequeue", "loop"} /\ GivesDestination(cur)
  \/ pc' \in {"srcRead", "dstDequeue"} /\ TakesSource
  \/ pc' = "dstWrite" /\ TakesDestination

Empties == pc' \notin {"queueAll", "prime", "srcRead", "srcQueue", "dstWrite", "dstQueue"}
           /\ Sources' = <<>> /\ Destinations' = <<>>

LEMMA StepMoves ==
  ASSUME TypesAll, [Next]_vars
  PROVE  Moves \/ QueueAllBuffers \/ Empties
<1>t. Types /\ NothingBack
  BY DEF TypesAll
<1>0. ASSUME UNCHANGED <<srcQ, held, srcDone, dstQ, dstDone>>
      PROVE  Rests
  BY <1>0 DEF Rests, Sources, SrcWithDriver, Destinations, DstWithDriver
<1>1. CASE Prime
  <2>1. pc = "prime"
    BY <1>1 DEF Prime
  <2>2. \/ pc' = "streamOn" /\ Rests
        \/ pc' = "prime" /\ Len(Sources) \in SrcIndex /\ GivesSource(Len(Sources))
    BY <1>1, <1>t, PrimeGives
  <2>3. QED
    BY <2>1, <2>2 DEF Moves, Stays
<1>2. CASE StreamOn
  BY <1>0, <1>2 DEF StreamOn, driverVars, Moves, Stays
<1>3. CASE Loop
  BY <1>0, <1>3 DEF Loop, driverVars, Moves, Stays
<1>4. CASE SrcDequeue
  <2>1. pc' \in {"srcRead", "dstDequeue"}
    BY <1>4 DEF SrcDequeue
  <2>2. QED
    BY <1>4, <1>t, <2>1, SrcDequeueTakes DEF Moves, Stays
<1>5. CASE SrcRead
  BY <1>0, <1>5 DEF SrcRead, driverVars, Moves, Stays
<1>6. CASE SrcQueue
  <2>1. pc = "srcQueue" /\ pc' = "dstDequeue"
    BY <1>6 DEF SrcQueue
  <2>2. QED
    BY <1>6, <1>t, <2>1, SrcQueueGives DEF Moves, Stays
<1>7. CASE DstDequeue
  <2>1. pc' = "dstWrite"
    BY <1>7 DEF DstDequeue
  <2>2. QED
    BY <1>7, <1>t, <2>1, DstDequeueTakes DEF Moves, Stays
<1>8. CASE DstWrite
  BY <1>0, <1>8 DEF DstWrite, driverVars, Moves, Stays
<1>9. CASE DstQueue
  <2>1. pc = "dstQueue" /\ pc' \in {"dstDequeue", "loop"}
    BY <1>9 DEF DstQueue
  <2>2. QED
    BY <1>9, <1>t, <2>1, DstQueueGives DEF Moves, Stays
<1>10. CASE StreamOff
  <2>1. /\ srcDone' = <<>> /\ held' = <<>> /\ srcQ' = <<>> /\ dstDone' = <<>> /\ dstQ' = <<>>
        /\ pc' = "done"
    BY <1>10 DEF StreamOff
  <2>2. Sources' = <<>> /\ Destinations' = <<>>
    BY <2>1, NoIndexes DEF Sources, SrcWithDriver, Destinations, DstWithDriver, Indexes
  <2>3. QED
    BY <2>1, <2>2 DEF Empties
<1>11. CASE Fail
  BY <1>0, <1>11 DEF Fail, driverVars, Moves, Stays
<1>12. CASE Driver
  <2>1. pc' = pc /\ cur' = cur
    BY <1>12 DEF Driver, progVars
  <2>2. QED
    BY <1>12, <1>t, <2>1, DriverRests DEF Moves, Stays
<1>13. CASE UNCHANGED vars
  BY <1>0, <1>13 DEF vars, progVars, driverVars, Moves, Stays
<1>14. QED
  BY <1>1, <1>2, <1>3, <1>4, <1>5, <1>6, <1>7, <1>8, <1>9, <1>10, <1>11, <1>12, <1>13 DEF Next, Program

LEMMA OwnedStep ==
  ASSUME TypesAll, Owned, [Next]_vars
  PROVE  Owned'
<1>1. /\ Sources \in Seq(SrcIndex) /\ Destinations \in Seq(DstIndex)
      /\ pc \in {"srcRead", "srcQueue"} => cur \in SrcIndex
      /\ pc \in {"dstWrite", "dstQueue"} => cur \in DstIndex
  BY QueueTypes DEF TypesAll, Types
<1>2. CASE Stays
  <2>1. Sources' = Sources /\ Destinations' = Destinations
    BY <1>2 DEF Stays, Rests
  <2>2. CASE pc' = pc /\ cur' = cur
    BY <2>1, <2>2 DEF Owned, Absent
  <2>3. CASE pc' \notin {"queueAll", "prime", "srcRead", "srcQueue", "dstWrite", "dstQueue"}
    BY <2>1, <2>3 DEF Owned
  <2>4. CASE cur' = cur /\ pc = "srcRead" /\ pc' = "srcQueue"
    BY <2>1, <2>4 DEF Owned, Absent
  <2>5. CASE cur' = cur /\ pc = "dstWrite" /\ pc' = "dstQueue"
    BY <2>1, <2>5 DEF Owned, Absent
  <2>6. QED
    BY <1>2, <2>2, <2>3, <2>4, <2>5 DEF Stays
<1>3. CASE pc = "prime" /\ pc' = "prime" /\ Len(Sources) \in SrcIndex /\ GivesSource(Len(Sources))
  <2>1. /\ \A i \in 1 .. Len(Sources) : Sources[i] = i - 1
        /\ Sources' = Append(Sources, Len(Sources)) /\ Destinations' = Destinations
    BY <1>3 DEF GivesSource, Owned
  <2>2. /\ Len(Sources') = Len(Sources) + 1 /\ Len(Sources) \in Nat
        /\ \A i \in 1 .. Len(Sources) : Sources'[i] = Sources[i]
        /\ Sources'[Len(Sources) + 1] = Len(Sources)
    BY <1>1, <1>3, <2>1, AppendProperties, LenProperties
  <2>3. Absent(Len(Sources), Sources)
    BY <2>1, <2>2 DEF Absent
  <2>4. Distinct(Sources')
    BY <1>1, <1>3, <2>1, <2>3, DistinctAppend DEF Owned
  <2>5. \A i \in 1 .. Len(Sources') : Sources'[i] = i - 1
    <3>1. \A i \in 1 .. Len(Sources') : i = Len(Sources) + 1 \/ i \in 1 .. Len(Sources)
      BY <2>2
    <3>2. QED
      BY <2>1, <2>2, <3>1
  <2>6. QED
    BY <1>3, <2>1, <2>4, <2>5 DEF Owned
<1>4. CASE pc = "srcQueue" /\ pc' = "dstDequeue" /\ GivesSource(cur)
  BY <1>1, <1>4, DistinctAppend DEF GivesSource, Owned
<1>5. CASE pc = "dstQueue" /\ pc' \in {"dstDequeue", "loop"} /\ GivesDestination(cur)
  BY <1>1, <1>5, DistinctAppend DEF GivesDestination, Owned
<1>6. CASE pc' \in {"srcRead", "dstDequeue"} /\ TakesSource
  <2>1. Distinct(Sources') /\ Absent(cur', Sources')
    BY <1>1, <1>6, DistinctTail DEF TakesSource, Owned
  <2>2. QED
    BY <1>6, <2>1 DEF TakesSource, Owned, Absent
<1>7. CASE pc' = "dstWrite" /\ TakesDestination
  <2>1. Distinct(Destinations') /\ Absent(cur', Destinations')
    BY <1>1, <1>7, DistinctTail DEF TakesDestination, Owned
  <2>2. QED
    BY <1>7, <2>1 DEF TakesDestination, Owned, Absent
<1>8. CASE QueueAllBuffers
  <2>1. PICK n \in 1 .. job.dst_numbuf : dstQ' = [i \in 1 .. n |-> i - 1]
    BY <1>8 DEF QueueAllBuffers
  <2>2. /\ Sources' = Sources /\ pc = "queueAll" /\ pc' = "prime" /\ dstDone' = <<>>
    BY <1>8 DEF QueueAllBuffers, Sources, SrcWithDriver, TypesAll, NothingBack, Starting
  <2>3. n \in Nat /\ dstQ' \in Seq(Int) /\ Len(dstQ') = n /\ \A i \in 1 .. n : dstQ'[i] = i - 1
    BY <2>1, JobTypes DEF TypesAll, Types
  <2>4. Destinations' = dstQ'
    BY <2>2, <2>3, ConcatEmptySeq DEF Destinations, DstWithDriver
  <2>5. Distinct(Destinations')
    BY <2>3, <2>4 DEF Distinct
  <2>6. QED
    BY <2>2, <2>5 DEF Owned
<1>9. CASE Empties
  BY <1>9 DEF Empties, Owned, Distinct
<1>10. QED
  BY <1>2, <1>3, <1>4, <1>5, <1>6, <1>7, <1>8, <1>9, StepMoves DEF Moves

LEMMA OwnedInvariant == Spec => [](TypesAll /\ Owned)
<1>1. TypesAll /\ Owned /\ [Next]_vars => Owned'
  BY OwnedStep
<1>2. QED
  BY <1>1, OwnedInit, TypesInvariant, PTL DEF Spec

\* A buffer is with the driver at most once, and the buffer the program is
\* reading into, writing out or about to queue is not with the driver: for
\* every job, those with an odd count of sequential fields included.  (It is
\* BuffersOwnedOnce without TypeOK.)
BuffersApart ==
  /\ Distinct(SrcWithDriver) /\ Distinct(DstWithDriver)
  /\ pc \in {"srcRead", "srcQueue"} =>
       \A i \in 1 .. Len(SrcWithDriver) : SrcWithDriver[i] # cur
  /\ pc \in {"dstWrite", "dstQueue"} =>
       \A i \in 1 .. Len(DstWithDriver) : DstWithDriver[i] # cur

\* BuffersApart for every set of jobs.
THEOREM V4l2BuffersApart == Spec => []BuffersApart
<1>1. Owned => BuffersApart
  BY DEF Owned, BuffersApart, Absent, Sources, Destinations
<1>2. QED
  BY <1>1, OwnedInvariant, PTL

-----------------------------------------------------------------------------
(* How many frames are left.  With a sequential type the program counts    *)
(* down twice per source buffer, so only an even count reaches zero: an    *)
(* odd one goes on below it (the run MCV4l2M2MOdd).                        *)

EvenCounts == \A j \in Jobs : j.interlace >= 2 => j.num_frames % 2 = 0

Whole(n) == job.interlace >= 2 => n % 2 = 0

Counted ==
  /\ num_frames \in 0 .. job.num_frames /\ Len(out) <= job.num_frames
  /\ pc \in Starting \cup {"loop"} => Whole(num_frames)
  /\ pc \in Passing => iter <= num_frames /\ iter <= Passes /\ Whole(num_frames - iter)
  /\ pc # "exited" =>
       num_frames + Len(out) = job.num_frames + (IF pc = "dstQueue" THEN 1 ELSE 0)

LEMMA CountedInit ==
  ASSUME Init, EvenCounts
  PROVE  Counted
<1>1. job \in Jobs /\ job.num_frames \in Nat
  BY JobTypes DEF Init
<1>2. Len(out) = 0
  BY DEF Init
<1>3. QED
  BY <1>1, <1>2 DEF Init, EvenCounts, Counted, Whole, Starting, Passing

LEMMA CountedStep ==
  ASSUME TypesAll, Counted, [Next]_vars
  PROVE  Counted'
<1>t. /\ num_frames \in 0 .. job.num_frames /\ job.num_frames \in Nat /\ iter \in 0 .. 2
      /\ Len(out) \in Nat /\ out \in Seq(Int) /\ job.interlace \in 0 .. 3
      /\ Passes = IF job.interlace >= 2 THEN 2 ELSE 1
      /\ pc \in Passing => iter \in 1 .. 2
  BY JobTypes DEF TypesAll, Types, Counted, Passes
<1>1. CASE num_frames' = num_frames /\ out' = out /\ job' = job /\ iter' = iter
           /\ \/ pc \in Starting /\ pc' \in Starting \cup {"loop"}
              \/ pc \in Passing \ {"dstQueue", "dstWrite"} /\ pc' \in Passing \ {"dstQueue"}
              \/ pc' = pc
              \/ pc' = "exited"
              \/ pc = "streamOff" /\ pc' = "done"
  BY <1>1 DEF Counted, Whole, Starting, Passing, Passes
<1>2. CASE Loop
  <2>1. CASE num_frames = 0
    BY <1>2, <2>1 DEF Loop, Counted, Starting, Passing
  <2>2. CASE num_frames # 0
    <3>1. iter' = Passes /\ pc' \in Passing /\ pc' # "dstQueue" /\ pc = "loop"
          /\ UNCHANGED <<num_frames, out, job>>
      BY <1>2, <2>2 DEF Loop, Passing
    <3>2. Whole(num_frames)
      BY <3>1 DEF Counted
    <3>3. iter' <= num_frames /\ (job.interlace >= 2 => (num_frames - iter') % 2 = 0)
      BY <1>t, <2>2, <3>1, <3>2 DEF Whole
    <3>4. Passes' = Passes
      BY <3>1 DEF Passes
    <3>5. QED
      BY <1>t, <3>1, <3>3, <3>4 DEF Counted, Whole, Passing, Starting
  <2>3. QED
    BY <2>1, <2>2
<1>3. CASE DstWrite
  <2>1. /\ pc = "dstWrite" /\ pc' = "dstQueue" /\ UNCHANGED <<num_frames, job, iter>>
        /\ Len(out') = Len(out) + 1
    <3>1. /\ pc = "dstWrite" /\ pc' = "dstQueue" /\ UNCHANGED <<num_frames, job, iter>>
          /\ out' = Append(out, dst[cur]) /\ dst[cur] \in Int
      BY <1>3 DEF DstWrite, driverVars, TypesAll, Types
    <3>2. QED
      BY <1>t, <3>1, AppendProperties
  <2>2. QED
    BY <1>t, <2>1 DEF Counted, Whole, Starting, Passing, Passes
<1>4. CASE DstQueue
  <2>1. /\ pc = "dstQueue" /\ UNCHANGED <<job, out>>
        /\ num_frames' = num_frames - 1 /\ iter' = iter - 1
        /\ pc' = IF iter > 1 THEN "dstDequeue" ELSE "loop"
    BY <1>4 DEF DstQueue
  <2>2. iter \in 1 .. 2 /\ iter <= num_frames /\ iter <= Passes /\ Whole(num_frames - iter)
        /\ num_frames + Len(out) = job.num_frames + 1
    BY <1>t, <2>1 DEF Counted, Passing
  <2>3. Passes' = Passes
    BY <2>1 DEF Passes
  <2>4. CASE iter = 2
    BY <1>t, <2>1, <2>2, <2>3, <2>4 DEF Counted, Whole, Passing, Starting
  <2>5. CASE iter = 1
    BY <1>t, <2>1, <2>2, <2>5 DEF Counted, Whole, Passing, Starting
  <2>6. QED
    BY <2>2, <2>4, <2>5
<1>5. CASE QueueAllBuffers \/ Prime \/ StreamOn \/ SrcDequeue \/ SrcRead \/ SrcQueue
           \/ DstDequeue \/ StreamOff \/ Fail \/ Driver \/ UNCHANGED vars
  <2>1. num_frames' = num_frames /\ out' = out /\ job' = job /\ iter' = iter
    BY <1>5 DEF QueueAllBuffers, Prime, StreamOn, SrcDequeue, SrcRead, SrcQueue, DstDequeue,
       StreamOff, Fail, Driver, vars, progVars, driverVars
  <2>2. \/ pc \in Starting /\ pc' \in Starting \cup {"loop"}
        \/ pc \in Passing \ {"dstQueue", "dstWrite"} /\ pc' \in Passing \ {"dstQueue"}
        \/ pc' = pc
        \/ pc' = "exited"
        \/ pc = "streamOff" /\ pc' = "done"
    BY <1>5 DEF QueueAllBuffers, Prime, StreamOn, SrcDequeue, SrcRead, SrcQueue, DstDequeue,
       StreamOff, Fail, Driver, vars, progVars, driverVars, Starting, Passing
  <2>3. QED
    BY <1>1, <2>1, <2>2
<1>6. QED
  BY <1>2, <1>3, <1>4, <1>5 DEF Next, Program

LEMMA CountedInvariant ==
  ASSUME EvenCounts
  PROVE  Spec => []Counted
<1>1. Init => Counted
  BY CountedInit
<1>2. TypesAll /\ Counted /\ [Next]_vars => Counted'
  BY CountedStep
<1>3. QED
  BY <1>1, <1>2, TypesInvariant, PTL DEF Spec

\* No buffer is ever with the driver and the program at the same time, and
\* all variables have their types (the count of frames left, too).
THEOREM V4l2BuffersOwnedOnce ==
  ASSUME EvenCounts
  PROVE  Spec => []BuffersOwnedOnce
<1>1. TypesAll /\ Owned /\ Counted => BuffersOwnedOnce
  <2> SUFFICES ASSUME TypesAll, Owned, Counted
               PROVE  BuffersOwnedOnce
    OBVIOUS
  <2>1. half \in 0 .. 1
    BY JobTypes DEF TypesAll, Types
  <2>2. TypeOK
    BY <2>1 DEF TypesAll, Types, TypeOK, Counted, Queued
  <2>3. QED
    BY <2>2 DEF Owned, BuffersOwnedOnce, Absent, Sources, Destinations
<1>2. QED
  BY <1>1, OwnedInvariant, CountedInvariant, PTL

\* No more frames are written than were asked for, if the count is even
\* wherever a source buffer holds two fields.
THEOREM V4l2FramesAsAsked ==
  ASSUME EvenCounts
  PROVE  Spec => []FramesAsAsked
<1>1. Counted => FramesAsAsked
  BY DEF Counted, FramesAsAsked
<1>2. QED
  BY <1>1, CountedInvariant, PTL

-----------------------------------------------------------------------------
(* What the source buffers hold.  The buffers queued so far are numbered   *)
(* in the order they were queued; those with the driver are the last of    *)
(* them, and each holds the part of the file with its number.              *)

NumQueued == IF pc = "srcQueue" THEN reads - 1 ELSE reads

\* The driver works between the two ioctls that turn the streams on and off.
Running == streaming => pc \in Passing \cup {"loop", "streamOff"}

SourcesFilled ==
  pc # "exited" =>
    /\ Len(Sources) <= NumQueued
    /\ \A i \in 1 .. Len(Sources) :
         NumQueued - Len(Sources) + i <= job.frames =>
           src[Sources[i]] = NumQueued - Len(Sources) + i
    /\ pc = "srcQueue" /\ reads <= job.frames => src[cur] = reads

LEMMA FilledAt ==
  ASSUME Types, NEW i \in SrcIndex
  PROVE  /\ \A b \in SrcIndex \ {i} : Filled(i)[b] = src[b]
         /\ reads < job.frames => Filled(i)[i] = reads + 1
BY DEF Types, Filled

LEMMA RunningInvariant == Spec => []Running
<1>1. Init => Running
  BY DEF Init, Running
<1>2. Running /\ [Next]_vars => Running'
  BY DEF Running, Passing, Next, Program, QueueAllBuffers, Prime, StreamOn, Loop, SrcDequeue,
     SrcRead, SrcQueue, DstDequeue, DstWrite, DstQueue, StreamOff, Fail, Driver,
     vars, progVars, driverVars
<1>3. QED
  BY <1>1, <1>2, PTL DEF Spec

LEMMA FilledInit ==
  ASSUME Init
  PROVE  SourcesFilled
<1>1. TypesAll /\ reads = 0 /\ pc = "queueAll" /\ srcDone = <<>> /\ held = <<>> /\ srcQ = <<>>
  BY TypesInit DEF Init, TypesAll
<1>2. Sources = <<>>
  BY <1>1, NoIndexes DEF Sources, SrcWithDriver, Indexes
<1>3. QED
  BY <1>1, <1>2 DEF SourcesFilled, NumQueued

\* A buffer joins the queue with the number that is next.
LEMMA FilledGives ==
  ASSUME TypesAll, SourcesFilled, pc # "exited", NEW b \in SrcIndex, GivesSource(b),
         job' = job, NumQueued' = NumQueued + 1, pc' # "srcQueue",
         \A i \in 1 .. Len(Sources) : src'[Sources[i]] = src[Sources[i]],
         NumQueued + 1 <= job.frames => src'[b] = NumQueued + 1
  PROVE  SourcesFilled'
<1>1. /\ Sources \in Seq(SrcIndex) /\ Sources' = Append(Sources, b)
      /\ NumQueued \in Int /\ job.frames \in Nat /\ Len(Sources) <= NumQueued
  BY QueueTypes, JobTypes DEF TypesAll, Types, GivesSource, NumQueued, SourcesFilled
<1>2. /\ Len(Sources') = Len(Sources) + 1 /\ Len(Sources) \in Nat
      /\ \A i \in 1 .. Len(Sources) : Sources'[i] = Sources[i]
      /\ Sources'[Len(Sources) + 1] = b
  BY <1>1, AppendProperties, LenProperties
<1>3. ASSUME NEW i \in 1 .. Len(Sources'), NumQueued' - Len(Sources') + i <= job'.frames
      PROVE  src'[Sources'[i]] = NumQueued' - Len(Sources') + i
  <2>1. NumQueued' - Len(Sources') + i = NumQueued - Len(Sources) + i /\ i \in Nat
    BY <1>1, <1>2
  <2>2. CASE i = Len(Sources) + 1
    BY <1>1, <1>2, <1>3, <2>1, <2>2
  <2>3. CASE i \in 1 .. Len(Sources)
    <3>1. src[Sources[i]] = NumQueued - Len(Sources) + i
      BY <1>3, <2>1, <2>3 DEF SourcesFilled
    <3>2. QED
      BY <1>2, <2>1, <2>3, <3>1
  <2>4. QED
    BY <1>2, <2>2, <2>3
<1>4. Len(Sources') <= NumQueued'
  BY <1>1, <1>2
<1>5. QED
  BY <1>3, <1>4 DEF SourcesFilled

\* A step that leaves queue and buffers alone.
LEMMA FilledStays ==
  ASSUME SourcesFilled, pc # "exited", Sources' = Sources, NumQueued' = NumQueued, job' = job,
         \A i \in 1 .. Len(Sources) : src'[Sources[i]] = src[Sources[i]],
         pc' = "srcQueue" /\ reads' <= job.frames => src'[cur'] = reads'
  PROVE  SourcesFilled'
BY DEF SourcesFilled

LEMMA FilledStep ==
  ASSUME TypesAll, Owned, SourcesFilled, [Next]_vars
  PROVE  SourcesFilled'
<1>t. /\ Types /\ NothingBack /\ Sources \in Seq(SrcIndex) /\ reads \in Nat /\ job.frames \in Nat
      /\ \A i \in 1 .. Len(Sources) : Sources[i] \in SrcIndex
  BY QueueTypes, JobTypes, ElementOfSeq DEF TypesAll, Types
<1>1. CASE pc' = "exited"
  BY <1>1 DEF SourcesFilled
<1>2. CASE Prime
  <2>0. pc = "prime" /\ job' = job
    BY <1>2 DEF Prime
  <2>1. CASE pc' = "streamOn" /\ Rests /\ UNCHANGED <<src, reads, srcQ, field>>
    <3>1. Sources' = Sources /\ NumQueued' = NumQueued
      BY <2>0, <2>1 DEF Rests, NumQueued
    <3>2. QED
      BY <2>0, <2>1, <3>1, FilledStays
  <2>2. CASE /\ pc' = "prime" /\ Len(Sources) = Len(srcQ) /\ Len(srcQ) \in SrcIndex
             /\ src' = Filled(Len(srcQ)) /\ reads' = reads + 1
             /\ srcQ' = Append(srcQ, [index |-> Len(srcQ), field |-> field])
             /\ GivesSource(Len(srcQ))
    <3>1. NumQueued = reads /\ NumQueued' = NumQueued + 1
      BY <2>0, <2>2 DEF NumQueued
    <3>2. \A i \in 1 .. Len(Sources) : Sources[i] # Len(srcQ)
      <4>1. \A i \in 1 .. Len(Sources) : Sources[i] = i - 1
        BY <2>0 DEF Owned
      <4>2. Len(Sources) \in Nat
        BY <1>t, LenProperties
      <4>3. QED
        BY <2>2, <4>1, <4>2
    <3>3. \A i \in 1 .. Len(Sources) : src'[Sources[i]] = src[Sources[i]]
      BY <1>t, <2>2, <3>2, FilledAt
    <3>4. NumQueued + 1 <= job.frames => src'[Len(srcQ)] = NumQueued + 1
      BY <1>t, <2>2, <3>1, FilledAt
    <3>5. QED
      BY <2>0, <2>2, <3>1, <3>3, <3>4, FilledGives
  <2>3. QED
    BY <1>2, <1>t, <2>1, <2>2, PrimeGives
<1>3. CASE SrcQueue
  <2>1. /\ pc = "srcQueue" /\ pc' = "dstDequeue" /\ GivesSource(cur) /\ cur \in SrcIndex
        /\ UNCHANGED <<src, reads, job>>
    BY <1>3, <1>t, SrcQueueGives DEF SrcQueue, Types
  <2>2. NumQueued = reads - 1 /\ NumQueued' = NumQueued + 1
    BY <1>t, <2>1 DEF NumQueued
  <2>3. NumQueued + 1 <= job.frames => src'[cur] = NumQueued + 1
    BY <1>t, <2>1, <2>2 DEF SourcesFilled
  <2>4. QED
    BY <2>1, <2>2, <2>3, FilledGives
<1>4. CASE SrcRead
  <2>1. /\ pc = "srcRead" /\ pc' = "srcQueue" /\ cur' = cur /\ cur \in SrcIndex
        /\ src' = Filled(cur) /\ reads' = reads + 1 /\ job' = job
    BY <1>4, <1>t DEF SrcRead, Types
  <2>2. Sources' = Sources
    BY <1>4 DEF SrcRead, driverVars, Sources, SrcWithDriver
  <2>3. NumQueued' = NumQueued
    BY <1>t, <2>1 DEF NumQueued
  <2>4. \A i \in 1 .. Len(Sources) : src'[Sources[i]] = src[Sources[i]]
    BY <1>t, <2>1, FilledAt DEF Owned, Absent
  <2>5. reads' <= job.frames => src'[cur'] = reads'
    BY <1>t, <2>1, FilledAt
  <2>6. QED
    BY <2>1, <2>2, <2>3, <2>4, <2>5, FilledStays
<1>5. CASE SrcDequeue
  <2>1. /\ TakesSource /\ pc = "srcDequeue" /\ pc' # "srcQueue" /\ UNCHANGED <<src, reads, job>>
    BY <1>5, <1>t, SrcDequeueTakes DEF SrcDequeue
  <2>2. NumQueued = reads /\ NumQueued' = reads
    BY <2>1 DEF NumQueued
  <2>3. /\ Len(Sources') = Len(Sources) - 1 /\ Len(Sources) \in Nat \ {0}
        /\ \A i \in 1 .. Len(Sources) - 1 : Sources'[i] = Sources[i + 1]
    BY <1>t, <2>1, HeadTailProperties, EmptySeq DEF TakesSource
  <2>4. ASSUME NEW i \in 1 .. Len(Sources'), NumQueued' - Len(Sources') + i <= job'.frames
        PROVE  src'[Sources'[i]] = NumQueued' - Len(Sources') + i
    <3>1. i + 1 \in 1 .. Len(Sources) /\ NumQueued - Len(Sources) + (i + 1) = NumQueued' - Len(Sources') + i
      BY <1>t, <2>2, <2>3
    <3>2. src[Sources[i + 1]] = NumQueued - Len(Sources) + (i + 1)
      BY <2>1, <2>4, <3>1 DEF SourcesFilled
    <3>3. QED
      BY <2>1, <2>3, <3>1, <3>2
  <2>5. Len(Sources') <= NumQueued'
    BY <1>t, <2>1, <2>2, <2>3 DEF SourcesFilled
  <2>6. QED
    BY <2>1, <2>4, <2>5 DEF SourcesFilled
<1>6. CASE StreamOff
  <2>1. pc' = "done" /\ Empties /\ reads' = reads
    <3>1. pc' = "done" /\ reads' = reads /\ pc = "streamOff"
      BY <1>6 DEF StreamOff
    <3>2. srcDone' = <<>> /\ held' = <<>> /\ srcQ' = <<>> /\ dstDone' = <<>> /\ dstQ' = <<>>
      BY <1>6 DEF StreamOff
    <3>3. Sources' = <<>> /\ Destinations' = <<>>
      BY <3>2, NoIndexes DEF Sources, SrcWithDriver, Destinations, DstWithDriver, Indexes
    <3>4. QED
      BY <3>1, <3>3 DEF Empties
  <2>2. QED
    BY <1>t, <2>1 DEF SourcesFilled, NumQueued, Empties
<1>7. CASE StreamOn \/ Loop \/ DstWrite \/ DstQueue \/ DstDequeue \/ QueueAllBuffers \/ Driver \/ UNCHANGED vars
  <2>1. UNCHANGED <<src, reads, job>>
    BY <1>7 DEF StreamOn, Loop, DstDequeue, DstWrite, DstQueue, QueueAllBuffers, Driver, vars, progVars, driverVars
  <2>2. Sources' = Sources
    <3>1. CASE Driver
      BY <1>t, <3>1, DriverRests DEF Rests
    <3>2. CASE ~Driver
      BY <1>7, <3>2 DEF StreamOn, Loop, DstDequeue, DstWrite, DstQueue, QueueAllBuffers,
         vars, progVars, driverVars, Sources, SrcWithDriver
    <3>3. QED
      BY <3>1, <3>2
  <2>3. (pc' = "srcQueue" \/ pc = "srcQueue" \/ pc = "exited") => pc' = pc /\ cur' = cur
    BY <1>7 DEF StreamOn, Loop, DstDequeue, DstWrite, DstQueue, QueueAllBuffers, Driver, vars, progVars, driverVars
  <2>4. QED
    BY <2>1, <2>2, <2>3 DEF SourcesFilled, NumQueued
<1>8. QED
  BY <1>1, <1>2, <1>3, <1>4, <1>5, <1>6, <1>7 DEF Next, Program, Fail

-----------------------------------------------------------------------------
(* Which field each buffer is said to hold.                                *)

FieldAt(n) == IF n % 2 = 1 THEN V4L2_FIELD_TOP ELSE V4L2_FIELD_BOTTOM

\* With alternating fields the queued buffers are called a top field and a
\* bottom field in turn, and field is what the next one will be called.
Alternating ==
  job.interlace = 1 /\ pc # "exited" =>
    /\ field = FieldAt(NumQueued + 1)
    /\ \A i \in 1 .. Len(srcQ) : srcQ[i].field = FieldAt(NumQueued - Len(srcQ) + i)

LEMMA FieldsAlternate ==
  ASSUME NEW n \in Int
  PROVE  Toggled(FieldAt(n)) = FieldAt(n + 1)
<1>1. n % 2 = 1 <=> (n + 1) % 2 # 1
  OBVIOUS
<1>2. QED
  BY <1>1 DEF Toggled, FieldAt, V4L2_FIELD_TOP, V4L2_FIELD_BOTTOM

LEMMA AlternatingInit ==
  ASSUME Init
  PROVE  Alternating
BY DEF Init, Alternating, NumQueued, FieldAt, FirstField

LEMMA AlternatingGives ==
  ASSUME TypesAll, Alternating, job.interlace = 1, pc # "exited", job' = job,
         NEW b, srcQ' = Append(srcQ, [index |-> b, field |-> field]),
         [index |-> b, field |-> field] \in Queued,
         field' = Toggled(field), NumQueued' = NumQueued + 1
  PROVE  Alternating'
<1>1. srcQ \in Seq(Queued) /\ NumQueued \in Int
  BY DEF TypesAll, Types, NumQueued
<1>2. /\ Len(srcQ') = Len(srcQ) + 1 /\ Len(srcQ) \in Nat
      /\ \A i \in 1 .. Len(srcQ) : srcQ'[i] = srcQ[i]
      /\ srcQ'[Len(srcQ) + 1] = [index |-> b, field |-> field]
  BY <1>1, AppendProperties, LenProperties
<1>3. field' = FieldAt(NumQueued' + 1)
  <2>1. Toggled(FieldAt(NumQueued + 1)) = FieldAt(NumQueued + 1 + 1)
    BY <1>1, FieldsAlternate
  <2>2. QED
    BY <2>1 DEF Alternating
<1>4. ASSUME NEW i \in 1 .. Len(srcQ')
      PROVE  srcQ'[i].field = FieldAt(NumQueued' - Len(srcQ') + i)
  <2>1. NumQueued' - Len(srcQ') + i = NumQueued - Len(srcQ) + i
    BY <1>1, <1>2
  <2>2. CASE i = Len(srcQ) + 1
    <3>1. srcQ'[i].field = field /\ NumQueued - Len(srcQ) + i = NumQueued + 1
      BY <1>1, <1>2, <2>2
    <3>2. QED
      BY <2>1, <3>1 DEF Alternating
  <2>3. CASE i \in 1 .. Len(srcQ)
    BY <1>2, <2>1, <2>3 DEF Alternating
  <2>4. QED
    BY <1>2, <2>2, <2>3
<1>5. QED
  BY <1>3, <1>4 DEF Alternating

LEMMA AlternatingStep ==
  ASSUME TypesAll, Alternating, Running, [Next]_vars
  PROVE  Alternating'
<1> SUFFICES ASSUME job'.interlace = 1, pc' # "exited"
             PROVE  Alternating'
  BY DEF Alternating
<1>t. Types /\ NothingBack /\ job' = job /\ pc # "exited" /\ job.interlace = 1 /\ reads \in Nat
  <2>1. job' = job /\ pc # "exited"
    BY DEF Running, Passing, Next, Program, QueueAllBuffers, Prime, StreamOn, Loop, SrcDequeue,
       SrcRead, SrcQueue, DstDequeue, DstWrite, DstQueue, StreamOff, Fail, Driver,
       vars, progVars, driverVars
  <2>2. QED
    BY <2>1 DEF TypesAll, Types
<1>1. CASE Prime
  <2>0. pc = "prime"
    BY <1>1 DEF Prime
  <2>1. CASE pc' = "streamOn" /\ Rests /\ UNCHANGED <<src, reads, srcQ, field>>
    BY <1>t, <2>0, <2>1 DEF Alternating, NumQueued
  <2>2. CASE pc' = "prime" /\ Len(srcQ) \in SrcIndex /\ reads' = reads + 1
             /\ srcQ' = Append(srcQ, [index |-> Len(srcQ), field |-> field])
    <3>1. NumQueued' = NumQueued + 1
      BY <2>0, <2>2 DEF NumQueued
    <3>2. field' = Toggled(field)
      BY <1>1, <1>t, <2>2 DEF Prime
    <3>3. [index |-> Len(srcQ), field |-> field] \in Queued
      BY <1>t, <2>2 DEF Queued, Types
    <3>4. QED
      BY <1>t, <2>2, <3>1, <3>2, <3>3, AlternatingGives
  <2>3. QED
    BY <1>1, <1>t, <2>1, <2>2, PrimeGives
<1>2. CASE SrcQueue
  <2>1. /\ srcQ' = Append(srcQ, [index |-> cur, field |-> field]) /\ field' = Toggled(field)
        /\ NumQueued' = NumQueued + 1
    BY <1>2, <1>t DEF SrcQueue, NumQueued
  <2>2. [index |-> cur, field |-> field] \in Queued
    BY <1>2, <1>t DEF Queued, Types, SrcQueue
  <2>3. QED
    BY <1>t, <2>1, <2>2, AlternatingGives
<1>3. CASE Driver
  <2>1. UNCHANGED progVars /\ (srcQ' = srcQ \/ srcQ' = Tail(srcQ)) /\ srcQ # <<>>
    BY <1>3 DEF Driver
  <2>2. NumQueued' = NumQueued /\ field' = field /\ job' = job /\ NumQueued \in Int
    BY <1>t, <2>1 DEF progVars, NumQueued
  <2>3. CASE srcQ' = srcQ
    BY <1>t, <2>2, <2>3 DEF Alternating
  <2>4. CASE srcQ' = Tail(srcQ)
    <3>1. /\ Len(srcQ') = Len(srcQ) - 1 /\ Len(srcQ) \in Nat \ {0}
          /\ \A i \in 1 .. Len(srcQ) - 1 : srcQ'[i] = srcQ[i + 1]
      BY <1>t, <2>1, <2>4, HeadTailProperties, EmptySeq DEF Types
    <3>2. ASSUME NEW i \in 1 .. Len(srcQ')
          PROVE  srcQ'[i].field = FieldAt(NumQueued' - Len(srcQ') + i)
      <4>1. i + 1 \in 1 .. Len(srcQ) /\ NumQueued - Len(srcQ) + (i + 1) = NumQueued' - Len(srcQ') + i
        BY <2>2, <3>1
      <4>2. srcQ[i + 1].field = FieldAt(NumQueued - Len(srcQ) + (i + 1))
        BY <1>t, <4>1 DEF Alternating
      <4>3. QED
        BY <3>1, <4>1, <4>2
    <3>3. field' = FieldAt(NumQueued' + 1)
      BY <1>t, <2>2 DEF Alternating
    <3>4. QED
      BY <3>2, <3>3 DEF Alternating
  <2>5. QED
    BY <2>1, <2>3, <2>4
<1>4. CASE SrcRead
  <2>1. UNCHANGED <<srcQ, field>> /\ NumQueued' = NumQueued
    BY <1>4, <1>t DEF SrcRead, driverVars, NumQueued
  <2>2. QED
    BY <1>t, <2>1 DEF Alternating
<1>5. CASE StreamOff
  <2>1. srcQ' = <<>> /\ field' = field /\ NumQueued' = NumQueued
    BY <1>5, <1>t DEF StreamOff, NumQueued
  <2>2. QED
    BY <1>t, <2>1 DEF Alternating
<1>6. CASE StreamOn \/ Loop \/ DstWrite \/ DstQueue \/ DstDequeue \/ SrcDequeue \/ QueueAllBuffers
           \/ UNCHANGED vars
  <2>1. UNCHANGED <<srcQ, field, reads>>
    BY <1>6 DEF StreamOn, Loop, DstDequeue, DstWrite, DstQueue, SrcDequeue, QueueAllBuffers, vars,
       progVars, driverVars
  <2>2. pc' = pc \/ (pc # "srcQueue" /\ pc' # "srcQueue")
    BY <1>6 DEF StreamOn, Loop, DstDequeue, DstWrite, DstQueue, SrcDequeue, QueueAllBuffers, vars,
       progVars, driverVars
  <2>3. NumQueued' = NumQueued
    BY <2>1, <2>2 DEF NumQueued
  <2>4. QED
    BY <1>t, <2>1, <2>3 DEF Alternating
<1>7. QED
  BY <1>1, <1>2, <1>3, <1>4, <1>5, <1>6 DEF Next, Program, Fail

\* The buffers still to be used are the last of those with the driver.
LEMMA QueuedAt ==
  ASSUME Types, NEW i \in 1 .. Len(srcQ)
  PROVE  /\ Len(srcQ) \in Nat /\ Len(Sources) \in Nat /\ Len(Sources) >= Len(srcQ)
         /\ Len(Sources) - Len(srcQ) + i \in 1 .. Len(Sources)
         /\ Sources[Len(Sources) - Len(srcQ) + i] = srcQ[i].index
<1>1. /\ srcDone \in Seq(SrcIndex) /\ held \in Seq(Queued) /\ srcQ \in Seq(Queued)
      /\ Len(srcDone) \in Nat /\ Len(held) \in Nat /\ Len(srcQ) \in Nat
  BY LenProperties DEF Types
<1> DEFINE all == held \o srcQ
           k == Len(held) + i
<1>2. /\ all \in Seq(Queued) /\ Len(all) = Len(held) + Len(srcQ)
      /\ k \in 1 .. Len(all) /\ all[k] = srcQ[i]
  BY <1>1, ConcatProperties
<1> HIDE DEF all
<1>3. /\ Indexes(all) \in Seq(SrcIndex) /\ Len(Indexes(all)) = Len(all)
      /\ Indexes(all)[k] = srcQ[i].index
  BY <1>2, QueuedIndexes
<1>4. Sources = srcDone \o Indexes(all)
  BY DEF Sources, SrcWithDriver, Indexes, all
<1>5. /\ Len(Sources) = Len(srcDone) + Len(all)
      /\ Len(srcDone) + k \in 1 .. Len(Sources)
      /\ Sources[Len(srcDone) + k] = Indexes(all)[k]
  <2>1. /\ Len(Sources) = Len(srcDone) + Len(all)
        /\ \A m \in 1 .. Len(srcDone) + Len(all) :
              Sources[m] = IF m <= Len(srcDone) THEN srcDone[m] ELSE Indexes(all)[m - Len(srcDone)]
    <3> DEFINE t == Indexes(all)
    <3>1. t \in Seq(SrcIndex) /\ Len(t) = Len(all) /\ Sources = srcDone \o t
      BY <1>3, <1>4
    <3> HIDE DEF t
    <3>2. /\ Len(srcDone \o t) = Len(srcDone) + Len(t)
          /\ \A m \in 1 .. Len(srcDone) + Len(t) :
                (srcDone \o t)[m] = IF m <= Len(srcDone) THEN srcDone[m] ELSE t[m - Len(srcDone)]
      BY <1>1, <3>1, ConcatProperties
    <3>3. QED
      BY <3>1, <3>2 DEF t
  <2>2. /\ Len(srcDone) + k \in 1 .. Len(srcDone) + Len(all)
        /\ ~ (Len(srcDone) + k <= Len(srcDone)) /\ (Len(srcDone) + k) - Len(srcDone) = k
    BY <1>1, <1>2
  <2> HIDE DEF k
  <2>3. QED
    BY <2>1, <2>2
<1>6. Len(srcDone) + k = Len(Sources) - Len(srcQ) + i
  BY <1>1, <1>2, <1>5
<1>7. QED
  BY <1>1, <1>2, <1>3, <1>5, <1>6

\* FieldMatchesData before the program is stopped, and when it is.
LEMMA FieldsMatch ==
  ASSUME TypesAll, SourcesFilled, Alternating, pc # "exited"
  PROVE  FieldMatchesData
<1> SUFFICES ASSUME job.interlace = 1, reads <= job.frames, NEW i \in 1 .. Len(srcQ)
             PROVE  srcQ[i].field = FieldAt(src[srcQ[i].index])
  BY DEF FieldMatchesData, FieldAt
<1>1. /\ Len(srcQ) \in Nat /\ Len(Sources) \in Nat
      /\ Len(Sources) - Len(srcQ) + i \in 1 .. Len(Sources)
      /\ Sources[Len(Sources) - Len(srcQ) + i] = srcQ[i].index
  BY QueuedAt DEF TypesAll
<1>r. reads \in Nat /\ NumQueued \in Int /\ NumQueued <= reads /\ job.frames \in Nat
  BY JobTypes DEF TypesAll, Types, NumQueued
<1>2. /\ NumQueued - Len(Sources) + (Len(Sources) - Len(srcQ) + i) = NumQueued - Len(srcQ) + i
      /\ NumQueued - Len(srcQ) + i <= job.frames
  BY <1>1, <1>r
<1>3. src[srcQ[i].index] = NumQueued - Len(srcQ) + i
  BY <1>1, <1>2 DEF SourcesFilled
<1>4. QED
  BY <1>3 DEF Alternating

FieldsInv ==
  /\ SourcesFilled /\ Alternating
  /\ pc = "exited" => FieldMatchesData

LEMMA FieldsStep ==
  ASSUME TypesAll, Owned, Running, FieldsInv, [Next]_vars
  PROVE  FieldsInv'
<1>1. SourcesFilled' /\ Alternating'
  BY FilledStep, AlternatingStep DEF FieldsInv
<1>2. FieldMatchesData
  BY FieldsMatch DEF FieldsInv
<1>3. ASSUME pc' = "exited"
      PROVE  FieldMatchesData'
  <2>1. UNCHANGED <<job, reads, srcQ, src>>
    BY <1>3 DEF Running, Passing, Next, Program, QueueAllBuffers, Prime, StreamOn, Loop, SrcDequeue,
       SrcRead, SrcQueue, DstDequeue, DstWrite, DstQueue, StreamOff, Fail, Driver,
       vars, progVars, driverVars
  <2>2. QED
    BY <1>2, <2>1 DEF FieldMatchesData
<1>4. QED
  BY <1>1, <1>3 DEF FieldsInv

LEMMA FieldsInvariant == Spec => []FieldsInv
<1>1. Init => FieldsInv
  BY FilledInit, AlternatingInit DEF FieldsInv, Init
<1>2. TypesAll /\ Owned /\ Running /\ FieldsInv /\ [Next]_vars => FieldsInv'
  BY FieldsStep
<1>3. QED
  BY <1>1, <1>2, OwnedInvariant, RunningInvariant, PTL DEF Spec

\* With alternating fields every queued buffer is called what the field of
\* the file that it holds is, for every job and however the program ends.
THEOREM V4l2FieldMatchesData == Spec => []FieldMatchesData
<1>1. TypesAll /\ FieldsInv => FieldMatchesData
  BY FieldsMatch DEF FieldsInv
<1>2. QED
  BY <1>1, FieldsInvariant, TypesInvariant, PTL

-----------------------------------------------------------------------------
(* What is written: module FrameConverter.  The frames made are numbered   *)
(* as the fields of the file are; the driver has made all of those of the  *)
(* source buffers it is through with, and half of the one at hand.         *)

\* The fields that m source buffers hold.
Fields(m) == IF job.interlace >= 2 THEN 2 * m ELSE m

\* The frames the program has taken from the driver.
Taken == Len(out) + (IF pc = "dstWrite" THEN 1 ELSE 0)

FramesMade ==
  pc \notin {"exited", "done"} =>
    /\ Taken + Len(dstDone) = Fields(NumQueued - Len(srcQ)) + half
    /\ \A j \in 1 .. Len(dstDone) :
         Taken + j <= Fields(job.frames) => dst[dstDone[j]] = Taken + j
    /\ pc = "dstWrite" /\ Taken <= Fields(job.frames) => dst[cur] = Taken

LEMMA MadeInit ==
  ASSUME Init
  PROVE  FramesMade
<1>1. job.interlace \in 0 .. 3
  BY JobTypes DEF Init
<1>2. Taken = 0 /\ NumQueued = 0 /\ Len(srcQ) = 0 /\ Len(dstDone) = 0 /\ half = 0
  BY DEF Init, Taken, NumQueued
<1>3. Fields(NumQueued - Len(srcQ)) = 0
  BY <1>1, <1>2 DEF Fields
<1>4. QED
  BY <1>2, <1>3 DEF Init, FramesMade

\* Steps that neither make a frame nor take one.
LEMMA MadeStays ==
  ASSUME FramesMade, pc \notin {"exited", "done"}, job' = job,
         Taken' = Taken, NumQueued' - Len(srcQ') = NumQueued - Len(srcQ), half' = half,
         UNCHANGED <<dst, dstDone>>,
         pc' = "dstWrite" => pc = "dstWrite" /\ cur' = cur
  PROVE  FramesMade'
<1>1. Fields(NumQueued - Len(srcQ))' = Fields(NumQueued - Len(srcQ)) /\ Fields(job.frames)' = Fields(job.frames)
  BY DEF Fields
<1>2. QED
  BY <1>1 DEF FramesMade

LEMMA MadeDriver ==
  ASSUME TypesAll, Owned, Running, SourcesFilled, FramesMade, Driver
  PROVE  FramesMade'
<1>t. /\ srcQ \in Seq(Queued) /\ dstQ \in Seq(DstIndex) /\ dstDone \in Seq(DstIndex)
      /\ dst \in [DstIndex -> Int] /\ half \in 0 .. FieldsPerBuffer - 1
      /\ FieldsPerBuffer = IF job.interlace >= 2 THEN 2 ELSE 1
      /\ job.interlace \in 0 .. 3 /\ job.frames \in Nat /\ Len(out) \in Nat /\ NumQueued \in Int
  BY JobTypes, LenProperties DEF TypesAll, Types, FieldsPerBuffer, NumQueued
<1>p. /\ pc \in Passing \cup {"loop", "streamOff"} /\ pc' = pc /\ job' = job /\ cur' = cur
      /\ out' = out /\ reads' = reads /\ src' = src
  BY DEF Driver, Running, progVars
<1>n. Taken' = Taken /\ NumQueued' = NumQueued /\ Taken \in Nat
  BY <1>t, <1>p DEF Taken, NumQueued
<1>q. /\ srcQ # <<>> /\ dstQ # <<>> /\ Len(srcQ) \in Nat \ {0} /\ Len(dstDone) \in Nat
      /\ Len(Tail(srcQ)) = Len(srcQ) - 1 /\ Len(dstQ) \in Nat \ {0}
      /\ Head(srcQ) = srcQ[1] /\ Head(dstQ) = dstQ[1] /\ Head(dstQ) \in DstIndex
  BY <1>t, HeadTailProperties, EmptySeq, LenProperties DEF Driver
<1> DEFINE made == (src[Head(srcQ).index] - 1) * FieldsPerBuffer + half + 1
           next == Taken + Len(dstDone) + 1
<1>1. /\ dst' = [dst EXCEPT ![Head(dstQ)] = made]
      /\ dstDone' = Append(dstDone, Head(dstQ))
  BY DEF Driver
<1>2. Taken' + Len(dstDone') = Fields(NumQueued - Len(srcQ))' + half'
  <2>1. Len(dstDone') = Len(dstDone) + 1
    BY <1>1, <1>t, <1>q, AppendProperties
  <2>2. Taken + Len(dstDone) = Fields(NumQueued - Len(srcQ)) + half
    BY <1>p DEF FramesMade, Passing
  <2>a. Fields(NumQueued - Len(srcQ))' = Fields(NumQueued - Len(srcQ'))
    BY <1>p, <1>n DEF Fields
  <2>b. Fields(NumQueued - Len(srcQ)) \in Int
    BY <1>t, <1>q DEF Fields
  <2>3. CASE half + 1 < FieldsPerBuffer /\ half' = half + 1 /\ srcQ' = srcQ
    <3>1. Fields(NumQueued - Len(srcQ))' + half' = Fields(NumQueued - Len(srcQ)) + half + 1
      BY <1>t, <2>3, <2>a, <2>b
    <3>2. Taken' + Len(dstDone') = Taken + Len(dstDone) + 1
      BY <1>n, <1>q, <2>1
    <3>3. QED
      BY <2>2, <3>1, <3>2
  <2>4. CASE half + 1 = FieldsPerBuffer /\ half' = 0 /\ srcQ' = Tail(srcQ)
    <3>1. Fields(NumQueued - Len(srcQ')) = Fields(NumQueued - Len(srcQ)) + FieldsPerBuffer
      BY <1>t, <1>q, <2>4 DEF Fields
    <3>2. Fields(NumQueued - Len(srcQ))' + half' = Fields(NumQueued - Len(srcQ)) + half + 1
      BY <1>t, <2>4, <2>a, <2>b, <3>1
    <3>3. Taken' + Len(dstDone') = Taken + Len(dstDone) + 1
      BY <1>n, <1>q, <2>1
    <3>4. QED
      BY <2>2, <3>2, <3>3
  <2>5. QED
    BY <2>3, <2>4 DEF Driver
<1>3. ASSUME next <= Fields(job.frames)
      PROVE  made = next
  <2>1. next = Fields(NumQueued - Len(srcQ)) + half + 1
    BY <1>p, <1>t, <1>n, <1>q DEF FramesMade, Passing
  <2>2. NumQueued - Len(srcQ) + 1 <= job.frames
    BY <1>3, <1>t, <1>q, <2>1 DEF Fields
  <2>3. src[Head(srcQ).index] = NumQueued - Len(srcQ) + 1
    <3>1. /\ Len(Sources) \in Nat /\ Len(Sources) - Len(srcQ) + 1 \in 1 .. Len(Sources)
          /\ Sources[Len(Sources) - Len(srcQ) + 1] = srcQ[1].index
      <4>1. 1 \in 1 .. Len(srcQ)
        BY <1>q
      <4>2. QED
        BY <4>1, QueuedAt DEF TypesAll
    <3>2. NumQueued - Len(Sources) + (Len(Sources) - Len(srcQ) + 1) = NumQueued - Len(srcQ) + 1
      BY <1>t, <1>q, <3>1
    <3>3. QED
      BY <1>p, <1>q, <2>2, <3>1, <3>2 DEF SourcesFilled, Passing
  <2>4. made = (NumQueued - Len(srcQ)) * FieldsPerBuffer + half + 1
    BY <1>t, <1>q, <2>3
  <2> HIDE DEF made, next
  <2>5. CASE job.interlace >= 2
    <3>1. FieldsPerBuffer = 2 /\ next = 2 * (NumQueued - Len(srcQ)) + half + 1
      BY <1>t, <2>1, <2>5 DEF Fields
    <3>2. QED
      BY <1>t, <1>q, <2>4, <3>1
  <2>6. CASE ~ (job.interlace >= 2)
    <3>1. FieldsPerBuffer = 1 /\ next = NumQueued - Len(srcQ) + half + 1
      BY <1>t, <2>1, <2>6 DEF Fields
    <3>2. QED
      BY <1>t, <1>q, <2>4, <3>1
  <2>7. QED
    BY <2>5, <2>6
<1> HIDE DEF made, next
<1>4. \A j \in 1 .. Len(dstDone) : dstDone[j] # Head(dstQ) /\ dst'[dstDone[j]] = dst[dstDone[j]]
  <2> SUFFICES ASSUME NEW j \in 1 .. Len(dstDone)
               PROVE  dstDone[j] # Head(dstQ) /\ dst'[dstDone[j]] = dst[dstDone[j]]
    OBVIOUS
  <2>1. dstDone[j] \in DstIndex
    BY <1>t, ElementOfSeq
  <2>2. /\ Len(Destinations) = Len(dstDone) + Len(dstQ)
        /\ Destinations[j] = dstDone[j] /\ Destinations[Len(dstDone) + 1] = dstQ[1]
        /\ j \in 1 .. Len(Destinations) /\ Len(dstDone) + 1 \in 1 .. Len(Destinations)
    <3>1. /\ Len(Destinations) = Len(dstDone) + Len(dstQ)
          /\ \A i \in 1 .. Len(dstDone) + Len(dstQ) :
                Destinations[i] = IF i <= Len(dstDone) THEN dstDone[i] ELSE dstQ[i - Len(dstDone)]
      BY <1>t, ConcatProperties DEF Destinations, DstWithDriver
    <3>2. j \in 1 .. Len(dstDone) + Len(dstQ) /\ Len(dstDone) + 1 \in 1 .. Len(dstDone) + Len(dstQ)
          /\ j <= Len(dstDone) /\ ~ (Len(dstDone) + 1 <= Len(dstDone)) /\ Len(dstDone) + 1 - Len(dstDone) = 1
      BY <1>q
    <3>3. QED
      BY <3>1, <3>2
  <2>3. dstDone[j] # dstQ[1]
    <3>1. Destinations[j] = Destinations[Len(dstDone) + 1] => j = Len(dstDone) + 1
      BY <2>2 DEF Owned, Distinct
    <3>2. j # Len(dstDone) + 1
      BY <1>q
    <3>3. QED
      BY <2>2, <3>1, <3>2
  <2>4. QED
    BY <1>1, <1>t, <1>q, <2>1, <2>3
<1>5. pc = "dstWrite" => cur # Head(dstQ) /\ dst'[cur] = dst[cur]
  <2> SUFFICES ASSUME pc = "dstWrite"
               PROVE  cur # Head(dstQ) /\ dst'[cur] = dst[cur]
    OBVIOUS
  <2>1. cur \in DstIndex
    BY DEF TypesAll, Types
  <2>2. /\ Len(Destinations) = Len(dstDone) + Len(dstQ) /\ Destinations[Len(dstDone) + 1] = dstQ[1]
        /\ Len(dstDone) + 1 \in 1 .. Len(Destinations)
    <3>1. /\ Len(Destinations) = Len(dstDone) + Len(dstQ)
          /\ \A i \in 1 .. Len(dstDone) + Len(dstQ) :
                Destinations[i] = IF i <= Len(dstDone) THEN dstDone[i] ELSE dstQ[i - Len(dstDone)]
      BY <1>t, ConcatProperties DEF Destinations, DstWithDriver
    <3>2. Len(dstDone) + 1 \in 1 .. Len(dstDone) + Len(dstQ)
          /\ ~ (Len(dstDone) + 1 <= Len(dstDone)) /\ Len(dstDone) + 1 - Len(dstDone) = 1
      BY <1>q
    <3>3. QED
      BY <3>1, <3>2
  <2>3. cur # dstQ[1]
    BY <2>2 DEF Owned, Absent
  <2>4. QED
    BY <1>1, <1>t, <1>q, <2>1, <2>3
<1>6. ASSUME NEW j \in 1 .. Len(dstDone'), Taken' + j <= Fields(job.frames)'
      PROVE  dst'[dstDone'[j]] = Taken' + j
  <2>1. /\ Len(dstDone') = Len(dstDone) + 1 /\ dstDone'[Len(dstDone) + 1] = Head(dstQ)
        /\ \A i \in 1 .. Len(dstDone) : dstDone'[i] = dstDone[i]
    BY <1>1, <1>t, <1>q, AppendProperties
  <2>2. Taken + j <= Fields(job.frames)
    BY <1>6, <1>p, <1>n DEF Fields
  <2>3. CASE j = Len(dstDone) + 1
    <3>1. next = Taken' + j
      BY <1>n, <1>q, <2>3 DEF next
    <3>2. made = next
      BY <1>3, <1>n, <2>2, <3>1
    <3>3. dst'[Head(dstQ)] = made
      BY <1>1, <1>t, <1>q
    <3>4. QED
      BY <2>1, <2>3, <3>1, <3>2, <3>3
  <2>4. CASE j \in 1 .. Len(dstDone)
    BY <1>4, <1>p, <1>n, <2>1, <2>2, <2>4 DEF FramesMade, Passing
  <2>5. QED
    BY <1>q, <2>1, <2>3, <2>4
<1>7. pc' = "dstWrite" /\ Taken' <= Fields(job.frames)' => dst'[cur'] = Taken'
  BY <1>5, <1>p, <1>n DEF FramesMade, Fields
<1>8. QED
  BY <1>2, <1>6, <1>7, <1>p DEF FramesMade, Fields

LEMMA MadeStep ==
  ASSUME TypesAll, Owned, Running, SourcesFilled, FramesMade, [Next]_vars
  PROVE  FramesMade'
<1> SUFFICES ASSUME pc' \notin {"exited", "done"}
             PROVE  FramesMade'
  BY DEF FramesMade
<1>t. Types /\ NothingBack /\ reads \in Nat /\ Len(out) \in Nat /\ Len(srcQ) \in Nat
  BY LenProperties DEF TypesAll, Types
<1>u. job' = job /\ pc \notin {"exited", "done"}
  BY DEF Running, Passing, Next, Program, QueueAllBuffers, Prime, StreamOn, Loop, SrcDequeue,
     SrcRead, SrcQueue, DstDequeue, DstWrite, DstQueue, StreamOff, Fail, Driver,
     vars, progVars, driverVars
<1>1. CASE Prime
  <2>0. pc = "prime" /\ UNCHANGED <<out, dst, dstDone, half>>
    BY <1>1 DEF Prime
  <2>1. CASE pc' = "streamOn" /\ Rests /\ UNCHANGED <<src, reads, srcQ, field>>
    BY <1>u, <2>0, <2>1, MadeStays DEF Taken, NumQueued
  <2>2. CASE pc' = "prime" /\ Len(srcQ) \in SrcIndex /\ reads' = reads + 1
             /\ srcQ' = Append(srcQ, [index |-> Len(srcQ), field |-> field])
    <3>1. [index |-> Len(srcQ), field |-> field] \in Queued
      BY <1>t, <2>2 DEF Queued, Types
    <3>2. Len(srcQ') = Len(srcQ) + 1
      BY <1>t, <2>2, <3>1, AppendProperties DEF Types
    <3>3. NumQueued' - Len(srcQ') = NumQueued - Len(srcQ) /\ Taken' = Taken
      BY <1>t, <2>0, <2>2, <3>2 DEF NumQueued, Taken
    <3>4. QED
      BY <1>u, <2>0, <2>2, <3>3, MadeStays
  <2>3. QED
    BY <1>1, <1>t, <2>1, <2>2, PrimeGives
<1>2. CASE SrcQueue
  <2>1. /\ srcQ' = Append(srcQ, [index |-> cur, field |-> field]) /\ pc = "srcQueue" /\ pc' = "dstDequeue"
        /\ UNCHANGED <<reads, out, dst, dstDone, half>>
    BY <1>2 DEF SrcQueue
  <2>2. [index |-> cur, field |-> field] \in Queued
    BY <1>t, <2>1 DEF Queued, Types
  <2>3. Len(srcQ') = Len(srcQ) + 1
    BY <1>t, <2>1, <2>2, AppendProperties DEF Types
  <2>4. NumQueued' - Len(srcQ') = NumQueued - Len(srcQ) /\ Taken' = Taken
    BY <1>t, <2>1, <2>3 DEF NumQueued, Taken
  <2>5. QED
    BY <1>u, <2>1, <2>4, MadeStays
<1>3. CASE SrcRead
  <2>1. /\ pc = "srcRead" /\ pc' = "srcQueue" /\ reads' = reads + 1
        /\ UNCHANGED <<srcQ, out, dst, dstDone, half>>
    BY <1>3 DEF SrcRead, driverVars
  <2>2. NumQueued' = NumQueued /\ Taken' = Taken
    BY <1>t, <2>1 DEF NumQueued, Taken
  <2>3. QED
    BY <1>u, <2>1, <2>2, MadeStays
<1>4. CASE DstDequeue
  <2>1. /\ pc = "dstDequeue" /\ pc' = "dstWrite" /\ dstDone # <<>>
        /\ cur' = Head(dstDone) /\ dstDone' = Tail(dstDone)
        /\ UNCHANGED <<reads, srcQ, out, dst, half>>
    BY <1>4 DEF DstDequeue
  <2>2. /\ Len(dstDone') = Len(dstDone) - 1 /\ Len(dstDone) \in Nat \ {0}
        /\ \A i \in 1 .. Len(dstDone) - 1 : dstDone'[i] = dstDone[i + 1]
        /\ cur' = dstDone[1]
    BY <1>t, <2>1, HeadTailProperties, EmptySeq DEF Types
  <2>3. Taken' = Taken + 1 /\ NumQueued' = NumQueued /\ Taken \in Nat
    BY <1>t, <2>1 DEF Taken, NumQueued
  <2>4. Fields(job.frames)' = Fields(job.frames) /\ Fields(NumQueued - Len(srcQ))' = Fields(NumQueued - Len(srcQ))
    BY <1>u, <2>1, <2>3 DEF Fields
  <2>5. /\ Taken + Len(dstDone) = Fields(NumQueued - Len(srcQ)) + half
        /\ \A j \in 1 .. Len(dstDone) :
             Taken + j <= Fields(job.frames) => dst[dstDone[j]] = Taken + j
    BY <1>u DEF FramesMade
  <2>6. Taken' + Len(dstDone') = Fields(NumQueued - Len(srcQ))' + half'
    <3>1. Taken' + Len(dstDone') = Taken + Len(dstDone)
      BY <2>2, <2>3
    <3>2. QED
      BY <2>1, <2>4, <2>5, <3>1
  <2>7. ASSUME NEW j \in 1 .. Len(dstDone'), Taken' + j <= Fields(job.frames)'
        PROVE  dst'[dstDone'[j]] = Taken' + j
    <3>1. j + 1 \in 1 .. Len(dstDone) /\ Taken + (j + 1) = Taken' + j
      BY <2>2, <2>3
    <3>2. dst[dstDone[j + 1]] = Taken + (j + 1)
      BY <2>4, <2>5, <2>7, <3>1
    <3>3. QED
      BY <2>1, <2>2, <3>1, <3>2
  <2>8. Taken' <= Fields(job.frames)' => dst'[cur'] = Taken'
    <3>1. 1 \in 1 .. Len(dstDone)
      BY <2>2
    <3>2. QED
      BY <2>1, <2>2, <2>3, <2>4, <2>5, <3>1
  <2>9. QED
    BY <2>6, <2>7, <2>8 DEF FramesMade
<1>5. CASE DstWrite
  <2>1. /\ pc = "dstWrite" /\ pc' = "dstQueue" /\ UNCHANGED <<reads, srcQ, dst, dstDone, half>>
        /\ out' = Append(out, dst[cur]) /\ dst[cur] \in Int
    BY <1>5, <1>t DEF DstWrite, driverVars, Types
  <2>2. Len(out') = Len(out) + 1
    BY <1>t, <2>1, AppendProperties DEF Types
  <2>3. Taken' = Taken /\ NumQueued' = NumQueued
    BY <1>t, <2>1, <2>2 DEF Taken, NumQueued
  <2>4. QED
    BY <1>u, <2>1, <2>3, MadeStays
<1>6. CASE Driver
  BY <1>6, MadeDriver
<1>7. CASE QueueAllBuffers \/ StreamOn \/ Loop \/ SrcDequeue \/ DstQueue \/ UNCHANGED vars
  <2>1. UNCHANGED <<reads, srcQ, out, dst, dstDone, half>>
    BY <1>7 DEF QueueAllBuffers, StreamOn, Loop, SrcDequeue, DstQueue, vars, progVars, driverVars
  <2>2. \/ pc' = pc /\ cur' = cur
        \/ pc \notin {"srcQueue", "dstWrite"} /\ pc' \notin {"srcQueue", "dstWrite"}
    BY <1>7 DEF QueueAllBuffers, StreamOn, Loop, SrcDequeue, DstQueue, vars, progVars, driverVars
  <2>3. Taken' = Taken /\ NumQueued' = NumQueued
    BY <2>1, <2>2 DEF Taken, NumQueued
  <2>4. QED
    BY <1>u, <2>1, <2>2, <2>3, MadeStays
<1>8. QED
  BY <1>1, <1>2, <1>3, <1>4, <1>5, <1>6, <1>7 DEF Next, Program, Fail, StreamOff

LEMMA MadeInvariant == Spec => []FramesMade
<1>1. TypesAll /\ Owned /\ Running /\ FieldsInv /\ FramesMade /\ [Next]_vars => FramesMade'
  BY MadeStep DEF FieldsInv
<1>2. Init => FramesMade
  BY MadeInit
<1>3. QED
  BY <1>1, <1>2, OwnedInvariant, RunningInvariant, FieldsInvariant, PTL DEF Spec

\* The input file has the fields that the frames asked for are made from.
LongEnough ==
  \A j \in Jobs : j.num_frames <= (IF j.interlace >= 2 THEN 2 * j.frames ELSE j.frames)

LEMMA WritesInOrder ==
  ASSUME EvenCounts, LongEnough, TypesAll, Counted, FramesMade, [Next]_vars
  PROVE  [Converter!Write]_(Converter!vars)
<1>1. CASE DstWrite
  <2>1. /\ pc = "dstWrite" /\ job' = job /\ out' = Append(out, dst[cur])
        /\ job \in Jobs /\ Len(out) \in Nat /\ iter \in 1 .. 2 /\ num_frames \in Int
        /\ job.num_frames \in Nat
    BY <1>1, JobTypes, LenProperties DEF DstWrite, TypesAll, Types, Passing
  <2>2. iter <= num_frames /\ num_frames + Len(out) = job.num_frames
    BY <2>1 DEF Counted, Passing
  <2>3. Len(out) < job.num_frames
    BY <2>1, <2>2
  <2>4. job.num_frames <= Fields(job.frames) /\ Fields(job.frames) \in Nat
    BY <2>1, JobTypes DEF LongEnough, Fields
  <2>5. Taken = Len(out) + 1
    BY <2>1 DEF Taken
  <2>6. Taken <= Fields(job.frames)
    BY <2>1, <2>3, <2>4, <2>5
  <2>7. dst[cur] = Len(out) + 1
    BY <2>1, <2>5, <2>6 DEF FramesMade
  <2>8. QED
    BY <2>1, <2>3, <2>7 DEF Converter!Write
<1>2. CASE ~DstWrite
  <2>1. out' = out /\ job' = job
    BY <1>2 DEF Next, Program, QueueAllBuffers, Prime, StreamOn, Loop, SrcDequeue,
       SrcRead, SrcQueue, DstDequeue, DstQueue, StreamOff, Fail, Driver, vars, progVars, driverVars
  <2>2. QED
    BY <2>1 DEF Converter!vars
<1>3. QED
  BY <1>1, <1>2

\* However program and driver interleave, and however many buffers are
\* granted, what is written is the frames asked for, each once and in order:
\* the conversion implements FrameConverter, if the file is long enough and
\* the counts of sequential frames are even.
THEOREM V4l2ConvertsInOrder ==
  ASSUME EvenCounts, LongEnough
  PROVE  Spec => ConvertsInOrder
<1>1. Init => Converter!Init
  BY JobTypes DEF Init, Converter!Init
<1>2. TypesAll /\ Counted /\ FramesMade /\ [Next]_vars => [Converter!Write]_(Converter!vars)
  BY WritesInOrder
<1>3. QED
  BY <1>1, <1>2, TypesInvariant, CountedInvariant, MadeInvariant, PTL
     DEF Spec, ConvertsInOrder, Converter!Spec

=============================================================================
