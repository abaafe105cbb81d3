-------------------------- MODULE HandshakeProofs --------------------------
(***************************************************************************)
(* Proofs about module Handshake, for every set of plans, every number of  *)
(* threads and every set of library calls that may fail.  All of them rest *)
(* on the invariant IInv, which says for each place the host's main thread *)
(* may be in where the one message is and how much the slave knows.        *)
(***************************************************************************)
EXTENDS Handshake, TLAPS

-----------------------------------------------------------------------------
(* Facts about the message service and the plan. *)

\* The two queues of the handshake are registered under different names.
LEMMA QueueNames ==
  HandshakeQ \in QueueName /\ SlaveProcQ \in QueueName /\ HandshakeQ # SlaveProcQ
BY DEF QueueName, HandshakeQ, SlaveProcQ

\* A put on a registered queue that is empty leaves one message in it.
LEMMA PutFirst ==
  ASSUME NEW p \in [QueueName -> Seq(Message)], NEW q \in QueueName,
         NEW m \in Message, q \in exists, p[q] = <<>>
  PROVE  /\ WithPut(p, q, m) = [p EXCEPT ![q] = <<m>>]
         /\ WithPut(p, q, m) \in [QueueName -> Seq(Message)]
<1>1. Append(<<>>, m) = <<m>> /\ <<m>> \in Seq(Message)
  OBVIOUS
<1>2. QED
  BY <1>1 DEF WithPut

\* A get from a queue with one message takes it and leaves the queue empty.
LEMMA TakeOnly ==
  ASSUME NEW p \in [QueueName -> Seq(Message)], NEW q \in QueueName,
         NEW m \in Message, p[q] = <<m>>
  PROVE  /\ Head(p[q]) = m
         /\ WithoutHead(p, q) = [p EXCEPT ![q] = <<>>]
         /\ WithoutHead(p, q) \in [QueueName -> Seq(Message)]
<1>1. Head(<<m>>) = m /\ Tail(<<m>>) = <<>> /\ <<>> \in Seq(Message)
  OBVIOUS
<1>2. QED
  BY <1>1 DEF WithoutHead

\* A plan is a sequence of lines, at least one, each with its three numbers.
LEMMA PlanFacts ==
  ASSUME plan \in Plans
  PROVE  /\ plan \in Seq(ThreadConf) /\ Len(plan) \in Nat \ {0}
         /\ \A i \in 1 .. Len(plan) :
              /\ plan[i].msgSize \in Nat /\ plan[i].msgCount \in Nat
              /\ plan[i].direction \in ThreadDirection
<1>1. plan \in Seq(ThreadConf) /\ Len(plan) \in Thread
  BY PlansAssumption
<1>2. \A i \in 1 .. Len(plan) : plan[i] \in ThreadConf
  BY <1>1
<1>3. QED
  BY <1>1, <1>2, MaxThreadsAssumption DEF Thread, ThreadConf

\* The handshake's two kinds of message are messages.
LEMMA MessageFacts ==
  ASSUME NEW n \in Nat, NEW c \in ThreadConf, NEW off \in Nat
  PROVE  /\ CountMsg(n) \in Message /\ CountMsg(n).numThreads = n
         /\ ConfMsg(c, off) \in Message /\ ConfMsg(c, off) \in TaskConf
BY BufBaseAssumption DEF Message, CountMsg, ConfMsg, TaskConf, ThreadConf

-----------------------------------------------------------------------------
(* The invariant. *)

LEMMA InitIInv == Init => IInv
<1> SUFFICES ASSUME Init PROVE IInv
  OBVIOUS
<1>0. plan \in Plans /\ Len(plan) \in Nat
  BY PlanFacts DEF Init
<1>1. TypeOK
  <2>1. pending \in [QueueName -> Seq(Message)] /\ table \in Seq(TaskConf)
    BY DEF Init, MqInit
  <2>2. live \in {0, 1} /\ fault \in BOOLEAN /\ exists \subseteq {HandshakeQ, SlaveProcQ}
    BY DEF Init, MqInit
  <2>3. QED
    BY <1>0, <2>1, <2>2 DEF Init, TypeOK, HostPc, SlavePc
<1>2. Nowhere
  BY QueueNames DEF Init, MqInit, Nowhere
<1>3. QED
  BY <1>1, <1>2, PlanFacts DEF IInv, Init, MqInit, TableFollowsPlan, RegionsTile,
     QueuesInv, BeforeCount, DuringCount, BeforeConf, DuringConf, AfterConf, NotTold

LEMMA HostCreateIInv == IInv /\ HostCreate => IInv'
<1> SUFFICES ASSUME IInv, HostCreate PROVE IInv'
  OBVIOUS
<1> USE QueueNames DEF HostCreate, Create, CreateFails, slaveVars
<1>1. TypeOK'
  BY DEF IInv, TypeOK, HostPc, SlavePc
<1>2. TableFollowsPlan' /\ RegionsTile'
  BY DEF IInv, TableFollowsPlan, RegionsTile
<1>3. QueuesInv'
  BY DEF IInv, QueuesInv
<1>4. Nowhere' /\ NotTold' /\ live' = 0
  BY DEF IInv, BeforeCount, Nowhere, NotTold
<1>5. BeforeCount' /\ DuringCount' /\ BeforeConf' /\ DuringConf' /\ AfterConf'
  BY <1>4 DEF IInv, BeforeCount, DuringCount, BeforeConf, DuringConf, AfterConf, QueuesInv
<1>6. QED
  BY <1>1, <1>2, <1>3, <1>5 DEF IInv

LEMMA HostOpenIInv == IInv /\ HostOpen => IInv'
<1> SUFFICES ASSUME IInv, HostOpen PROVE IInv'
  OBVIOUS
<1> USE QueueNames DEF HostOpen, Fails, slaveVars
<1>1. TypeOK'
  BY DEF IInv, TypeOK, HostPc, SlavePc
<1>2. TableFollowsPlan' /\ RegionsTile'
  BY DEF IInv, TableFollowsPlan, RegionsTile
<1>3. QueuesInv'
  BY DEF IInv, QueuesInv
<1>4. Nowhere' /\ NotTold' /\ live' = 0
  BY DEF IInv, BeforeCount, Nowhere, NotTold
<1>5. BeforeCount' /\ DuringCount' /\ BeforeConf' /\ DuringConf' /\ AfterConf'
  BY <1>4 DEF IInv, BeforeCount, DuringCount, BeforeConf, DuringConf, AfterConf, QueuesInv
<1>6. QED
  BY <1>1, <1>2, <1>3, <1>5 DEF IInv

LEMMA HostAllocIInv == IInv /\ HostAlloc => IInv'
<1> SUFFICES ASSUME IInv, HostAlloc PROVE IInv'
  OBVIOUS
<1> USE QueueNames DEF HostAlloc, Fails, slaveVars
<1>1. TypeOK'
  <2>1. live = 0
    BY DEF IInv, BeforeCount
  <2>2. live' \in {0, 1}
    BY <2>1
  <2>3. fault' \in BOOLEAN /\ hpc' \in HostPc
    BY DEF IInv, TypeOK, HostPc
  <2>4. QED
    BY <2>2, <2>3 DEF IInv, TypeOK
<1>2. TableFollowsPlan' /\ RegionsTile'
  BY DEF IInv, TableFollowsPlan, RegionsTile
<1>3. QueuesInv'
  BY DEF IInv, QueuesInv
<1>4. Nowhere' /\ NotTold'
  BY DEF IInv, BeforeCount, Nowhere, NotTold
<1>5. BeforeCount' /\ DuringCount' /\ BeforeConf' /\ DuringConf' /\ AfterConf'
  BY <1>4 DEF IInv, BeforeCount, DuringCount, BeforeConf, DuringConf, AfterConf, QueuesInv
<1>6. QED
  BY <1>1, <1>2, <1>3, <1>5 DEF IInv

LEMMA HostPutCountIInv == IInv /\ HostPutCount => IInv'
<1> SUFFICES ASSUME IInv, HostPutCount PROVE IInv'
  OBVIOUS
<1> USE QueueNames DEF HostPutCount, Fails, slaveVars
<1>0. plan \in Plans /\ Len(plan) \in Nat \ {0}
  BY PlanFacts DEF IInv, TypeOK
<1>1. TableFollowsPlan' /\ RegionsTile'
  BY DEF IInv, TableFollowsPlan, RegionsTile
<1>2. QueuesInv'
  BY DEF IInv, QueuesInv
<1>3. /\ Nowhere /\ NotTold /\ spc = "slGetCount" /\ hi = 0 /\ hoff = 0
      /\ live = 1 /\ SlaveProcQ \in exists
  BY DEF IInv, BeforeCount, QueuesInv
<1>4. CASE hpc' = "hsGetCount"
  <2>1. pending' = WithPut(pending, SlaveProcQ, CountMsg(Len(plan)))
    BY <1>4
  <2>2. CountMsg(Len(plan)) \in Message
    BY <1>0 DEF CountMsg, Message
  <2>3. /\ pending' = [pending EXCEPT ![SlaveProcQ] = <<CountMsg(Len(plan))>>]
        /\ pending' \in [QueueName -> Seq(Message)]
    BY <1>3, <2>1, <2>2, PutFirst DEF IInv, TypeOK, Nowhere
  <2>4. AtSlave(CountMsg(Len(plan)))' /\ NotTold'
    BY <1>3, <2>3 DEF IInv, TypeOK, Nowhere, AtSlave, NotTold, CountMsg
  <2>5. TypeOK'
    BY <1>4, <2>3 DEF IInv, TypeOK, HostPc, SlavePc
  <2>6. BeforeCount' /\ DuringCount' /\ BeforeConf' /\ DuringConf' /\ AfterConf'
    BY <1>3, <1>4, <2>4 DEF BeforeCount, DuringCount, BeforeConf, DuringConf, AfterConf
  <2>7. QED
    BY <1>1, <1>2, <2>5, <2>6 DEF IInv
<1>5. CASE hpc' = "hsFree"
  <2>1. pending' = pending /\ fault'
    BY <1>5
  <2>2. TypeOK'
    BY <1>5, <2>1 DEF IInv, TypeOK, HostPc, SlavePc
  <2>3. Nowhere'
    BY <1>3, <2>1 DEF Nowhere
  <2>4. BeforeCount' /\ DuringCount' /\ BeforeConf' /\ DuringConf' /\ AfterConf'
    BY <1>3, <1>5, <2>1, <2>3 DEF BeforeCount, DuringCount, BeforeConf, DuringConf, AfterConf
  <2>5. QED
    BY <1>1, <1>2, <2>2, <2>4 DEF IInv
<1>6. QED
  BY <1>4, <1>5

LEMMA HostGetCountIInv == IInv /\ HostGetCount => IInv'
<1> SUFFICES ASSUME IInv, HostGetCount PROVE IInv'
  OBVIOUS
<1> USE QueueNames DEF HostGetCount, slaveVars
<1>0. plan \in Plans /\ Len(plan) \in Nat \ {0} /\ CountMsg(Len(plan)) \in Message
  BY PlanFacts DEF IInv, TypeOK, CountMsg, Message
<1>1. /\ live = 1 /\ hi = 0 /\ hoff = 0 /\ SlaveProcQ \in exists
      /\ AtHost(CountMsg(Len(plan))) /\ Told(0) /\ spc \in {"slGetConf", "aborted"}
  BY DEF IInv, DuringCount, HasMessage, AtSlave, Nowhere
<1>2. /\ pending' = [pending EXCEPT ![HandshakeQ] = <<>>]
      /\ pending' \in [QueueName -> Seq(Message)]
  BY <1>0, <1>1, TakeOnly DEF IInv, TypeOK, AtHost
<1>3. hpc' = "hsPutConf"
  BY <1>0, <1>1
<1>4. Nowhere' /\ Told(hi)' /\ (RegionEnd = BufBase + hoff)'
  <2>1. Nowhere'
    BY <1>1, <1>2 DEF IInv, TypeOK, Nowhere, AtHost
  <2>2. table = <<>>
    BY <1>1 DEF Told, IInv, TypeOK
  <2>3. QED
    BY <1>1, <2>1, <2>2, BufBaseAssumption DEF Told, RegionEnd
<1>5. TypeOK'
  BY <1>2, <1>3 DEF IInv, TypeOK, HostPc
<1>6. TableFollowsPlan' /\ RegionsTile' /\ QueuesInv'
  BY <1>3 DEF IInv, TableFollowsPlan, RegionsTile, QueuesInv
<1>7. BeforeCount' /\ DuringCount' /\ BeforeConf' /\ DuringConf' /\ AfterConf'
  BY <1>0, <1>1, <1>3, <1>4 DEF BeforeCount, DuringCount, BeforeConf, DuringConf, AfterConf
<1>8. QED
  BY <1>5, <1>6, <1>7 DEF IInv

LEMMA HostPutConfIInv == IInv /\ HostPutConf => IInv'
<1> SUFFICES ASSUME IInv, HostPutConf PROVE IInv'
  OBVIOUS
<1> DEFINE line == plan[hi + 1]
<1> USE QueueNames DEF HostPutConf, Fails, slaveVars
<1>1. /\ live = 1 /\ hi < Len(plan) /\ SlaveProcQ \in exists
      /\ Nowhere /\ Told(hi) /\ RegionEnd = BufBase + hoff
      /\ spc \in {"slGetConf", "aborted"}
  BY DEF IInv, BeforeConf
<1>2. /\ hi \in Nat /\ hoff \in Nat /\ line.msgSize \in Nat
      /\ line \in ThreadConf /\ ConfMsg(line, hoff) \in Message
  <2>1. plan \in Seq(ThreadConf) /\ Len(plan) \in Nat /\ hi \in Nat /\ hoff \in Nat
    BY PlanFacts DEF IInv, TypeOK
  <2>2. line \in ThreadConf
    BY <1>1, <2>1
  <2>3. QED
    BY <2>1, <2>2, MessageFacts DEF ThreadConf
<1>3. TableFollowsPlan' /\ RegionsTile' /\ QueuesInv'
  BY DEF IInv, TableFollowsPlan, RegionsTile, QueuesInv
<1>4. hoff' \in Nat /\ hoff = hoff' - line.msgSize
  BY <1>2
<1>5. CASE hpc' = "hsGetConf"
  <2>1. /\ pending' = [pending EXCEPT ![SlaveProcQ] = <<ConfMsg(line, hoff)>>]
        /\ pending' \in [QueueName -> Seq(Message)]
    BY <1>1, <1>2, <1>5, PutFirst DEF IInv, TypeOK, Nowhere
  <2>2. TypeOK'
    BY <1>4, <1>5, <2>1 DEF IInv, TypeOK, HostPc
  <2>3. /\ pending'[SlaveProcQ] = <<ConfMsg(line, hoff)>>
        /\ pending'[HandshakeQ] = <<>>
    BY <1>1, <2>1 DEF IInv, TypeOK, Nowhere
  <2>4. AtSlave(ConfMsg(plan[hi + 1], hoff - plan[hi + 1].msgSize))'
    BY <1>4, <2>3 DEF AtSlave, ConfMsg
  <2>5. (Told(hi) /\ RegionEnd = BufBase + hoff - plan[hi + 1].msgSize)'
    BY <1>1, <1>2, <1>4, BufBaseAssumption DEF Told, RegionEnd
  <2>6. DuringConf'
    BY <1>1, <2>4, <2>5 DEF DuringConf
  <2>7. BeforeCount' /\ DuringCount' /\ BeforeConf' /\ AfterConf'
    BY <1>5 DEF BeforeCount, DuringCount, BeforeConf, AfterConf
  <2>8. QED
    BY <1>3, <2>2, <2>6, <2>7 DEF IInv
<1>6. CASE hpc' = "hsFree"
  <2>1. pending' = pending /\ fault'
    BY <1>6
  <2>2. TypeOK'
    BY <1>4, <1>6, <2>1 DEF IInv, TypeOK, HostPc
  <2>3. BeforeCount' /\ DuringCount' /\ BeforeConf' /\ DuringConf' /\ AfterConf'
    BY <1>1, <1>6, <2>1
    DEF BeforeCount, DuringCount, BeforeConf, DuringConf, AfterConf, Nowhere
  <2>4. QED
    BY <1>3, <2>2, <2>3 DEF IInv
<1>7. QED
  BY <1>5, <1>6

LEMMA HostGetConfIInv == IInv /\ HostGetConf => IInv'
<1> SUFFICES ASSUME IInv, HostGetConf PROVE IInv'
  OBVIOUS
<1> DEFINE msg == ConfMsg(plan[hi + 1], hoff - plan[hi + 1].msgSize)
<1> USE QueueNames DEF HostGetConf, slaveVars
<1>1. /\ live = 1 /\ hi < Len(plan) /\ AtHost(msg) /\ Told(hi + 1)
      /\ RegionEnd = BufBase + hoff
      /\ spc \in IF hi + 1 < Len(plan) THEN {"slGetConf"} ELSE {"slDelete", "slTasks"}
  BY DEF IInv, DuringConf, HasMessage, AtSlave, Nowhere
<1>2. /\ pending' = [pending EXCEPT ![HandshakeQ] = <<>>]
      /\ pending' \in [QueueName -> Seq(Message)]
  <2>1. Tail(pending[HandshakeQ]) = <<>> /\ <<>> \in Seq(Message)
    BY <1>1 DEF AtHost
  <2>2. QED
    BY <2>1 DEF WithoutHead, IInv, TypeOK
<1>3. hi \in Nat /\ Len(plan) \in Nat /\ hi' = hi + 1 /\ plan' = plan
  BY PlanFacts DEF IInv, TypeOK
<1>4. Nowhere'
  BY <1>1, <1>2 DEF IInv, TypeOK, Nowhere, AtHost
<1>5. TypeOK'
  BY <1>1, <1>2, <1>3 DEF IInv, TypeOK, HostPc
<1>6. TableFollowsPlan' /\ RegionsTile' /\ QueuesInv'
  BY DEF IInv, TableFollowsPlan, RegionsTile, QueuesInv
<1>7. CASE hi + 1 < Len(plan)
  <2>1. hpc' = "hsPutConf" /\ spc = "slGetConf"
    BY <1>1, <1>7
  <2>2. (Told(hi) /\ RegionEnd = BufBase + hoff)'
    BY <1>1, <1>3 DEF Told, RegionEnd
  <2>3. SlaveProcQ \in exists'
    BY <2>1 DEF IInv, QueuesInv
  <2>4. QED
    BY <1>1, <1>3, <1>4, <1>5, <1>6, <1>7, <2>1, <2>2, <2>3
    DEF IInv, BeforeCount, DuringCount, BeforeConf, DuringConf, AfterConf
<1>8. CASE ~(hi + 1 < Len(plan))
  <2>1. hpc' = "hsFree" /\ spc \in {"slDelete", "slTasks"}
    BY <1>1, <1>8
  <2>2. Complete'
    BY <1>1, <1>3, <1>8, <2>1 DEF Complete, Told
  <2>3. QED
    BY <1>1, <1>4, <1>5, <1>6, <2>1, <2>2
    DEF IInv, BeforeCount, DuringCount, BeforeConf, DuringConf, AfterConf
<1>9. QED
  BY <1>7, <1>8

LEMMA HostCleanupIInv == IInv /\ HostCleanup => IInv'
<1> SUFFICES ASSUME IInv, HostCleanup PROVE IInv'
  OBVIOUS
<1> USE QueueNames DEF HostCleanup, Delete, slaveVars
<1>1. live = (IF hpc = "hsFree" THEN 1 ELSE 0)
  BY DEF IInv, AfterConf
<1>2. live' = 0 /\ hpc' = "spawn" /\ hi' = 0 /\ hoff' = 0 /\ plan' = plan
  BY <1>1
<1>3. pending' \in [QueueName -> Seq(Message)] /\ Nowhere'
  <2>1. Nowhere
    BY DEF IInv, AfterConf
  <2>2. <<>> \in Seq(Message)
    OBVIOUS
  <2>3. QED
    BY <2>1, <2>2 DEF IInv, TypeOK, Nowhere
<1>4. TypeOK'
  <2>1. 0 \in 0 .. Len(plan)
    BY PlanFacts DEF IInv, TypeOK
  <2>2. QED
    BY <1>2, <1>3, <2>1 DEF IInv, TypeOK, HostPc
<1>5. TableFollowsPlan' /\ RegionsTile' /\ QueuesInv'
  BY DEF IInv, TableFollowsPlan, RegionsTile, QueuesInv
<1>6. (fault \/ Complete)'
  BY <1>2 DEF IInv, AfterConf, Complete, Told
<1>7. BeforeCount' /\ DuringCount' /\ BeforeConf' /\ DuringConf' /\ AfterConf'
  BY <1>2, <1>3, <1>6 DEF BeforeCount, DuringCount, BeforeConf, DuringConf, AfterConf
<1>8. QED
  BY <1>4, <1>5, <1>7 DEF IInv

\* The slave's receive-and-echo: it has read the one message, which is now in
\* the host's queue, unless the put failed and the slave has stopped with it.
LEMMA EchoFacts ==
  ASSUME TypeOK, NEW m \in Message, NEW next, HandshakeQ \in exists,
         pending[SlaveProcQ] = <<m>>, pending[HandshakeQ] = <<>>
  PROVE  /\ Head(pending[SlaveProcQ]) = m
         /\ LET p == WithPut(WithoutHead(pending, SlaveProcQ), HandshakeQ, m)
            IN  /\ p \in [QueueName -> Seq(Message)]
                /\ p[SlaveProcQ] = <<>> /\ p[HandshakeQ] = <<m>>
         /\ SlaveReceiveAndEcho(next) =>
              /\ pending' \in [QueueName -> Seq(Message)]
              /\ fault' \in BOOLEAN /\ (fault => fault')
              /\ pending'[SlaveProcQ] = <<>>
              /\ \/ pending'[HandshakeQ] = <<m>> /\ spc' = next
                 \/ pending'[HandshakeQ] = <<>> /\ spc' = "aborted"
<1> DEFINE taken == WithoutHead(pending, SlaveProcQ)
           p == WithPut(taken, HandshakeQ, m)
<1>1. /\ Head(pending[SlaveProcQ]) = m
      /\ taken = [pending EXCEPT ![SlaveProcQ] = <<>>]
      /\ taken \in [QueueName -> Seq(Message)]
  BY QueueNames, TakeOnly DEF TypeOK
<1>2. taken[SlaveProcQ] = <<>> /\ taken[HandshakeQ] = <<>>
  BY <1>1, QueueNames DEF TypeOK
<1> HIDE DEF taken
<1>3. /\ p = [taken EXCEPT ![HandshakeQ] = <<m>>]
      /\ p \in [QueueName -> Seq(Message)]
  <2>1. Append(<<>>, m) = <<m>> /\ <<m>> \in Seq(Message)
    OBVIOUS
  <2>2. p = [taken EXCEPT ![HandshakeQ] = <<m>>]
    BY <1>2, <2>1 DEF WithPut
  <2>3. QED
    BY <1>1, <2>1, <2>2
<1>4. p[SlaveProcQ] = <<>> /\ p[HandshakeQ] = <<m>>
  BY <1>1, <1>2, <1>3, QueueNames
<1> HIDE DEF p
<1>5. ASSUME SlaveReceiveAndEcho(next)
      PROVE  /\ pending' \in [QueueName -> Seq(Message)]
             /\ fault' \in BOOLEAN /\ (fault => fault')
             /\ pending'[SlaveProcQ] = <<>>
             /\ \/ pending'[HandshakeQ] = <<m>> /\ spc' = next
                \/ pending'[HandshakeQ] = <<>> /\ spc' = "aborted"
  <2>1. \/ pending' = p /\ spc' = next /\ fault' = fault
        \/ pending' = taken /\ spc' = "aborted" /\ fault' = TRUE
    BY <1>1, <1>5 DEF SlaveReceiveAndEcho, Fails, p, taken
  <2>2. QED
    BY <1>1, <1>2, <1>3, <1>4, <2>1 DEF TypeOK
<1>6. QED
  BY <1>1, <1>3, <1>4, <1>5 DEF p, taken

\* The slave registers its queue: the host may find it from now on, and has not
\* sent anything yet.
LEMMA SlaveCreateIInv == IInv /\ SlaveCreate => IInv'
<1> SUFFICES ASSUME IInv, SlaveCreate PROVE IInv'
  OBVIOUS
<1> USE QueueNames DEF SlaveCreate, Create, CreateFails, hostVars
<1>1. TypeOK'
  BY DEF IInv, TypeOK, SlavePc
<1>2. TableFollowsPlan' /\ RegionsTile' /\ QueuesInv'
  BY DEF IInv, TableFollowsPlan, RegionsTile, QueuesInv
<1>3. SlaveProcQ \notin exists
  BY DEF IInv, QueuesInv
<1>4. BeforeCount'
  BY <1>3 DEF IInv, BeforeCount, Nowhere, NotTold
<1>5. DuringCount' /\ BeforeConf' /\ DuringConf'
  BY DEF IInv, DuringCount, BeforeConf, DuringConf, Nowhere, AtSlave, AtHost
<1>6. AfterConf'
  BY DEF IInv, AfterConf, Nowhere, NotTold, Complete, Told
<1>7. QED
  BY <1>1, <1>2, <1>4, <1>5, <1>6 DEF IInv

LEMMA SlaveGetCountIInv == IInv /\ SlaveGetCount => IInv'
<1> SUFFICES ASSUME IInv, SlaveGetCount PROVE IInv'
  OBVIOUS
<1> DEFINE msg == CountMsg(Len(plan))
<1> USE QueueNames DEF SlaveGetCount, hostVars
<1>0. plan \in Plans /\ Len(plan) \in Nat \ {0} /\ msg \in Message
  BY PlanFacts DEF IInv, TypeOK, CountMsg, Message
<1>1. hpc = "hsGetCount"
  BY DEF IInv, BeforeCount, BeforeConf, DuringConf, AfterConf, HasMessage, Nowhere,
         AtSlave, AtHost, Told, TypeOK, HostPc
<1>2. /\ live = 1 /\ hi = 0 /\ hoff = 0 /\ SlaveProcQ \in exists
      /\ AtSlave(msg) /\ spc = "slGetCount"
  BY <1>1 DEF IInv, DuringCount
<1>3. HandshakeQ \in exists
  BY <1>1 DEF IInv, QueuesInv
<1>4. Told(0)' /\ table' = <<>> /\ numThreads' = Len(plan)
  BY <1>0, <1>2 DEF AtSlave, CountMsg, Told
<1>7. /\ pending' \in [QueueName -> Seq(Message)] /\ fault' \in BOOLEAN
      /\ \/ AtHost(msg)' /\ spc' \in {"slGetConf", "aborted"}
         \/ Nowhere' /\ spc' = "aborted"
  <2>1. CASE SlaveReceiveAndEcho(IF numThreads' > 0 THEN "slGetConf" ELSE "slDelete")
    BY <1>0, <1>2, <1>3, <1>4, <2>1, EchoFacts DEF IInv, AtSlave, AtHost, Nowhere, CountMsg
  <2>2. CASE /\ Fails("alloc") /\ spc' = "aborted"
             /\ pending' = WithPut(WithoutHead(pending, SlaveProcQ), HandshakeQ,
                                   Head(pending[SlaveProcQ]))
    BY <1>0, <1>2, <1>3, <2>2, EchoFacts DEF IInv, AtSlave, AtHost, CountMsg, Fails
  <2>3. QED
    BY <2>1, <2>2
<1>9. TypeOK'
  <2>1. table' \in Seq(TaskConf) /\ numThreads' \in Nat
    BY <1>0, <1>4
  <2>2. QED
    BY <1>7, <2>1 DEF IInv, TypeOK, SlavePc
<1>10. TableFollowsPlan' /\ RegionsTile' /\ QueuesInv'
  BY <1>0, <1>2, <1>4, <1>7 DEF IInv, TableFollowsPlan, RegionsTile, QueuesInv
<1>11. DuringCount'
  BY <1>2, <1>4, <1>7 DEF DuringCount
<1>12. BeforeCount' /\ BeforeConf' /\ DuringConf' /\ AfterConf'
  BY <1>1 DEF BeforeCount, BeforeConf, DuringConf, AfterConf
<1>13. QED
  BY <1>9, <1>10, <1>11, <1>12 DEF IInv

\* What is stored for a thread is its line of the plan, seen from the slave.
LEMMA StoredFacts ==
  ASSUME NEW c \in ThreadConf, NEW off \in Int, ConfMsg(c, off) \in Message,
         NEW d \in SlaveDirection(c.direction)
  PROVE  LET e == [ConfMsg(c, off) EXCEPT !.thrDirection = d]
         IN  /\ e \in TaskConf
             /\ e.boBufPayloadPtr = BufBase + off
             /\ e.boBufPayloadSize = c.msgSize
             /\ e.numMessages = c.msgCount
             /\ e.thrDirection \in Inverse(c.direction)
<1>1. c.direction \in ThreadDirection /\ d \in ThreadDirection
  BY DEF ThreadConf, SlaveDirection, ThreadDirection, unidirectional_send,
         unidirectional_recv, bidirectional
<1>2. d \in Inverse(c.direction)
  BY <1>1 DEF Inverse, SlaveDirection, ThreadDirection, unidirectional_send,
              unidirectional_recv, bidirectional
<1>3. ConfMsg(c, off) \in TaskConf
  BY DEF Message, ConfMsg
<1>4. QED
  BY <1>1, <1>2, <1>3 DEF ConfMsg, TaskConf

LEMMA SlaveGetConfIInv == IInv /\ SlaveGetConf => IInv'
<1> SUFFICES ASSUME IInv, SlaveGetConf PROVE IInv'
  OBVIOUS
<1> DEFINE line == plan[hi + 1]
           off  == hoff - line.msgSize
           msg  == ConfMsg(line, off)
<1>1. hpc = "hsGetConf" /\ spc = "slGetConf"
  BY DEF SlaveGetConf, IInv, BeforeCount, DuringCount, BeforeConf, AfterConf, HasMessage,
         Nowhere, AtSlave, AtHost, Complete, NotTold, TypeOK, HostPc
<1>2. /\ live = 1 /\ hi < Len(plan) /\ AtSlave(msg) /\ Told(hi)
      /\ RegionEnd = BufBase + off
  BY <1>1 DEF SlaveGetConf, HasMessage, IInv, DuringConf, AtHost, Nowhere
<1>3. /\ plan \in Seq(ThreadConf) /\ Len(plan) \in Nat /\ hi \in Nat /\ hoff \in Nat
      /\ line \in ThreadConf /\ line.msgSize \in Nat /\ off \in Int
  <2>1. plan \in Seq(ThreadConf) /\ Len(plan) \in Nat /\ hi \in Nat /\ hoff \in Nat
    BY PlanFacts DEF IInv, TypeOK
  <2>2. line \in ThreadConf
    BY <1>2, <2>1
  <2>3. QED
    BY <2>1, <2>2 DEF ThreadConf
<1>4. msg \in Message
  <2>1. pending[SlaveProcQ] \in Seq(Message) /\ pending[SlaveProcQ] = <<msg>>
    BY <1>2, QueueNames DEF IInv, TypeOK, AtSlave
  <2> HIDE DEF msg
  <2>2. QED
    BY <2>1
<1>5. HandshakeQ \in exists
  BY <1>1 DEF IInv, QueuesInv
<1> HIDE DEF off
<1>6. Head(pending[SlaveProcQ]) = msg
  BY <1>2, <1>4, <1>5, EchoFacts DEF IInv, AtSlave
<1>7. PICK d \in SlaveDirection(line.direction) :
        table' = Append(table, [msg EXCEPT !.thrDirection = d])
  <2>1. msg.thrDirection = line.direction
    BY DEF ConfMsg
  <2>2. QED
    BY <1>6, <2>1 DEF SlaveGetConf
<1> DEFINE entry == [msg EXCEPT !.thrDirection = d]
<1>8. /\ entry \in TaskConf
      /\ entry.boBufPayloadPtr = BufBase + off
      /\ entry.boBufPayloadSize = line.msgSize
      /\ entry.numMessages = line.msgCount
      /\ entry.thrDirection \in Inverse(line.direction)
  BY <1>3, <1>4, StoredFacts
<1>9. table' = Append(table, entry)
  BY <1>7
<1> HIDE DEF entry
<1>10. /\ table \in Seq(TaskConf) /\ Len(table) = hi /\ numThreads = Len(plan)
  BY <1>2 DEF IInv, TypeOK, Told
<1>11. /\ table' \in Seq(TaskConf) /\ Len(table') = hi + 1
       /\ \A i \in 1 .. hi : table'[i] = table[i]
       /\ table'[hi + 1] = entry
  BY <1>3, <1>8, <1>9, <1>10
<1>12. SlaveReceiveAndEcho(IF Len(table') < numThreads THEN "slGetConf" ELSE "slDelete")
       /\ UNCHANGED <<exists, live, plan, hpc, hi, hoff, numThreads>>
  BY DEF SlaveGetConf, hostVars
<1>13. /\ pending' \in [QueueName -> Seq(Message)] /\ fault' \in BOOLEAN
       /\ \/ /\ pending'[SlaveProcQ] = <<>> /\ pending'[HandshakeQ] = <<msg>>
             /\ spc' = (IF hi + 1 < Len(plan) THEN "slGetConf" ELSE "slDelete")
          \/ /\ pending'[SlaveProcQ] = <<>> /\ pending'[HandshakeQ] = <<>>
             /\ spc' = "aborted"
  BY <1>2, <1>4, <1>5, <1>10, <1>11, <1>12, EchoFacts DEF IInv, AtSlave
<1>14. TypeOK'
  BY <1>11, <1>12, <1>13 DEF IInv, TypeOK, SlavePc
<1>15. TableFollowsPlan'
  <2>1. Len(table') <= Len(plan')
    BY <1>2, <1>3, <1>11, <1>12
  <2>2. ASSUME NEW i \in 1 .. Len(table')
        PROVE  /\ table'[i].boBufPayloadSize = plan[i].msgSize
               /\ table'[i].numMessages = plan[i].msgCount
               /\ table'[i].thrDirection \in Inverse(plan[i].direction)
    <3>1. CASE i = hi + 1
      BY <1>8, <1>11, <3>1
    <3>2. CASE i \in 1 .. hi
      BY <1>10, <1>11, <3>2 DEF IInv, TableFollowsPlan
    <3>3. QED
      BY <1>3, <1>11, <3>1, <3>2
  <2>3. QED
    BY <1>12, <2>1, <2>2 DEF TableFollowsPlan
<1>16. RegionsTile'
  <2>1. ASSUME NEW i \in 1 .. Len(table')
        PROVE  table'[i].boBufPayloadPtr =
                 IF i = 1 THEN BufBase
                 ELSE table'[i - 1].boBufPayloadPtr + table'[i - 1].boBufPayloadSize
    <3>1. CASE i \in 1 .. hi
      BY <1>3, <1>10, <1>11, <3>1 DEF IInv, RegionsTile
    <3>2. CASE i = hi + 1 /\ hi = 0
      BY <1>2, <1>8, <1>10, <1>11, <3>2 DEF RegionEnd
    <3>3. CASE i = hi + 1 /\ hi > 0
      <4>1. table # <<>> /\ hi \in 1 .. hi
        BY <1>3, <1>10, <3>3
      <4>2. QED
        BY <1>2, <1>3, <1>8, <1>10, <1>11, <3>3, <4>1 DEF RegionEnd
    <3>4. QED
      BY <1>3, <1>11, <3>1, <3>2, <3>3
  <2>2. QED
    BY <2>1 DEF RegionsTile
<1>17. QueuesInv'
  BY <1>1, <1>12, <1>13 DEF IInv, QueuesInv
<1>18. (Told(hi + 1) /\ RegionEnd = BufBase + hoff)'
  <2>1. table' # <<>> /\ Len(table') = hi + 1
    BY <1>3, <1>11
  <2>2. table'[Len(table')].boBufPayloadPtr + table'[Len(table')].boBufPayloadSize
          = BufBase + hoff
    BY <1>3, <1>8, <1>11, BufBaseAssumption DEF off
  <2>3. QED
    BY <1>10, <1>12, <2>1, <2>2 DEF Told, RegionEnd
<1>19. DuringConf'
  <2>1. CASE spc' = "aborted" /\ Nowhere'
    BY <1>1, <1>2, <1>12, <2>1 DEF DuringConf
  <2>2. CASE AtHost(msg)' /\ spc' = (IF hi + 1 < Len(plan) THEN "slGetConf" ELSE "slDelete")
    BY <1>1, <1>2, <1>12, <1>18, <2>2 DEF DuringConf, off
  <2>3. QED
    BY <1>12, <1>13, <2>1, <2>2 DEF AtHost, Nowhere, ConfMsg, off
<1>20. BeforeCount' /\ DuringCount' /\ BeforeConf' /\ AfterConf'
  BY <1>1, <1>12 DEF BeforeCount, DuringCount, BeforeConf, AfterConf
<1>21. QED
  BY <1>14, <1>15, <1>16, <1>17, <1>19, <1>20 DEF IInv

LEMMA SlaveDeleteIInv == IInv /\ SlaveDelete => IInv'
<1> SUFFICES ASSUME IInv, SlaveDelete PROVE IInv'
  OBVIOUS
<1> USE QueueNames DEF SlaveDelete, Delete, hostVars
<1>1. pending' \in [QueueName -> Seq(Message)] /\ pending'[SlaveProcQ] = <<>>
      /\ pending'[HandshakeQ] = pending[HandshakeQ]
  <2>1. <<>> \in Seq(Message)
    OBVIOUS
  <2>2. QED
    BY <2>1 DEF IInv, TypeOK
<1>2. TypeOK'
  BY <1>1 DEF IInv, TypeOK, SlavePc
<1>3. TableFollowsPlan' /\ RegionsTile' /\ QueuesInv'
  BY DEF IInv, TableFollowsPlan, RegionsTile, QueuesInv
<1>4. hpc \in {"hsGetConf", "hsFree", "spawn"}
  BY DEF IInv, BeforeCount, DuringCount, BeforeConf, AfterConf, NotTold, TypeOK, HostPc
<1>5. DuringConf'
  BY <1>1 DEF IInv, DuringConf, AtSlave, AtHost, Nowhere, Told, RegionEnd, ConfMsg
<1>6. AfterConf'
  BY <1>1, <1>4 DEF IInv, AfterConf, Nowhere, Complete, Told
<1>7. BeforeCount' /\ DuringCount' /\ BeforeConf'
  BY <1>4 DEF BeforeCount, DuringCount, BeforeConf
<1>8. QED
  BY <1>2, <1>3, <1>5, <1>6, <1>7 DEF IInv

-----------------------------------------------------------------------------
(* The theorems. *)

LEMMA NextIInv == IInv /\ [Next]_vars => IInv'
<1> SUFFICES ASSUME IInv, [Next]_vars PROVE IInv'
  OBVIOUS
<1>1. CASE HostNext
  BY <1>1, HostCreateIInv, HostOpenIInv, HostAllocIInv, HostPutCountIInv, HostGetCountIInv,
     HostPutConfIInv, HostGetConfIInv, HostCleanupIInv DEF HostNext
<1>2. CASE SlaveNext
  BY <1>2, SlaveCreateIInv, SlaveGetCountIInv, SlaveGetConfIInv, SlaveDeleteIInv
  DEF SlaveNext
<1>3. CASE UNCHANGED vars
  BY <1>3
  DEF vars, IInv, TypeOK, TableFollowsPlan, RegionsTile, QueuesInv, BeforeCount, DuringCount,
      BeforeConf, DuringConf, AfterConf, Nowhere, AtSlave, AtHost, Told, NotTold, Complete,
      RegionEnd
<1>4. QED
  BY <1>1, <1>2, <1>3 DEF Next

\* The invariant holds throughout, whatever the plans and whatever fails.
THEOREM HandshakeInvariant == Spec => []IInv
<1>1. QED
  BY InitIInv, NextIInv, PTL DEF Spec

\* Type correctness of the handshake's two programs.
THEOREM HandshakeTyped == Spec => []TypeOK
<1>1. IInv => TypeOK
  BY DEF IInv
<1>2. QED
  BY <1>1, HandshakeInvariant, PTL

\* Line i of the cfg file reaches task i of the slave and no other one.
THEOREM HandshakeTable == Spec => []TableFollowsPlan
<1>1. IInv => TableFollowsPlan
  BY DEF IInv
<1>2. QED
  BY <1>1, HandshakeInvariant, PTL

\* The slave's parts of the shared buffer lie side by side from its start.
THEOREM HandshakeRegions == Spec => []RegionsTile
<1>1. IInv => RegionsTile
  BY DEF IInv
<1>2. QED
  BY <1>1, HandshakeInvariant, PTL

\* When the host goes on without an error, the slave knows all it needs.
THEOREM HandshakeIsComplete == Spec => []HandshakeComplete
<1>1. IInv => HandshakeComplete
  BY DEF IInv, AfterConf, Complete, Told, HandshakeComplete
<1>2. QED
  BY <1>1, HandshakeInvariant, PTL

\* The host never leaves the handshake with its message still allocated.
THEOREM HandshakeIsFreed == Spec => []HandshakeFrees
<1>1. IInv => HandshakeFrees
  BY DEF IInv, AfterConf, HandshakeFrees
<1>2. QED
  BY <1>1, HandshakeInvariant, PTL

\* The message of the handshake is in one place at a time.
THEOREM HandshakeStopAndWait == Spec => []OneMessage
<1>1. IInv => OneMessage
  <2> SUFFICES ASSUME IInv, spc # "aborted" PROVE
        Len(pending[SlaveProcQ]) + Len(pending[HandshakeQ])
          + (IF HostHolds THEN 1 ELSE 0) = live
    BY DEF OneMessage
  <2>1. CASE Nowhere
    BY <2>1 DEF IInv, TypeOK, HostPc, BeforeCount, DuringCount, BeforeConf, DuringConf,
                AfterConf, Nowhere, AtSlave, AtHost, HostHolds
  <2>2. CASE ~Nowhere
    <3>1. hpc \in {"hsGetCount", "hsGetConf"} /\ live = 1
      BY <2>2 DEF IInv, TypeOK, HostPc, BeforeCount, DuringCount, BeforeConf, DuringConf,
                  AfterConf
    <3>2. PICK m : AtSlave(m) \/ AtHost(m)
      BY <2>2, <3>1 DEF IInv, DuringCount, DuringConf
    <3>3. Len(<<m>>) = 1 /\ Len(<<>>) = 0
      OBVIOUS
    <3>4. Len(pending[SlaveProcQ]) + Len(pending[HandshakeQ]) + 0 = 1
      <4>1. CASE AtSlave(m)
        BY <3>3, <4>1 DEF AtSlave
      <4>2. CASE AtHost(m)
        BY <3>3, <4>2 DEF AtHost
      <4>3. QED
        BY <3>2, <4>1, <4>2
    <3>5. QED
      BY <3>1, <3>4 DEF HostHolds
  <2>3. QED
    BY <2>1, <2>2
<1>2. QED
  BY <1>1, HandshakeInvariant, PTL

=============================================================================
