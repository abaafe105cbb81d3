------------------------------ MODULE Streams ------------------------------
(***************************************************************************)
(* The streaming phase of a run: for every line of the plan a thread of    *)
(* the host and a task of the slave, one sending and one receiving         *)
(* messages that carry a part of the shared buffer; the host's main thread *)
(* starts and joins its threads, the slave's tsk1Fxn creates its tasks and *)
(* polls gFinishedCounter until all of them have counted themselves.       *)
(***************************************************************************)
EXTENDS MessageQ, FiniteSets

CONSTANTS
  IdRange,      \* MessageQ ids and the host's loop counters are UInt16: 2^16
  Smp,          \* TRUE: SYS/BIOS runs tasks on two cores (BIOS.smpEnabled)
  MaxPending    \* bounds the messages waiting in a queue, for TLC

ASSUME IdRangeAssumption == IdRange \in Nat \ {0}
ASSUME SmpAssumption == Smp \in BOOLEAN
ASSUME MaxPendingAssumption == MaxPending \in Nat \ {0}

VARIABLES
  plan,         \* pThrConfig, as in Handshake
  hpc, hi, hoff,          \* the host's main thread: pc, i, tempOffsetCtr
  spc, numThreads, table, \* the slave's tsk1Fxn: pc, globals
  si,           \* its loop counter i
  hth,          \* where each host thread is
  hcnt,         \* its UInt16 loop counter i
  hptr,         \* its boBufPayloadPtr
  stk,          \* where each slave task is
  scnt,         \* its UInt32 counter msgId
  finished,     \* gFinishedCounter
  reg           \* the value each task has read of it while incrementing it

hostVars   == <<hpc, hi, hoff>>
slaveVars  == <<spc, si, numThreads, table>>
threadVars == <<hth, hcnt, hptr>>
taskVars   == <<stk, scnt, finished, reg>>
vars == <<mqVars, plan, hostVars, slaveVars, threadVars, taskVars>>

HostPc  == {"spawn", "join", "dhCreate", "crashed"}
SlavePc == {"slTasks", "slWait", "dtCreate", "aborted"}
ThreadPc == {"none", "sOpen", "send", "rCreate", "recv", "rDelete", "done"}
TaskPc == {"none", "sOpen", "send", "sendLost", "rCreate", "recv", "inc",
           "store", "finished"}

StreamMsg(id, ptr, size) ==
  [id |-> id, boBufPayloadPtr |-> ptr, boBufPayloadSize |-> size]

Goto(pcs, t, label) == [pcs EXCEPT ![t] = label]

-----------------------------------------------------------------------------
(* The host's main thread. *)

\* Faulty variant: a thread's region is computed after the offset has moved.
HostSpawnShifted ==
  /\ hpc = "spawn" /\ hi < Len(plan)
  /\ LET t == hi + 1
     IN  /\ hoff' = hoff + plan[t].msgSize
         /\ hptr' = [hptr EXCEPT ![t] = BufBase + hoff']
         /\ hcnt' = [hcnt EXCEPT ![t] = 0]
         /\ hth' = Goto(hth, t, IF plan[t].direction = unidirectional_send
                               THEN "sOpen" ELSE "rCreate")
  /\ hi' = IF hi + 1 < Len(plan) THEN hi + 1 ELSE 0
  /\ hpc' = IF hi + 1 < Len(plan) THEN "spawn" ELSE "join"
  /\ UNCHANGED <<mqVars, plan, slaveVars, taskVars>>

\* pthread_create for the next line.  There is no thread for a line that is
\* not one-way, nor, after a message, when pthread_create fails.
HostSpawn ==
  /\ hpc = "spawn" /\ hi < Len(plan)
  /\ LET t == hi + 1
         c == plan[t]
     IN  /\ hptr' = [hptr EXCEPT ![t] = BufBase + hoff]
         /\ hoff' = hoff + c.msgSize
         /\ hcnt' = [hcnt EXCEPT ![t] = 0]
         /\ \/ /\ c.direction = unidirectional_send
               /\ hth' = Goto(hth, t, "sOpen")
               /\ UNCHANGED fault
            \/ /\ c.direction = unidirectional_recv
               /\ hth' = Goto(hth, t, "rCreate")
               /\ UNCHANGED fault
            \/ /\ c.direction = bidirectional
               /\ hth' = Goto(hth, t, "none")
               /\ UNCHANGED fault
            \/ /\ c.direction # bidirectional
               /\ Fails("spawn")
               /\ hth' = Goto(hth, t, "none")
  /\ hi' = IF hi + 1 < Len(plan) THEN hi + 1 ELSE 0
  /\ hpc' = IF hi + 1 < Len(plan) THEN "spawn" ELSE "join"
  /\ UNCHANGED <<exists, pending, live, plan, slaveVars, taskVars>>

\* pthread_join waits for the thread.  Where none was created it is given
\* whatever id the memory held: it reports an error, or the process dies.
HostJoin ==
  /\ hpc = "join"
  /\ \/ /\ hth[hi + 1] \in {"done", "none"}
        /\ hi' = hi + 1
        /\ hpc' = IF hi + 1 < Len(plan) THEN "join" ELSE "dhCreate"
     \/ /\ hth[hi + 1] = "none"
        /\ hpc' = "crashed"
        /\ UNCHANGED hi
  /\ UNCHANGED <<mqVars, plan, hoff, slaveVars, threadVars, taskVars>>

-----------------------------------------------------------------------------
(* A host thread that sends: pingThreadFxn_uni_send. *)

ThreadFrame == UNCHANGED <<plan, hostVars, slaveVars, taskVars, hptr>>

ThreadSendOpen(t) ==
  /\ hth[t] = "sOpen"
  /\ \/ /\ M4RecvQ(t) \in exists
        /\ hth' = Goto(hth, t, "send")
        /\ UNCHANGED fault
     \/ /\ Fails("open")
        /\ hth' = Goto(hth, t, "done")
  /\ UNCHANGED <<exists, pending, live, hcnt>>
  /\ ThreadFrame

\* Faulty variants: the counter moves on before the id is set; a failed put
\* does not end the loop.
ThreadSendLate(t) ==
  /\ hth[t] = "send" /\ hcnt[t] < plan[t].msgCount
  /\ hcnt' = [hcnt EXCEPT ![t] = (@ + 1) % IdRange]
  /\ pending' = WithPut(pending, M4RecvQ(t),
                        StreamMsg(hcnt'[t], hptr[t], plan[t].msgSize))
  /\ live' = live + 1
  /\ UNCHANGED <<exists, hth, fault>>
  /\ ThreadFrame

ThreadSendGoesOn(t) ==
  /\ hth[t] = "send" /\ hcnt[t] < plan[t].msgCount
  /\ live' = live + 1
  /\ hcnt' = [hcnt EXCEPT ![t] = (@ + 1) % IdRange]
  /\ \/ /\ Len(pending[M4RecvQ(t)]) < MaxPending
        /\ pending' = WithPut(pending, M4RecvQ(t),
                              StreamMsg(hcnt[t], hptr[t], plan[t].msgSize))
        /\ UNCHANGED fault
     \/ /\ Fails("put")
        /\ UNCHANGED pending
  /\ UNCHANGED <<exists, hth>>
  /\ ThreadFrame

\* One pass of the loop.  A message that cannot be put is not freed.
ThreadSend(t) ==
  /\ hth[t] = "send" /\ hcnt[t] < plan[t].msgCount
  /\ \/ /\ Len(pending[M4RecvQ(t)]) < MaxPending
        /\ pending' = WithPut(pending, M4RecvQ(t),
                              StreamMsg(hcnt[t], hptr[t], plan[t].msgSize))
        /\ live' = live + 1
        /\ hcnt' = [hcnt EXCEPT ![t] = (@ + 1) % IdRange]
        /\ UNCHANGED <<hth, fault>>
     \/ /\ Fails("alloc")
        /\ hth' = Goto(hth, t, "done")
        /\ UNCHANGED <<pending, live, hcnt>>
     \/ /\ Fails("put")
        /\ live' = live + 1
        /\ hth' = Goto(hth, t, "done")
        /\ UNCHANGED <<pending, hcnt>>
  /\ UNCHANGED exists
  /\ ThreadFrame

ThreadSendEnd(t) ==
  /\ hth[t] = "send" /\ hcnt[t] >= plan[t].msgCount
  /\ hth' = Goto(hth, t, "done")
  /\ UNCHANGED <<mqVars, hcnt>>
  /\ ThreadFrame

-----------------------------------------------------------------------------
(* A host thread that receives: pingThreadFxn_uni_recv. *)

ThreadRecvCreate(t) ==
  /\ hth[t] = "rCreate"
  /\ \/ /\ Create(A15RecvQ(t))
        /\ hth' = Goto(hth, t, "recv")
     \/ /\ CreateFails(A15RecvQ(t))
        /\ hth' = Goto(hth, t, "done")
  /\ UNCHANGED hcnt
  /\ ThreadFrame

\* A message with an unexpected id ends the loop and is not freed.
ThreadRecvGet(t) ==
  /\ hth[t] = "recv" /\ hcnt[t] < plan[t].msgCount
  /\ HasMessage(A15RecvQ(t))
  /\ pending' = WithoutHead(pending, A15RecvQ(t))
  /\ \/ /\ Head(pending[A15RecvQ(t)]).id = hcnt[t]
        /\ live' = live - 1
        /\ hcnt' = [hcnt EXCEPT ![t] = (@ + 1) % IdRange]
        /\ UNCHANGED hth
     \/ /\ Head(pending[A15RecvQ(t)]).id # hcnt[t]
        /\ hth' = Goto(hth, t, "rDelete")
        /\ UNCHANGED <<live, hcnt>>
  /\ UNCHANGED <<exists, fault>>
  /\ ThreadFrame

ThreadRecvEnd(t) ==
  /\ \/ hth[t] = "rDelete"
     \/ hth[t] = "recv" /\ hcnt[t] >= plan[t].msgCount
  /\ Delete(A15RecvQ(t))
  /\ hth' = Goto(hth, t, "done")
  /\ UNCHANGED <<live, fault, hcnt>>
  /\ ThreadFrame

HostThread(t) ==
  \/ ThreadSendOpen(t) \/ ThreadSend(t) \/ ThreadSendEnd(t)
  \/ ThreadRecvCreate(t) \/ ThreadRecvGet(t) \/ ThreadRecvEnd(t)

-----------------------------------------------------------------------------
(* The slave.  SYS/BIOS runs the ready task of the highest priority and    *)
(* does not share the core out among equals: on one core a task between    *)
(* the two halves of gFinishedCounter++, where it cannot be asleep, keeps  *)
(* the core from the other tasks and from whatever is below it, and it     *)
(* would have to wait for a tsk1Fxn above it that does not sleep.          *)

MainPriority == 1    \* tsk1Fxn
TaskPriority == 3    \* every loopback task

Runs == spc # "aborted"

\* Faulty variant: tasks of equal priority are time-sliced.
UndisturbedSliced(t) == TRUE

Undisturbed(t) ==
  \/ Smp
  \/ /\ \A u \in Thread \ {t} : stk[u] # "store"
     /\ MainPriority > TaskPriority => spc # "slTasks"

MainUndisturbed ==
  Smp \/ TaskPriority < MainPriority \/ \A u \in Thread : stk[u] # "store"

Abort == spc' = "aborted"

SlaveCreateTask ==
  /\ spc = "slTasks" /\ si < numThreads /\ MainUndisturbed
  /\ LET t == si + 1
     IN  /\ scnt' = [scnt EXCEPT ![t] = 0]
         /\ \/ /\ table[t].thrDirection = unidirectional_recv
               /\ stk' = Goto(stk, t, "rCreate")
               /\ UNCHANGED fault
            \/ /\ table[t].thrDirection = unidirectional_send
               /\ stk' = Goto(stk, t, "sOpen")
               /\ UNCHANGED fault
            \/ /\ table[t].thrDirection = bidirectional
               /\ stk' = Goto(stk, t, "none")
               /\ UNCHANGED fault
            \/ /\ table[t].thrDirection # bidirectional
               /\ Fails("task")
               /\ stk' = Goto(stk, t, "none")
  /\ si' = si + 1
  /\ UNCHANGED <<exists, pending, live, plan, hostVars, spc, numThreads, table,
                 threadVars, finished, reg>>

SlaveTasksCreated ==
  /\ spc = "slTasks" /\ si >= numThreads /\ MainUndisturbed
  /\ spc' = "slWait"
  /\ UNCHANGED <<mqVars, plan, hostVars, si, numThreads, table, threadVars,
                 taskVars>>

\* Faulty variants: one task too few, or too many, is waited for.
SlaveAllFinishedEarly ==
  /\ spc = "slWait" /\ finished >= numThreads - 1 /\ MainUndisturbed
  /\ spc' = "dtCreate"
  /\ UNCHANGED <<mqVars, plan, hostVars, si, numThreads, table, threadVars,
                 taskVars>>

SlaveAllFinishedLate ==
  /\ spc = "slWait" /\ finished > numThreads /\ MainUndisturbed
  /\ spc' = "dtCreate"
  /\ UNCHANGED <<mqVars, plan, hostVars, si, numThreads, table, threadVars,
                 taskVars>>

SlaveAllFinished ==
  /\ spc = "slWait" /\ finished >= numThreads /\ MainUndisturbed
  /\ spc' = "dtCreate"
  /\ UNCHANGED <<mqVars, plan, hostVars, si, numThreads, table, threadVars,
                 taskVars>>

-----------------------------------------------------------------------------
(* A slave task that sends: loopbackFxn_Send. *)

TaskFrame == UNCHANGED <<plan, hostVars, si, numThreads, table, threadVars>>
MayRun(t) == Runs /\ Undisturbed(t)

\* An error other than NOTFOUND is only printed: the task goes on with a
\* queue id that names no queue.
TaskSendOpen(t) ==
  /\ stk[t] = "sOpen" /\ MayRun(t)
  /\ \/ /\ A15RecvQ(t) \in exists
        /\ stk' = Goto(stk, t, "send")
        /\ UNCHANGED fault
     \/ /\ Fails("open")
        /\ stk' = Goto(stk, t, "sendLost")
  /\ UNCHANGED <<exists, pending, live, spc, scnt, finished, reg>>
  /\ TaskFrame

\* Faulty variant: ids count from one.
TaskSendFromOne(t) ==
  /\ stk[t] = "send" /\ scnt[t] < table[t].numMessages
  /\ MayRun(t)
  /\ pending' = WithPut(pending, A15RecvQ(t),
                        StreamMsg((scnt[t] + 1) % IdRange, table[t].boBufPayloadPtr,
                                  table[t].boBufPayloadSize))
  /\ live' = live + 1
  /\ scnt' = [scnt EXCEPT ![t] = @ + 1]
  /\ UNCHANGED <<exists, fault, spc, stk, finished, reg>>
  /\ TaskFrame

\* One pass of the loop; the UInt32 counter is truncated to the id's width.
TaskSend(t) ==
  /\ stk[t] \in {"send", "sendLost"} /\ scnt[t] < table[t].numMessages
  /\ MayRun(t)
  /\ \/ /\ stk[t] = "send"
        /\ Len(pending[A15RecvQ(t)]) < MaxPending
        /\ pending' = WithPut(pending, A15RecvQ(t),
                        StreamMsg(scnt[t] % IdRange, table[t].boBufPayloadPtr,
                                  table[t].boBufPayloadSize))
        /\ live' = live + 1
        /\ scnt' = [scnt EXCEPT ![t] = @ + 1]
        /\ UNCHANGED <<stk, spc, fault>>
     \/ /\ Fails("alloc")
        /\ stk' = Goto(stk, t, "inc")
        /\ UNCHANGED <<pending, live, scnt, spc>>
     \/ /\ \/ Fails("put")
           \/ stk[t] = "sendLost" /\ UNCHANGED fault
        /\ live' = live + 1
        /\ Abort
        /\ UNCHANGED <<pending, scnt, stk>>
  /\ UNCHANGED <<exists, finished, reg>>
  /\ TaskFrame

TaskSendEnd(t) ==
  /\ stk[t] \in {"send", "sendLost"} /\ scnt[t] >= table[t].numMessages
  /\ MayRun(t)
  /\ stk' = Goto(stk, t, "inc")
  /\ UNCHANGED <<mqVars, spc, scnt, finished, reg>>
  /\ TaskFrame

-----------------------------------------------------------------------------
(* A slave task that receives: loopbackFxn_Recv. *)

TaskRecvCreate(t) ==
  /\ stk[t] = "rCreate" /\ MayRun(t)
  /\ \/ /\ Create(M4RecvQ(t))
        /\ stk' = Goto(stk, t, "recv")
        /\ UNCHANGED spc
     \/ /\ CreateFails(M4RecvQ(t))
        /\ Abort
        /\ UNCHANGED stk
  /\ UNCHANGED <<scnt, finished, reg>>
  /\ TaskFrame

TaskRecvGet(t) ==
  /\ stk[t] = "recv" /\ scnt[t] < table[t].numMessages
  /\ MayRun(t)
  /\ HasMessage(M4RecvQ(t))
  /\ pending' = WithoutHead(pending, M4RecvQ(t))
  /\ \/ /\ Head(pending[M4RecvQ(t)]).id = scnt[t]
        /\ live' = live - 1
        /\ scnt' = [scnt EXCEPT ![t] = @ + 1]
        /\ UNCHANGED spc
     \/ /\ Head(pending[M4RecvQ(t)]).id # scnt[t]
        /\ Abort
        /\ UNCHANGED <<live, scnt>>
  /\ UNCHANGED <<exists, fault, stk, finished, reg>>
  /\ TaskFrame

TaskRecvEnd(t) ==
  /\ stk[t] = "recv" /\ scnt[t] >= table[t].numMessages
  /\ MayRun(t)
  /\ Delete(M4RecvQ(t))
  /\ stk' = Goto(stk, t, "inc")
  /\ UNCHANGED <<live, fault, spc, scnt, finished, reg>>
  /\ TaskFrame

-----------------------------------------------------------------------------
(* gFinishedCounter++, the last statement of both task functions. *)

TaskCountRead(t) ==
  /\ stk[t] = "inc" /\ MayRun(t)
  /\ reg' = [reg EXCEPT ![t] = finished]
  /\ stk' = Goto(stk, t, "store")
  /\ UNCHANGED <<mqVars, spc, scnt, finished>>
  /\ TaskFrame

TaskCountWrite(t) ==
  /\ stk[t] = "store" /\ Runs
  /\ finished' = reg[t] + 1
  /\ stk' = Goto(stk, t, "finished")
  /\ UNCHANGED <<mqVars, spc, scnt, reg>>
  /\ TaskFrame

SlaveTask(t) ==
  \/ TaskSendOpen(t) \/ TaskSend(t) \/ TaskSendEnd(t)
  \/ TaskRecvCreate(t) \/ TaskRecvGet(t) \/ TaskRecvEnd(t)
  \/ TaskCountRead(t) \/ TaskCountWrite(t)

HostMain  == HostSpawn \/ HostJoin
SlaveMain == SlaveCreateTask \/ SlaveTasksCreated \/ SlaveAllFinished

Next ==
  \/ HostMain \/ SlaveMain
  \/ \E t \in Thread : HostThread(t) \/ SlaveTask(t)

\* The state a handshake without failures leaves (module Handshake).
RegionStart(p) ==
  LET start[i \in 1 .. Len(p)] ==
        IF i = 1 THEN BufBase ELSE start[i - 1] + p[i - 1].msgSize
  IN  start

TableFor(p, dirs) ==
  [i \in 1 .. Len(p) |->
     [boBufPayloadPtr |-> RegionStart(p)[i], boBufPayloadSize |-> p[i].msgSize,
      numMessages |-> p[i].msgCount, thrDirection |-> dirs[i]]]

Init ==
  /\ MqInit
  /\ plan \in Plans
  /\ hpc = "spawn" /\ hi = 0 /\ hoff = 0
  /\ spc = "slTasks" /\ si = 0 /\ numThreads = Len(plan)
  /\ \E dirs \in [1 .. Len(plan) -> ThreadDirection] :
       /\ \A i \in 1 .. Len(plan) :
            plan[i].direction # bidirectional => dirs[i] = 1 - plan[i].direction
       /\ table = TableFor(plan, dirs)
  /\ hth = [t \in Thread |-> "none"]
  /\ hcnt = [t \in Thread |-> 0]
  /\ hptr = [t \in Thread |-> 0]
  /\ stk = [t \in Thread |-> "none"]
  /\ scnt = [t \in Thread |-> 0]
  /\ finished = 0
  /\ reg = [t \in Thread |-> 0]

\* Linux runs every thread that can go on.  A slave task that polls or waits
\* for a message sleeps meanwhile, so its equals and tsk1Fxn get the core.
Fairness ==
  /\ WF_vars(HostMain) /\ WF_vars(SlaveMain)
  /\ \A t \in Thread : WF_vars(HostThread(t)) /\ WF_vars(SlaveTask(t))

Spec == Init /\ [][Next]_vars /\ Fairness

-----------------------------------------------------------------------------
(* Properties. *)

TypeOK ==
  /\ exists \subseteq StreamQ
  /\ \A q \in QueueName : \A i \in 1 .. Len(pending[q]) :
       pending[q][i] \in [id : 0 .. IdRange - 1, boBufPayloadPtr : Nat,
                          boBufPayloadSize : Nat]
  /\ live \in Nat /\ fault \in BOOLEAN
  /\ plan \in Plans
  /\ hpc \in HostPc /\ hi \in 0 .. Len(plan) /\ hoff \in Nat
  /\ spc \in SlavePc /\ si \in 0 .. numThreads /\ numThreads = Len(plan)
  /\ hth \in [Thread -> ThreadPc] /\ hcnt \in [Thread -> 0 .. IdRange - 1]
  /\ hptr \in [Thread -> Nat]
  /\ stk \in [Thread -> TaskPc] /\ scnt \in [Thread -> Nat]
  /\ finished \in Nat /\ reg \in [Thread -> Nat]

Lines == 1 .. Len(plan)
StreamQueue(t) ==
  IF plan[t].direction = unidirectional_send THEN M4RecvQ(t) ELSE A15RecvQ(t)

IdsIn(q) == [i \in 1 .. Len(pending[q]) |-> pending[q][i].id]

\* The ids waiting in a one-way stream's queue are, one after another, those
\* its receiver counts up to: the slave never stops and a host thread never
\* gives up over a message it did not expect, whatever else has failed.
HostSends(t) == t \in Lines /\ plan[t].direction = unidirectional_send

IdsAlwaysExpected ==
  \A t \in Lines : plan[t].direction # bidirectional =>
    LET got == IF HostSends(t) THEN scnt[t] ELSE hcnt[t]
        ids == IdsIn(StreamQueue(t))
    IN  \A i \in 1 .. Len(ids) : ids[i] = got + i - 1

\* Both sides compute a thread's part of the shared buffer on their own, the
\* slave from the handshake and the host from a second running offset: they
\* agree, and every message under way carries the part of its own thread.  (The
\* types of all variables are part of it.)
RegionsAgree ==
  /\ TypeOK
  /\ \A t \in Lines :
       /\ hth[t] # "none" => hptr[t] = table[t].boBufPayloadPtr
       /\ \A i \in 1 .. Len(pending[StreamQueue(t)]) :
            LET m == pending[StreamQueue(t)][i]
            IN  /\ m.boBufPayloadPtr = table[t].boBufPayloadPtr
                /\ m.boBufPayloadSize = table[t].boBufPayloadSize

\* gFinishedCounter never runs ahead of the tasks that have finished, so that
\* tsk1Fxn never leaves its polling loop, and later deletes a task, too early.
CounterNeverAhead ==
  /\ finished <= Cardinality({t \in Thread : stk[t] = "finished"})
  /\ spc = "dtCreate" => \A t \in Lines : stk[t] = "finished"

\* Every finished task has been counted.
AllFinishedCounted ==
  finished = Cardinality({t \in Thread : stk[t] = "finished"})

\* Each stream, host to slave or slave to host, is a channel that delivers in
\* order and once as many messages as the plan asks for: module OneWayStreams,
\* with the sender's and the receiver's own counters as sent and rcvd.
OneWay == INSTANCE OneWayStreams WITH
  Stream <- Thread,
  count  <- [t \in Thread |-> IF t \in Lines THEN plan[t].msgCount ELSE 0],
  sent   <- [t \in Thread |-> IF HostSends(t) THEN hcnt[t] ELSE scnt[t]],
  rcvd   <- [t \in Thread |-> IF HostSends(t) THEN scnt[t] ELSE hcnt[t]],
  chan   <- [t \in Thread |-> IF t \in Lines THEN IdsIn(StreamQueue(t)) ELSE <<>>]

StreamsAreOneWay == OneWay!Spec

\* The same as far as safety goes, for runs in which calls may fail.
StreamsAreSafe == OneWay!SafeSpec

\* The streaming phase ends on both sides.
StreamsEnd == <>(hpc = "dhCreate" /\ spc = "dtCreate")

=============================================================================
