----------------------------- MODULE Handshake -----------------------------
(***************************************************************************)
(* The handshake that opens a run of the zero-copy test.  One message goes *)
(* back and forth between MessageQApp_handshake on the host and tsk1Fxn on *)
(* the slave: first with the number of threads, then once per thread with  *)
(* the thread's parameters and its part of the shared buffer.  The slave   *)
(* stores what it is told, with the direction seen from its own side.      *)
(***************************************************************************)
EXTENDS MessageQ

VARIABLES
  plan,         \* pThrConfig[0 .. numThreads-1] of this run
  hpc,          \* where the host's main thread is
  hi,           \* its loop counter i
  hoff,         \* its tempOffsetCtr
  spc,          \* where the slave's tsk1Fxn is
  numThreads,   \* the slave's global numThreads
  table         \* the part of pTaskConfigs that is filled in

hostVars  == <<hpc, hi, hoff>>
slaveVars == <<spc, numThreads, table>>
vars == <<exists, pending, live, fault, plan, hpc, hi, hoff, spc, numThreads,
          table>>

HostPc == {"hsCreate", "hsOpen", "hsAlloc", "hsPutCount", "hsGetCount",
           "hsPutConf", "hsGetConf", "hsFree", "hsClose", "hsDelete", "spawn"}
SlavePc == {"slCreate", "slGetCount", "slGetConf", "slDelete", "slTasks",
            "aborted"}

\* What the slave knows of a thread: pTaskConfigs[i].
TaskConf == [boBufPayloadPtr : Nat, boBufPayloadSize : Nat,
             numMessages : Nat, thrDirection : ThreadDirection]

\* The one message, as first sent and as sent for a thread.  The fields the
\* host has not filled in yet are left out: the slave must not look at them.
CountMsg(n) == [numThreads |-> n]
ConfMsg(c, off) ==
  [boBufPayloadPtr |-> BufBase + off, boBufPayloadSize |-> c.msgSize,
   numMessages |-> c.msgCount, thrDirection |-> c.direction]

Message == [numThreads : Nat] \cup TaskConf

\* pTaskConfigs comes from Memory_alloc and thrDirection is only assigned for
\* the two one-way directions: otherwise it is whatever the memory held.
SlaveDirection(d) ==
  CASE d = unidirectional_recv -> {unidirectional_send}
    [] d = unidirectional_send -> {unidirectional_recv}
    [] OTHER -> ThreadDirection

-----------------------------------------------------------------------------
(* The host: MessageQApp_handshake. *)

HostCreate ==
  /\ hpc = "hsCreate"
  /\ \/ /\ Create(HandshakeQ)
        /\ hpc' = "hsOpen"
     \/ /\ CreateFails(HandshakeQ)
        /\ hpc' = "spawn"
  /\ UNCHANGED <<plan, hi, hoff, slaveVars>>

\* Polls until the slave has created its queue.
HostOpen ==
  /\ hpc = "hsOpen"
  /\ \/ /\ SlaveProcQ \in exists
        /\ hpc' = "hsAlloc"
        /\ UNCHANGED fault
     \/ /\ Fails("open")
        /\ hpc' = "hsDelete"
  /\ UNCHANGED <<exists, pending, live, plan, hi, hoff, slaveVars>>

HostAlloc ==
  /\ hpc = "hsAlloc"
  /\ \/ /\ live' = live + 1
        /\ hpc' = "hsPutCount"
        /\ UNCHANGED fault
     \/ /\ Fails("alloc")
        /\ hpc' = "hsClose"
        /\ UNCHANGED live
  /\ UNCHANGED <<exists, pending, plan, hi, hoff, slaveVars>>

\* Faulty variant: after a failed put the message is not freed.
HostPutCountLeaks ==
  /\ hpc = "hsPutCount"
  /\ \/ /\ pending' = WithPut(pending, SlaveProcQ, CountMsg(Len(plan)))
        /\ hpc' = "hsGetCount"
        /\ UNCHANGED fault
     \/ /\ Fails("put")
        /\ hpc' = "hsClose"
        /\ UNCHANGED pending
  /\ UNCHANGED <<exists, live, plan, hi, hoff, slaveVars>>

HostPutCount ==
  /\ hpc = "hsPutCount"
  /\ \/ /\ pending' = WithPut(pending, SlaveProcQ, CountMsg(Len(plan)))
        /\ hpc' = "hsGetCount"
        /\ UNCHANGED fault
     \/ /\ Fails("put")
        /\ hpc' = "hsFree"
        /\ UNCHANGED pending
  /\ UNCHANGED <<exists, live, plan, hi, hoff, slaveVars>>

HostGetCount ==
  /\ hpc = "hsGetCount"
  /\ HasMessage(HandshakeQ)
  /\ pending' = WithoutHead(pending, HandshakeQ)
  /\ hpc' = IF hi < Len(plan) THEN "hsPutConf" ELSE "hsFree"
  /\ UNCHANGED <<exists, live, plan, hi, hoff, slaveVars, fault>>

\* tempOffsetCtr moves on before the put, so also when the put fails.
HostPutConf ==
  /\ hpc = "hsPutConf"
  /\ hoff' = hoff + plan[hi + 1].msgSize
  /\ \/ /\ pending' = WithPut(pending, SlaveProcQ, ConfMsg(plan[hi + 1], hoff))
        /\ hpc' = "hsGetConf"
        /\ UNCHANGED fault
     \/ /\ Fails("put")
        /\ hpc' = "hsFree"
        /\ UNCHANGED pending
  /\ UNCHANGED <<exists, live, plan, hi, slaveVars>>

\* Faulty variants: the get polls instead of waiting; the loop ends one
\* thread early.
HostGetConfPolls ==
  /\ hpc = "hsGetConf"
  /\ pending' = IF HasMessage(HandshakeQ) THEN WithoutHead(pending, HandshakeQ)
                                         ELSE pending
  /\ hi' = hi + 1
  /\ hpc' = IF hi + 1 < Len(plan) THEN "hsPutConf" ELSE "hsFree"
  /\ UNCHANGED <<exists, live, plan, hoff, slaveVars, fault>>

HostGetConfShort ==
  /\ hpc = "hsGetConf"
  /\ HasMessage(HandshakeQ)
  /\ pending' = WithoutHead(pending, HandshakeQ)
  /\ hi' = hi + 1
  /\ hpc' = IF hi + 2 < Len(plan) THEN "hsPutConf" ELSE "hsFree"
  /\ UNCHANGED <<exists, live, plan, hoff, slaveVars, fault>>

HostGetConf ==
  /\ hpc = "hsGetConf"
  /\ HasMessage(HandshakeQ)
  /\ pending' = WithoutHead(pending, HandshakeQ)
  /\ hi' = hi + 1
  /\ hpc' = IF hi + 1 < Len(plan) THEN "hsPutConf" ELSE "hsFree"
  /\ UNCHANGED <<exists, live, plan, hoff, slaveVars, fault>>

\* Faulty variant: the handshake's queue is not deleted.
HostCleanupKeepsQueue ==
  /\ hpc \in {"hsFree", "hsClose", "hsDelete"}
  /\ live' = IF hpc = "hsFree" THEN live - 1 ELSE live
  /\ hpc' = "spawn" /\ hi' = 0 /\ hoff' = 0
  /\ UNCHANGED <<exists, pending, plan, slaveVars, fault>>

\* free_cleanup, close_cleanup and cleanup, whose result main ignores.  The
\* loop counter and the offset end with the function: main counts from 0 again.
HostCleanup ==
  /\ hpc \in {"hsFree", "hsClose", "hsDelete"}
  /\ live' = IF hpc = "hsFree" THEN live - 1 ELSE live
  /\ Delete(HandshakeQ)
  /\ hpc' = "spawn" /\ hi' = 0 /\ hoff' = 0
  /\ UNCHANGED <<plan, slaveVars, fault>>

HostNext ==
  \/ HostCreate \/ HostOpen \/ HostAlloc \/ HostPutCount \/ HostGetCount
  \/ HostPutConf \/ HostGetConf \/ HostCleanup

-----------------------------------------------------------------------------
(* The slave: tsk1Fxn up to MessageQ_delete.  System_abort stops the core. *)

SlaveCreate ==
  /\ spc = "slCreate"
  /\ \/ /\ Create(SlaveProcQ)
        /\ spc' = "slGetCount"
     \/ /\ CreateFails(SlaveProcQ)
        /\ spc' = "aborted"
  /\ UNCHANGED <<plan, hostVars, numThreads, table>>

\* Faulty variant: a failed put is only reported.
SlaveReceiveAndEchoGoesOn(next) ==
  LET taken == WithoutHead(pending, SlaveProcQ)
      msg   == Head(pending[SlaveProcQ])
  IN  /\ spc' = next
      /\ \/ /\ pending' = WithPut(taken, HandshakeQ, msg)
            /\ UNCHANGED fault
         \/ /\ Fails("put")
            /\ pending' = taken

\* The slave takes a message, keeps what is in it, and puts it on the reply
\* queue; next is where it goes on if that put succeeds.
SlaveReceiveAndEcho(next) ==
  LET taken == WithoutHead(pending, SlaveProcQ)
      msg   == Head(pending[SlaveProcQ])
  IN  \/ /\ pending' = WithPut(taken, HandshakeQ, msg)
         /\ spc' = next
         /\ UNCHANGED fault
      \/ /\ Fails("put")
         /\ pending' = taken
         /\ spc' = "aborted"

SlaveGetCount ==
  /\ spc = "slGetCount"
  /\ HasMessage(SlaveProcQ)
  /\ numThreads' = Head(pending[SlaveProcQ]).numThreads
  /\ table' = <<>>
  /\ \/ SlaveReceiveAndEcho(IF numThreads' > 0 THEN "slGetConf" ELSE "slDelete")
     \/ /\ Fails("alloc")      \* Memory_alloc of pTaskConfigs, after the echo
        /\ pending' = WithPut(WithoutHead(pending, SlaveProcQ), HandshakeQ,
                              Head(pending[SlaveProcQ]))
        /\ spc' = "aborted"
  /\ UNCHANGED <<exists, live, plan, hostVars>>

\* Faulty variant: the slave waits for one thread more than there are.
SlaveGetConfTooMany ==
  /\ spc = "slGetConf"
  /\ HasMessage(SlaveProcQ)
  /\ LET msg == Head(pending[SlaveProcQ])
     IN  \E d \in SlaveDirection(msg.thrDirection) :
           table' = Append(table, [msg EXCEPT !.thrDirection = d])
  /\ SlaveReceiveAndEcho(IF Len(table') <= numThreads THEN "slGetConf"
                                                      ELSE "slDelete")
  /\ UNCHANGED <<exists, live, plan, hostVars, numThreads>>

SlaveGetConf ==
  /\ spc = "slGetConf"
  /\ HasMessage(SlaveProcQ)
  /\ LET msg == Head(pending[SlaveProcQ])
     IN  \E d \in SlaveDirection(msg.thrDirection) :
           table' = Append(table, [msg EXCEPT !.thrDirection = d])
  /\ SlaveReceiveAndEcho(IF Len(table') < numThreads THEN "slGetConf"
                                                     ELSE "slDelete")
  /\ UNCHANGED <<exists, live, plan, hostVars, numThreads>>

\* Faulty variant: the slave keeps its queue from run to run.
SlaveDeleteKeeps ==
  /\ spc = "slDelete"
  /\ spc' = "slTasks"
  /\ UNCHANGED <<exists, pending, live, plan, hostVars, numThreads, table, fault>>

SlaveDelete ==
  /\ spc = "slDelete"
  /\ Delete(SlaveProcQ)
  /\ spc' = "slTasks"
  /\ UNCHANGED <<live, plan, hostVars, numThreads, table, fault>>

SlaveNext == SlaveCreate \/ SlaveGetCount \/ SlaveGetConf \/ SlaveDelete

-----------------------------------------------------------------------------

Init ==
  /\ MqInit
  /\ plan \in Plans
  /\ hpc = "hsCreate" /\ hi = 0 /\ hoff = 0
  /\ spc = "slCreate" /\ numThreads = 0 /\ table = <<>>

Next == HostNext \/ SlaveNext

\* Each processor keeps running: Linux schedules the host's main thread, and
\* nothing on the slave keeps tsk1Fxn from running when it is ready.
Fairness == WF_vars(HostNext) /\ WF_vars(SlaveNext)

Spec == Init /\ [][Next]_vars /\ Fairness

-----------------------------------------------------------------------------
(* Properties. *)

TypeOK ==
  /\ exists \subseteq {HandshakeQ, SlaveProcQ}
  /\ pending \in [QueueName -> Seq(Message)]
  /\ live \in {0, 1}
  /\ fault \in BOOLEAN
  /\ plan \in Plans
  /\ hpc \in HostPc /\ hi \in 0 .. Len(plan) /\ hoff \in Nat
  /\ spc \in SlavePc /\ numThreads \in Nat /\ table \in Seq(TaskConf)

\* Stop and wait: the one message of the handshake is always in exactly one
\* place (the host's hands or one of the two queues), so neither side ever
\* writes a message the other may be reading.  An aborted slave keeps it.
HostHolds == hpc \in {"hsPutCount", "hsPutConf", "hsFree"}

OneMessage ==
  spc # "aborted" =>
    Len(pending[SlaveProcQ]) + Len(pending[HandshakeQ])
      + (IF HostHolds THEN 1 ELSE 0) = live

\* What the slave has stored for its i-th task is the i-th line of the host's
\* plan, with the direction seen from the other side, whatever has failed
\* meanwhile: no parameter of one thread ever ends up with another.
Inverse(d) == {e \in ThreadDirection : d # bidirectional => e = 1 - d}

TableFollowsPlan ==
  /\ Len(table) <= Len(plan)
  /\ \A i \in 1 .. Len(table) :
       /\ table[i].boBufPayloadSize = plan[i].msgSize
       /\ table[i].numMessages = plan[i].msgCount
       /\ table[i].thrDirection \in Inverse(plan[i].direction)

\* The parts of the shared buffer given to the slave's tasks start at the
\* buffer and follow one another without gap or overlap.
RegionsTile ==
  \A i \in 1 .. Len(table) :
    table[i].boBufPayloadPtr =
      IF i = 1 THEN BufBase
      ELSE table[i - 1].boBufPayloadPtr + table[i - 1].boBufPayloadSize

\* When the host goes on to start its threads and no call has failed, the
\* slave has every thread's parameters and will ask for no more.
HandshakeComplete ==
  hpc = "spawn" /\ ~fault =>
    /\ numThreads = Len(plan) /\ Len(table) = numThreads
    /\ spc \in {"slDelete", "slTasks"}

\* The handshake frees its message whichever way the host leaves it, even if
\* the slave has stopped meanwhile: nothing is left allocated after it.
HandshakeFrees == hpc = "spawn" => live = 0

\* The inductive invariant behind the properties above: for every place the
\* host's main thread may be in, where the message is, how much the slave has
\* been told and where the slave may be (see module HandshakeProofs).
Nowhere     == pending[SlaveProcQ] = <<>> /\ pending[HandshakeQ] = <<>>
AtSlave(m)  == pending[SlaveProcQ] = <<m>> /\ pending[HandshakeQ] = <<>>
AtHost(m)   == pending[SlaveProcQ] = <<>> /\ pending[HandshakeQ] = <<m>>
Told(k)     == numThreads = Len(plan) /\ Len(table) = k
NotTold     == table = <<>> /\ spc \in {"slCreate", "slGetCount", "aborted"}
Complete    == Told(Len(plan)) /\ spc \in {"slDelete", "slTasks"}

\* Where the next region starts, in the slave's table and for the host.
RegionEnd ==
  IF table = <<>> THEN BufBase
  ELSE table[Len(table)].boBufPayloadPtr + table[Len(table)].boBufPayloadSize

QueuesInv ==
  /\ HandshakeQ \in exists <=> hpc \notin {"hsCreate", "spawn"}
  /\ spc = "slCreate" => SlaveProcQ \notin exists
  /\ spc \in {"slGetCount", "slGetConf", "slDelete"} => SlaveProcQ \in exists

BeforeCount ==
  /\ hpc \in {"hsCreate", "hsOpen"} =>
       /\ Nowhere /\ NotTold /\ live = 0 /\ hi = 0 /\ hoff = 0
       /\ SlaveProcQ \in exists => spc = "slGetCount"
  /\ hpc \in {"hsAlloc", "hsPutCount"} =>
       /\ Nowhere /\ NotTold /\ spc = "slGetCount" /\ hi = 0 /\ hoff = 0
       /\ live = (IF hpc = "hsAlloc" THEN 0 ELSE 1)

DuringCount ==
  hpc = "hsGetCount" =>
    /\ live = 1 /\ hi = 0 /\ hoff = 0 /\ SlaveProcQ \in exists
    /\ \/ AtSlave(CountMsg(Len(plan))) /\ NotTold /\ spc = "slGetCount"
       \/ AtHost(CountMsg(Len(plan))) /\ Told(0) /\ spc \in {"slGetConf", "aborted"}
       \/ Nowhere /\ Told(0) /\ spc = "aborted"

BeforeConf ==
  hpc = "hsPutConf" =>
    /\ live = 1 /\ hi < Len(plan) /\ SlaveProcQ \in exists
    /\ Nowhere /\ Told(hi) /\ RegionEnd = BufBase + hoff
    /\ spc \in {"slGetConf", "aborted"}

DuringConf ==
  hpc = "hsGetConf" =>
    /\ live = 1 /\ hi < Len(plan)
    /\ \/ /\ AtSlave(ConfMsg(plan[hi + 1], hoff - plan[hi + 1].msgSize))
          /\ Told(hi) /\ RegionEnd = BufBase + hoff - plan[hi + 1].msgSize
          /\ spc \in {"slGetConf", "aborted"}
       \/ /\ AtHost(ConfMsg(plan[hi + 1], hoff - plan[hi + 1].msgSize))
          /\ Told(hi + 1) /\ RegionEnd = BufBase + hoff
          /\ spc \in IF hi + 1 < Len(plan) THEN {"slGetConf"}
                                           ELSE {"slDelete", "slTasks"}
       \/ Nowhere /\ spc = "aborted"

AfterConf ==
  /\ hpc = "hsFree" => Nowhere /\ live = 1 /\ (fault \/ Complete)
  /\ hpc \in {"hsClose", "hsDelete"} => Nowhere /\ live = 0 /\ NotTold /\ fault
  /\ hpc = "spawn" => Nowhere /\ live = 0 /\ (fault \/ Complete)

IInv ==
  /\ TypeOK /\ TableFollowsPlan /\ RegionsTile /\ QueuesInv
  /\ BeforeCount /\ DuringCount /\ BeforeConf /\ DuringConf /\ AfterConf

\* Unless a call fails, both sides get through the handshake.
HandshakeEnds == <>(fault \/ (hpc = "spawn" /\ spc = "slTasks"))

\* With failures the host can be left waiting only by a slave that stopped.
HostLeaves == <>(hpc = "spawn" \/ spc = "aborted")

=============================================================================
