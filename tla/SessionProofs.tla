--------------------------- MODULE SessionProofs ---------------------------
(***************************************************************************)
(* Proofs about module Session: what the three phases of a run promise to  *)
(* each other, over any number of runs, plans, threads and failing calls.  *)
(*                                                                         *)
(* The session is seen through the two phases that have proofs of their    *)
(* own.  HP is module Handshake with derived variables, such that every    *)
(* step of the session is a step of the handshake, one that begins the     *)
(* next, or none; SP is module Streams in the same way while the streams   *)
(* are on.  Their inductive invariants then hold of the session, and       *)
(* SessionInv ties them to each other and to the data transaction: who has *)
(* which queue, which tasks and threads have ended, where the one message  *)
(* of the transaction is, and how far the end of one run and the start of  *)
(* the next overlap.                                                       *)
(*                                                                         *)
(* A call that fails leaves one of the programs in the middle of a phase.  *)
(* The run in which this happens is still spoken about, to its end; of a   *)
(* run started after it only BaseInv is known.                             *)
(***************************************************************************)
EXTENDS Session, FiniteSetTheorems, TLAPS

-----------------------------------------------------------------------------
(* The handshake as seen in the session. *)

\* The queues of the handshake: the host's and tsk1Fxn's own (MessageQZCpy.c,
\* messageq_zerocpy.c).
HsQueues == {HandshakeQ, SlaveProcQ}
\* The messages that wait on some of the queues, with the others left out.
Seen(queues) == [q \in QueueName |-> IF q \in queues THEN pending[q] ELSE <<>>]
\* main is in SlaveHandshake, before the first pthread_create.
HostHandshakes == hpc \in HS!HostPc \ {"spawn"}
\* The handshake's message of the host, while it has it.
hsLive ==
  IF hpc \in {"hsPutCount", "hsGetCount", "hsPutConf", "hsGetConf", "hsFree"} THEN 1 ELSE 0
hsIndex == IF HostHandshakes THEN hi ELSE 0
hsOffset == IF HostHandshakes THEN hoff ELSE 0

\* tsk1Fxn has all it is told in the handshake, and has not left its part of the
\* streams: also where it stopped in them.
Streaming ==
  \/ spc \in {"slDelete", "slTasks", "slWait", "dtCreate", "dtGet"}
  \/ spc = "aborted" /\ SlaveProcQ \notin exists /\ table # <<>>

\* tsk1Fxn's place as the handshake sees it: in the streams it is past it, and
\* from the end of the transaction on it is before the next one.
hsSlave ==
  IF Streaming /\ spc # "slDelete" THEN "slTasks"
  ELSE IF spc \in {"dtDelete", "slFree", "slReset"} THEN "slCreate"
  ELSE spc
hsTable == IF spc \in {"dtDelete", "slFree", "slReset"} THEN <<>> ELSE table
\* tsk1Fxn is, for the handshake, at the start of the next run, not yet told
\* anything.
Ready ==
  /\ hsTable = <<>> /\ hsSlave \in {"slCreate", "slGetCount", "aborted"}
  /\ SlaveProcQ \in exists <=> hsSlave = "slGetCount"
\* main's place as the handshake sees it: once the slave is ready again, the
\* host has not begun.
hsHost ==
  IF hpc \in HS!HostPc THEN hpc
  ELSE IF hpc \in {"dhGet", "dhDelete", "leave", "idle"} /\ Ready THEN "hsCreate"
  ELSE "spawn"
hsExists == exists \cap HsQueues

HP == INSTANCE HandshakeProofs WITH
  exists <- hsExists, pending <- Seen(HsQueues), live <- hsLive,
  hpc <- hsHost, hi <- hsIndex, hoff <- hsOffset, spc <- hsSlave, table <- hsTable

\* What module Streams sees.
Scope ==
  /\ Streaming /\ hpc # "dhGet"
  /\ ~ (spc = "dtGet" /\ hpc \in {"dhDelete", "leave", "idle"})

stExists == exists \cap StreamQ
\* The buffers of the heap that the streams have: all but the handshake's.
stLive == live - hsLive
stHost ==
  IF hpc \in HS!HostPc THEN "spawn"
  ELSE IF hpc \in {"join", "crashed"} THEN hpc ELSE "dhCreate"
stSlave == IF spc = "slDelete" THEN "slTasks" ELSE IF spc = "dtGet" THEN "dtCreate" ELSE spc
stIndex == IF HostHandshakes THEN 0 ELSE hi
stOffset == IF HostHandshakes THEN 0 ELSE hoff
stScnt == [t \in Thread |-> IF stk[t] = "none" THEN 0 ELSE scnt[t]]

SP == INSTANCE StreamsProofs WITH
  exists <- stExists, pending <- Seen(StreamQ), live <- stLive,
  hpc <- stHost, hi <- stIndex, hoff <- stOffset, spc <- stSlave, scnt <- stScnt

\* The assumptions of the theorems about Handshake, under which they may be used
\* for the session.
LEMMA HandshakeAssumptions ==
  /\ Faults \subseteq HP!FaultKind /\ BufBase \in Nat /\ MaxThreads \in Nat \ {0}
  /\ \A p \in Plans : p \in Seq(HP!ThreadConf) /\ Len(p) \in HP!Thread
BY FaultsAssumption, BufBaseAssumption, PlansAssumption, MaxThreadsAssumption
   DEF HP!FaultKind, FaultKind, HP!ThreadConf, ThreadConf, HP!Thread, Thread, HP!ThreadDirection, ThreadDirection,
   HP!unidirectional_send, unidirectional_send, HP!unidirectional_recv, unidirectional_recv, HP!bidirectional, bidirectional

\* pending is a function on the names of the queues; what the messages are, the
\* phases say.
PendingType == pending = [q \in QueueName |-> pending[q]]

\* A change of one queue is seen by those who look at that queue, and only by
\* them.
LEMMA SeenChange ==
  ASSUME PendingType, NEW S \in SUBSET QueueName, NEW q \in QueueName, NEW x,
         pending' = [pending EXCEPT ![q] = x]
  PROVE  /\ q \in S => Seen(S)' = [Seen(S) EXCEPT ![q] = x]
         /\ q \notin S => Seen(S)' = Seen(S)
         /\ PendingType'
BY DEF Seen, PendingType

\* The handshake and its proofs name the queues as the session does.
LEMMA HsNames ==
  /\ HS!HandshakeQ = HandshakeQ /\ HS!SlaveProcQ = SlaveProcQ
  /\ HP!HandshakeQ = HandshakeQ /\ HP!SlaveProcQ = SlaveProcQ
  /\ HandshakeQ \in HsQueues /\ SlaveProcQ \in HsQueues
  /\ HsQueues \in SUBSET QueueName /\ HandshakeQ # SlaveProcQ
BY DEF HS!HandshakeQ, HandshakeQ, HS!SlaveProcQ, SlaveProcQ, HP!HandshakeQ, HP!SlaveProcQ, HsQueues, QueueName

\* What the handshake sees of tsk1Fxn depends on its place, its table and its
\* queue only.
LEMMA SlaveSame ==
  ASSUME UNCHANGED <<spc, table>>, SlaveProcQ \in exists' <=> SlaveProcQ \in exists
  PROVE  hsSlave' = hsSlave /\ hsTable' = hsTable /\ (Streaming' <=> Streaming) /\ (Ready' <=> Ready)
<1>1. Streaming' <=> Streaming
  BY DEF Streaming
<1>2. hsSlave' = hsSlave
  BY <1>1 DEF hsSlave
<1>3. QED
  BY <1>1, <1>2 DEF hsTable, Ready

\* In its own steps of the handshake the host is seen as it is.
LEMMA HostShows ==
  /\ hpc \in HS!HostPc => hsHost = hpc
  /\ hpc \in HS!HostPc \ {"spawn"} => hsIndex = hi /\ hsOffset = hoff
  /\ hpc \notin HS!HostPc \ {"spawn"} => hsIndex = 0 /\ hsOffset = 0 /\ hsLive = 0
BY DEF hsHost, hsIndex, hsOffset, HostHandshakes, HS!HostPc, hsLive

\* The two queues as the two sides of the handshake see them.
LEMMA SeenQueues ==
  /\ Seen(HsQueues)[HandshakeQ] = pending[HandshakeQ]
  /\ Seen(HsQueues)[SlaveProcQ] = pending[SlaveProcQ]
  /\ HandshakeQ \in hsExists <=> HandshakeQ \in exists
  /\ SlaveProcQ \in hsExists <=> SlaveProcQ \in exists
BY HsNames DEF Seen, hsExists

\* A MessageQ_put on a queue of the handshake is one for those who look at these
\* queues only.
LEMMA SeenPut ==
  ASSUME PendingType, NEW q \in HsQueues, NEW m,
         pending' = (IF q \in exists THEN [pending EXCEPT ![q] = Append(@, m)] ELSE pending)
  PROVE  /\ PendingType'
         /\ Seen(HsQueues)' = HP!WithPut(Seen(HsQueues), q, m)
<1>1. q \in QueueName /\ (q \in hsExists <=> q \in exists) /\ Seen(HsQueues)[q] = pending[q]
  BY HsNames DEF hsExists, Seen
<1>2. CASE q \in exists
  <2>1. pending' = [pending EXCEPT ![q] = Append(pending[q], m)]
    BY <1>2
  <2>2. PendingType' /\ Seen(HsQueues)' = [Seen(HsQueues) EXCEPT ![q] = Append(pending[q], m)]
    BY <1>1, <2>1, SeenChange, HsNames
  <2>3. QED
    BY <1>1, <1>2, <2>2 DEF HP!WithPut
<1>3. CASE q \notin exists
  BY <1>1, <1>3 DEF HP!WithPut, Seen, PendingType
<1>4. QED
  BY <1>2, <1>3

\* So is a MessageQ_get.
LEMMA SeenGet ==
  ASSUME PendingType, NEW q \in HsQueues, pending' = [pending EXCEPT ![q] = Tail(@)]
  PROVE  PendingType' /\ Seen(HsQueues)' = HP!WithoutHead(Seen(HsQueues), q)
<1>1. q \in QueueName /\ Seen(HsQueues)[q] = pending[q]
  BY HsNames DEF Seen
<1>2. PendingType' /\ Seen(HsQueues)' = [Seen(HsQueues) EXCEPT ![q] = Tail(pending[q])]
  BY <1>1, SeenChange, HsNames
<1>3. QED
  BY <1>1, <1>2 DEF HP!WithoutHead

\* Every step of main in SlaveHandshake, taken within the session, is a step of
\* module Handshake for what is seen of it.
LEMMA HsHostSteps == PendingType /\ HP!IInv /\ InHandshake(HS!HostNext) => HP!HostNext
<1> SUFFICES ASSUME PendingType, HP!IInv, InHandshake(HS!HostNext) PROVE HP!HostNext
  OBVIOUS
<1>0. UNCHANGED <<plan, spc, numThreads, table>>
  BY DEF InHandshake, HS!HostNext, HS!HostCreate, HS!HostOpen, HS!HostAlloc, HS!HostPutCount,
     HS!HostGetCount, HS!HostPutConf, HS!HostGetConf, HS!HostCleanup, HS!slaveVars
<1>1. SlaveProcQ \in exists' <=> SlaveProcQ \in exists
  BY HsNames DEF InHandshake, HS!HostNext, HS!HostCreate, HS!HostOpen, HS!HostAlloc, HS!HostPutCount,
     HS!HostGetCount, HS!HostPutConf, HS!HostGetConf, HS!HostCleanup, HS!Create, HS!CreateFails, HS!Delete
<1>2. hsSlave' = hsSlave /\ hsTable' = hsTable
  BY <1>0, <1>1, SlaveSame
<1> USE HsNames DEF InHandshake
<1>3. hpc \in HS!HostPc \ {"spawn"} /\ hpc' \in HS!HostPc
  BY DEF HS!HostPc, HS!HostNext, HS!HostCreate, HS!HostOpen, HS!HostAlloc, HS!HostPutCount,
     HS!HostGetCount, HS!HostPutConf, HS!HostGetConf, HS!HostCleanup
<1>4. /\ hsHost = hpc /\ hsHost' = hpc' /\ hsIndex = hi /\ hsOffset = hoff
      /\ hpc' # "spawn" => hsIndex' = hi' /\ hsOffset' = hoff'
      /\ hpc' = "spawn" => hsIndex' = 0 /\ hsOffset' = 0
  BY <1>3 DEF hsHost, hsIndex, hsOffset, HostHandshakes
<1>5. CASE HS!HostCreate
  <2>1. hi = 0 /\ hoff = 0
    BY <1>4, <1>5 DEF HP!IInv, HP!BeforeCount, HS!HostCreate
  <2>2. UNCHANGED <<hsIndex, hsOffset>>
    BY <1>4, <1>5, <2>1 DEF HS!HostCreate
  <2>3. UNCHANGED <<Seen(HsQueues), hsLive>>
    BY <1>5 DEF HS!HostCreate, HS!Create, HS!CreateFails, Seen, hsLive
  <2>4. HP!HostCreate
    BY <1>0, <1>2, <1>4, <1>5, <2>2, <2>3 DEF HP!HostCreate, HS!HostCreate, HS!Create, HP!Create, HS!CreateFails,
       HP!CreateFails, HP!slaveVars, hsExists
  <2>5. QED
    BY <2>4 DEF HP!HostNext
<1>6. CASE HS!HostOpen
  <2>1. UNCHANGED <<Seen(HsQueues), hsLive, hsExists>>
    BY <1>6 DEF HS!HostOpen, Seen, hsLive, hsExists
  <2>2. HP!HostOpen
    BY <1>0, <1>2, <1>4, <1>6, <2>1, SeenQueues DEF HP!HostOpen, HS!HostOpen, HS!Fails, HP!Fails, HP!slaveVars
  <2>3. QED
    BY <2>2 DEF HP!HostNext
<1>7. CASE HS!HostAlloc
  <2>1. UNCHANGED <<Seen(HsQueues), hsExists>> /\ hsLive' = (IF hpc' = "hsPutCount" THEN hsLive + 1 ELSE hsLive)
    BY <1>7 DEF HS!HostAlloc, Seen, hsLive, hsExists
  <2>2. HP!HostAlloc
    BY <1>0, <1>2, <1>4, <1>7, <2>1 DEF HP!HostAlloc, HS!HostAlloc, HS!Fails, HP!Fails, HP!slaveVars
  <2>3. QED
    BY <2>2 DEF HP!HostNext
<1>8. CASE HS!HostPutCount
  <2>1. UNCHANGED <<hsExists, hsLive>>
    BY <1>8 DEF HS!HostPutCount, hsLive, hsExists
  <2>2. CASE hpc' = "hsGetCount"
    <3>1. Seen(HsQueues)' = HP!WithPut(Seen(HsQueues), SlaveProcQ, HS!CountMsg(Len(plan)))
      BY <1>8, <2>2, SeenPut DEF HS!HostPutCount, HS!WithPut
    <3>2. HP!HostPutCount
      BY <1>0, <1>2, <1>4, <1>8, <2>1, <2>2, <3>1 DEF HP!HostPutCount, HS!HostPutCount, HP!slaveVars, HS!CountMsg, HP!CountMsg
    <3>3. QED
      BY <3>2 DEF HP!HostNext
  <2>3. CASE hpc' = "hsFree"
    <3>1. UNCHANGED Seen(HsQueues)
      BY <1>8, <2>3 DEF HS!HostPutCount, Seen
    <3>2. HP!HostPutCount
      BY <1>0, <1>2, <1>4, <1>8, <2>1, <2>3, <3>1 DEF HP!HostPutCount, HS!HostPutCount, HP!slaveVars, HS!Fails, HP!Fails
    <3>3. QED
      BY <3>2 DEF HP!HostNext
  <2>4. QED
    BY <1>8, <2>2, <2>3 DEF HS!HostPutCount
<1>9. CASE HS!HostGetCount
  <2>1. UNCHANGED <<hsExists, hsLive>>
    BY <1>9 DEF HS!HostGetCount, hsLive, hsExists
  <2>2. Seen(HsQueues)' = HP!WithoutHead(Seen(HsQueues), HandshakeQ)
    BY <1>9, SeenGet DEF HS!HostGetCount, HS!WithoutHead
  <2>3. HP!HostGetCount
    BY <1>0, <1>2, <1>4, <1>9, <2>1, <2>2, SeenQueues DEF HP!HostGetCount, HS!HostGetCount, HP!slaveVars, HS!HasMessage, HP!HasMessage
  <2>4. QED
    BY <2>3 DEF HP!HostNext
<1>10. CASE HS!HostPutConf
  <2>1. UNCHANGED <<hsExists, hsLive>>
    BY <1>10 DEF HS!HostPutConf, hsLive, hsExists
  <2>2. CASE hpc' = "hsGetConf"
    <3>1. Seen(HsQueues)' = HP!WithPut(Seen(HsQueues), SlaveProcQ, HS!ConfMsg(plan[hi + 1], hoff))
      BY <1>10, <2>2, SeenPut DEF HS!HostPutConf, HS!WithPut
    <3>2. HP!HostPutConf
      BY <1>0, <1>2, <1>4, <1>10, <2>1, <2>2, <3>1 DEF HP!HostPutConf, HS!HostPutConf, HP!slaveVars, HS!ConfMsg, HP!ConfMsg
    <3>3. QED
      BY <3>2 DEF HP!HostNext
  <2>3. CASE hpc' = "hsFree"
    <3>1. UNCHANGED Seen(HsQueues)
      BY <1>10, <2>3 DEF HS!HostPutConf, Seen
    <3>2. HP!HostPutConf
      BY <1>0, <1>2, <1>4, <1>10, <2>1, <2>3, <3>1 DEF HP!HostPutConf, HS!HostPutConf, HP!slaveVars, HS!Fails, HP!Fails
    <3>3. QED
      BY <3>2 DEF HP!HostNext
  <2>4. QED
    BY <1>10, <2>2, <2>3 DEF HS!HostPutConf
<1>11. CASE HS!HostGetConf
  <2>1. UNCHANGED <<hsExists, hsLive>>
    BY <1>11 DEF HS!HostGetConf, hsLive, hsExists
  <2>2. Seen(HsQueues)' = HP!WithoutHead(Seen(HsQueues), HandshakeQ)
    BY <1>11, SeenGet DEF HS!HostGetConf, HS!WithoutHead
  <2>3. HP!HostGetConf
    BY <1>0, <1>2, <1>4, <1>11, <2>1, <2>2, SeenQueues DEF HP!HostGetConf, HS!HostGetConf, HP!slaveVars, HS!HasMessage, HP!HasMessage
  <2>4. QED
    BY <2>3 DEF HP!HostNext
<1>12. CASE HS!HostCleanup
  <2>1. hpc' = "spawn" /\ hsExists' = hsExists \ {HandshakeQ}
        /\ hsLive' = (IF hpc = "hsFree" THEN hsLive - 1 ELSE hsLive)
    BY <1>12 DEF HS!HostCleanup, HS!Delete, hsLive, hsExists
  <2>2. Seen(HsQueues)' = [Seen(HsQueues) EXCEPT ![HandshakeQ] = <<>>]
    BY <1>12, SeenChange DEF HS!HostCleanup, HS!Delete
  <2>3. HP!HostCleanup
    BY <1>0, <1>2, <1>4, <1>12, <2>1, <2>2 DEF HP!HostCleanup, HS!HostCleanup, HP!slaveVars, HP!Delete
  <2>4. QED
    BY <2>3 DEF HP!HostNext
<1>13. QED
  BY <1>5, <1>6, <1>7, <1>8, <1>9, <1>10, <1>11, <1>12 DEF HS!HostNext

\* Who shows a message of the handshake to the slave.
LEMMA SlaveHasMessage ==
  ASSUME HP!IInv, pending[SlaveProcQ] # <<>>
  PROVE  hpc \in {"hsGetCount", "hsGetConf"} /\ hsHost = hpc
<1>1. Seen(HsQueues)[SlaveProcQ] # <<>>
  BY SeenQueues
<1>2. hsHost \in HP!HostPc
  BY DEF HP!IInv, HP!TypeOK
<1>3. hsHost \in {"hsGetCount", "hsGetConf"}
  BY <1>1, <1>2, HsNames DEF HP!IInv, HP!BeforeCount, HP!BeforeConf, HP!AfterConf, HP!Nowhere, HP!HostPc
<1>4. QED
  BY <1>3 DEF hsHost

\* So is every step of tsk1Fxn in its part of the handshake.
LEMMA HsSlaveSteps ==
  ASSUME PendingType, HP!IInv, spc = "slCreate" => table = <<>>, InHandshake(HS!SlaveNext)
  PROVE  HP!SlaveNext
<1>0. UNCHANGED <<plan, hpc, hi, hoff, live>>
  BY DEF InHandshake, HS!SlaveNext, HS!SlaveCreate, HS!SlaveGetCount, HS!SlaveGetConf, HS!SlaveDelete,
     HS!hostVars, HS!Create, HS!CreateFails
<1>1. UNCHANGED <<hsIndex, hsOffset, hsLive>>
  BY <1>0 DEF hsIndex, hsOffset, hsLive, HostHandshakes
<1> USE HsNames DEF InHandshake
<1>2. CASE HS!SlaveCreate
  <2>1. /\ spc = "slCreate" /\ table = <<>> /\ table' = <<>> /\ UNCHANGED <<pending, numThreads>>
        /\ \/ spc' = "slGetCount" /\ SlaveProcQ \notin exists /\ exists' = exists \cup {SlaveProcQ} /\ UNCHANGED fault
           \/ spc' = "aborted" /\ exists' = exists /\ fault' = TRUE /\ (SlaveProcQ \in exists \/ "create" \in Faults)
    BY <1>2 DEF HS!SlaveCreate, HS!Create, HS!CreateFails
  <2>2. /\ ~ Streaming /\ ~ Streaming' /\ hsSlave = spc /\ hsSlave' = spc'
        /\ hsTable = <<>> /\ hsTable' = <<>>
    BY <2>1 DEF Streaming, hsSlave, hsTable
  <2>3. SlaveProcQ \notin exists
    BY <2>1, <2>2, SeenQueues DEF HP!IInv, HP!QueuesInv
  <2>4. hsHost' = hsHost
    BY <1>0, <2>1, <2>2, <2>3 DEF hsHost, Ready
  <2>5. UNCHANGED Seen(HsQueues)
    BY <2>1 DEF Seen
  <2>6. HP!SlaveCreate
    BY <1>0, <1>1, <2>1, <2>2, <2>3, <2>4, <2>5 DEF HP!SlaveCreate, HP!Create, HP!CreateFails, HP!hostVars, hsExists
  <2>7. QED
    BY <2>6 DEF HP!SlaveNext
<1>3. CASE HS!SlaveGetCount \/ HS!SlaveGetConf
  <2>1. /\ HS!HasMessage(SlaveProcQ) /\ spc \in {"slGetCount", "slGetConf"}
        /\ spc' \in {"slGetConf", "slDelete", "aborted"} /\ UNCHANGED exists
    BY <1>3 DEF HS!SlaveGetCount, HS!SlaveGetConf, HS!SlaveReceiveAndEcho
  <2>2. hsHost = hpc /\ hsHost' = hpc
    BY <1>0, <2>1, SlaveHasMessage DEF HS!HasMessage, hsHost, HS!HostPc
  <2>3. /\ ~ Streaming /\ hsSlave = spc /\ hsTable = table
        /\ hsTable' = table'
    BY <2>1 DEF Streaming, hsSlave, hsTable
  <2>4. SlaveProcQ \in exists
    BY <2>1, <2>3, SeenQueues DEF HP!IInv, HP!QueuesInv
  <2>5. hsSlave' = spc'
    BY <2>1, <2>4 DEF hsSlave, Streaming
  <2>6. UNCHANGED hsExists /\ Seen(HsQueues)[SlaveProcQ] = pending[SlaveProcQ]
    BY <2>1, SeenQueues DEF hsExists
  <2> DEFINE taken == [pending EXCEPT ![SlaveProcQ] = Tail(pending[SlaveProcQ])]
             msg == Head(pending[SlaveProcQ])
             htaken == HP!WithoutHead(Seen(HsQueues), SlaveProcQ)
             hput == HP!WithPut(htaken, HandshakeQ, msg)
  <2>7. /\ pending' = taken => Seen(HsQueues)' = htaken
        /\ pending' = (IF HandshakeQ \in exists THEN [taken EXCEPT ![HandshakeQ] = Append(@, msg)] ELSE taken)
             => Seen(HsQueues)' = hput
    BY SeenQueues DEF HP!WithoutHead, HP!WithPut, Seen, PendingType
  <2>8. /\ pending' = HS!WithoutHead(pending, HS!SlaveProcQ) => Seen(HsQueues)' = htaken
        /\ pending' = HS!WithPut(HS!WithoutHead(pending, HS!SlaveProcQ), HS!HandshakeQ, Head(pending[HS!SlaveProcQ]))
             => Seen(HsQueues)' = hput
    BY <2>7 DEF HS!WithPut, HS!WithoutHead
  <2> HIDE DEF taken, htaken, hput
  <2>9. CASE HS!SlaveGetCount
    <3>1. /\ numThreads' = msg.numThreads /\ table' = <<>>
          /\ \/ Seen(HsQueues)' = hput /\ UNCHANGED fault /\ spc' = (IF numThreads' > 0 THEN "slGetConf" ELSE "slDelete")
             \/ Seen(HsQueues)' = htaken /\ HS!Fails("put") /\ spc' = "aborted"
             \/ Seen(HsQueues)' = hput /\ HS!Fails("alloc") /\ spc' = "aborted"
      BY <2>9, <2>8 DEF HS!SlaveGetCount, HS!SlaveReceiveAndEcho
    <3>2. HP!SlaveGetCount
      BY <1>0, <1>1, <2>1, <2>2, <2>3, <2>5, <2>6, <2>9, <3>1 DEF HS!SlaveGetCount, HP!SlaveGetCount, HP!SlaveReceiveAndEcho,
         HP!hostVars, HS!Fails, HP!Fails, HP!HasMessage, HS!HasMessage, htaken, hput
    <3>3. QED
      BY <3>2 DEF HP!SlaveNext
  <2>10. CASE HS!SlaveGetConf
    <3>1. /\ \E d \in HS!SlaveDirection(msg.thrDirection) : table' = Append(table, [msg EXCEPT !.thrDirection = d])
          /\ \/ Seen(HsQueues)' = hput /\ UNCHANGED fault /\ spc' = (IF Len(table') < numThreads THEN "slGetConf" ELSE "slDelete")
             \/ Seen(HsQueues)' = htaken /\ HS!Fails("put") /\ spc' = "aborted"
      BY <2>10, <2>8 DEF HS!SlaveGetConf, HS!SlaveReceiveAndEcho
    <3>2. HS!SlaveDirection(msg.thrDirection) = HP!SlaveDirection(msg.thrDirection)
      BY DEF HS!SlaveDirection, HP!SlaveDirection, HS!ThreadDirection, HP!ThreadDirection, HS!unidirectional_recv, HP!unidirectional_recv,
         HS!unidirectional_send, HP!unidirectional_send, HS!bidirectional, HP!bidirectional
    <3>3. HP!SlaveGetConf
      BY <1>0, <1>1, <2>1, <2>2, <2>3, <2>5, <2>6, <2>10, <3>1, <3>2 DEF HS!SlaveGetConf, HP!SlaveGetConf, HP!SlaveReceiveAndEcho,
         HP!hostVars, HS!Fails, HP!Fails, HP!HasMessage, HS!HasMessage, htaken, hput
    <3>4. QED
      BY <3>3 DEF HP!SlaveNext
  <2>11. QED
    BY <1>3, <2>9, <2>10
<1>4. CASE HS!SlaveDelete
  <2>1. /\ spc = "slDelete" /\ spc' = "slTasks" /\ UNCHANGED <<table, numThreads, fault>>
        /\ exists' = exists \ {SlaveProcQ} /\ pending' = [pending EXCEPT ![SlaveProcQ] = <<>>]
    BY <1>4 DEF HS!SlaveDelete, HS!Delete
  <2>2. hsSlave = "slDelete" /\ hsSlave' = "slTasks" /\ hsTable = table /\ hsTable' = table
    BY <2>1 DEF hsSlave, Streaming, hsTable
  <2>3. ~ Ready /\ ~ Ready' /\ hsExists' = hsExists \ {SlaveProcQ}
    BY <2>1, <2>2 DEF Ready, hsExists
  <2>4. hsHost' = hsHost
    BY <1>0, <2>3 DEF hsHost
  <2>5. Seen(HsQueues)' = [Seen(HsQueues) EXCEPT ![SlaveProcQ] = <<>>]
    BY <2>1, SeenChange
  <2>6. HP!SlaveDelete
    BY <1>0, <1>1, <2>1, <2>2, <2>3, <2>4, <2>5 DEF HP!SlaveDelete, HP!Delete, HP!hostVars
  <2>7. QED
    BY <2>6 DEF HP!SlaveNext
<1>5. QED
  BY <1>2, <1>3, <1>4 DEF HS!SlaveNext

\* What is known of the handshake stays true when all that is seen of it stays;
\* a failure may be added.
LEMMA HsKept ==
  ASSUME HP!IInv, UNCHANGED <<plan, numThreads, hsExists, Seen(HsQueues), hsLive, hsHost, hsIndex, hsOffset, hsSlave, hsTable>>,
         fault' \in BOOLEAN, fault => fault'
  PROVE  HP!IInv'
<1>1. HP!TypeOK'
  BY DEF HP!IInv, HP!TypeOK, HP!ThreadConf
<1>2. HP!TableFollowsPlan' /\ HP!RegionsTile' /\ HP!QueuesInv'
  BY DEF HP!IInv, HP!TableFollowsPlan, HP!RegionsTile, HP!QueuesInv
<1>3. HP!Nowhere' <=> HP!Nowhere
  BY DEF HP!Nowhere
<1>4. HP!BeforeCount' /\ HP!DuringCount' /\ HP!BeforeConf' /\ HP!DuringConf'
  BY DEF HP!IInv, HP!BeforeCount, HP!DuringCount, HP!BeforeConf, HP!DuringConf, HP!Nowhere, HP!AtSlave, HP!AtHost,
         HP!Told, HP!NotTold, HP!RegionEnd
<1>5. HP!AfterConf'
  BY <1>3 DEF HP!IInv, HP!AfterConf, HP!Complete, HP!Told, HP!NotTold
<1>6. QED
  BY <1>1, <1>2, <1>4, <1>5 DEF HP!IInv

\* What is known of the handshake is true at its start: where HostStart leaves
\* the host with new arguments, an empty table and no message, whatever the runs
\* before have left in the other variables.
LEMMA HsFresh ==
  ASSUME hsHost' = "hsCreate", hsIndex' = 0, hsOffset' = 0, hsLive' = 0, Ready',
         HandshakeQ \notin exists', pending'[HandshakeQ] = <<>>, pending'[SlaveProcQ] = <<>>,
         plan' \in Plans, numThreads' \in Nat, fault' \in BOOLEAN
  PROVE  HP!IInv'
<1> USE HsNames
<1>1. Seen(HsQueues)' = [q \in QueueName |-> <<>>]
  BY DEF Seen, HsQueues
<1>2. Seen(HsQueues)' \in [QueueName -> Seq(HP!Message)]
  BY <1>1
<1>3. HP!Nowhere'
  BY <1>1 DEF HP!Nowhere
<1>4. Len(plan') \in Nat /\ hsTable' = <<>> /\ HP!QueueName = QueueName
  BY HandshakeAssumptions DEF Ready, HP!Thread, HP!QueueName, QueueName, HP!StreamQ, StreamQ, HP!M4RecvQ, M4RecvQ, HP!A15RecvQ, A15RecvQ,
     HP!HandshakeQ, HP!SlaveProcQ, HP!HostDataQ, HP!SlaveDataQ, HandshakeQ, SlaveProcQ, HostDataQ, SlaveDataQ, Thread
<1>5. hsExists' \subseteq HsQueues /\ (SlaveProcQ \in hsExists' <=> SlaveProcQ \in exists') /\ HandshakeQ \notin hsExists'
  BY DEF hsExists
<1>6. HP!TypeOK'
  <2>1. hsTable' \in Seq(HP!TaskConf)
    BY <1>4
  <2>2. hsSlave' \in HP!SlavePc /\ hsHost' \in HP!HostPc
    BY DEF Ready, HP!HostPc, HP!SlavePc
  <2>3. hsExists' \subseteq {HP!HandshakeQ, HP!SlaveProcQ}
    BY <1>5 DEF HsQueues
  <2>4. QED
    BY <1>2, <1>4, <2>1, <2>2, <2>3 DEF HP!TypeOK
<1>7. HP!TableFollowsPlan' /\ HP!RegionsTile'
  BY <1>4 DEF HP!TableFollowsPlan, HP!RegionsTile
<1>8. HP!QueuesInv'
  BY <1>5 DEF HP!QueuesInv, Ready
<1>9. HP!BeforeCount' /\ HP!DuringCount' /\ HP!BeforeConf' /\ HP!DuringConf' /\ HP!AfterConf'
  BY <1>3, <1>4, <1>5 DEF HP!BeforeCount, HP!DuringCount, HP!BeforeConf, HP!DuringConf, HP!AfterConf, Ready, HP!NotTold
<1>10. QED
  BY <1>6, <1>7, <1>8, <1>9 DEF HP!IInv

\* The last parts of a run, in which the host may already be ready for the next
HostLast == {"dhGet", "dhDelete", "leave", "idle"}

\* A step of the session that touches neither the handshake's queues nor what is
\* seen of the two places leaves the handshake alone.
LEMMA HsRests ==
  ASSUME PendingType, HP!IInv, UNCHANGED <<plan, numThreads>>, fault' \in BOOLEAN, fault => fault',
         \A q \in HsQueues : (q \in exists' <=> q \in exists) /\ pending'[q] = pending[q],
         hsSlave' = hsSlave, hsTable' = hsTable,
         \/ UNCHANGED <<hpc, hi, hoff>>
         \/ hpc \notin HS!HostPc \ {"spawn"} /\ hpc' \notin HS!HostPc \ {"spawn"},
         hpc \in HostLast => hpc' \in HostLast
  PROVE  HP!IInv'
<1>1. UNCHANGED <<hsExists, Seen(HsQueues)>>
  BY DEF hsExists, Seen
<1>2. Ready' <=> Ready
  BY HsNames DEF Ready
<1>3. UNCHANGED <<hsIndex, hsOffset, hsLive>>
  BY DEF hsIndex, hsOffset, hsLive, HostHandshakes, HS!HostPc
<1>4. CASE hsHost' = hsHost
  BY <1>1, <1>3, <1>4, HsKept
<1>5. CASE hsHost' # hsHost
  <2>1. hsHost = "spawn" /\ hsHost' = "hsCreate" /\ Ready' /\ hpc # hpc'
    BY <1>2, <1>5 DEF hsHost, HostLast, HS!HostPc
  <2>2. hsIndex' = 0 /\ hsOffset' = 0 /\ hsLive' = 0
    BY <2>1 DEF hsIndex, hsOffset, hsLive, HostHandshakes, HS!HostPc
  <2>3. HandshakeQ \notin exists' /\ pending'[HandshakeQ] = <<>> /\ pending'[SlaveProcQ] = <<>>
    BY <2>1, SeenQueues, HsNames DEF HP!IInv, HP!QueuesInv, HP!AfterConf, HP!Nowhere
  <2>4. plan' \in Plans /\ numThreads' \in Nat
    BY DEF HP!IInv, HP!TypeOK
  <2>5. QED
    BY <2>1, <2>2, <2>3, <2>4, HsFresh
<1>6. QED
  BY <1>4, <1>5

-----------------------------------------------------------------------------
(* The streams. *)

\* The streams and their proofs name the queues as the session does.
LEMMA StNames ==
  ASSUME NEW t \in Thread
  PROVE  /\ M4RecvQ(t) \in StreamQ /\ A15RecvQ(t) \in StreamQ
         /\ ST!M4RecvQ(t) = M4RecvQ(t) /\ ST!A15RecvQ(t) = A15RecvQ(t)
         /\ SP!M4RecvQ(t) = M4RecvQ(t) /\ SP!A15RecvQ(t) = A15RecvQ(t)
BY DEF StreamQ, ST!M4RecvQ, M4RecvQ, ST!A15RecvQ, A15RecvQ, SP!M4RecvQ, SP!A15RecvQ

\* The queues of the streams are queues of the session.
LEMMA StreamQueueNames == StreamQ \in SUBSET QueueName
BY DEF QueueName

\* The calls of the message service as module Streams sees them.
LEMMA StService ==
  ASSUME PendingType, live \in Nat, UNCHANGED hsLive
  PROVE  /\ \A q \in StreamQ : ST!Create(q) => SP!Create(q)
         /\ \A q \in StreamQ : ST!CreateFails(q) => SP!CreateFails(q)
         /\ \A q \in StreamQ : ST!Delete(q) => SP!Delete(q)
         /\ \A q \in StreamQ : q \in exists <=> q \in stExists
         /\ \A q \in StreamQ : Seen(StreamQ)[q] = pending[q]
         /\ \A q \in StreamQ : \A m :
              pending' = ST!WithPut(pending, q, m) => Seen(StreamQ)' = SP!WithPut(Seen(StreamQ), q, m)
         /\ \A q \in StreamQ :
              pending' = ST!WithoutHead(pending, q) => Seen(StreamQ)' = SP!WithoutHead(Seen(StreamQ), q)
         /\ UNCHANGED pending => UNCHANGED Seen(StreamQ)
         /\ UNCHANGED exists => UNCHANGED stExists
         /\ UNCHANGED live => UNCHANGED stLive
         /\ live' = live + 1 => stLive' = stLive + 1
         /\ live' = live - 1 => stLive' = stLive - 1
         /\ \A k : ST!Fails(k) => SP!Fails(k)
         /\ \A q \in StreamQ : ST!HasMessage(q) => SP!HasMessage(q)
<1>1. \A q \in StreamQ : q \in QueueName /\ (q \in exists <=> q \in stExists) /\ Seen(StreamQ)[q] = pending[q]
  BY StreamQueueNames DEF stExists, Seen
<1>2. ASSUME NEW q \in StreamQ, NEW m, pending' = ST!WithPut(pending, q, m)
      PROVE  Seen(StreamQ)' = SP!WithPut(Seen(StreamQ), q, m)
  <2>1. CASE q \in exists
    <3>1. pending' = [pending EXCEPT ![q] = Append(pending[q], m)]
      BY <1>2, <2>1 DEF ST!WithPut
    <3>2. Seen(StreamQ)' = [Seen(StreamQ) EXCEPT ![q] = Append(pending[q], m)]
      BY <1>1, <3>1, SeenChange, StreamQueueNames
    <3>3. QED
      BY <1>1, <2>1, <3>2 DEF SP!WithPut
  <2>2. CASE q \notin exists
    BY <1>1, <1>2, <2>2 DEF ST!WithPut, SP!WithPut, Seen
  <2>3. QED
    BY <2>1, <2>2
<1>3. ASSUME NEW q \in StreamQ, pending' = ST!WithoutHead(pending, q)
      PROVE  Seen(StreamQ)' = SP!WithoutHead(Seen(StreamQ), q)
  <2>1. Seen(StreamQ)' = [Seen(StreamQ) EXCEPT ![q] = Tail(pending[q])]
    BY <1>1, <1>3, SeenChange, StreamQueueNames DEF ST!WithoutHead
  <2>2. QED
    BY <1>1, <2>1 DEF SP!WithoutHead
<1>4. ASSUME NEW q \in StreamQ, ST!Delete(q) PROVE SP!Delete(q)
  <2>1. pending' = [pending EXCEPT ![q] = <<>>] /\ exists' = exists \ {q}
    BY <1>4 DEF ST!Delete
  <2>2. Seen(StreamQ)' = [Seen(StreamQ) EXCEPT ![q] = <<>>]
    BY <1>1, <2>1, SeenChange, StreamQueueNames
  <2>3. QED
    BY <2>1, <2>2 DEF SP!Delete, stExists
<1>5. UNCHANGED pending => UNCHANGED Seen(StreamQ)
  BY DEF Seen
<1>6. /\ UNCHANGED live => UNCHANGED stLive
      /\ live' = live + 1 => stLive' = stLive + 1
      /\ live' = live - 1 => stLive' = stLive - 1
      /\ UNCHANGED exists => UNCHANGED stExists
  <2>1. hsLive \in Int
    BY DEF hsLive
  <2>2. QED
    BY <2>1 DEF stLive, stExists
<1>7. \A q \in StreamQ : ST!Create(q) => SP!Create(q)
  BY <1>1, <1>5, <1>6 DEF ST!Create, SP!Create, stExists
<1>8. \A q \in StreamQ : ST!CreateFails(q) => SP!CreateFails(q)
  BY <1>1, <1>5, <1>6 DEF ST!CreateFails, SP!CreateFails
<1>9. /\ \A k : ST!Fails(k) => SP!Fails(k)
      /\ \A q \in StreamQ : ST!HasMessage(q) => SP!HasMessage(q)
  BY <1>1 DEF ST!Fails, SP!Fails, ST!HasMessage, SP!HasMessage
<1>10. QED
  BY <1>1, <1>2, <1>3, <1>4, <1>5, <1>6, <1>7, <1>8, <1>9

\* Every step of a thread of the host, taken within the session, is a step of
\* module Streams.
LEMMA StThreadStep ==
  ASSUME PendingType, live \in Nat, NEW t \in Thread, InStreams(ST!HostThread(t))
  PROVE  SP!HostThread(t)
<1>1. UNCHANGED <<plan, hpc, hi, hoff, spc, si, numThreads, table, stk, scnt, finished, reg, hptr>>
  BY DEF InStreams, ST!HostThread, ST!ThreadSendOpen, ST!ThreadSend, ST!ThreadSendEnd, ST!ThreadRecvCreate,
     ST!ThreadRecvGet, ST!ThreadRecvEnd, ST!ThreadFrame, ST!hostVars, ST!slaveVars, ST!taskVars
<1>2. SP!ThreadFrame /\ UNCHANGED hsLive
  BY <1>1 DEF SP!ThreadFrame, SP!hostVars, SP!slaveVars, SP!taskVars, stHost, stIndex, stOffset, stSlave, stScnt,
     HostHandshakes, hsLive
<1>3. /\ M4RecvQ(t) \in StreamQ /\ A15RecvQ(t) \in StreamQ
      /\ ST!M4RecvQ(t) = M4RecvQ(t) /\ ST!A15RecvQ(t) = A15RecvQ(t)
      /\ SP!M4RecvQ(t) = M4RecvQ(t) /\ SP!A15RecvQ(t) = A15RecvQ(t)
  BY StNames
<1>4. CASE ST!ThreadSendOpen(t)
  <2>1. SP!ThreadSendOpen(t)
    BY <1>2, <1>3, <1>4, StService DEF ST!ThreadSendOpen, SP!ThreadSendOpen, ST!Goto, SP!Goto
  <2>2. QED
    BY <2>1 DEF SP!HostThread
<1>5. CASE ST!ThreadSend(t)
  <2>1. ST!StreamMsg(hcnt[t], hptr[t], plan[t].msgSize) = SP!StreamMsg(hcnt[t], hptr[t], plan[t].msgSize)
    BY DEF ST!StreamMsg, SP!StreamMsg
  <2> DEFINE msg == SP!StreamMsg(hcnt[t], hptr[t], plan[t].msgSize)
  <2>2. pending' = ST!WithPut(pending, M4RecvQ(t), msg) => Seen(StreamQ)' = SP!WithPut(Seen(StreamQ), M4RecvQ(t), msg)
    BY <1>2, <1>3, StService
  <2> HIDE DEF msg
  <2>3. SP!ThreadSend(t)
    BY <1>2, <1>3, <1>5, <2>1, <2>2, StService DEF ST!ThreadSend, SP!ThreadSend, ST!Goto, SP!Goto, msg
  <2>4. QED
    BY <2>3 DEF SP!HostThread
<1>6. CASE ST!ThreadSendEnd(t)
  <2>1. SP!ThreadSendEnd(t)
    BY <1>2, <1>3, <1>6, StService DEF ST!ThreadSendEnd, SP!ThreadSendEnd, ST!Goto, SP!Goto, ST!mqVars, SP!mqVars
  <2>2. QED
    BY <2>1 DEF SP!HostThread
<1>7. CASE ST!ThreadRecvCreate(t)
  <2>1. SP!ThreadRecvCreate(t)
    BY <1>2, <1>3, <1>7, StService DEF ST!ThreadRecvCreate, SP!ThreadRecvCreate, ST!Goto, SP!Goto
  <2>2. QED
    BY <2>1 DEF SP!HostThread
<1>8. CASE ST!ThreadRecvGet(t)
  <2>1. SP!ThreadRecvGet(t)
    BY <1>2, <1>3, <1>8, StService DEF ST!ThreadRecvGet, SP!ThreadRecvGet, ST!Goto, SP!Goto
  <2>2. QED
    BY <2>1 DEF SP!HostThread
<1>9. CASE ST!ThreadRecvEnd(t)
  <2>1. SP!ThreadRecvEnd(t)
    BY <1>2, <1>3, <1>9, StService DEF ST!ThreadRecvEnd, SP!ThreadRecvEnd, ST!Goto, SP!Goto
  <2>2. QED
    BY <2>1 DEF SP!HostThread
<1>10. QED
  BY <1>4, <1>5, <1>6, <1>7, <1>8, <1>9 DEF InStreams, ST!HostThread

\* So is every step of a task of the slave; a task that ends keeps its count,
\* which Streams only speaks of while there is a task.
LEMMA StTaskStep ==
  ASSUME PendingType, live \in Nat, stk \in [Thread -> ST!TaskPc], scnt \in [Thread -> Nat], NEW t \in Thread,
         InStreams(ST!SlaveTask(t))
  PROVE  SP!SlaveTask(t)
<1>1. UNCHANGED <<plan, hpc, hi, hoff, si, numThreads, table, hth, hcnt, hptr>>
  BY DEF InStreams, ST!SlaveTask, ST!TaskSendOpen, ST!TaskSend, ST!TaskSendEnd, ST!TaskRecvCreate,
     ST!TaskRecvGet, ST!TaskRecvEnd, ST!TaskCountRead, ST!TaskCountWrite, ST!TaskFrame, ST!hostVars, ST!threadVars
<1>2. SP!TaskFrame /\ UNCHANGED hsLive
  BY <1>1 DEF SP!TaskFrame, SP!hostVars, SP!threadVars, stHost, stIndex, stOffset, HostHandshakes, hsLive
<1>3. /\ M4RecvQ(t) \in StreamQ /\ A15RecvQ(t) \in StreamQ
      /\ ST!M4RecvQ(t) = M4RecvQ(t) /\ ST!A15RecvQ(t) = A15RecvQ(t)
      /\ SP!M4RecvQ(t) = M4RecvQ(t) /\ SP!A15RecvQ(t) = A15RecvQ(t)
  BY StNames
<1>4. /\ stk[t] # "none" /\ stScnt[t] = scnt[t] /\ stScnt \in [Thread -> Nat]
      /\ \/ UNCHANGED stk
         \/ \E pc \in ST!TaskPc \ {"none"} : stk' = [stk EXCEPT ![t] = pc]
  BY DEF InStreams, ST!SlaveTask, ST!TaskSendOpen, ST!TaskSend, ST!TaskSendEnd, ST!TaskRecvCreate,
     ST!TaskRecvGet, ST!TaskRecvEnd, ST!TaskCountRead, ST!TaskCountWrite, ST!TaskPc, ST!Goto, stScnt
<1>5. stk' \in [Thread -> ST!TaskPc] /\ stk'[t] # "none" /\ \A u \in Thread : stk'[u] = "none" <=> stk[u] = "none"
  BY <1>4
<1>6. /\ UNCHANGED scnt => UNCHANGED stScnt
      /\ scnt' = [scnt EXCEPT ![t] = @ + 1] => stScnt' = [stScnt EXCEPT ![t] = @ + 1]
  BY <1>4, <1>5 DEF stScnt
<1>7. /\ ST!MayRun(t) => SP!MayRun(t)
      /\ ST!Runs => SP!Runs
      /\ spc' = spc => stSlave' = stSlave
      /\ ST!Abort => SP!Abort
  BY DEF ST!MayRun, SP!MayRun, ST!Runs, SP!Runs, stSlave, ST!Abort, SP!Abort, ST!Undisturbed, SP!Undisturbed,
     ST!Thread, SP!Thread, Thread, ST!MainPriority, SP!MainPriority, ST!TaskPriority, SP!TaskPriority
<1>8. CASE ST!TaskSendOpen(t)
  <2>1. SP!TaskSendOpen(t)
    BY <1>2, <1>3, <1>6, <1>7, <1>8, StService DEF ST!TaskSendOpen, SP!TaskSendOpen, ST!Goto, SP!Goto
  <2>2. QED
    BY <2>1 DEF SP!SlaveTask
<1>9. CASE ST!TaskSend(t)
  <2> DEFINE msg == SP!StreamMsg(scnt[t] % IdRange, table[t].boBufPayloadPtr, table[t].boBufPayloadSize)
  <2>1. ST!StreamMsg(scnt[t] % IdRange, table[t].boBufPayloadPtr, table[t].boBufPayloadSize) = msg
    BY DEF ST!StreamMsg, SP!StreamMsg
  <2>2. pending' = ST!WithPut(pending, A15RecvQ(t), msg) => Seen(StreamQ)' = SP!WithPut(Seen(StreamQ), A15RecvQ(t), msg)
    BY <1>2, <1>3, StService
  <2> HIDE DEF msg
  <2>3. SP!TaskSend(t)
    BY <1>2, <1>3, <1>4, <1>6, <1>7, <1>9, <2>1, <2>2, StService DEF ST!TaskSend, SP!TaskSend, ST!Goto, SP!Goto, msg
  <2>4. QED
    BY <2>3 DEF SP!SlaveTask
<1>10. CASE ST!TaskSendEnd(t)
  <2>1. SP!TaskSendEnd(t)
    BY <1>2, <1>3, <1>4, <1>6, <1>7, <1>10, StService DEF ST!TaskSendEnd, SP!TaskSendEnd, ST!Goto, SP!Goto, ST!mqVars, SP!mqVars
  <2>2. QED
    BY <2>1 DEF SP!SlaveTask
<1>11. CASE ST!TaskRecvCreate(t)
  <2>1. SP!TaskRecvCreate(t)
    BY <1>2, <1>3, <1>4, <1>6, <1>7, <1>11, StService DEF ST!TaskRecvCreate, SP!TaskRecvCreate, ST!Goto, SP!Goto
  <2>2. QED
    BY <2>1 DEF SP!SlaveTask
<1>12. CASE ST!TaskRecvGet(t)
  <2>1. SP!TaskRecvGet(t)
    BY <1>2, <1>3, <1>4, <1>6, <1>7, <1>12, StService DEF ST!TaskRecvGet, SP!TaskRecvGet, ST!Goto, SP!Goto
  <2>2. QED
    BY <2>1 DEF SP!SlaveTask
<1>13. CASE ST!TaskRecvEnd(t)
  <2>1. SP!TaskRecvEnd(t)
    BY <1>2, <1>3, <1>4, <1>6, <1>7, <1>13, StService DEF ST!TaskRecvEnd, SP!TaskRecvEnd, ST!Goto, SP!Goto
  <2>2. QED
    BY <2>1 DEF SP!SlaveTask
<1>14. CASE ST!TaskCountRead(t)
  <2>1. SP!TaskCountRead(t)
    BY <1>2, <1>3, <1>4, <1>6, <1>7, <1>14, StService DEF ST!TaskCountRead, SP!TaskCountRead, ST!Goto, SP!Goto, ST!mqVars, SP!mqVars
  <2>2. QED
    BY <2>1 DEF SP!SlaveTask
<1>15. CASE ST!TaskCountWrite(t)
  <2>1. SP!TaskCountWrite(t)
    BY <1>2, <1>3, <1>4, <1>6, <1>7, <1>15, StService DEF ST!TaskCountWrite, SP!TaskCountWrite, ST!Goto, SP!Goto, ST!mqVars, SP!mqVars
  <2>2. QED
    BY <2>1 DEF SP!SlaveTask
<1>16. QED
  BY <1>8, <1>9, <1>10, <1>11, <1>12, <1>13, <1>14, <1>15 DEF InStreams, ST!SlaveTask

\* So are pthread_create and pthread_join in main, and Task_create and the
\* polling loop in tsk1Fxn.
LEMMA StMainSteps ==
  ASSUME PendingType, live \in Nat,
         stk \in [Thread -> ST!TaskPc], scnt \in [Thread -> Nat],
         si < numThreads => si + 1 \in Thread,
         InStreams(ST!HostMain) \/ InStreams(ST!SlaveMain)
  PROVE  SP!HostMain \/ SP!SlaveMain
<1>1. CASE InStreams(ST!HostMain)
  <2>1. /\ UNCHANGED <<spc, si, numThreads, table, stk, scnt, finished, reg, pending, exists, live, plan>>
        /\ hpc \in {"spawn", "join"} /\ hpc' \in {"spawn", "join", "dhCreate", "crashed"}
    BY <1>1 DEF InStreams, ST!HostMain, ST!HostSpawn, ST!HostJoin, ST!mqVars, ST!slaveVars, ST!taskVars
  <2>2. /\ UNCHANGED <<stSlave, stScnt, hsLive>> /\ stHost = hpc /\ stHost' = hpc'
        /\ stIndex = hi /\ stIndex' = hi' /\ stOffset = hoff /\ stOffset' = hoff'
    BY <2>1 DEF stSlave, stScnt, hsLive, stHost, stIndex, stOffset, HostHandshakes, HS!HostPc
  <2>3. UNCHANGED <<Seen(StreamQ), stExists, stLive>>
    BY <2>1, <2>2, StService
  <2>4. CASE ST!HostSpawn
    <3>1. SP!HostSpawn
      BY <2>1, <2>2, <2>3, <2>4 DEF ST!HostSpawn, SP!HostSpawn, ST!Goto, SP!Goto, ST!Fails, SP!Fails, SP!slaveVars, SP!taskVars,
         ST!unidirectional_send, SP!unidirectional_send, ST!unidirectional_recv, SP!unidirectional_recv,
         ST!bidirectional, SP!bidirectional
    <3>2. QED
      BY <3>1 DEF SP!HostMain
  <2>5. CASE ST!HostJoin
    <3>1. SP!HostJoin
      BY <2>1, <2>2, <2>3, <2>5 DEF ST!HostJoin, SP!HostJoin, SP!mqVars, SP!slaveVars, SP!taskVars, ST!mqVars, SP!threadVars, ST!threadVars
    <3>2. QED
      BY <3>1 DEF SP!HostMain
  <2>6. QED
    BY <1>1, <2>4, <2>5 DEF InStreams, ST!HostMain
<1>2. CASE InStreams(ST!SlaveMain)
  <2>1. /\ UNCHANGED <<hpc, hi, hoff, numThreads, table, hth, hcnt, hptr, finished, reg, pending, exists, live, plan>>
        /\ spc \in {"slTasks", "slWait"} /\ spc' \in {"slTasks", "slWait", "dtCreate"}
    BY <1>2 DEF InStreams, ST!SlaveMain, ST!SlaveCreateTask, ST!SlaveTasksCreated, ST!SlaveAllFinished,
       ST!mqVars, ST!hostVars, ST!taskVars, ST!threadVars
  <2>2. /\ UNCHANGED <<stHost, stIndex, stOffset, hsLive>> /\ stSlave = spc /\ stSlave' = spc'
    BY <2>1 DEF stSlave, hsLive, stHost, stIndex, stOffset, HostHandshakes
  <2>3. UNCHANGED <<Seen(StreamQ), stExists, stLive>>
    BY <2>1, <2>2, StService
  <2>4. ST!MainUndisturbed => SP!MainUndisturbed
    BY DEF ST!MainUndisturbed, SP!MainUndisturbed, ST!Thread, SP!Thread, ST!MainPriority, SP!MainPriority, ST!TaskPriority, SP!TaskPriority
  <2>5. CASE ST!SlaveCreateTask
    <3> DEFINE t == si + 1
    <3>1. PICK pc \in {"rCreate", "sOpen", "none"} : stk' = [stk EXCEPT ![t] = pc]
      BY <2>5 DEF ST!SlaveCreateTask, ST!Goto
    <3>2. scnt' = [scnt EXCEPT ![t] = 0] /\ t \in Thread
      BY <2>5 DEF ST!SlaveCreateTask
    <3>3. stScnt' = [stScnt EXCEPT ![t] = 0]
      BY <3>1, <3>2 DEF stScnt
    <3>4. SP!SlaveCreateTask
      BY <2>1, <2>2, <2>3, <2>4, <2>5, <3>3 DEF ST!SlaveCreateTask, SP!SlaveCreateTask, ST!Goto, SP!Goto, ST!Fails, SP!Fails,
         SP!hostVars, SP!threadVars,
         ST!unidirectional_send, SP!unidirectional_send, ST!unidirectional_recv, SP!unidirectional_recv,
         ST!bidirectional, SP!bidirectional
    <3>5. QED
      BY <3>4 DEF SP!SlaveMain
  <2>6. CASE ST!SlaveTasksCreated \/ ST!SlaveAllFinished
    <3>1. UNCHANGED <<stk, scnt, si, fault>>
      BY <2>6 DEF ST!SlaveTasksCreated, ST!SlaveAllFinished, ST!taskVars, ST!mqVars
    <3>2. UNCHANGED stScnt
      BY <3>1 DEF stScnt
    <3>3. SP!SlaveTasksCreated \/ SP!SlaveAllFinished
      BY <2>1, <2>2, <2>3, <2>4, <2>6, <3>1, <3>2 DEF ST!SlaveTasksCreated, ST!SlaveAllFinished, SP!SlaveTasksCreated, SP!SlaveAllFinished,
         SP!hostVars, SP!threadVars, SP!taskVars, SP!mqVars
    <3>4. QED
      BY <3>3 DEF SP!SlaveMain
  <2>7. QED
    BY <1>2, <2>5, <2>6 DEF InStreams, ST!SlaveMain
<1>3. QED
  BY <1>1, <1>2

\* The assumptions of the theorems about Streams, under which they may be used
\* for the session.
LEMMA StreamsAssumptions ==
  /\ Faults \subseteq SP!FaultKind /\ BufBase \in Nat /\ MaxThreads \in Nat \ {0}
  /\ \A p \in Plans : p \in Seq(SP!ThreadConf) /\ Len(p) \in SP!Thread
  /\ IdRange \in Nat \ {0} /\ Smp \in BOOLEAN /\ MaxPending \in Nat \ {0}
BY FaultsAssumption, BufBaseAssumption, PlansAssumption, MaxThreadsAssumption,
   IdRangeAssumption, SmpAssumption, MaxPendingAssumption
   DEF SP!FaultKind, FaultKind, SP!ThreadConf, ThreadConf, SP!Thread, Thread, SP!ThreadDirection, ThreadDirection,
   SP!unidirectional_send, unidirectional_send, SP!unidirectional_recv, unidirectional_recv, SP!bidirectional, bidirectional

\* What StreamsProofs knows of the streams. Ids are as expected only where
\* counts fit in the host's 16-bit counter.
StreamsInv == SP!TypeInv /\ SP!CountInv /\ (SP!CountsFit => SP!IdsInv)

\* It is kept by every step of Streams.
LEMMA StStep == StreamsInv /\ [SP!Next]_(SP!vars) => StreamsInv'
<1> SUFFICES ASSUME StreamsInv, [SP!Next]_(SP!vars) PROVE StreamsInv'
  OBVIOUS
<1>1. SP!TypeInv /\ SP!CountInv /\ (SP!CountsFit => SP!IdsInv)
  BY DEF StreamsInv
<1>2. SP!TypeInv'
  BY <1>1, SP!NextTypeInv, StreamsAssumptions
<1>3. SP!CountInv'
  BY <1>1, <1>2, SP!NextCountInv, StreamsAssumptions
<1>4. ASSUME SP!CountsFit PROVE SP!IdsInv'
  BY <1>1, <1>2, <1>4, SP!NextIdsInv, StreamsAssumptions
<1>5. (SP!CountsFit => SP!IdsInv)'
  BY <1>4 DEF SP!CountsFit
<1>6. QED
  BY <1>2, <1>3, <1>5 DEF StreamsInv

\* What the session may do besides without disturbing them.
LEMMA StRests ==
  ASSUME StreamsInv, UNCHANGED <<plan, numThreads, table, si, hth, hcnt, hptr, stk, scnt, finished, reg>>,
         UNCHANGED <<stHost, stIndex, stOffset, stLive>>, fault' \in BOOLEAN,
         stSlave' \in {stSlave, "aborted"},
         \A q \in StreamQ : (q \in exists' <=> q \in exists) /\ pending'[q] = pending[q]
  PROVE  StreamsInv'
<1>1. UNCHANGED <<stExists, Seen(StreamQ), stScnt>>
  BY DEF stExists, Seen, stScnt
<1>2. SP!TypeInv'
  BY <1>1 DEF StreamsInv, SP!TypeInv, SP!TablePlanned, SP!Lines, SP!PcInv, SP!OnlyLines, SP!Regions, SP!QueuesInv, SP!LiveInv,
     SP!OwnMessage, SP!Waiting, SP!SlavePc
<1>3. SP!CountInv'
  BY <1>1 DEF StreamsInv, SP!CountInv, SP!FinishedTasks, SP!Lines
<1>4. (SP!CountsFit => SP!IdsInv)'
  BY <1>1 DEF StreamsInv, SP!CountsFit, SP!IdsInv, SP!LineInv, SP!RoleInv, SP!ChannelInv, SP!OpenInv, SP!StreamQueue, SP!Sent, SP!Rcvd,
     SP!HostSends, SP!AtSend, SP!Lines
<1>5. QED
  BY <1>2, <1>3, <1>4 DEF StreamsInv

\* Where the streams of a run begin: the slave's table is complete, no thread or
\* task is started, no queue of theirs is left.
StEntered ==
  /\ plan \in Plans /\ numThreads = Len(plan) /\ Len(table) = Len(plan)
  /\ HS!TableFollowsPlan /\ HS!RegionsTile /\ table \in Seq(HS!TaskConf)
  /\ stHost = "spawn" /\ stSlave = "slTasks" /\ stIndex = 0 /\ stOffset = 0
  /\ stLive \in Nat /\ fault \in BOOLEAN
  /\ si = 0 /\ finished = 0 /\ stk = [t \in Thread |-> "none"] /\ hth = [t \in Thread |-> "none"]
  /\ hcnt = [t \in Thread |-> 0] /\ hptr \in [Thread -> Nat] /\ reg \in [Thread -> Nat]
  /\ \A q \in StreamQ : q \notin exists /\ pending[q] = <<>>

\* Names of Streams that the proofs about it use as the session does.
LEMMA SpNames ==
  /\ SP!Thread = Thread /\ SP!StreamQ = StreamQ /\ SP!QueueName = QueueName
  /\ SP!ThreadDirection = HS!ThreadDirection /\ SP!bidirectional = HS!bidirectional
  /\ SP!ThreadDirection = {0, 1, 2} /\ SP!bidirectional = 2
BY DEF SP!Thread, Thread, SP!StreamQ, StreamQ, SP!QueueName, QueueName, SP!ThreadDirection, HS!ThreadDirection,
   SP!unidirectional_send, HS!unidirectional_send, SP!unidirectional_recv, HS!unidirectional_recv, SP!bidirectional, HS!bidirectional,
   SP!M4RecvQ, M4RecvQ, SP!A15RecvQ, A15RecvQ, SP!HandshakeQ, HandshakeQ, SP!SlaveProcQ, SlaveProcQ, SP!HostDataQ, HostDataQ,
   SP!SlaveDataQ, SlaveDataQ

\* Where the streams of a run begin, the invariant of Streams holds, by what the
\* handshake promises: the table follows the plan, and the parts of the buffer
\* tile it.
LEMMA StEnter == StEntered => StreamsInv
<1> SUFFICES ASSUME StEntered PROVE StreamsInv
  OBVIOUS
<1> USE DEF StEntered
<1>1. /\ stExists = {} /\ Seen(StreamQ) = [q \in QueueName |-> <<>>] /\ stScnt = [t \in Thread |-> 0]
  BY DEF stExists, Seen, stScnt
<1>2. /\ Len(plan) \in Nat \ {0} /\ 1 .. Len(plan) \subseteq Thread /\ 1 .. Len(plan) = SP!Lines
      /\ \A i \in 1 .. Len(plan) : plan[i].msgSize \in Nat /\ plan[i].msgCount \in Nat /\ plan[i].direction \in SP!ThreadDirection
  BY SP!LinesOfPlan, StreamsAssumptions, SpNames DEF SP!Lines
<1>3. SP!TablePlanned
  <2>1. \A t \in 1 .. Len(plan) : table[t] \in HS!TaskConf
    OBVIOUS
  <2>2. HS!TaskConf = [boBufPayloadPtr : Nat, boBufPayloadSize : Nat, numMessages : Nat, thrDirection : SP!ThreadDirection]
    BY SpNames DEF HS!TaskConf
  <2>3. table \in [1 .. Len(plan) -> HS!TaskConf]
    <3>1. table = [t \in 1 .. Len(table) |-> table[t]]
      OBVIOUS
    <3>2. QED
      BY <2>1, <3>1
  <2>4. ASSUME NEW t \in 1 .. Len(plan)
        PROVE  /\ table[t].boBufPayloadSize = plan[t].msgSize
               /\ table[t].numMessages = plan[t].msgCount
               /\ plan[t].direction # SP!bidirectional => table[t].thrDirection = 1 - plan[t].direction
    BY SpNames DEF HS!TableFollowsPlan, HS!Inverse
  <2>5. ASSUME NEW t \in 1 .. Len(plan)
        PROVE  table[t].boBufPayloadPtr =
                 IF t = 1 THEN BufBase ELSE table[t - 1].boBufPayloadPtr + plan[t - 1].msgSize
    <3>1. t # 1 => t - 1 \in 1 .. Len(plan)
      BY <1>2
    <3>2. QED
      BY <2>4, <3>1 DEF HS!RegionsTile
  <2>6. QED
    BY <1>2, <2>2, <2>3, <2>4, <2>5 DEF SP!TablePlanned
<1>4. SP!TypeInv
  <2>1. SP!PcInv
    <3>1. hth \in [Thread -> SP!ThreadPc] /\ stk \in [Thread -> SP!TaskPc]
      BY DEF SP!ThreadPc, SP!TaskPc
    <3>2. hcnt \in [Thread -> 0 .. IdRange - 1]
      BY IdRangeAssumption
    <3>3. QED
      BY <1>1, <1>2, <3>1, <3>2, SpNames DEF SP!PcInv, SP!HostPc, SP!SlavePc
  <2>2. SP!OnlyLines
    BY SpNames DEF SP!OnlyLines
  <2>3. SP!Regions
    <3>1. table[1].boBufPayloadPtr = BufBase
      BY <1>2 DEF HS!RegionsTile
    <3>2. \A t \in SP!Lines : hth[t] = "none"
      BY <1>2
    <3>3. stHost = "spawn" => BufBase + stOffset = table[stIndex + 1].boBufPayloadPtr
      BY <3>1, BufBaseAssumption
    <3>4. QED
      BY <3>2, <3>3 DEF SP!Regions
  <2>4. SP!QueuesInv
    <3>1. Seen(StreamQ) \in [QueueName -> Seq(SP!StreamMessage)]
      BY <1>1
    <3>2. ASSUME NEW t \in Thread
          PROVE  Seen(StreamQ)[M4RecvQ(t)] = <<>> /\ Seen(StreamQ)[A15RecvQ(t)] = <<>>
      BY <1>1, StNames, StreamQueueNames
    <3>3. ASSUME NEW t \in SP!Lines
          PROVE  /\ Seen(StreamQ)[SP!M4RecvQ(t)] \in Seq(SP!OwnMessage(t))
                 /\ Seen(StreamQ)[SP!A15RecvQ(t)] \in Seq(SP!OwnMessage(t))
      <4>1. t \in Thread
        BY <1>2
      <4>2. Seen(StreamQ)[SP!M4RecvQ(t)] = <<>> /\ Seen(StreamQ)[SP!A15RecvQ(t)] = <<>>
        BY <3>2, <4>1, StNames
      <4>3. <<>> \in Seq(SP!OwnMessage(t))
        OBVIOUS
      <4>4. QED
        BY <4>2, <4>3
    <3>4. QED
      BY <3>1, <3>3, SpNames DEF SP!QueuesInv
  <2>5. SP!LiveInv
    <3>1. \A q \in QueueName : Seen(StreamQ)[q] = <<>>
      BY <1>1
    <3>2. SP!Waiting = {}
      BY <3>1, SpNames DEF SP!Waiting
    <3>3. SP!IsFiniteSet({}) /\ SP!Cardinality({}) = 0
      BY SP!FS_EmptySet, StreamsAssumptions
    <3>4. SP!IsFiniteSet(SP!Waiting) /\ SP!Cardinality(SP!Waiting) = 0
      BY <3>2, <3>3
    <3>5. QED
      BY <3>4 DEF SP!LiveInv
  <2>6. QED
    BY <1>3, <2>1, <2>2, <2>3, <2>4, <2>5 DEF SP!TypeInv
<1>5. SP!CountInv
  <2>1. \A t \in Thread : stk[t] = "none"
    OBVIOUS
  <2>2. SP!FinishedTasks = {}
    BY <2>1, SpNames DEF SP!FinishedTasks
  <2>3. SP!Cardinality({}) = 0
    BY SP!FS_EmptySet, StreamsAssumptions
  <2>4. SP!Cardinality(SP!FinishedTasks) = 0
    BY <2>2, <2>3
  <2>5. QED
    BY <2>1, <2>4, SpNames DEF SP!CountInv
<1>6. SP!IdsInv
  <2> SUFFICES ASSUME NEW t \in SP!Lines PROVE SP!LineInv(t)
    BY DEF SP!IdsInv
  <2>1. t \in Thread /\ plan[t].msgCount \in Nat
    BY <1>2
  <2>2. /\ hth[t] = "none" /\ hcnt[t] = 0 /\ stk[t] = "none" /\ stScnt[t] = 0 /\ stExists = {}
        /\ Seen(StreamQ)[SP!M4RecvQ(t)] = <<>> /\ Seen(StreamQ)[SP!A15RecvQ(t)] = <<>>
    BY <1>1, <2>1, StNames, StreamQueueNames
  <2>3. SP!RoleInv(t)
    BY <2>2 DEF SP!RoleInv
  <2>4. SP!Sent(t) = 0 /\ SP!Rcvd(t) = 0 /\ Seen(StreamQ)[SP!StreamQueue(t)] = <<>> /\ ~ SP!AtSend(t)
    BY <2>2 DEF SP!Sent, SP!Rcvd, SP!StreamQueue, SP!AtSend
  <2>5. SP!ChannelInv(t) /\ SP!OpenInv(t)
    BY <2>1, <2>4 DEF SP!ChannelInv, SP!OpenInv
  <2>6. QED
    BY <2>3, <2>5 DEF SP!LineInv
<1>7. QED
  BY <1>4, <1>5, <1>6 DEF StreamsInv

-----------------------------------------------------------------------------
(* The invariant. *)

\* The first run in which a call fails is the last one spoken about.
Ok == ~ fault \/ runs = 0 \/ (runs = 1 /\ hpc = "idle")

\* What holds at all times, failures or not: the runs are bounded, and only the
\* last of them may be over.
BaseInv == runs \in 0 .. MaxRuns /\ fault \in BOOLEAN /\ (hpc # "idle" => runs < MaxRuns)

\* A thread that has ended, or a direction that has none.
Ended == {"done", "none"}

\* The types of the session's variables.
Types ==
  /\ plan \in Plans /\ hpc \in HostPc /\ hi \in Nat /\ hoff \in Nat
  /\ spc \in SlavePc /\ numThreads \in 0 .. MaxThreads /\ si \in 0 .. MaxThreads
  /\ table \in Seq(HS!TaskConf)
  /\ hth \in [Thread -> ST!ThreadPc] /\ hcnt \in [Thread -> 0 .. IdRange - 1] /\ hptr \in [Thread -> Nat]
  /\ stk \in [Thread -> ST!TaskPc] /\ scnt \in [Thread -> Nat] /\ reg \in [Thread -> Nat] /\ finished \in Nat
  /\ exists \subseteq QueueName /\ PendingType /\ live \in Nat /\ stLive \in Nat
  /\ buf \in DT!Content /\ seedSeen \in DT!Finding /\ verdict \in DT!Finding

\* Who owns which queue.
OwnInv ==
  /\ \A q \in QueueName \ exists : pending[q] = <<>>
  /\ \A t \in Thread : M4RecvQ(t) \in exists <=> stk[t] = "recv"
  /\ \A t \in Thread : A15RecvQ(t) \in exists <=> hth[t] \in {"recv", "rDelete"}
  /\ HostDataQ \in exists <=> hpc \in {"dhOpen", "dhPut", "dhGet", "dhDelete"}
  /\ SlaveDataQ \in exists => spc \in {"dtGet", "dtDelete"} \/ (spc = "aborted" /\ hpc = "dhGet" /\ Streaming)
  /\ spc \in {"dtGet", "dtDelete"} => SlaveDataQ \in exists
  /\ SlaveProcQ \in exists => spc \in {"slGetCount", "slGetConf", "slDelete", "aborted"}
  /\ spc \in {"slGetCount", "slGetConf", "slDelete"} => SlaveProcQ \in exists

\* What tsk1Fxn has at each place: no table and no tasks before it is told of a
\* run, all tasks finished once it goes on to the transaction.
SlaveInv ==
  /\ spc \in {"slReset", "slCreate"} => table = <<>>
  /\ spc \in {"slCreate", "slGetCount", "slGetConf", "slDelete"} => finished = 0 /\ si = 0
  /\ Streaming => table # <<>>
  /\ ~ Streaming /\ spc \notin {"dtDelete", "slFree"} => \A t \in Thread : stk[t] = "none"
  /\ spc = "slDelete" => \A t \in Thread : stk[t] = "none"
  /\ spc \in {"dtCreate", "dtGet", "dtDelete", "slFree"} \/ (Streaming /\ hpc = "dhGet") =>
       \A t \in Thread : stk[t] = (IF t <= numThreads THEN "finished" ELSE "none")

\* What main has at each place: no thread before the spawn loop, only ended ones
\* of the lines it has joined, only ended ones once it goes on to the
\* transaction.
ThreadsInv ==
  /\ \A t \in Thread : t > Len(plan) => hth[t] \in Ended
  /\ HostHandshakes => \A t \in Thread : hth[t] = "none" /\ hcnt[t] = 0
  /\ hpc = "spawn" => hi < Len(plan) /\ \A t \in Thread : t > hi => hth[t] = "none" /\ hcnt[t] = 0
  /\ hpc = "join" => hi < Len(plan) /\ \A t \in 1 .. hi : hth[t] \in Ended
  /\ hpc \notin HS!HostPc \cup {"join", "crashed"} => \A t \in Thread : hth[t] \in Ended

\* The transaction: the one message and the buffer are together with one of the
\* two sides, except where the slave has stopped and the host waits for ever.
DataInv ==
  /\ hpc = "dhPut" => spc = "dtGet"
  /\ hpc = "dhGet" =>
       \/ /\ spc = "dtGet" /\ buf = "0xbeefdead"
          /\ pending[SlaveDataQ] = <<DT!DataMsg>> /\ pending[HostDataQ] = <<>>
       \/ /\ Ready /\ buf = "0xdeadbeef"
          /\ pending[SlaveDataQ] = <<>> /\ pending[HostDataQ] = <<DT!DataMsg>>
       \/ /\ Streaming /\ spc = "aborted" /\ fault
          /\ pending[SlaveDataQ] = <<>> /\ pending[HostDataQ] = <<>>
  /\ hpc # "dhGet" => pending[SlaveDataQ] = <<>> /\ pending[HostDataQ] = <<>>
  /\ verdict # "mismatch" /\ seedSeen # "mismatch"

\* How the ends of a run may overlap: the host may be as far as to open the
\* slave's queue in the next run while tsk1Fxn still deletes its tasks.
EndInv ==
  /\ spc \in {"dtDelete", "slFree"} =>
       \/ hpc \in {"dhGet", "dhDelete", "leave"}
       \/ hpc = "idle" /\ runs > 0
       \/ hpc \in {"hsCreate", "hsOpen"} /\ runs > 0 /\ ~ fault
  /\ hpc \in {"dhDelete", "leave"} /\ ~ fault => Ready
  /\ hpc = "idle" /\ (~ fault \/ runs = 0) => Ready

\* Outside of the streams none of their messages is left, and the message of the
\* transaction is a buffer of the heap.
OutInv ==
  ~ Scope => /\ \A q \in StreamQ : pending[q] = <<>>
             /\ hpc = "dhGet" => live >= 1

\* What holds in a run: the invariants of the handshake and, while they are on,
\* of the streams, for what is seen of them, and the ties between the phases.
RunInv ==
  /\ Types /\ HP!IInv /\ OwnInv /\ SlaveInv /\ ThreadsInv /\ DataInv /\ EndInv /\ OutInv
  /\ Scope => StreamsInv

\* The inductive invariant. Once a call has failed and another run is started,
\* the state that the slave is left in no longer belongs to the host's run, and
\* nothing is said.
SessionInv == BaseInv /\ (Ok => RunInv)

\* A plan has at least one line.
LEMMA PlanLines ==
  ASSUME NEW p \in Plans
  PROVE  Len(p) \in Nat \ {0} /\ Len(p) <= MaxThreads /\ 1 .. Len(p) \subseteq Thread
BY PlansAssumption, MaxThreadsAssumption DEF Thread

\* While tsk1Fxn streams, the host is at most at the end of its handshake: it
\* waits for the answer to the last configuration.
LEMMA StreamingHost ==
  ASSUME HP!IInv, Streaming
  PROVE  hpc \notin HS!HostPc \ {"hsGetConf", "hsFree", "spawn"}
<1>1. hsSlave \in {"slTasks", "slDelete"}
  BY DEF Streaming, hsSlave
<1>2. hsHost \notin {"hsCreate", "hsOpen", "hsAlloc", "hsPutCount", "hsGetCount", "hsPutConf", "hsClose", "hsDelete"}
  BY <1>1 DEF HP!IInv, HP!BeforeCount, HP!DuringCount, HP!BeforeConf, HP!AfterConf, HP!NotTold
<1>3. QED
  BY <1>2 DEF hsHost, HS!HostPc

\* What main's steps of the handshake do to the queues and the counters, and
\* what others see of them.
LEMMA HsHostFrame ==
  ASSUME BaseInv, RunInv, InHandshake(HS!HostNext)
  PROVE  /\ UNCHANGED <<plan, spc, numThreads, table, hth, hcnt, hptr, si, stk, scnt, finished, reg>>
         /\ UNCHANGED <<buf, seedSeen, verdict, runs>>
         /\ hpc \in HS!HostPc \ {"spawn"} /\ hpc' \in HS!HostPc /\ (fault => fault') /\ fault' \in BOOLEAN
         /\ exists' \in {exists, exists \cup {HandshakeQ}, exists \ {HandshakeQ}}
         /\ PendingType'
         /\ \A q \in QueueName \ HsQueues : pending'[q] = pending[q]
         /\ \A q \in QueueName \ exists' : pending'[q] = <<>>
         /\ SlaveProcQ \in exists' <=> SlaveProcQ \in exists
         /\ hsSlave' = hsSlave /\ hsTable' = hsTable /\ (Streaming' <=> Streaming) /\ (Ready' <=> Ready)
         /\ (Scope' <=> Scope)
         /\ live \in Nat /\ live' \in Nat /\ stLive' = stLive
<1>1. /\ UNCHANGED <<plan, spc, numThreads, table, hth, hcnt, hptr, si, stk, scnt, finished, reg>>
      /\ UNCHANGED <<buf, seedSeen, verdict, runs>>
      /\ hpc \in HS!HostPc \ {"spawn"} /\ hpc' \in HS!HostPc /\ (fault => fault') /\ fault' \in BOOLEAN
  BY DEF InHandshake, HS!HostNext, HS!HostCreate, HS!HostOpen, HS!HostAlloc, HS!HostPutCount,
     HS!HostGetCount, HS!HostPutConf, HS!HostGetConf, HS!HostCleanup, HS!slaveVars, HS!HostPc,
     threadVars, taskVars, dataVars, HS!Create, HS!CreateFails, HS!Fails, BaseInv
<1>2. /\ exists' \in {exists, exists \cup {HandshakeQ}, exists \ {HandshakeQ}}
      /\ PendingType'
      /\ \A q \in QueueName \ HsQueues : pending'[q] = pending[q]
      /\ \A q \in QueueName \ exists' : pending'[q] = <<>>
  <2> USE HsNames DEF InHandshake
  <2>1. exists' \in {exists, exists \cup {HandshakeQ}, exists \ {HandshakeQ}}
    BY DEF HS!HostNext, HS!HostCreate, HS!HostOpen, HS!HostAlloc, HS!HostPutCount,
     HS!HostGetCount, HS!HostPutConf, HS!HostGetConf, HS!HostCleanup, HS!Create, HS!CreateFails, HS!Delete
  <2>2. PendingType /\ \A q \in QueueName \ exists : pending[q] = <<>>
    BY DEF RunInv, Types, OwnInv
  <2>3. CASE UNCHANGED pending /\ exists' \in {exists, exists \cup {HandshakeQ}}
    BY <2>2, <2>3 DEF PendingType
  <2>4. CASE HS!HostPutCount \/ HS!HostPutConf
    <3>1. UNCHANGED exists /\ (UNCHANGED pending \/ \E m : pending' = HS!WithPut(pending, SlaveProcQ, m))
      BY <2>4 DEF HS!HostPutCount, HS!HostPutConf
    <3>2. PICK x : pending' = pending \/ (SlaveProcQ \in exists /\ pending' = [pending EXCEPT ![SlaveProcQ] = x])
      BY <3>1 DEF HS!WithPut
    <3>3. QED
      BY <2>2, <3>1, <3>2 DEF PendingType
  <2>5. CASE HS!HostGetCount \/ HS!HostGetConf
    <3>1. UNCHANGED exists /\ pending' = [pending EXCEPT ![HandshakeQ] = Tail(@)] /\ pending[HandshakeQ] # <<>>
      BY <2>5 DEF HS!HostGetCount, HS!HostGetConf, HS!HasMessage, HS!WithoutHead
    <3>2. QED
      BY <2>2, <3>1 DEF PendingType
  <2>6. CASE HS!HostCleanup
    <3>1. exists' = exists \ {HandshakeQ} /\ pending' = [pending EXCEPT ![HandshakeQ] = <<>>]
      BY <2>6 DEF HS!HostCleanup, HS!Delete
    <3>2. QED
      BY <2>2, <3>1 DEF PendingType
  <2>7. HS!HostCreate \/ HS!HostOpen \/ HS!HostAlloc => UNCHANGED pending /\ exists' \in {exists, exists \cup {HandshakeQ}}
    BY DEF HS!HostCreate, HS!HostOpen, HS!HostAlloc, HS!Create, HS!CreateFails
  <2>8. QED
    BY <2>3, <2>4, <2>5, <2>6, <2>7 DEF HS!HostNext
<1>3. SlaveProcQ \in exists' <=> SlaveProcQ \in exists
  BY <1>2, HsNames
<1>4. /\ hsSlave' = hsSlave /\ hsTable' = hsTable /\ (Streaming' <=> Streaming) /\ (Ready' <=> Ready)
      /\ (Scope' <=> Scope)
  <2>1. hsSlave' = hsSlave /\ hsTable' = hsTable /\ (Streaming' <=> Streaming) /\ (Ready' <=> Ready)
    BY <1>1, <1>3, SlaveSame
  <2>2. QED
    BY <1>1, <2>1 DEF Scope, HS!HostPc
<1>5. \/ UNCHANGED <<live, hsLive>>
      \/ live' = live + 1 /\ hsLive' = hsLive + 1
      \/ live' = live - 1 /\ hsLive' = hsLive - 1
  BY DEF InHandshake, HS!HostNext, HS!HostCreate, HS!HostOpen, HS!HostAlloc, HS!HostPutCount,
     HS!HostGetCount, HS!HostPutConf, HS!HostGetConf, HS!HostCleanup, HS!Create, HS!CreateFails, hsLive
<1>6. live \in Nat /\ live' \in Nat /\ stLive' = stLive
  <2>1. live \in Nat /\ live - hsLive \in Nat /\ hsLive \in {0, 1} /\ hsLive' \in {0, 1}
    BY DEF RunInv, Types, stLive, hsLive
  <2>2. QED
    BY <1>5, <2>1 DEF stLive
<1>7. QED
  BY <1>1, <1>2, <1>3, <1>4, <1>6

\* The steps of main in SlaveHandshake keep the invariant.
LEMMA HsHostInv ==
  ASSUME BaseInv, RunInv, InHandshake(HS!HostNext), Ok'
  PROVE  RunInv'
<1>1. /\ UNCHANGED <<plan, spc, numThreads, table, hth, hcnt, hptr, si, stk, scnt, finished, reg>>
      /\ UNCHANGED <<buf, seedSeen, verdict, runs>>
      /\ hpc \in HS!HostPc \ {"spawn"} /\ hpc' \in HS!HostPc /\ (fault => fault') /\ fault' \in BOOLEAN
  BY HsHostFrame
<1>2. /\ exists' \in {exists, exists \cup {HandshakeQ}, exists \ {HandshakeQ}}
      /\ PendingType'
      /\ \A q \in QueueName \ HsQueues : pending'[q] = pending[q]
      /\ \A q \in QueueName \ exists' : pending'[q] = <<>>
  BY HsHostFrame
<1>3. SlaveProcQ \in exists' <=> SlaveProcQ \in exists
  BY HsHostFrame
<1>4. /\ hsSlave' = hsSlave /\ hsTable' = hsTable /\ (Streaming' <=> Streaming) /\ (Ready' <=> Ready)
      /\ (Scope' <=> Scope)
  BY HsHostFrame
<1>5. HP!IInv'
  <2>1. HP!HostNext
    BY HsHostSteps DEF RunInv, Types
  <2>2. QED
    BY <2>1, HP!NextIInv, HandshakeAssumptions DEF RunInv, HP!Next
<1>6. \A q \in QueueName \ HsQueues : (q \in exists' <=> q \in exists) /\ pending'[q] = pending[q]
  BY <1>2, HsNames
<1>7. /\ HostDataQ \in QueueName \ HsQueues /\ SlaveDataQ \in QueueName \ HsQueues
      /\ \A q \in StreamQ : q \in QueueName \ HsQueues
      /\ \A t \in Thread : M4RecvQ(t) \in StreamQ /\ A15RecvQ(t) \in StreamQ
  BY DEF QueueName, HsQueues, HandshakeQ, SlaveProcQ, HostDataQ, SlaveDataQ, StreamQ, M4RecvQ, A15RecvQ
<1>9. live \in Nat /\ live' \in Nat /\ stLive' = stLive
  BY HsHostFrame
<1>10. Types'
  <2>1. hi' \in Nat /\ hoff' \in Nat
    <3>1. hsIndex = hi /\ hsOffset = hoff /\ (hpc' # "spawn" => hsIndex' = hi' /\ hsOffset' = hoff')
      BY <1>1 DEF hsIndex, hsOffset, HostHandshakes
    <3>2. plan \in Plans /\ Len(plan) \in Nat
      BY PlanLines DEF RunInv, Types
    <3>3. hpc' # "spawn" => hi' \in Nat /\ hoff' \in Nat
      BY <1>1, <1>5, <3>1, <3>2 DEF HP!IInv, HP!TypeOK
    <3>4. hpc' = "spawn" => UNCHANGED <<hi, hoff>> \/ (hi' = 0 /\ hoff' = 0)
      BY DEF InHandshake, HS!HostNext, HS!HostCreate, HS!HostOpen, HS!HostAlloc, HS!HostPutCount,
         HS!HostGetCount, HS!HostPutConf, HS!HostGetConf, HS!HostCleanup
    <3>5. QED
      BY <3>3, <3>4 DEF RunInv, Types
  <2>2. exists' \subseteq QueueName /\ hpc' \in HostPc
    BY <1>1, <1>2, HsNames DEF RunInv, Types, HostPc
  <2>3. stLive' \in Nat
    BY <1>9 DEF RunInv, Types
  <2>4. QED
    BY <1>1, <1>2, <1>9, <2>1, <2>2, <2>3 DEF RunInv, Types
<1>11. OwnInv'
  <2>1. hpc \notin {"dhOpen", "dhPut", "dhGet", "dhDelete"} /\ hpc' \notin {"dhOpen", "dhPut", "dhGet", "dhDelete"}
    BY <1>1 DEF HS!HostPc
  <2>2. QED
    BY <1>1, <1>2, <1>3, <1>6, <1>7, <2>1 DEF RunInv, OwnInv
<1>12. SlaveInv'
  <2>1. hpc \notin {"dhGet"} /\ hpc' \notin {"dhGet"}
    BY <1>1 DEF HS!HostPc
  <2>2. QED
    BY <1>1, <1>4, <2>1 DEF RunInv, SlaveInv
<1>13. ThreadsInv'
  <2>1. \A t \in Thread : hth[t] = "none" /\ hcnt[t] = 0
    BY <1>1 DEF RunInv, ThreadsInv, HostHandshakes
  <2>2. hpc' = "spawn" => hi' = 0
    <3>1. hpc = "hsCreate" => hsIndex = 0 /\ hsIndex = hi
      BY <1>1 DEF RunInv, HP!IInv, HP!BeforeCount, hsHost, hsIndex, HostHandshakes
    <3>2. QED
      BY <3>1 DEF InHandshake, HS!HostNext, HS!HostCreate, HS!HostOpen, HS!HostAlloc, HS!HostPutCount,
         HS!HostGetCount, HS!HostPutConf, HS!HostGetConf, HS!HostCleanup
  <2>3. Len(plan) \in Nat \ {0} /\ "none" \in Ended
    BY PlanLines DEF RunInv, Types, Ended
  <2>4. hpc' # "join"
    BY <1>1 DEF HS!HostPc
  <2>5. QED
    BY <1>1, <2>1, <2>2, <2>3, <2>4 DEF ThreadsInv, HostHandshakes
<1>14. DataInv'
  <2>1. hpc \notin {"dhGet", "dhPut"} /\ hpc' \notin {"dhGet", "dhPut"}
    BY <1>1 DEF HS!HostPc
  <2>2. QED
    BY <1>1, <1>6, <1>7, <2>1 DEF RunInv, DataInv
<1>15. EndInv'
  <2>1. hpc \notin {"idle", "dhGet", "dhDelete", "leave"} /\ hpc' \notin {"idle", "dhGet", "dhDelete", "leave"}
    BY <1>1 DEF HS!HostPc
  <2>2. ASSUME spc \in {"dtDelete", "slFree"} PROVE hpc' = "hsOpen" /\ runs > 0 /\ ~ fault'
    <3>1. hpc \in {"hsCreate", "hsOpen"} /\ runs > 0 /\ ~ fault
      BY <2>1, <2>2 DEF RunInv, EndInv
    <3>2. fault' = FALSE
      BY <1>1, <2>1, <3>1 DEF Ok, BaseInv
    <3>3. SlaveProcQ \notin exists
      BY <2>2 DEF RunInv, OwnInv
    <3>4. HS!HostCreate \/ HS!HostOpen
      BY <3>1 DEF InHandshake, HS!HostNext, HS!HostCreate, HS!HostOpen, HS!HostAlloc, HS!HostPutCount,
         HS!HostGetCount, HS!HostPutConf, HS!HostGetConf, HS!HostCleanup
    <3>5. hpc' = "hsOpen"
      BY <3>2, <3>3, <3>4, HsNames DEF HS!HostCreate, HS!HostOpen, HS!CreateFails, HS!Fails
    <3>6. QED
      BY <3>1, <3>2, <3>5
  <2>3. QED
    BY <1>1, <2>1, <2>2 DEF EndInv
<1>16. OutInv'
  <2>1. hpc' # "dhGet"
    BY <1>1 DEF HS!HostPc
  <2>2. QED
    BY <1>4, <1>6, <1>7, <2>1 DEF RunInv, OutInv
<1>17. Scope' => StreamsInv'
  <2> SUFFICES ASSUME Scope' PROVE StreamsInv'
    OBVIOUS
  <2>1. StreamsInv
    BY <1>4 DEF RunInv
  <2>2. UNCHANGED <<stHost, stSlave>> /\ stIndex = 0 /\ stOffset = 0
    BY <1>1 DEF stHost, stSlave, stIndex, stOffset, HostHandshakes
  <2>3. hpc' = "spawn" => hi' = 0 /\ hoff' = 0
    <3>1. hpc = "hsCreate" => hsIndex = 0 /\ hsIndex = hi /\ hsOffset = 0 /\ hsOffset = hoff
      BY <1>1 DEF RunInv, HP!IInv, HP!BeforeCount, hsHost, hsIndex, hsOffset, HostHandshakes
    <3>2. QED
      BY <3>1 DEF InHandshake, HS!HostNext, HS!HostCreate, HS!HostOpen, HS!HostAlloc, HS!HostPutCount,
         HS!HostGetCount, HS!HostPutConf, HS!HostGetConf, HS!HostCleanup
  <2>4. UNCHANGED <<stIndex, stOffset>>
    BY <1>1, <2>2, <2>3 DEF stIndex, stOffset, HostHandshakes
  <2>5. QED
    BY <1>1, <1>6, <1>7, <1>9, <2>1, <2>2, <2>4, StRests
<1>18. QED
  BY <1>5, <1>10, <1>11, <1>12, <1>13, <1>14, <1>15, <1>16, <1>17 DEF RunInv

\* What the slave's steps of the handshake do to the queues and the counters.
LEMMA HsSlaveFrame ==
  ASSUME RunInv, InHandshake(HS!SlaveNext)
  PROVE  /\ UNCHANGED <<plan, hpc, hi, hoff, hth, hcnt, hptr, si, stk, scnt, finished, reg>>
         /\ UNCHANGED <<buf, seedSeen, verdict, runs, live>> /\ (fault => fault')
         /\ exists' \in {exists, exists \cup {SlaveProcQ}, exists \ {SlaveProcQ}}
         /\ PendingType'
         /\ \A q \in QueueName \ HsQueues : (q \in exists' <=> q \in exists) /\ pending'[q] = pending[q]
         /\ \A q \in QueueName \ exists' : pending'[q] = <<>>
<1>1. /\ UNCHANGED <<plan, hpc, hi, hoff, hth, hcnt, hptr, si, stk, scnt, finished, reg>>
      /\ UNCHANGED <<buf, seedSeen, verdict, runs, live>> /\ (fault => fault')
  BY DEF InHandshake, HS!SlaveNext, HS!SlaveCreate, HS!SlaveGetCount, HS!SlaveGetConf, HS!SlaveDelete,
     HS!hostVars, threadVars, taskVars, dataVars, HS!Create, HS!CreateFails, HS!Delete, HS!SlaveReceiveAndEcho, HS!Fails
<1> USE HsNames DEF InHandshake
<1>2. PendingType /\ \A q \in QueueName \ exists : pending[q] = <<>>
  BY DEF RunInv, Types, OwnInv
<1>3. CASE HS!SlaveCreate
  <2>1. exists' \in {exists, exists \cup {SlaveProcQ}} /\ UNCHANGED pending
    BY <1>3 DEF HS!SlaveCreate, HS!Create, HS!CreateFails
  <2>2. QED
    BY <1>1, <1>2, <2>1 DEF PendingType
<1>4. CASE HS!SlaveDelete
  <2>1. exists' = exists \ {SlaveProcQ} /\ pending' = [pending EXCEPT ![SlaveProcQ] = <<>>]
    BY <1>4 DEF HS!SlaveDelete, HS!Delete
  <2>2. QED
    BY <1>1, <1>2, <2>1 DEF PendingType
<1>5. CASE HS!SlaveGetCount \/ HS!SlaveGetConf
  <2> DEFINE taken == HS!WithoutHead(pending, SlaveProcQ)
  <2>1. /\ UNCHANGED exists /\ pending[SlaveProcQ] # <<>>
        /\ pending' = taken \/ \E m : pending' = HS!WithPut(taken, HandshakeQ, m)
    BY <1>5 DEF HS!SlaveGetCount, HS!SlaveGetConf, HS!SlaveReceiveAndEcho, HS!HasMessage
  <2>2. PICK m : pending' = taken \/ pending' = HS!WithPut(taken, HandshakeQ, m)
    BY <2>1
  <2>3. taken = [pending EXCEPT ![SlaveProcQ] = Tail(@)]
    BY DEF HS!WithoutHead
  <2>4. PICK x : pending' = taken \/ (HandshakeQ \in exists /\ pending' = [taken EXCEPT ![HandshakeQ] = x])
    BY <2>2 DEF HS!WithPut
  <2> HIDE DEF taken
  <2>5. QED
    BY <1>1, <1>2, <2>1, <2>3, <2>4 DEF PendingType
<1>6. QED
  BY <1>3, <1>4, <1>5 DEF HS!SlaveNext

\* A message for the slave is the one that it waits for.
LEMMA SlaveMessage ==
  ASSUME RunInv, pending[SlaveProcQ] # <<>>
  PROVE  /\ hpc \in {"hsGetCount", "hsGetConf"}
         /\ spc = "slGetCount" => hpc = "hsGetCount" /\ Head(pending[SlaveProcQ]).numThreads = Len(plan)
         /\ spc = "slGetConf" => hpc = "hsGetConf"
<1>1. hpc \in {"hsGetCount", "hsGetConf"} /\ hsHost = hpc
  BY SlaveHasMessage DEF RunInv
<1>2. Seen(HsQueues)[SlaveProcQ] = pending[SlaveProcQ] /\ HP!SlaveProcQ = SlaveProcQ
  BY SeenQueues, HsNames
<1>3. spc \in {"slGetCount", "slGetConf"} => hsSlave = spc
  BY DEF hsSlave, Streaming
<1>4. CASE hpc = "hsGetCount"
  <2>1. HP!AtSlave(HP!CountMsg(Len(plan))) /\ hsSlave = "slGetCount"
    BY <1>1, <1>2, <1>4 DEF RunInv, HP!IInv, HP!DuringCount, HP!AtHost, HP!Nowhere
  <2>2. Head(pending[SlaveProcQ]) = HP!CountMsg(Len(plan))
    BY <1>2, <2>1 DEF HP!AtSlave
  <2>3. QED
    BY <1>3, <1>4, <2>1, <2>2 DEF HP!CountMsg
<1>5. CASE hpc = "hsGetConf"
  <2>1. hsSlave \in {"slGetConf", "aborted"}
    BY <1>1, <1>2, <1>5 DEF RunInv, HP!IInv, HP!DuringConf, HP!AtHost, HP!Nowhere
  <2>2. QED
    BY <1>3, <1>5, <2>1
<1>6. QED
  BY <1>1, <1>4, <1>5

\* When the slave has been told everything, the streams begin.
LEMMA Entering ==
  ASSUME RunInv, InHandshake(HS!SlaveNext), HP!IInv', Types', spc' = "slDelete", spc = "slGetConf"
  PROVE  StreamsInv'
<1>1. HS!SlaveGetConf
  BY DEF InHandshake, HS!SlaveNext, HS!SlaveCreate, HS!SlaveGetCount, HS!SlaveDelete
<1>2. hpc = "hsGetConf" /\ hpc' = "hsGetConf"
  BY <1>1, SlaveMessage, HsSlaveFrame, HsNames DEF HS!SlaveGetConf, HS!HasMessage
<1>3. hsSlave' = "slDelete" /\ hsTable' = table' /\ hsHost' = "hsGetConf" /\ hsIndex' = hi
  BY <1>2, HsSlaveFrame DEF hsSlave, Streaming, hsTable, hsHost, HS!HostPc, hsIndex, HostHandshakes
<1>4. numThreads' = Len(plan) /\ Len(table') = hi + 1 /\ hi + 1 = Len(plan)
  <2>1. HP!DuringConf'
    BY DEF HP!IInv
  <2>2. hsIndex' < Len(plan') /\ HP!Told(hsIndex + 1)' /\ ~ (hsIndex' + 1 < Len(plan'))
    BY <1>3, <2>1 DEF HP!DuringConf
  <2>3. hi \in Nat /\ Len(plan) \in Nat
    BY PlanLines DEF RunInv, Types
  <2>4. plan' = plan
    BY HsSlaveFrame
  <2>5. numThreads' = Len(plan') /\ Len(hsTable') = hsIndex' + 1
    BY <2>2 DEF HP!Told
  <2>6. QED
    BY <1>3, <2>2, <2>3, <2>4, <2>5
<1>5. numThreads' = Len(plan') /\ Len(table') = Len(plan')
  BY <1>4, HsSlaveFrame
<1>6. HS!TableFollowsPlan' /\ HS!RegionsTile'
  <2>1. HP!TableFollowsPlan' /\ HP!RegionsTile'
    BY DEF HP!IInv
  <2>2. \A d : HP!Inverse(d) = HS!Inverse(d)
    BY DEF HP!Inverse, HS!Inverse, HP!ThreadDirection, HS!ThreadDirection, HP!bidirectional, HS!bidirectional,
       HP!unidirectional_send, HS!unidirectional_send, HP!unidirectional_recv, HS!unidirectional_recv
  <2>3. QED
    BY <1>3, <2>1, <2>2 DEF HP!TableFollowsPlan, HP!RegionsTile, HS!TableFollowsPlan, HS!RegionsTile
<1>7. stHost' = "spawn" /\ stSlave' = "slTasks" /\ stIndex' = 0 /\ stOffset' = 0
  BY <1>2 DEF stHost, stSlave, stIndex, stOffset, HostHandshakes, HS!HostPc
<1>8. /\ \A t \in Thread : stk[t] = "none" /\ hth[t] = "none" /\ hcnt[t] = 0
      /\ si = 0 /\ finished = 0
  BY <1>2 DEF RunInv, SlaveInv, ThreadsInv, Streaming, HostHandshakes, HS!HostPc
<1>9. \A q \in StreamQ : q \notin exists' /\ pending'[q] = <<>>
  <2>1. \A q \in StreamQ : q \in QueueName \ HsQueues
    BY DEF QueueName, HsQueues, HandshakeQ, SlaveProcQ, StreamQ, M4RecvQ, A15RecvQ
  <2>2. \A q \in StreamQ : q \notin exists
    BY <1>8 DEF RunInv, OwnInv, StreamQ
  <2>3. \A q \in StreamQ : pending[q] = <<>>
    BY <2>1, <2>2 DEF RunInv, OwnInv
  <2>4. QED
    BY <2>1, <2>2, <2>3, HsSlaveFrame
<1>10. StEntered'
  <2>1. /\ stk' = [t \in Thread |-> "none"] /\ hth' = [t \in Thread |-> "none"]
        /\ hcnt' = [t \in Thread |-> 0] /\ si' = 0 /\ finished' = 0
    BY <1>8, HsSlaveFrame DEF RunInv, Types
  <2>2. fault' \in BOOLEAN
    BY DEF HP!IInv, HP!TypeOK
  <2>3. QED
    BY <1>5, <1>6, <1>7, <1>9, <2>1, <2>2 DEF StEntered, Types
<1>11. StEntered' => StreamsInv'
  BY StEnter, PTL
<1>12. QED
  BY <1>10, <1>11

\* Where tsk1Fxn goes in the handshake, and that it stops only when a call has
\* failed.
LEMMA HsSlavePlaces ==
  ASSUME RunInv, InHandshake(HS!SlaveNext)
  PROVE  /\ spc' = "aborted" => fault'
         /\ \/ /\ spc = "slCreate" /\ spc' \in {"slGetCount", "aborted"} /\ table = <<>> /\ table' = <<>>
               /\ UNCHANGED numThreads
               /\ SlaveProcQ \in exists' <=> spc' = "slGetCount"
               /\ ~ Streaming'
            \/ /\ spc = "slGetCount" /\ spc' \in {"slGetConf", "aborted"} /\ table' = <<>> /\ numThreads' = Len(plan)
               /\ hpc = "hsGetCount" /\ SlaveProcQ \in exists'
               /\ ~ Streaming'
            \/ /\ spc = "slGetConf" /\ spc' \in {"slGetConf", "slDelete", "aborted"} /\ UNCHANGED numThreads
               /\ hpc = "hsGetConf" /\ SlaveProcQ \in exists'
               /\ Streaming' <=> spc' = "slDelete"
            \/ /\ spc = "slDelete" /\ spc' = "slTasks" /\ UNCHANGED <<numThreads, table, fault>>
               /\ SlaveProcQ \notin exists'
               /\ Streaming'
<1> USE HsNames DEF InHandshake
<1>1. CASE HS!SlaveCreate
  <2>1. spc = "slCreate" /\ table = <<>> /\ SlaveProcQ \notin exists
    BY <1>1 DEF HS!SlaveCreate, RunInv, SlaveInv, OwnInv
  <2>2. QED
    BY <1>1, <2>1 DEF HS!SlaveCreate, HS!Create, HS!CreateFails, Streaming
<1>2. CASE HS!SlaveGetCount
  <2>1. hpc = "hsGetCount" /\ Head(pending[SlaveProcQ]).numThreads = Len(plan) /\ SlaveProcQ \in exists
    BY <1>2, SlaveMessage DEF HS!SlaveGetCount, HS!HasMessage, RunInv, OwnInv
  <2>2. Len(plan) \in Nat \ {0}
    BY PlanLines DEF RunInv, Types
  <2>3. QED
    BY <1>2, <2>1, <2>2 DEF HS!SlaveGetCount, HS!SlaveReceiveAndEcho, HS!Fails, Streaming
<1>3. CASE HS!SlaveGetConf
  <2>1. hpc = "hsGetConf" /\ SlaveProcQ \in exists
    BY <1>3, SlaveMessage DEF HS!SlaveGetConf, HS!HasMessage, RunInv, OwnInv
  <2>2. QED
    BY <1>3, <2>1 DEF HS!SlaveGetConf, HS!SlaveReceiveAndEcho, HS!Fails, Streaming
<1>4. CASE HS!SlaveDelete
  BY <1>4 DEF HS!SlaveDelete, HS!Delete, Streaming
<1>5. QED
  BY <1>1, <1>2, <1>3, <1>4 DEF HS!SlaveNext

\* The steps of tsk1Fxn in the handshake keep the invariant.
LEMMA HsSlaveInv ==
  ASSUME BaseInv, RunInv, InHandshake(HS!SlaveNext), Ok'
  PROVE  RunInv'
<1>1. /\ UNCHANGED <<plan, hpc, hi, hoff, hth, hcnt, hptr, si, stk, scnt, finished, reg>>
      /\ UNCHANGED <<buf, seedSeen, verdict, runs, live>> /\ (fault => fault')
      /\ exists' \in {exists, exists \cup {SlaveProcQ}, exists \ {SlaveProcQ}}
      /\ PendingType'
      /\ \A q \in QueueName \ HsQueues : (q \in exists' <=> q \in exists) /\ pending'[q] = pending[q]
      /\ \A q \in QueueName \ exists' : pending'[q] = <<>>
  BY HsSlaveFrame
<1>2. HP!IInv'
  <2>1. spc = "slCreate" => table = <<>>
    BY DEF RunInv, SlaveInv
  <2>2. HP!SlaveNext
    BY <2>1, HsSlaveSteps DEF RunInv, Types
  <2>3. QED
    BY <2>2, HP!NextIInv, HandshakeAssumptions DEF RunInv, HP!Next
\* What the slave may do.
<1>3. \/ /\ spc = "slCreate" /\ spc' \in {"slGetCount", "aborted"} /\ table = <<>> /\ table' = <<>>
         /\ UNCHANGED numThreads
         /\ SlaveProcQ \in exists' <=> spc' = "slGetCount"
         /\ ~ Streaming'
      \/ /\ spc = "slGetCount" /\ spc' \in {"slGetConf", "aborted"} /\ table' = <<>> /\ numThreads' = Len(plan)
         /\ hpc = "hsGetCount" /\ SlaveProcQ \in exists'
         /\ ~ Streaming'
      \/ /\ spc = "slGetConf" /\ spc' \in {"slGetConf", "slDelete", "aborted"} /\ UNCHANGED numThreads
         /\ hpc = "hsGetConf" /\ SlaveProcQ \in exists'
         /\ Streaming' <=> spc' = "slDelete"
      \/ /\ spc = "slDelete" /\ spc' = "slTasks" /\ UNCHANGED <<numThreads, table, fault>>
         /\ SlaveProcQ \notin exists'
         /\ Streaming'
  BY HsSlavePlaces
<1>4. /\ HostDataQ \in QueueName \ HsQueues /\ SlaveDataQ \in QueueName \ HsQueues
      /\ \A q \in StreamQ : q \in QueueName \ HsQueues
      /\ \A t \in Thread : M4RecvQ(t) \in StreamQ /\ A15RecvQ(t) \in StreamQ
  BY DEF QueueName, HsQueues, HandshakeQ, SlaveProcQ, HostDataQ, SlaveDataQ, StreamQ, M4RecvQ, A15RecvQ
<1>5. UNCHANGED <<hsLive, stLive, stHost, stIndex, stOffset>>
  BY <1>1 DEF hsLive, stLive, stHost, stIndex, stOffset, HostHandshakes
<1>6. Types'
  <2>1. spc' \in SlavePc
    BY <1>3 DEF SlavePc, HS!SlavePc
  <2>2. exists' \subseteq QueueName
    BY <1>1, HsNames DEF RunInv, Types
  <2>3. numThreads' \in 0 .. MaxThreads
    BY <1>3, PlanLines, MaxThreadsAssumption DEF RunInv, Types
  <2>4. table' \in Seq(HS!TaskConf)
    <3>1. hsTable' = table'
      BY <1>3 DEF hsTable
    <3>2. hsTable' \in Seq(HP!TaskConf)
      BY <1>2 DEF HP!IInv, HP!TypeOK
    <3>3. HP!TaskConf = HS!TaskConf
      BY DEF HP!TaskConf, HS!TaskConf, HP!ThreadDirection, HS!ThreadDirection, HP!unidirectional_send, HS!unidirectional_send,
         HP!unidirectional_recv, HS!unidirectional_recv, HP!bidirectional, HS!bidirectional
    <3>4. QED
      BY <3>1, <3>2, <3>3
  <2>5. QED
    BY <1>1, <1>5, <2>1, <2>2, <2>3, <2>4 DEF RunInv, Types
<1>7. OwnInv'
  BY <1>1, <1>3, <1>4 DEF RunInv, OwnInv
<1>8. SlaveInv'
  <2>1. spc = "slDelete" <=> (Streaming /\ spc \in {"slCreate", "slGetCount", "slGetConf", "slDelete"})
    BY DEF Streaming
  <2>2. \A t \in Thread : stk[t] = "none"
    BY <1>3, <2>1 DEF RunInv, SlaveInv
  <2>3. Streaming' => hpc # "dhGet"
    BY <1>3, <2>1 DEF RunInv, DataInv, Ready, hsSlave
  <2>4. /\ spc' \in {"slReset", "slCreate"} => FALSE
        /\ spc' \in {"slGetCount", "slGetConf", "slDelete"} => finished = 0 /\ si = 0
    BY <1>3 DEF RunInv, SlaveInv
  <2>5. spc' \notin {"dtCreate", "dtGet", "dtDelete", "slFree"}
    BY <1>3
  <2>6. Streaming' => table' # <<>>
    <3>1. spc = "slDelete" => table # <<>> /\ table' = table
      BY <1>3 DEF RunInv, SlaveInv, Streaming
    <3>2. spc = "slGetConf" => \E x : table' = Append(table, x) /\ table \in Seq(HS!TaskConf)
      BY DEF InHandshake, HS!SlaveNext, HS!SlaveCreate, HS!SlaveGetCount, HS!SlaveGetConf, HS!SlaveDelete, RunInv, Types
    <3>3. ASSUME NEW x PROVE Append(table, x) # <<>>
      <4>1. table \in Seq(HS!TaskConf \cup {x})
        BY DEF RunInv, Types
      <4>2. Len(Append(table, x)) = Len(table) + 1 /\ Len(table) \in Nat
        BY <4>1
      <4>3. QED
        BY <4>2
    <3>4. QED
      BY <1>3, <3>1, <3>2, <3>3
  <2>7. QED
    BY <1>1, <2>2, <2>3, <2>4, <2>5, <2>6 DEF SlaveInv
<1>9. ThreadsInv'
  BY <1>1 DEF RunInv, ThreadsInv, HostHandshakes
\* The slave is ready for the next run as long as it has not been told of it.
<1>10. CASE spc = "slDelete"
  <2>1. ~ Ready /\ Streaming
    BY <1>10 DEF Ready, hsSlave, Streaming
  <2>2. hpc \notin {"dhPut", "dhGet"} /\ (~ fault => hpc \notin {"dhDelete", "leave", "idle"})
        /\ (runs = 0 => hpc # "idle")
    BY <1>10, <2>1 DEF RunInv, DataInv, EndInv
  <2>3. DataInv'
    BY <1>1, <1>4, <2>2 DEF RunInv, DataInv
  <2>4. EndInv'
    BY <1>1, <1>3, <1>10, <2>2 DEF EndInv
  <2>5. Scope' <=> Scope
    BY <1>1, <1>3, <1>10, <2>1 DEF Scope
  <2>6. OutInv'
    BY <1>1, <1>4, <2>5 DEF RunInv, OutInv
  <2>7. Scope' => StreamsInv'
    <3>1. spc' = "slTasks" /\ UNCHANGED <<numThreads, table, fault>>
      BY <1>3, <1>10
    <3>2. UNCHANGED stSlave
      BY <1>10, <3>1 DEF stSlave
    <3>3. fault' \in BOOLEAN
      BY <3>1 DEF BaseInv
    <3>4. ASSUME Scope' PROVE StreamsInv'
      <4>1. StreamsInv
        BY <2>5, <3>4 DEF RunInv
      <4>2. QED
        BY <1>1, <1>4, <1>5, <3>1, <3>2, <3>3, <4>1, StRests
    <3>5. QED
      BY <3>4
  <2>8. QED
    BY <1>2, <1>6, <1>7, <1>8, <1>9, <2>3, <2>4, <2>6, <2>7 DEF RunInv
<1>11. CASE spc \in {"slCreate", "slGetCount", "slGetConf"}
  <2>1. ~ Streaming /\ ~ Scope
    BY <1>11 DEF Streaming, Scope
  <2>2. spc = "slCreate" => Ready'
    BY <1>3 DEF Ready, hsTable, hsSlave
  <2>3. spc # "slCreate" => hpc \in {"hsGetCount", "hsGetConf"}
    BY <1>3, <1>11
  <2>4. DataInv'
    <3>1. hpc = "dhGet" => /\ spc = "slCreate" /\ buf = "0xdeadbeef"
                           /\ pending[SlaveDataQ] = <<>> /\ pending[HostDataQ] = <<DT!DataMsg>>
      BY <1>11, <2>1, <2>3 DEF RunInv, DataInv
    <3>2. hpc # "dhPut"
      BY <1>11 DEF RunInv, DataInv
    <3>3. QED
      BY <1>1, <1>4, <2>2, <3>1, <3>2 DEF RunInv, DataInv
  <2>5. EndInv'
    BY <1>1, <1>3, <1>11, <2>2, <2>3 DEF EndInv
  <2>6. OutInv'
    BY <1>1, <1>4, <2>1 DEF RunInv, OutInv
  <2>7. Scope' => StreamsInv'
    <3>1. Scope' => spc' = "slDelete" /\ spc = "slGetConf"
      BY <1>3, <1>11 DEF Scope, Streaming
    <3>2. QED
      BY <1>2, <1>6, <3>1, Entering
  <2>8. QED
    BY <1>2, <1>6, <1>7, <1>8, <1>9, <2>4, <2>5, <2>6, <2>7 DEF RunInv
<1>12. QED
  BY <1>3, <1>10, <1>11

\* The queues of the streams, the transaction and the handshake are different
\* ones.
LEMMA OtherQueues ==
  /\ HostDataQ \notin StreamQ /\ SlaveDataQ \notin StreamQ /\ HandshakeQ \notin StreamQ /\ SlaveProcQ \notin StreamQ
  /\ HostDataQ \in QueueName /\ SlaveDataQ \in QueueName /\ HandshakeQ \in QueueName /\ SlaveProcQ \in QueueName
  /\ HostDataQ \notin HsQueues /\ SlaveDataQ \notin HsQueues /\ HostDataQ # SlaveDataQ
  /\ StreamQ \subseteq QueueName
  /\ \A t, u \in Thread : /\ M4RecvQ(t) \in StreamQ /\ A15RecvQ(t) \in StreamQ /\ M4RecvQ(t) # A15RecvQ(u)
                          /\ M4RecvQ(t) = M4RecvQ(u) => t = u
                          /\ A15RecvQ(t) = A15RecvQ(u) => t = u
BY DEF QueueName, HsQueues, HandshakeQ, SlaveProcQ, HostDataQ, SlaveDataQ, StreamQ, M4RecvQ, A15RecvQ

\* While the host streams or waits for its threads, the two programs agree on
\* whether the streams have begun.
LEMMA HostStreams ==
  ASSUME RunInv, hpc \in {"spawn", "join", "crashed"}
  PROVE  /\ spc \notin {"dtDelete", "slFree"}
         /\ ~ Scope => ~ Streaming /\ \A t \in Thread : stk[t] = "none"
         /\ hsLive = 0
<1>1. spc \notin {"dtDelete", "slFree"}
  BY DEF RunInv, EndInv
<1>2. ~ Scope => ~ Streaming
  BY DEF Scope
<1>3. QED
  BY <1>1, <1>2 DEF RunInv, SlaveInv, hsLive

\* pthread_create and pthread_join in main keep the invariant, also where a join
\* of a thread that was never created crashes the host.
LEMMA StHostInv ==
  ASSUME BaseInv, RunInv, InStreams(ST!HostMain), Ok'
  PROVE  RunInv'
<1>1. /\ UNCHANGED <<spc, si, numThreads, table, stk, scnt, finished, reg, pending, exists, live, plan>>
      /\ UNCHANGED <<buf, seedSeen, verdict, runs>> /\ fault' \in BOOLEAN /\ (fault => fault')
      /\ hpc \in {"spawn", "join"} /\ hpc' \in {"spawn", "join", "dhCreate", "crashed"}
  BY DEF InStreams, ST!HostMain, ST!HostSpawn, ST!HostJoin, ST!mqVars, ST!slaveVars, ST!taskVars, dataVars, ST!Fails, BaseInv
<1>2. /\ hi \in Nat /\ hoff \in Nat /\ hi < Len(plan) /\ Len(plan) \in Nat \ {0} /\ Len(plan) <= MaxThreads
      /\ hi + 1 \in Thread /\ plan[hi + 1].msgSize \in Nat
  <2>1. hi \in Nat /\ hoff \in Nat /\ hi < Len(plan) /\ plan \in Plans
    BY <1>1 DEF RunInv, Types, ThreadsInv
  <2>2. Len(plan) \in Nat \ {0} /\ Len(plan) <= MaxThreads /\ 1 .. Len(plan) \subseteq Thread
    BY <2>1, PlanLines
  <2>3. hi + 1 \in 1 .. Len(plan)
    BY <2>1, <2>2
  <2>4. plan[hi + 1].msgSize \in Nat
    BY <2>1, <2>3, SP!LinesOfPlan, StreamsAssumptions
  <2>5. QED
    BY <2>1, <2>2, <2>3, <2>4
<1>3. \/ /\ hpc = "spawn" /\ hth[hi + 1] = "none"
         /\ hptr' = [hptr EXCEPT ![hi + 1] = BufBase + hoff]
         /\ hoff' = hoff + plan[hi + 1].msgSize
         /\ hcnt' = [hcnt EXCEPT ![hi + 1] = 0]
         /\ \E pc \in {"sOpen", "rCreate", "none"} : hth' = [hth EXCEPT ![hi + 1] = pc]
         /\ \/ hi + 1 < Len(plan) /\ hi' = hi + 1 /\ hpc' = "spawn"
            \/ hi' = 0 /\ hpc' = "join"
      \/ /\ hpc = "join" /\ UNCHANGED <<hptr, hoff, hcnt, hth>>
         /\ \/ hth[hi + 1] \in Ended /\ hi' = hi + 1 /\ hi + 1 < Len(plan) /\ hpc' = "join"
            \/ hth[hi + 1] \in Ended /\ hi' = hi + 1 /\ hi + 1 = Len(plan) /\ hpc' = "dhCreate"
            \/ hi' = hi /\ hpc' = "crashed"
  <2>1. CASE ST!HostSpawn
    <3>1. hpc = "spawn" /\ hth[hi + 1] = "none"
      BY <1>2, <2>1 DEF ST!HostSpawn, RunInv, ThreadsInv
    <3>2. QED
      BY <1>2, <2>1, <3>1 DEF ST!HostSpawn, ST!Goto
  <2>2. CASE ST!HostJoin
    BY <1>2, <2>2 DEF ST!HostJoin, ST!threadVars, Ended
  <2>3. QED
    BY <2>1, <2>2 DEF InStreams, ST!HostMain
<1>4. /\ hsSlave' = hsSlave /\ hsTable' = hsTable /\ (Streaming' <=> Streaming) /\ (Ready' <=> Ready)
      /\ (Scope' <=> Scope)
  <2>1. hsSlave' = hsSlave /\ hsTable' = hsTable /\ (Streaming' <=> Streaming) /\ (Ready' <=> Ready)
    BY <1>1, SlaveSame
  <2>2. QED
    BY <1>1, <2>1 DEF Scope
<1>5. HP!IInv'
  <2>1. hpc \notin HS!HostPc \ {"spawn"} /\ hpc' \notin HS!HostPc \ {"spawn"} /\ hpc \notin HostLast
    BY <1>1 DEF HS!HostPc, HostLast
  <2>2. PendingType /\ HP!IInv
    BY DEF RunInv, Types
  <2>3. QED
    BY <1>1, <1>4, <2>1, <2>2, HsRests
<1>6. Types'
  <2>1. hpc' \in HostPc
    BY <1>1 DEF HostPc, HS!HostPc, ST!HostPc
  <2>2. hi' \in Nat /\ hoff' \in Nat
    BY <1>2, <1>3
  <2>3. hth' \in [Thread -> ST!ThreadPc]
    BY <1>2, <1>3 DEF RunInv, Types, ST!ThreadPc
  <2>4. hcnt' \in [Thread -> 0 .. IdRange - 1]
    <3>1. 0 \in 0 .. IdRange - 1
      BY IdRangeAssumption
    <3>2. QED
      BY <1>2, <1>3, <3>1 DEF RunInv, Types
  <2>5. hptr' \in [Thread -> Nat]
    <3>1. BufBase + hoff \in Nat /\ hptr \in [Thread -> Nat]
      BY <1>2, BufBaseAssumption DEF RunInv, Types
    <3>2. QED
      BY <1>2, <1>3, <3>1
  <2>6. hsLive = 0 /\ hsLive' = 0
    BY <1>1 DEF hsLive
  <2>7. UNCHANGED stLive
    BY <1>1, <2>6 DEF stLive
  <2>8. QED
    BY <1>1, <2>1, <2>2, <2>3, <2>4, <2>5, <2>7 DEF RunInv, Types, PendingType
<1>7. OwnInv'
  <2>1. \A t \in Thread : hth'[t] \in {"recv", "rDelete"} <=> hth[t] \in {"recv", "rDelete"}
    BY <1>2, <1>3 DEF RunInv, Types
  <2>2. hpc \notin {"dhOpen", "dhPut", "dhGet", "dhDelete"} /\ hpc' \notin {"dhOpen", "dhPut", "dhGet", "dhDelete"}
    BY <1>1
  <2>3. QED
    BY <1>1, <2>1, <2>2 DEF RunInv, OwnInv
<1>8. SlaveInv'
  <2>1. hpc \notin {"dhGet"} /\ hpc' \notin {"dhGet"}
    BY <1>1
  <2>2. QED
    BY <1>1, <1>4, <2>1 DEF RunInv, SlaveInv
<1>9. ThreadsInv'
  <2>0. /\ \A t \in Thread \ {hi + 1} : hth'[t] = hth[t] /\ hcnt'[t] = hcnt[t]
        /\ hpc = "join" => hth' = hth
        /\ \A t \in Thread : t > Len(plan) => t # hi + 1 /\ hth[t] \in Ended
    <3>1. /\ hth \in [Thread -> ST!ThreadPc] /\ hcnt \in [Thread -> 0 .. IdRange - 1]
          /\ \A t \in Thread : t > Len(plan) => hth[t] \in Ended
      BY DEF RunInv, Types, ThreadsInv
    <3>2. \A t \in Thread : t > Len(plan) => t # hi + 1
      BY <1>2 DEF Thread
    <3>3. \A t \in Thread \ {hi + 1} : hth'[t] = hth[t] /\ hcnt'[t] = hcnt[t]
      BY <1>3, <3>1
    <3>4. QED
      BY <1>3, <3>1, <3>2, <3>3
  <2>1. \A t \in Thread : t > Len(plan) => hth'[t] \in Ended
    BY <2>0
  <2>2. hpc' = "spawn" => hi' < Len(plan) /\ \A t \in Thread : t > hi' => hth'[t] = "none" /\ hcnt'[t] = 0
    <3>1. ASSUME hpc' = "spawn", NEW t \in Thread, t > hi' PROVE hth'[t] = "none" /\ hcnt'[t] = 0
      <4>1. hpc = "spawn" /\ hi' = hi + 1
        BY <1>3, <3>1
      <4>2. t > hi /\ t # hi + 1
        BY <1>2, <3>1, <4>1 DEF Thread
      <4>3. hth[t] = "none" /\ hcnt[t] = 0
        BY <4>1, <4>2 DEF RunInv, ThreadsInv
      <4>4. QED
        BY <2>0, <4>2, <4>3
    <3>2. hpc' = "spawn" => hi' < Len(plan)
      BY <1>3
    <3>3. QED
      BY <3>1, <3>2
  <2>3. hpc' = "join" => hi' < Len(plan) /\ \A t \in 1 .. hi' : hth'[t] \in Ended
    <3>1. CASE hpc = "spawn"
      BY <1>2, <1>3, <3>1
    <3>2. CASE hpc = "join" /\ hpc' = "join"
      <4>1. hth' = hth /\ hth[hi + 1] \in Ended /\ hi' = hi + 1 /\ hi + 1 < Len(plan)
        BY <1>3, <3>2
      <4>2. \A t \in 1 .. hi : hth[t] \in Ended
        BY <3>2 DEF RunInv, ThreadsInv
      <4>3. \A t \in 1 .. hi + 1 : t \in 1 .. hi \/ t = hi + 1
        BY <1>2
      <4>4. QED
        BY <4>1, <4>2, <4>3
    <3>3. QED
      BY <1>1, <3>1, <3>2
  <2>4. hpc' = "dhCreate" => \A t \in Thread : hth'[t] \in Ended
    <3>1. ASSUME hpc' = "dhCreate", NEW t \in Thread PROVE hth'[t] \in Ended
      <4>1. hpc = "join" /\ UNCHANGED hth /\ hth[hi + 1] \in Ended /\ hi + 1 = Len(plan)
        BY <1>3, <3>1
      <4>2. t \in 1 .. hi \/ t = hi + 1 \/ t > Len(plan)
        BY <1>2, <4>1 DEF Thread
      <4>3. QED
        BY <4>1, <4>2 DEF RunInv, ThreadsInv
    <3>2. QED
      BY <3>1
  <2>5. ~ HostHandshakes'
    BY <1>1 DEF HostHandshakes, HS!HostPc
  <2>6. hpc' \notin HS!HostPc \cup {"join", "crashed"} => hpc' = "dhCreate"
    BY <1>1 DEF HS!HostPc
  <2>7. QED
    BY <1>1, <2>1, <2>2, <2>3, <2>4, <2>5, <2>6 DEF ThreadsInv
<1>10. DataInv'
  BY <1>1 DEF RunInv, DataInv
<1>11. EndInv'
  <2>1. spc \notin {"dtDelete", "slFree"}
    BY <1>1, HostStreams
  <2>2. QED
    BY <1>1, <2>1 DEF EndInv
<1>12. OutInv'
  BY <1>1, <1>4 DEF RunInv, OutInv
<1>13. Scope' => StreamsInv'
  <2>1. SP!HostMain \/ SP!SlaveMain
    <3>1. si < numThreads => si + 1 \in Thread
      BY MaxThreadsAssumption DEF RunInv, Types, Thread
    <3>2. QED
      BY <3>1, StMainSteps DEF RunInv, Types
  <2>2. [SP!Next]_(SP!vars)
    BY <2>1 DEF SP!Next
  <2>3. QED
    BY <1>4, <2>2, StStep DEF RunInv
<1>14. QED
  BY <1>5, <1>6, <1>7, <1>8, <1>9, <1>10, <1>11, <1>12, <1>13 DEF RunInv

\* What a thread of the host does to its own state and to its line's queues.
LEMMA ThreadFrameFacts ==
  ASSUME RunInv, NEW t \in Thread, InStreams(ST!HostThread(t))
  PROVE  /\ UNCHANGED <<plan, hpc, hi, hoff, spc, si, numThreads, table, stk, scnt, finished, reg, hptr>>
         /\ UNCHANGED <<buf, seedSeen, verdict, runs>> /\ (fault => fault')
         /\ hth[t] \notin Ended
         /\ \E pc \in ST!ThreadPc : /\ hth' = [hth EXCEPT ![t] = pc]
                                    /\ A15RecvQ(t) \in exists' <=> pc \in {"recv", "rDelete"}
         /\ exists' \in {exists, exists \cup {A15RecvQ(t)}, exists \ {A15RecvQ(t)}}
         /\ hcnt' \in [Thread -> 0 .. IdRange - 1]
         /\ \A u \in Thread \ {t} : hcnt'[u] = hcnt[u]
         /\ \/ UNCHANGED pending /\ exists' \in {exists, exists \cup {A15RecvQ(t)}}
            \/ pending' = [pending EXCEPT ![A15RecvQ(t)] = <<>>] /\ exists' = exists \ {A15RecvQ(t)}
            \/ \E x : /\ pending' = [pending EXCEPT ![A15RecvQ(t)] = x]
                      /\ pending[A15RecvQ(t)] # <<>> /\ UNCHANGED exists
            \/ \E x : /\ pending' = [pending EXCEPT ![M4RecvQ(t)] = x]
                      /\ M4RecvQ(t) \in exists /\ UNCHANGED exists
         /\ live' \in {live, live + 1} \/ pending[A15RecvQ(t)] # <<>>
<1>1. /\ UNCHANGED <<plan, hpc, hi, hoff, spc, si, numThreads, table, stk, scnt, finished, reg, hptr>>
      /\ UNCHANGED <<buf, seedSeen, verdict, runs>> /\ (fault => fault') /\ hth[t] \notin Ended
  BY DEF InStreams, ST!HostThread, ST!ThreadSendOpen, ST!ThreadSend, ST!ThreadSendEnd, ST!ThreadRecvCreate,
     ST!ThreadRecvGet, ST!ThreadRecvEnd, ST!ThreadFrame, ST!hostVars, ST!slaveVars, ST!taskVars, dataVars,
     ST!Fails, ST!Create, ST!CreateFails, Ended, ST!mqVars
<1>2. /\ ST!M4RecvQ(t) = M4RecvQ(t) /\ ST!A15RecvQ(t) = A15RecvQ(t)
      /\ M4RecvQ(t) # A15RecvQ(t)
  BY StNames, OtherQueues
<1>3. /\ A15RecvQ(t) \in exists <=> hth[t] \in {"recv", "rDelete"}
      /\ hth \in [Thread -> ST!ThreadPc] /\ hcnt \in [Thread -> 0 .. IdRange - 1]
  BY DEF RunInv, OwnInv, Types
<1>4. ASSUME NEW n \in Nat PROVE n % IdRange \in 0 .. IdRange - 1
  BY IdRangeAssumption
<1>5. hcnt[t] \in Nat /\ hcnt[t] + 1 \in Nat /\ (hcnt[t] + 1) % IdRange \in 0 .. IdRange - 1
  BY <1>3, <1>4, IdRangeAssumption
<1>6. CASE ST!ThreadSendOpen(t)
  BY <1>1, <1>2, <1>3, <1>6 DEF ST!ThreadSendOpen, ST!Goto, ST!ThreadPc
<1>7. CASE ST!ThreadSend(t)
  <2>1. UNCHANGED pending \/ \E x : pending' = [pending EXCEPT ![M4RecvQ(t)] = x] /\ M4RecvQ(t) \in exists
    BY <1>2, <1>7 DEF ST!ThreadSend, ST!WithPut
  <2>2. UNCHANGED exists /\ live' \in {live, live + 1} /\ hth[t] = "send"
        /\ \E pc \in {"send", "done"} : hth' = [hth EXCEPT ![t] = pc]
    BY <1>3, <1>7 DEF ST!ThreadSend, ST!Goto
  <2>3. hcnt' = [hcnt EXCEPT ![t] = (hcnt[t] + 1) % IdRange] \/ hcnt' = hcnt
    BY <1>7 DEF ST!ThreadSend
  <2>4. hcnt' \in [Thread -> 0 .. IdRange - 1] /\ \A u \in Thread \ {t} : hcnt'[u] = hcnt[u]
    BY <1>3, <1>5, <2>3
  <2>5. QED
    BY <1>1, <1>3, <2>1, <2>2, <2>4 DEF ST!ThreadPc
<1>8. CASE ST!ThreadSendEnd(t)
  BY <1>1, <1>2, <1>3, <1>8 DEF ST!ThreadSendEnd, ST!Goto, ST!ThreadPc, ST!mqVars
<1>9. CASE ST!ThreadRecvCreate(t)
  BY <1>1, <1>2, <1>3, <1>9 DEF ST!ThreadRecvCreate, ST!Goto, ST!ThreadPc, ST!Create, ST!CreateFails
<1>10. CASE ST!ThreadRecvGet(t)
  <2>1. \E x : pending' = [pending EXCEPT ![A15RecvQ(t)] = x]
    BY <1>2, <1>10 DEF ST!ThreadRecvGet, ST!WithoutHead
  <2>2. UNCHANGED exists /\ pending[A15RecvQ(t)] # <<>> /\ hth[t] = "recv"
        /\ \E pc \in {"recv", "rDelete"} : hth' = [hth EXCEPT ![t] = pc]
    BY <1>2, <1>3, <1>10 DEF ST!ThreadRecvGet, ST!Goto, ST!HasMessage
  <2>3. hcnt' = [hcnt EXCEPT ![t] = (hcnt[t] + 1) % IdRange] \/ hcnt' = hcnt
    BY <1>10 DEF ST!ThreadRecvGet
  <2>4. hcnt' \in [Thread -> 0 .. IdRange - 1] /\ \A u \in Thread \ {t} : hcnt'[u] = hcnt[u]
    BY <1>3, <1>5, <2>3
  <2>5. QED
    BY <1>1, <1>3, <2>1, <2>2, <2>4 DEF ST!ThreadPc
<1>11. CASE ST!ThreadRecvEnd(t)
  BY <1>1, <1>2, <1>3, <1>11 DEF ST!ThreadRecvEnd, ST!Goto, ST!ThreadPc, ST!Delete
<1>12. QED
  BY <1>6, <1>7, <1>8, <1>9, <1>10, <1>11 DEF InStreams, ST!HostThread

\* The buffers of the heap: the handshake's and the streams'.
LiveSplits ==
  live \in Int =>
    /\ stLive \in Int /\ (hsLive = 0 => stLive = live)
    /\ stLive \in Nat => live \in Nat

\* No message is of both phases.
LEMMA LiveSplit == LiveSplits
<1>1. hsLive \in {0, 1}
  BY DEF hsLive
<1>2. QED
  BY <1>1 DEF stLive, LiveSplits

\* The same after a step.
LEMMA LiveSplitNext == LiveSplits'
BY LiveSplit, PTL

\* The steps of a thread of the host keep the invariant.
LEMMA StThreadInv ==
  ASSUME BaseInv, RunInv, NEW t \in Thread, InStreams(ST!HostThread(t)), Ok'
  PROVE  RunInv'
<1>1. /\ UNCHANGED <<plan, hpc, hi, hoff, spc, si, numThreads, table, stk, scnt, finished, reg, hptr>>
      /\ UNCHANGED <<buf, seedSeen, verdict, runs>> /\ (fault => fault') /\ hth[t] \notin Ended
      /\ hcnt' \in [Thread -> 0 .. IdRange - 1] /\ \A u \in Thread \ {t} : hcnt'[u] = hcnt[u]
      /\ exists' \in {exists, exists \cup {A15RecvQ(t)}, exists \ {A15RecvQ(t)}}
  BY ThreadFrameFacts
<1>2. PICK pc \in ST!ThreadPc : hth' = [hth EXCEPT ![t] = pc] /\ (A15RecvQ(t) \in exists' <=> pc \in {"recv", "rDelete"})
  BY ThreadFrameFacts
<1>3. hth \in [Thread -> ST!ThreadPc] /\ PendingType /\ \A q \in QueueName \ exists : pending[q] = <<>>
  BY DEF RunInv, Types, OwnInv
<1>4. /\ \A q \in QueueName \ StreamQ : (q \in exists' <=> q \in exists) /\ pending'[q] = pending[q]
      /\ \A q \in QueueName \ exists' : pending'[q] = <<>>
      /\ PendingType'
      /\ \A u \in Thread : M4RecvQ(u) \in exists' <=> M4RecvQ(u) \in exists
      /\ \A u \in Thread \ {t} : A15RecvQ(u) \in exists' <=> A15RecvQ(u) \in exists
  <2>1. M4RecvQ(t) \in StreamQ /\ A15RecvQ(t) \in StreamQ /\ StreamQ \subseteq QueueName
    BY OtherQueues
  <2>2. \A q \in QueueName : q # A15RecvQ(t) => (q \in exists' <=> q \in exists)
    BY <1>1
  <2>3. /\ \A q \in QueueName \ StreamQ : pending'[q] = pending[q]
        /\ \A q \in QueueName \ exists' : pending'[q] = <<>>
        /\ PendingType'
    <3>1. CASE UNCHANGED pending /\ exists' \in {exists, exists \cup {A15RecvQ(t)}}
      BY <1>3, <3>1 DEF PendingType
    <3>2. CASE pending' = [pending EXCEPT ![A15RecvQ(t)] = <<>>] /\ exists' = exists \ {A15RecvQ(t)}
      BY <1>3, <2>1, <3>2 DEF PendingType
    <3>3. CASE \E x : /\ pending' = [pending EXCEPT ![A15RecvQ(t)] = x]
                      /\ pending[A15RecvQ(t)] # <<>> /\ UNCHANGED exists
      BY <1>3, <2>1, <3>3 DEF PendingType
    <3>4. CASE \E x : /\ pending' = [pending EXCEPT ![M4RecvQ(t)] = x]
                      /\ M4RecvQ(t) \in exists /\ UNCHANGED exists
      BY <1>3, <2>1, <3>4 DEF PendingType
    <3>5. QED
      BY <3>1, <3>2, <3>3, <3>4, ThreadFrameFacts
  <2>4. QED
    BY <2>1, <2>2, <2>3, OtherQueues
\* A thread that has not ended is that of a line whose thread was started.
<1>5. /\ t <= Len(plan) /\ hpc \in {"spawn", "join", "crashed"}
      /\ hpc = "spawn" => t <= hi
      /\ hpc = "join" => t \notin 1 .. hi
  <2>1. ~ HostHandshakes /\ hpc \in HS!HostPc \cup {"join", "crashed"}
    BY <1>1 DEF RunInv, ThreadsInv, Ended
  <2>2. Len(plan) \in Nat /\ hi \in Nat /\ t \in Nat
    BY PlanLines DEF RunInv, Types, Thread
  <2>3. ~ (t > Len(plan)) /\ (hpc = "spawn" => ~ (t > hi)) /\ (hpc = "join" => t \notin 1 .. hi)
    BY <1>1 DEF RunInv, ThreadsInv, Ended
  <2>4. QED
    BY <2>1, <2>2, <2>3 DEF HostHandshakes
<1>6. /\ hsSlave' = hsSlave /\ hsTable' = hsTable /\ (Streaming' <=> Streaming) /\ (Ready' <=> Ready)
      /\ (Scope' <=> Scope) /\ hsLive = 0 /\ hsLive' = 0
  <2>1. SlaveProcQ \in exists' <=> SlaveProcQ \in exists
    BY <1>4, OtherQueues
  <2>2. hsSlave' = hsSlave /\ hsTable' = hsTable /\ (Streaming' <=> Streaming) /\ (Ready' <=> Ready)
    BY <1>1, <2>1, SlaveSame
  <2>3. QED
    BY <1>1, <1>5, <2>2 DEF Scope, hsLive
<1>7. HP!IInv'
  <2>1. \A q \in HsQueues : (q \in exists' <=> q \in exists) /\ pending'[q] = pending[q]
    BY <1>4, OtherQueues DEF HsQueues
  <2>2. fault' \in BOOLEAN
    BY DEF InStreams, ST!HostThread, ST!ThreadSendOpen, ST!ThreadSend, ST!ThreadSendEnd, ST!ThreadRecvCreate,
     ST!ThreadRecvGet, ST!ThreadRecvEnd, ST!Fails, ST!Create, ST!CreateFails, BaseInv, ST!mqVars
  <2>3. HP!IInv
    BY DEF RunInv
  <2>4. QED
    BY <1>1, <1>3, <1>6, <2>1, <2>2, <2>3, HsRests
<1>8. Scope' => StreamsInv'
  <2>1. SP!HostThread(t)
    BY StThreadStep DEF RunInv, Types
  <2>2. [SP!Next]_(SP!vars)
    BY <2>1, SpNames DEF SP!Next
  <2>3. QED
    BY <1>6, <2>2, StStep DEF RunInv
<1>9. ~ Scope => (\A q \in StreamQ : pending[q] = <<>>) /\ \A u \in Thread : M4RecvQ(u) \notin exists
  BY <1>5, HostStreams DEF RunInv, OutInv, OwnInv
<1>10. live' \in Nat /\ stLive' \in Nat
  <2>1. CASE Scope
    <3>1. SP!TypeInv'
      BY <1>6, <1>8, <2>1 DEF StreamsInv
    <3>2. stLive' \in Nat
      BY <3>1 DEF SP!TypeInv
    <3>3. live' = live \/ live' = live + 1 \/ live' = live - 1
      BY DEF InStreams, ST!HostThread, ST!ThreadSendOpen, ST!ThreadSend, ST!ThreadSendEnd, ST!ThreadRecvCreate,
       ST!ThreadRecvGet, ST!ThreadRecvEnd, ST!Create, ST!CreateFails, ST!mqVars
    <3>4. live' \in Int
      BY <3>3 DEF RunInv, Types
    <3>5. hsLive' = 0
      BY <1>6
    <3>6. stLive' = live'
      BY <3>4, <3>5, LiveSplitNext DEF LiveSplits
    <3>7. QED
      BY <3>2, <3>6
  <2>2. CASE ~ Scope
    <3>1. pending[A15RecvQ(t)] = <<>>
      BY <1>9, <2>2, OtherQueues
    <3>2. live' \in {live, live + 1} /\ live \in Nat
      BY <3>1, ThreadFrameFacts DEF RunInv, Types
    <3>3. live' \in Nat
      BY <3>2
    <3>4. hsLive' = 0
      BY <1>6
    <3>5. stLive' = live'
      BY <3>3, <3>4, LiveSplitNext DEF LiveSplits
    <3>6. QED
      BY <3>3, <3>5
  <2>3. QED
    BY <2>1, <2>2
<1>11. Types'
  <2>1. exists' \subseteq QueueName
    BY <1>1, OtherQueues DEF RunInv, Types
  <2>2. hth' \in [Thread -> ST!ThreadPc]
    BY <1>2, <1>3
  <2>3. QED
    BY <1>1, <1>4, <1>10, <2>1, <2>2 DEF RunInv, Types
<1>12. OwnInv'
  <2>1. \A u \in Thread : A15RecvQ(u) \in exists' <=> hth'[u] \in {"recv", "rDelete"}
    BY <1>2, <1>3, <1>4 DEF RunInv, OwnInv
  <2>2. QED
    BY <1>1, <1>4, <1>6, <2>1, OtherQueues DEF RunInv, OwnInv
<1>13. SlaveInv'
  BY <1>1, <1>6 DEF RunInv, SlaveInv
<1>14. ThreadsInv'
  <2>1. \A u \in Thread : u # t => hth'[u] = hth[u] /\ hcnt'[u] = hcnt[u]
    BY <1>1, <1>2, <1>3
  <2>2. ~ HostHandshakes' /\ hpc' = hpc /\ hpc \in HS!HostPc \cup {"join", "crashed"}
    BY <1>1, <1>5 DEF HostHandshakes, HS!HostPc
  <2>3. t \in Nat /\ hi \in Nat /\ Len(plan) \in Nat
    BY PlanLines DEF RunInv, Types, Thread
  <2>4. \A u \in Thread : u > Len(plan) => u # t /\ hth[u] \in Ended
    BY <1>5, <2>3 DEF RunInv, ThreadsInv
  <2>5. hpc = "spawn" => hi < Len(plan) /\ \A u \in Thread : u > hi => u # t /\ hth[u] = "none" /\ hcnt[u] = 0
    BY <1>5, <2>3 DEF RunInv, ThreadsInv
  <2>6. hpc = "join" => hi < Len(plan) /\ \A u \in 1 .. hi : u \in Thread /\ u # t /\ hth[u] \in Ended
    <3>1. hpc = "join" => hi < Len(plan) /\ \A u \in 1 .. hi : hth[u] \in Ended
      BY DEF RunInv, ThreadsInv
    <3>2. Len(plan) <= MaxThreads
      BY PlanLines DEF RunInv, Types
    <3>3. QED
      BY <1>5, <2>3, <3>1, <3>2, MaxThreadsAssumption DEF Thread
  <2>7. QED
    BY <1>1, <2>1, <2>2, <2>4, <2>5, <2>6 DEF ThreadsInv
<1>15. DataInv'
  BY <1>1, <1>4, <1>5, OtherQueues DEF RunInv, DataInv
<1>16. EndInv'
  <2>1. spc \notin {"dtDelete", "slFree"}
    BY <1>5, HostStreams
  <2>2. QED
    BY <1>1, <1>5, <2>1 DEF EndInv
<1>17. OutInv'
  <2>1. ASSUME ~ Scope' PROVE \A q \in StreamQ : pending'[q] = <<>>
    <3>1. (\A q \in StreamQ : pending[q] = <<>>) /\ M4RecvQ(t) \notin exists /\ A15RecvQ(t) \in StreamQ
      BY <1>6, <1>9, <2>1, OtherQueues
    <3>2. UNCHANGED pending \/ pending' = [pending EXCEPT ![A15RecvQ(t)] = <<>>]
      BY <3>1, ThreadFrameFacts
    <3>3. QED
      BY <1>3, <3>1, <3>2, OtherQueues DEF PendingType
  <2>2. QED
    BY <1>1, <1>5, <2>1 DEF OutInv
<1>18. QED
  BY <1>7, <1>8, <1>11, <1>12, <1>13, <1>14, <1>15, <1>16, <1>17 DEF RunInv

\* A task of the slave that can do something is one of the streams.
LEMMA TasksStream ==
  ASSUME RunInv, spc \in {"slTasks", "slWait"} \/ \E t \in Thread : spc # "aborted" /\ stk[t] \notin {"none", "finished"}
  PROVE  /\ spc \in {"slTasks", "slWait"} /\ Streaming /\ hpc # "dhGet" /\ hpc # "dhPut" /\ Scope
         /\ StreamsInv /\ ~ Ready /\ table # <<>> /\ SlaveProcQ \notin exists /\ SlaveDataQ \notin exists
         /\ hsSlave = "slTasks" /\ hsTable = table
         /\ ~ fault => hpc \notin {"dhDelete", "leave"}
         /\ (~ fault \/ runs = 0) => hpc # "idle"
<1>1. spc \in {"slTasks", "slWait"} /\ hpc # "dhGet"
  <2>1. CASE spc \in {"slTasks", "slWait"}
    BY <2>1 DEF RunInv, DataInv, Ready, hsSlave, Streaming
  <2>2. CASE \E t \in Thread : spc # "aborted" /\ stk[t] \notin {"none", "finished"}
    <3>1. PICK t \in Thread : spc # "aborted" /\ stk[t] \notin {"none", "finished"}
      BY <2>2
    <3>2. /\ Streaming \/ spc \in {"dtDelete", "slFree"}
          /\ spc \notin {"slDelete", "dtCreate", "dtGet", "dtDelete", "slFree"}
          /\ ~ (Streaming /\ hpc = "dhGet")
      BY <3>1 DEF RunInv, SlaveInv
    <3>3. QED
      BY <3>1, <3>2 DEF Streaming
  <2>3. QED
    BY <2>1, <2>2
<1>2. Streaming /\ hsSlave = "slTasks" /\ ~ Ready /\ Scope /\ hsTable = table
  BY <1>1 DEF Streaming, hsSlave, Ready, Scope, hsTable
<1>3. StreamsInv
  BY <1>2 DEF RunInv
<1>4. table # <<>>
  BY <1>2 DEF RunInv, SlaveInv
<1>5. SlaveProcQ \notin exists /\ SlaveDataQ \notin exists /\ hpc # "dhPut"
  BY <1>1 DEF RunInv, OwnInv, DataInv
<1>6. /\ ~ fault => hpc \notin {"dhDelete", "leave"}
      /\ (~ fault \/ runs = 0) => hpc # "idle"
  BY <1>2 DEF RunInv, EndInv
<1>7. QED
  BY <1>1, <1>2, <1>3, <1>4, <1>5, <1>6

\* What a task of the slave does to its own state and to its line's queues.
LEMMA TaskFrameFacts ==
  ASSUME RunInv, NEW t \in Thread, InStreams(ST!SlaveTask(t))
  PROVE  /\ UNCHANGED <<plan, hpc, hi, hoff, si, numThreads, table, hth, hcnt, hptr>>
         /\ UNCHANGED <<buf, seedSeen, verdict, runs>> /\ (fault => fault')
         /\ spc # "aborted" /\ spc' \in {spc, "aborted"} /\ stk[t] \notin {"none", "finished"}
         /\ \E pc \in ST!TaskPc : /\ stk' = [stk EXCEPT ![t] = pc]
                                  /\ M4RecvQ(t) \in exists' <=> pc = "recv"
         /\ exists' \in {exists, exists \cup {M4RecvQ(t)}, exists \ {M4RecvQ(t)}}
         /\ scnt' \in [Thread -> Nat] /\ reg' \in [Thread -> Nat] /\ finished' \in Nat
         /\ \/ UNCHANGED pending /\ exists' \in {exists, exists \cup {M4RecvQ(t)}}
            \/ pending' = [pending EXCEPT ![M4RecvQ(t)] = <<>>] /\ exists' = exists \ {M4RecvQ(t)}
            \/ \E x : /\ pending' = [pending EXCEPT ![M4RecvQ(t)] = x]
                      /\ pending[M4RecvQ(t)] # <<>> /\ UNCHANGED exists
            \/ \E x : /\ pending' = [pending EXCEPT ![A15RecvQ(t)] = x]
                      /\ A15RecvQ(t) \in exists /\ UNCHANGED exists
         /\ live' \in {live - 1, live, live + 1} /\ fault' \in {fault, TRUE}
<1>1. /\ UNCHANGED <<plan, hpc, hi, hoff, si, numThreads, table, hth, hcnt, hptr>>
      /\ UNCHANGED <<buf, seedSeen, verdict, runs>> /\ (fault => fault')
      /\ stk[t] \notin {"none", "finished"} /\ spc # "aborted" /\ spc' \in {spc, "aborted"}
      /\ live' \in {live - 1, live, live + 1} /\ fault' \in {fault, TRUE}
  <2>1. /\ UNCHANGED <<plan, hpc, hi, hoff, si, numThreads, table, hth, hcnt, hptr>>
        /\ UNCHANGED <<buf, seedSeen, verdict, runs>>
    BY DEF InStreams, ST!SlaveTask, ST!TaskSendOpen, ST!TaskSend, ST!TaskSendEnd, ST!TaskRecvCreate, ST!TaskRecvGet,
       ST!TaskRecvEnd, ST!TaskCountRead, ST!TaskCountWrite, ST!TaskFrame, ST!hostVars, ST!threadVars, dataVars,
       ST!Fails, ST!Create, ST!CreateFails, ST!Delete, ST!mqVars, ST!MayRun, ST!Runs, ST!Abort
  <2>2. stk[t] \notin {"none", "finished"} /\ spc # "aborted" /\ spc' \in {spc, "aborted"}
    BY DEF InStreams, ST!SlaveTask, ST!TaskSendOpen, ST!TaskSend, ST!TaskSendEnd, ST!TaskRecvCreate, ST!TaskRecvGet,
       ST!TaskRecvEnd, ST!TaskCountRead, ST!TaskCountWrite, ST!TaskFrame, ST!hostVars, ST!threadVars, dataVars,
       ST!Fails, ST!Create, ST!CreateFails, ST!Delete, ST!mqVars, ST!MayRun, ST!Runs, ST!Abort
  <2>3. live' \in {live - 1, live, live + 1}
    BY DEF InStreams, ST!SlaveTask, ST!TaskSendOpen, ST!TaskSend, ST!TaskSendEnd, ST!TaskRecvCreate, ST!TaskRecvGet,
       ST!TaskRecvEnd, ST!TaskCountRead, ST!TaskCountWrite, ST!TaskFrame, ST!hostVars, ST!threadVars, dataVars,
       ST!Fails, ST!Create, ST!CreateFails, ST!Delete, ST!mqVars, ST!MayRun, ST!Runs, ST!Abort
  <2>4. fault' = fault \/ fault' = TRUE
    BY DEF InStreams, ST!SlaveTask, ST!TaskSendOpen, ST!TaskSend, ST!TaskSendEnd, ST!TaskRecvCreate, ST!TaskRecvGet,
       ST!TaskRecvEnd, ST!TaskCountRead, ST!TaskCountWrite, ST!TaskFrame, ST!hostVars, ST!threadVars, dataVars,
       ST!Fails, ST!Create, ST!CreateFails, ST!Delete, ST!mqVars, ST!MayRun, ST!Runs, ST!Abort
  <2>5. fault => fault'
    BY DEF InStreams, ST!SlaveTask, ST!TaskSendOpen, ST!TaskSend, ST!TaskSendEnd, ST!TaskRecvCreate, ST!TaskRecvGet,
       ST!TaskRecvEnd, ST!TaskCountRead, ST!TaskCountWrite, ST!TaskFrame, ST!hostVars, ST!threadVars, dataVars,
       ST!Fails, ST!Create, ST!CreateFails, ST!Delete, ST!mqVars, ST!MayRun, ST!Runs, ST!Abort
  <2>6. fault' \in {fault, TRUE}
    BY <2>4
  <2>7. QED
    BY <2>1, <2>2, <2>3, <2>5, <2>6
<1>2. /\ ST!M4RecvQ(t) = M4RecvQ(t) /\ ST!A15RecvQ(t) = A15RecvQ(t)
      /\ M4RecvQ(t) # A15RecvQ(t)
  BY StNames, OtherQueues
<1>3. /\ M4RecvQ(t) \in exists <=> stk[t] = "recv"
      /\ stk \in [Thread -> ST!TaskPc] /\ scnt \in [Thread -> Nat] /\ reg \in [Thread -> Nat] /\ finished \in Nat
      /\ stk = [stk EXCEPT ![t] = stk[t]] /\ stk[t] \in ST!TaskPc
  BY DEF RunInv, OwnInv, Types
<1>4. [scnt EXCEPT ![t] = @ + 1] \in [Thread -> Nat]
  BY <1>3
<1>5. CASE ST!TaskSendOpen(t)
  BY <1>1, <1>2, <1>3, <1>5 DEF ST!TaskSendOpen, ST!Goto, ST!TaskPc
<1>6. CASE ST!TaskSend(t)
  <2>1. UNCHANGED pending \/ \E x : pending' = [pending EXCEPT ![A15RecvQ(t)] = x] /\ A15RecvQ(t) \in exists
    BY <1>2, <1>6 DEF ST!TaskSend, ST!WithPut
  <2>2. UNCHANGED <<exists, finished, reg>> /\ stk[t] \in {"send", "sendLost"}
        /\ \E pc \in {"send", "sendLost", "inc"} : stk' = [stk EXCEPT ![t] = pc]
    BY <1>3, <1>6 DEF ST!TaskSend, ST!Goto
  <2>3. scnt' \in [Thread -> Nat]
    BY <1>3, <1>4, <1>6 DEF ST!TaskSend
  <2>4. QED
    BY <1>1, <1>3, <2>1, <2>2, <2>3 DEF ST!TaskPc
<1>7. CASE ST!TaskSendEnd(t)
  BY <1>1, <1>2, <1>3, <1>7 DEF ST!TaskSendEnd, ST!Goto, ST!TaskPc, ST!mqVars
<1>8. CASE ST!TaskRecvCreate(t)
  BY <1>1, <1>2, <1>3, <1>8 DEF ST!TaskRecvCreate, ST!Goto, ST!TaskPc, ST!Create, ST!CreateFails
<1>9. CASE ST!TaskRecvGet(t)
  <2>1. \E x : pending' = [pending EXCEPT ![M4RecvQ(t)] = x]
    BY <1>2, <1>9 DEF ST!TaskRecvGet, ST!WithoutHead
  <2>2. UNCHANGED <<exists, finished, reg, stk>> /\ pending[M4RecvQ(t)] # <<>> /\ stk[t] = "recv"
    BY <1>2, <1>9 DEF ST!TaskRecvGet, ST!Goto, ST!HasMessage
  <2>3. scnt' \in [Thread -> Nat]
    BY <1>3, <1>4, <1>9 DEF ST!TaskRecvGet
  <2>4. QED
    BY <1>1, <1>3, <2>1, <2>2, <2>3 DEF ST!TaskPc
<1>10. CASE ST!TaskRecvEnd(t)
  BY <1>1, <1>2, <1>3, <1>10 DEF ST!TaskRecvEnd, ST!Goto, ST!TaskPc, ST!Delete
<1>11. CASE ST!TaskCountRead(t)
  BY <1>1, <1>2, <1>3, <1>11 DEF ST!TaskCountRead, ST!Goto, ST!TaskPc, ST!mqVars
<1>12. CASE ST!TaskCountWrite(t)
  BY <1>1, <1>2, <1>3, <1>12 DEF ST!TaskCountWrite, ST!Goto, ST!TaskPc, ST!mqVars
<1>13. QED
  BY <1>5, <1>6, <1>7, <1>8, <1>9, <1>10, <1>11, <1>12 DEF InStreams, ST!SlaveTask

\* The steps of a task of the slave keep the invariant, also where it stops the
\* program over a message it did not expect.
LEMMA StTaskInv ==
  ASSUME BaseInv, RunInv, NEW t \in Thread, InStreams(ST!SlaveTask(t)), Ok'
  PROVE  RunInv'
<1>1. /\ UNCHANGED <<plan, hpc, hi, hoff, si, numThreads, table, hth, hcnt, hptr>>
      /\ UNCHANGED <<buf, seedSeen, verdict, runs>> /\ (fault => fault')
      /\ spc # "aborted" /\ spc' \in {spc, "aborted"} /\ stk[t] \notin {"none", "finished"}
      /\ exists' \in {exists, exists \cup {M4RecvQ(t)}, exists \ {M4RecvQ(t)}}
      /\ scnt' \in [Thread -> Nat] /\ reg' \in [Thread -> Nat] /\ finished' \in Nat
      /\ live' \in {live - 1, live, live + 1} /\ fault' \in BOOLEAN
  BY TaskFrameFacts DEF BaseInv
<1>2. PICK pc \in ST!TaskPc : stk' = [stk EXCEPT ![t] = pc] /\ (M4RecvQ(t) \in exists' <=> pc = "recv")
  BY TaskFrameFacts
<1>3. stk \in [Thread -> ST!TaskPc] /\ PendingType /\ \A q \in QueueName \ exists : pending[q] = <<>>
  BY DEF RunInv, Types, OwnInv
<1>4. /\ \A q \in QueueName \ StreamQ : (q \in exists' <=> q \in exists) /\ pending'[q] = pending[q]
      /\ \A q \in QueueName \ exists' : pending'[q] = <<>>
      /\ PendingType'
      /\ \A u \in Thread : A15RecvQ(u) \in exists' <=> A15RecvQ(u) \in exists
      /\ \A u \in Thread \ {t} : M4RecvQ(u) \in exists' <=> M4RecvQ(u) \in exists
  <2>1. M4RecvQ(t) \in StreamQ /\ A15RecvQ(t) \in StreamQ /\ StreamQ \subseteq QueueName
    BY OtherQueues
  <2>2. \A q \in QueueName : q # M4RecvQ(t) => (q \in exists' <=> q \in exists)
    BY <1>1
  <2>3. /\ \A q \in QueueName \ StreamQ : pending'[q] = pending[q]
        /\ \A q \in QueueName \ exists' : pending'[q] = <<>>
        /\ PendingType'
    <3>1. CASE UNCHANGED pending /\ exists' \in {exists, exists \cup {M4RecvQ(t)}}
      BY <1>3, <3>1 DEF PendingType
    <3>2. CASE pending' = [pending EXCEPT ![M4RecvQ(t)] = <<>>] /\ exists' = exists \ {M4RecvQ(t)}
      BY <1>3, <2>1, <3>2 DEF PendingType
    <3>3. CASE \E x : /\ pending' = [pending EXCEPT ![M4RecvQ(t)] = x]
                      /\ pending[M4RecvQ(t)] # <<>> /\ UNCHANGED exists
      BY <1>3, <2>1, <3>3 DEF PendingType
    <3>4. CASE \E x : /\ pending' = [pending EXCEPT ![A15RecvQ(t)] = x]
                      /\ A15RecvQ(t) \in exists /\ UNCHANGED exists
      BY <1>3, <2>1, <3>4 DEF PendingType
    <3>5. QED
      BY <3>1, <3>2, <3>3, <3>4, TaskFrameFacts
  <2>4. QED
    BY <2>1, <2>2, <2>3, OtherQueues
<1>5. /\ spc \in {"slTasks", "slWait"} /\ hpc # "dhGet" /\ hpc # "dhPut" /\ Scope
      /\ StreamsInv /\ ~ Ready /\ table # <<>> /\ SlaveProcQ \notin exists /\ SlaveDataQ \notin exists
      /\ hsSlave = "slTasks" /\ hsTable = table
      /\ ~ fault => hpc \notin {"dhDelete", "leave"}
      /\ (~ fault \/ runs = 0) => hpc # "idle"
  BY <1>1, TasksStream
<1>6. /\ spc' \in {"slTasks", "slWait", "aborted"} /\ SlaveProcQ \notin exists' /\ SlaveDataQ \notin exists'
      /\ Streaming' /\ Scope' /\ hsSlave' = "slTasks" /\ hsTable' = table
      /\ UNCHANGED hsLive
  <2>1. SlaveProcQ \notin exists' /\ SlaveDataQ \notin exists'
    BY <1>4, <1>5, OtherQueues
  <2>2. spc' \in {"slTasks", "slWait", "aborted"}
    BY <1>1, <1>5
  <2>3. Streaming'
    BY <1>1, <1>5, <2>1, <2>2 DEF Streaming
  <2>4. QED
    BY <1>1, <1>5, <2>1, <2>2, <2>3 DEF Scope, hsSlave, hsTable, hsLive
<1>7. HP!IInv'
  <2>1. \A q \in HsQueues : (q \in exists' <=> q \in exists) /\ pending'[q] = pending[q]
    BY <1>4, OtherQueues DEF HsQueues
  <2>2. HP!IInv
    BY DEF RunInv
  <2>3. hsSlave' = hsSlave /\ hsTable' = hsTable
    BY <1>5, <1>6
  <2>4. QED
    BY <1>1, <1>3, <2>1, <2>2, <2>3, HsRests
<1>8. StreamsInv'
  <2>1. SP!SlaveTask(t)
    BY StTaskStep DEF RunInv, Types
  <2>2. [SP!Next]_(SP!vars)
    BY <2>1, SpNames DEF SP!Next
  <2>3. QED
    BY <1>5, <2>2, StStep
<1>9. live' \in Nat /\ stLive' \in Nat
  <2>1. stLive' \in Nat
    BY <1>8 DEF StreamsInv, SP!TypeInv
  <2>2. live' \in Int
    BY <1>1 DEF RunInv, Types
  <2>3. live' \in Nat
    BY <2>1, <2>2, LiveSplitNext DEF LiveSplits
  <2>4. QED
    BY <2>1, <2>3
<1>10. Types'
  <2>1. exists' \subseteq QueueName
    BY <1>1, OtherQueues DEF RunInv, Types
  <2>2. stk' \in [Thread -> ST!TaskPc]
    BY <1>2, <1>3
  <2>3. spc' \in SlavePc
    BY <1>6 DEF SlavePc, ST!SlavePc
  <2>4. QED
    BY <1>1, <1>4, <1>9, <2>1, <2>2, <2>3 DEF RunInv, Types
<1>11. OwnInv'
  <2>1. \A u \in Thread : M4RecvQ(u) \in exists' <=> stk'[u] = "recv"
    BY <1>2, <1>3, <1>4 DEF RunInv, OwnInv
  <2>2. QED
    BY <1>1, <1>4, <1>6, <2>1, OtherQueues DEF RunInv, OwnInv
<1>12. SlaveInv'
  BY <1>1, <1>5, <1>6 DEF SlaveInv
<1>13. ThreadsInv'
  BY <1>1 DEF RunInv, ThreadsInv, HostHandshakes
<1>14. DataInv'
  BY <1>1, <1>4, <1>5, OtherQueues DEF RunInv, DataInv
<1>15. EndInv'
  BY <1>1, <1>5, <1>6 DEF EndInv
<1>16. OutInv'
  BY <1>6 DEF OutInv
<1>17. QED
  BY <1>6, <1>7, <1>8, <1>10, <1>11, <1>12, <1>13, <1>14, <1>15, <1>16 DEF RunInv

\* Task_create and the polling loop of tsk1Fxn keep the invariant.
LEMMA StSlaveInv ==
  ASSUME BaseInv, RunInv, InStreams(ST!SlaveMain), Ok'
  PROVE  RunInv'
<1>1. /\ UNCHANGED <<plan, hpc, hi, hoff, numThreads, table, hth, hcnt, hptr, finished, reg, pending, exists, live>>
      /\ UNCHANGED <<buf, seedSeen, verdict, runs>> /\ fault' \in BOOLEAN /\ (fault => fault')
      /\ spc \in {"slTasks", "slWait"} /\ spc' \in {"slTasks", "slWait", "dtCreate"}
  BY DEF InStreams, ST!SlaveMain, ST!SlaveCreateTask, ST!SlaveTasksCreated, ST!SlaveAllFinished,
     ST!mqVars, ST!hostVars, ST!taskVars, ST!threadVars, dataVars, ST!Fails, BaseInv
<1>2. /\ hpc # "dhGet" /\ hpc # "dhPut" /\ Scope
      /\ StreamsInv /\ ~ Ready /\ table # <<>> /\ SlaveProcQ \notin exists /\ SlaveDataQ \notin exists
      /\ hsSlave = "slTasks" /\ hsTable = table
      /\ ~ fault => hpc \notin {"dhDelete", "leave"}
      /\ (~ fault \/ runs = 0) => hpc # "idle"
  BY <1>1, TasksStream
<1>3. /\ Streaming' /\ Scope' /\ hsSlave' = "slTasks" /\ hsTable' = table /\ UNCHANGED <<hsLive, stLive>>
  <2>1. Streaming' /\ spc' # "dtGet"
    BY <1>1 DEF Streaming
  <2>2. UNCHANGED hsLive
    BY <1>1 DEF hsLive
  <2>3. QED
    BY <1>1, <1>2, <2>1, <2>2 DEF Scope, hsSlave, hsTable, stLive
<1>4. si \in Nat /\ si < numThreads => si + 1 \in Thread /\ si + 1 <= numThreads
  BY MaxThreadsAssumption DEF RunInv, Types, Thread
<1>5. HP!IInv'
  <2>1. PendingType /\ HP!IInv
    BY DEF RunInv, Types
  <2>2. hsSlave' = hsSlave /\ hsTable' = hsTable
    BY <1>2, <1>3
  <2>3. QED
    BY <1>1, <2>1, <2>2, HsRests
<1>6. StreamsInv'
  <2>1. SP!HostMain \/ SP!SlaveMain
    BY <1>4, StMainSteps DEF RunInv, Types
  <2>2. [SP!Next]_(SP!vars)
    BY <2>1 DEF SP!Next
  <2>3. QED
    BY <1>2, <2>2, StStep
\* Only tsk1Fxn's own counter and the new task change.
<1>7. /\ si' \in 0 .. MaxThreads /\ stk' \in [Thread -> ST!TaskPc] /\ scnt' \in [Thread -> Nat]
      /\ \A t \in Thread : stk'[t] = "recv" <=> stk[t] = "recv"
  <2>1. si \in Nat /\ stk \in [Thread -> ST!TaskPc] /\ scnt \in [Thread -> Nat]
        /\ si \in 0 .. MaxThreads /\ numThreads \in 0 .. MaxThreads
    BY DEF RunInv, Types
  <2>2. CASE ST!SlaveCreateTask
    <3>1. /\ si < numThreads /\ si' = si + 1 /\ scnt' = [scnt EXCEPT ![si + 1] = 0]
          /\ \E pc \in {"rCreate", "sOpen", "none"} : stk' = [stk EXCEPT ![si + 1] = pc]
      BY <2>2 DEF ST!SlaveCreateTask, ST!Goto
    <3>2. si + 1 \in Thread /\ si + 1 \in 0 .. MaxThreads
      BY <1>4, <2>1, <3>1, MaxThreadsAssumption
    <3>3. stk[si + 1] = "none"
      <4>1. \A t \in Thread : t > si => stk[t] = "none"
        BY <1>2, SpNames DEF StreamsInv, SP!CountInv
      <4>2. si + 1 > si
        BY <2>1
      <4>3. QED
        BY <3>2, <4>1, <4>2
    <3>4. stk' \in [Thread -> ST!TaskPc] /\ scnt' \in [Thread -> Nat]
      BY <2>1, <3>1, <3>2 DEF ST!TaskPc
    <3>5. \A t \in Thread : stk'[t] = "recv" <=> stk[t] = "recv"
      BY <2>1, <3>1, <3>2, <3>3
    <3>6. QED
      BY <3>1, <3>2, <3>4, <3>5
  <2>3. CASE ST!SlaveTasksCreated \/ ST!SlaveAllFinished
    BY <2>1, <2>3 DEF ST!SlaveTasksCreated, ST!SlaveAllFinished, ST!taskVars
  <2>4. QED
    BY <2>2, <2>3 DEF InStreams, ST!SlaveMain
<1>8. Types'
  <2>1. spc' \in SlavePc
    BY <1>1 DEF SlavePc, ST!SlavePc, HS!SlavePc
  <2>2. QED
    BY <1>1, <1>3, <1>7, <2>1 DEF RunInv, Types, PendingType
<1>9. OwnInv'
  BY <1>1, <1>2, <1>7 DEF RunInv, OwnInv
<1>10. SlaveInv'
  <2>1. spc' = "dtCreate" => \A t \in Thread : stk'[t] = (IF t <= numThreads' THEN "finished" ELSE "none")
    <3> SUFFICES ASSUME spc' = "dtCreate", NEW t \in Thread
                 PROVE  stk'[t] = (IF t <= numThreads' THEN "finished" ELSE "none")
      OBVIOUS
    <3>1. stSlave' = "dtCreate"
      BY DEF stSlave
    <3>2. SP!CountInv' /\ SP!TypeInv'
      BY <1>6 DEF StreamsInv
    <3>3. t \in SP!Lines' => stk'[t] = "finished"
      BY <3>1, <3>2 DEF SP!CountInv
    <3>4. t \notin SP!Lines' => stk'[t] = "none"
      BY <3>2, SpNames DEF SP!TypeInv, SP!OnlyLines
    <3>5. numThreads' = Len(plan')
      BY <3>2 DEF SP!TypeInv, SP!PcInv
    <3>6. t \in Nat \ {0} /\ Len(plan') \in Nat
      BY <1>1, PlanLines, MaxThreadsAssumption DEF Thread, RunInv, Types
    <3>7. t \in SP!Lines' <=> t <= numThreads'
      BY <3>5, <3>6 DEF SP!Lines
    <3>8. QED
      BY <3>3, <3>4, <3>7
  <2>2. QED
    BY <1>1, <1>2, <1>3, <2>1 DEF SlaveInv
<1>11. ThreadsInv'
  BY <1>1 DEF RunInv, ThreadsInv, HostHandshakes
<1>12. DataInv'
  BY <1>1, <1>2 DEF RunInv, DataInv
<1>13. EndInv'
  BY <1>1, <1>2 DEF EndInv
<1>14. OutInv'
  BY <1>3 DEF OutInv
<1>15. QED
  BY <1>3, <1>5, <1>6, <1>8, <1>9, <1>10, <1>11, <1>12, <1>13, <1>14 DEF RunInv

-----------------------------------------------------------------------------
(* The data transaction. *)

\* After the streams their queues are gone.
LEMMA StreamsEmpty ==
  ASSUME RunInv, hpc \notin HS!HostPc \cup {"join", "crashed"}, spc \in {"dtCreate", "dtGet", "dtDelete", "slFree"}
  PROVE  \A q \in StreamQ : q \notin exists /\ pending[q] = <<>>
<1>1. \A t \in Thread : hth[t] \in Ended /\ stk[t] # "recv"
  BY DEF RunInv, ThreadsInv, SlaveInv
<1>2. \A q \in StreamQ : q \notin exists
  BY <1>1 DEF RunInv, OwnInv, StreamQ, Ended
<1>3. QED
  BY <1>2, OtherQueues DEF RunInv, OwnInv

\* Where neither program works on the handshake or the streams.
LEMMA OthersRest ==
  ASSUME RunInv,
         UNCHANGED <<plan, numThreads, table, hi, hoff, hth, hcnt, hptr, si, stk, scnt, finished, reg>>,
         fault' \in BOOLEAN, fault => fault',
         hpc \notin HS!HostPc \cup {"join", "crashed"}, hpc' \notin HS!HostPc \cup {"join", "crashed"},
         hpc \in HostLast => hpc' \in HostLast,
         \A q \in HsQueues \cup StreamQ : (q \in exists' <=> q \in exists) /\ pending'[q] = pending[q],
         hsSlave' = hsSlave, hsTable' = hsTable,
         stSlave' \in {stSlave, "aborted"},
         live \in Nat, live' \in Nat,
         Scope' => Scope /\ UNCHANGED live
  PROVE  HP!IInv' /\ ThreadsInv' /\ (Scope' => StreamsInv') /\ UNCHANGED hsLive /\ stLive' \in Nat
<1>1. HP!IInv'
  <2>1. PendingType /\ HP!IInv
    BY DEF RunInv, Types
  <2>2. \A q \in HsQueues : (q \in exists' <=> q \in exists) /\ pending'[q] = pending[q]
    OBVIOUS
  <2>3. QED
    BY <2>1, <2>2, HsRests
<1>2. ThreadsInv'
  <2>1. hpc # "spawn" /\ hpc' # "spawn" /\ ~ HostHandshakes /\ ~ HostHandshakes'
    BY DEF HostHandshakes, HS!HostPc
  <2>2. QED
    BY <2>1 DEF RunInv, ThreadsInv
<1>3. hsLive = 0 /\ hsLive' = 0
  BY DEF hsLive, HS!HostPc
<1>4. stLive' = live' /\ stLive = live
  <2>1. live \in Int /\ live' \in Int
    OBVIOUS
  <2>2. stLive' = live'
    BY <1>3, <2>1, LiveSplitNext DEF LiveSplits
  <2>3. stLive = live
    BY <1>3, <2>1, LiveSplit DEF LiveSplits
  <2>4. QED
    BY <2>2, <2>3
<1>5. ASSUME Scope' PROVE StreamsInv'
  <2>1. StreamsInv /\ UNCHANGED stLive
    BY <1>4, <1>5 DEF RunInv
  <2>2. UNCHANGED <<stHost, stIndex, stOffset>>
    BY DEF stHost, stIndex, stOffset, HostHandshakes, HS!HostPc
  <2>3. \A q \in StreamQ : (q \in exists' <=> q \in exists) /\ pending'[q] = pending[q]
    OBVIOUS
  <2>4. QED
    BY <2>1, <2>2, <2>3, StRests
<1>6. QED
  BY <1>1, <1>2, <1>3, <1>4, <1>5

\* What the data transaction leaves alone on both sides.
DataFrame == UNCHANGED <<plan, numThreads, table, hi, hoff, hth, hcnt, hptr, si, stk, scnt, finished, reg, runs>>

\* The message service's calls on the two queues of the transaction.
LEMMA DataQueues ==
  ASSUME RunInv, NEW q \in {HostDataQ, SlaveDataQ}
  PROVE  /\ q \in QueueName /\ q \notin HsQueues /\ q \notin StreamQ /\ PendingType
         /\ \/ UNCHANGED <<exists, pending>>
            \/ exists' = exists \cup {q} /\ UNCHANGED pending
            \/ exists' = exists \ {q} /\ pending' = [pending EXCEPT ![q] = <<>>]
            \/ \E x : exists' = exists /\ pending' = [pending EXCEPT ![q] = x] /\ q \in exists
            => /\ PendingType' /\ exists' \subseteq QueueName
               /\ \A r \in QueueName \ {q} : (r \in exists' <=> r \in exists) /\ pending'[r] = pending[r]
               /\ \A r \in QueueName \ exists' : pending'[r] = <<>>
<1>1. q \in QueueName /\ q \notin HsQueues /\ q \notin StreamQ
  BY OtherQueues
<1>2. PendingType /\ exists \subseteq QueueName /\ \A r \in QueueName \ exists : pending[r] = <<>>
  BY DEF RunInv, Types, OwnInv
<1>3. CASE UNCHANGED <<exists, pending>>
  BY <1>1, <1>2, <1>3 DEF PendingType
<1>4. CASE exists' = exists \cup {q} /\ UNCHANGED pending
  BY <1>1, <1>2, <1>4 DEF PendingType
<1>5. CASE exists' = exists \ {q} /\ pending' = [pending EXCEPT ![q] = <<>>]
  BY <1>1, <1>2, <1>5 DEF PendingType
<1>6. CASE \E x : exists' = exists /\ pending' = [pending EXCEPT ![q] = x] /\ q \in exists
  BY <1>1, <1>2, <1>6 DEF PendingType
<1>7. QED
  BY <1>1, <1>2, <1>3, <1>4, <1>5, <1>6

\* The host's steps of the data transaction keep the invariant.
LEMMA DtHostInv ==
  ASSUME BaseInv, RunInv, InTransaction(DT!HostNext), Ok'
  PROVE  RunInv'
<1>1. /\ DataFrame /\ UNCHANGED <<spc, seedSeen>> /\ fault' \in BOOLEAN /\ (fault => fault')
      /\ hpc \in {"dhCreate", "dhOpen", "dhPut", "dhGet", "dhDelete"}
      /\ hpc' \in {"dhOpen", "dhPut", "dhGet", "dhDelete", "leave"}
      /\ hpc \in HostLast => hpc' \in HostLast
  BY DEF InTransaction, DT!HostNext, DT!HostDataCreate, DT!HostDataOpen, DT!HostDataPut, DT!HostDataGet, DT!HostDataDelete,
     DataFrame, planVars, threadVars, taskVars, DT!Create, DT!CreateFails, DT!Delete, DT!Fails, BaseInv, HostLast
<1>2. /\ HostDataQ \in exists <=> hpc \in {"dhOpen", "dhPut", "dhGet", "dhDelete"}
      /\ DT!HostDataQ = HostDataQ /\ DT!SlaveDataQ = SlaveDataQ
      /\ HostDataQ # SlaveDataQ
  BY OtherQueues DEF RunInv, OwnInv, DT!HostDataQ, HostDataQ, DT!SlaveDataQ, SlaveDataQ
\* The five steps.
<1>3. \/ /\ hpc = "dhCreate" /\ hpc' = "dhOpen" /\ exists' = exists \cup {HostDataQ}
         /\ UNCHANGED <<pending, live, buf, verdict>>
      \/ /\ hpc = "dhCreate" /\ hpc' = "leave" /\ fault' = TRUE
         /\ UNCHANGED <<exists, pending, live, buf, verdict>>
      \/ /\ hpc = "dhOpen" /\ hpc' = "dhPut" /\ SlaveDataQ \in exists
         /\ UNCHANGED <<exists, pending, live, buf, verdict>>
      \/ /\ hpc = "dhOpen" /\ hpc' = "dhDelete" /\ fault' = TRUE
         /\ UNCHANGED <<exists, pending, live, buf, verdict>>
      \/ /\ hpc = "dhPut" /\ hpc' = "dhGet" /\ live' = live + 1 /\ buf' = "0xbeefdead"
         /\ pending' = [pending EXCEPT ![SlaveDataQ] = <<DT!DataMsg>>] /\ SlaveDataQ \in exists
         /\ UNCHANGED <<exists, verdict>>
      \/ /\ hpc = "dhPut" /\ hpc' = "dhDelete" /\ fault' = TRUE /\ live' \in {live, live + 1}
         /\ buf' \in {buf, "0xbeefdead"}
         /\ UNCHANGED <<exists, pending, verdict>>
      \/ /\ hpc = "dhGet" /\ hpc' = "dhDelete" /\ Ready /\ verdict' = "match" /\ live' = live - 1
         /\ pending' = [pending EXCEPT ![HostDataQ] = <<>>] /\ HostDataQ \in exists /\ pending[SlaveDataQ] = <<>>
         /\ UNCHANGED <<exists, buf>>
      \/ /\ hpc = "dhDelete" /\ hpc' = "leave" /\ (~ fault => Ready)
         /\ exists' = exists \ {HostDataQ} /\ pending' = [pending EXCEPT ![HostDataQ] = <<>>]
         /\ UNCHANGED <<live, buf, verdict, fault>>
  <2> USE <1>2 DEF InTransaction
  <2>1. CASE DT!HostDataCreate
    BY <2>1 DEF DT!HostDataCreate, DT!Create, DT!CreateFails
  <2>2. CASE DT!HostDataOpen
    BY <2>2 DEF DT!HostDataOpen, DT!Fails
  <2>3. CASE DT!HostDataPut
    <3>1. hpc = "dhPut" /\ spc = "dtGet" /\ SlaveDataQ \in exists /\ pending[SlaveDataQ] = <<>>
      BY <2>3 DEF DT!HostDataPut, RunInv, DataInv, OwnInv
    <3>2. Append(<<>>, DT!DataMsg) = <<DT!DataMsg>>
      OBVIOUS
    <3>3. DT!WithPut(pending, SlaveDataQ, DT!DataMsg) = [pending EXCEPT ![SlaveDataQ] = <<DT!DataMsg>>]
      BY <3>1, <3>2 DEF DT!WithPut
    <3>4. QED
      BY <2>3, <3>1, <3>3 DEF DT!HostDataPut, DT!Fails
  <2>4. CASE DT!HostDataGet
    <3>1. hpc = "dhGet" /\ Ready /\ buf = "0xdeadbeef" /\ pending[SlaveDataQ] = <<>> /\ pending[HostDataQ] = <<DT!DataMsg>>
      BY <2>4 DEF DT!HostDataGet, DT!HasMessage, RunInv, DataInv
    <3>2. Tail(<<DT!DataMsg>>) = <<>>
      OBVIOUS
    <3>3. pending' = [pending EXCEPT ![HostDataQ] = <<>>]
      BY <2>4, <3>1, <3>2 DEF DT!HostDataGet, DT!WithoutHead
    <3>4. verdict' = "match"
      BY <2>4, <3>1 DEF DT!HostDataGet, DT!Compare
    <3>5. QED
      BY <2>4, <3>1, <3>3, <3>4 DEF DT!HostDataGet
  <2>5. CASE DT!HostDataDelete
    BY <2>5 DEF DT!HostDataDelete, DT!Delete, RunInv, EndInv
  <2>6. QED
    BY <2>1, <2>2, <2>3, <2>4, <2>5 DEF DT!HostNext
<1>4. /\ PendingType' /\ exists' \subseteq QueueName
      /\ \A r \in QueueName \ {HostDataQ, SlaveDataQ} : (r \in exists' <=> r \in exists) /\ pending'[r] = pending[r]
      /\ \A r \in QueueName \ exists' : pending'[r] = <<>>
      /\ SlaveDataQ \in exists' <=> SlaveDataQ \in exists
      /\ hpc' # "dhGet" => pending'[SlaveDataQ] = pending[SlaveDataQ]
  <2>1. CASE hpc' = "dhGet"
    <3>1. exists' = exists /\ \E x : pending' = [pending EXCEPT ![SlaveDataQ] = x] /\ SlaveDataQ \in exists
      BY <1>3, <2>1
    <3>2. QED
      BY <2>1, <3>1, DataQueues
  <2>2. CASE hpc' # "dhGet"
    <3>1. \/ UNCHANGED <<exists, pending>>
          \/ exists' = exists \cup {HostDataQ} /\ UNCHANGED pending
          \/ exists' = exists \ {HostDataQ} /\ pending' = [pending EXCEPT ![HostDataQ] = <<>>]
          \/ \E x : exists' = exists /\ pending' = [pending EXCEPT ![HostDataQ] = x] /\ HostDataQ \in exists
      BY <1>3, <2>2
    <3>2. HostDataQ \in {HostDataQ, SlaveDataQ}
      OBVIOUS
    <3>3. /\ PendingType' /\ exists' \subseteq QueueName
          /\ \A r \in QueueName \ {HostDataQ} : (r \in exists' <=> r \in exists) /\ pending'[r] = pending[r]
          /\ \A r \in QueueName \ exists' : pending'[r] = <<>>
      BY <3>1, <3>2, DataQueues
    <3>4. SlaveDataQ \in QueueName \ {HostDataQ}
      BY OtherQueues
    <3>5. QED
      BY <3>3, <3>4
  <2>3. QED
    BY <2>1, <2>2
<1>5. \A q \in HsQueues \cup StreamQ : (q \in exists' <=> q \in exists) /\ pending'[q] = pending[q]
  BY <1>4, OtherQueues, HsNames
<1>6. SlaveProcQ \in exists' <=> SlaveProcQ \in exists
  BY <1>5, HsNames
<1>7. hsSlave' = hsSlave /\ hsTable' = hsTable /\ (Streaming' <=> Streaming) /\ (Ready' <=> Ready) /\ UNCHANGED stSlave
  BY <1>1, <1>6, SlaveSame DEF DataFrame, stSlave
<1>8. hpc \notin HS!HostPc \cup {"join", "crashed"} /\ hpc' \notin HS!HostPc \cup {"join", "crashed"}
  BY <1>1 DEF HS!HostPc
<1>9. Ready => ~ Streaming
  BY DEF Ready, Streaming, hsSlave
<1>10. Scope' => Scope /\ UNCHANGED live
  <2>1. hpc \in {"dhPut", "dhGet"} => ~ Scope'
    <3>1. hpc = "dhPut" => spc = "dtGet"
      BY DEF RunInv, DataInv
    <3>2. QED
      BY <1>1, <1>3, <1>7, <1>9, <3>1 DEF Scope
  <2>2. Scope' => Scope
    BY <1>1, <1>3, <1>7, <2>1 DEF Scope
  <2>3. QED
    BY <1>3, <2>1, <2>2
<1>11. live \in Nat /\ live' \in Nat /\ (hpc' = "dhGet" => live' >= 1)
  <2>1. hpc = "dhGet" => live >= 1
    BY DEF RunInv, OutInv, Scope
  <2>2. QED
    BY <1>3, <2>1 DEF RunInv, Types
<1>12. HP!IInv' /\ ThreadsInv' /\ (Scope' => StreamsInv') /\ stLive' \in Nat
  BY <1>1, <1>5, <1>7, <1>8, <1>10, <1>11, OthersRest DEF DataFrame
<1>13. Types'
  <2>1. hpc' \in HostPc
    BY <1>1 DEF HostPc, DT!HostPc
  <2>2. buf' \in DT!Content /\ verdict' \in DT!Finding
    BY <1>3 DEF RunInv, Types, DT!Content, DT!Finding
  <2>3. QED
    BY <1>1, <1>4, <1>11, <1>12, <2>1, <2>2 DEF RunInv, Types, DataFrame
<1>14. OwnInv'
  <2>1. HostDataQ \in exists' <=> hpc' \in {"dhOpen", "dhPut", "dhGet", "dhDelete"}
    BY <1>2, <1>3
  <2>2. SlaveDataQ \in exists' => spc \in {"dtGet", "dtDelete"} \/ (spc = "aborted" /\ hpc' = "dhGet" /\ Streaming)
    <3>1. SlaveDataQ \in exists => spc \in {"dtGet", "dtDelete"} \/ (spc = "aborted" /\ hpc = "dhGet" /\ Streaming)
      BY DEF RunInv, OwnInv
    <3>2. hpc = "dhGet" => ~ Streaming
      BY <1>3, <1>9
    <3>3. QED
      BY <1>4, <3>1, <3>2
  <2>3. spc \in {"dtGet", "dtDelete"} => SlaveDataQ \in exists'
    BY <1>4 DEF RunInv, OwnInv
  <2>4. \A t \in Thread : (M4RecvQ(t) \in exists' <=> stk[t] = "recv") /\ (A15RecvQ(t) \in exists' <=> hth[t] \in {"recv", "rDelete"})
    BY <1>5, OtherQueues DEF RunInv, OwnInv
  <2>5. /\ SlaveProcQ \in exists' => spc \in {"slGetCount", "slGetConf", "slDelete", "aborted"}
        /\ spc \in {"slGetCount", "slGetConf", "slDelete"} => SlaveProcQ \in exists'
    BY <1>6 DEF RunInv, OwnInv
  <2>6. UNCHANGED <<spc, hth, stk>>
    BY <1>1 DEF DataFrame
  <2>7. QED
    BY <1>4, <1>7, <2>1, <2>2, <2>3, <2>4, <2>5, <2>6 DEF OwnInv
<1>15. SlaveInv'
  <2>1. hpc' = "dhGet" => spc = "dtGet"
    BY <1>1, <1>3 DEF RunInv, DataInv
  <2>2. QED
    BY <1>1, <1>7, <2>1 DEF RunInv, SlaveInv, DataFrame
<1>16. DataInv'
  <2>1. hpc' = "dhPut" => spc' = "dtGet"
    <3>1. hpc' = "dhPut" => hpc = "dhOpen" /\ SlaveDataQ \in exists
      BY <1>3
    <3>2. hpc = "dhOpen" => spc \notin {"dtDelete", "slFree"}
      BY DEF RunInv, EndInv
    <3>3. QED
      BY <1>1, <3>1, <3>2 DEF RunInv, OwnInv
  <2>2. hpc # "dhGet" => pending[SlaveDataQ] = <<>> /\ pending[HostDataQ] = <<>>
    BY DEF RunInv, DataInv
  <2>3. hpc' = "dhGet" => /\ spc' = "dtGet" /\ buf' = "0xbeefdead"
                          /\ pending'[SlaveDataQ] = <<DT!DataMsg>> /\ pending'[HostDataQ] = <<>>
    <3>1. ASSUME hpc' = "dhGet"
          PROVE  hpc = "dhPut" /\ buf' = "0xbeefdead" /\ pending' = [pending EXCEPT ![SlaveDataQ] = <<DT!DataMsg>>]
      BY <1>1, <1>3, <3>1
    <3>2. hpc = "dhPut" => spc = "dtGet"
      BY DEF RunInv, DataInv
    <3>3. pending = [q \in QueueName |-> pending[q]] /\ SlaveDataQ \in QueueName /\ HostDataQ \in QueueName /\ HostDataQ # SlaveDataQ
      BY OtherQueues DEF RunInv, Types, PendingType
    <3>4. QED
      BY <1>1, <2>2, <3>1, <3>2, <3>3
  <2>4. hpc' # "dhGet" => pending'[SlaveDataQ] = <<>> /\ pending'[HostDataQ] = <<>>
    <3>1. pending = [q \in QueueName |-> pending[q]] /\ HostDataQ \in QueueName
      BY OtherQueues DEF RunInv, Types, PendingType
    <3>2. hpc' # "dhGet" => pending[SlaveDataQ] = <<>>
      BY <1>3, <2>2
    <3>3. hpc' # "dhGet" => pending'[HostDataQ] = <<>>
      BY <1>3, <2>2, <3>1
    <3>4. QED
      BY <1>4, <3>2, <3>3
  <2>5. verdict' # "mismatch" /\ seedSeen' # "mismatch"
    BY <1>1, <1>3 DEF RunInv, DataInv
  <2>6. QED
    BY <2>1, <2>3, <2>4, <2>5 DEF DataInv
<1>17. EndInv'
  <2>1. spc \in {"dtDelete", "slFree"} => hpc' \in {"dhGet", "dhDelete", "leave"}
    BY <1>1, <1>3 DEF RunInv, EndInv, HostLast
  <2>2. hpc' \in {"dhDelete", "leave"} => fault' = TRUE \/ (~ fault' => Ready)
    BY <1>3
  <2>3. hpc' # "idle"
    BY <1>1
  <2>4. QED
    BY <1>1, <1>7, <2>1, <2>2, <2>3 DEF EndInv
<1>18. OutInv'
  <2>1. ASSUME ~ Scope' PROVE \A q \in StreamQ : pending'[q] = <<>>
    <3>1. CASE ~ Scope
      BY <1>5, <3>1 DEF RunInv, OutInv
    <3>2. CASE Scope
      <4>1. spc = "dtGet"
        <5>1. hpc' = "dhGet" => spc = "dtGet"
          BY <1>1, <1>3 DEF RunInv, DataInv
        <5>2. QED
          BY <1>1, <1>7, <2>1, <3>2, <5>1 DEF Scope
      <4>2. QED
        BY <1>5, <1>8, <4>1, StreamsEmpty
    <3>3. QED
      BY <3>1, <3>2
  <2>2. QED
    BY <1>11, <2>1 DEF OutInv
<1>19. QED
  BY <1>12, <1>13, <1>14, <1>15, <1>16, <1>17, <1>18 DEF RunInv

\* What the slave's side of the transaction leaves alone.
LEMMA DtSlaveFrame ==
  ASSUME BaseInv, RunInv, InTransaction(DT!SlaveNext)
  PROVE  /\ DataFrame /\ UNCHANGED <<hpc, verdict, live>> /\ fault' \in BOOLEAN /\ (fault => fault')
         /\ UNCHANGED <<hsLive, stLive>> /\ DT!HostDataQ = HostDataQ /\ DT!SlaveDataQ = SlaveDataQ
         /\ SlaveProcQ \notin exists
<1>1. DataFrame /\ UNCHANGED <<hpc, verdict, live>> /\ fault' \in BOOLEAN /\ (fault => fault') /\ spc \in {"dtCreate", "dtGet", "dtDelete"}
  BY DEF InTransaction, DT!SlaveNext, DT!SlaveDataCreate, DT!SlaveDataGet, DT!SlaveDataDelete,
     DataFrame, planVars, threadVars, taskVars, DT!Create, DT!CreateFails, DT!Delete, DT!Fails, BaseInv
<1>2. UNCHANGED <<hsLive, stLive>>
  BY <1>1 DEF hsLive, stLive
<1>3. DT!HostDataQ = HostDataQ /\ DT!SlaveDataQ = SlaveDataQ
  BY DEF DT!HostDataQ, HostDataQ, DT!SlaveDataQ, SlaveDataQ
<1>4. SlaveProcQ \notin exists
  BY <1>1 DEF RunInv, OwnInv
<1>5. QED
  BY <1>1, <1>2, <1>3, <1>4

\* While the slave streams, the host is not ready for the next run.
LEMMA StreamingNotReady ==
  ASSUME Streaming, spc # "slDelete"
  PROVE  hsSlave = "slTasks" /\ hsTable = table /\ ~ Ready
BY DEF Ready, hsSlave, hsTable, Streaming

\* The slave's MessageQ_create for the transaction keeps the invariant.
LEMMA DtCreateInv ==
  ASSUME BaseInv, RunInv, InTransaction(DT!SlaveDataCreate), Ok'
  PROVE  RunInv'
<1>0. InTransaction(DT!SlaveNext)
  BY DEF InTransaction, DT!SlaveNext
<1>1. /\ DataFrame /\ UNCHANGED <<hpc, verdict, live, hsLive, stLive>> /\ fault' \in BOOLEAN /\ (fault => fault')
      /\ SlaveProcQ \notin exists
  BY <1>0, DtSlaveFrame
<1>2. /\ spc = "dtCreate" /\ UNCHANGED <<buf, seedSeen, pending>>
      /\ \/ spc' = "dtGet" /\ exists' = exists \cup {SlaveDataQ} /\ UNCHANGED fault
         \/ spc' = "aborted" /\ UNCHANGED exists /\ fault' = TRUE
  BY <1>0, DtSlaveFrame DEF InTransaction, DT!SlaveDataCreate, DT!Create, DT!CreateFails
<1>3. /\ PendingType' /\ exists' \subseteq QueueName
      /\ \A r \in QueueName \ {SlaveDataQ} : (r \in exists' <=> r \in exists) /\ pending'[r] = pending[r]
      /\ \A r \in QueueName \ exists' : pending'[r] = <<>>
  <2>1. SlaveDataQ \in {HostDataQ, SlaveDataQ}
    OBVIOUS
  <2>2. \/ UNCHANGED <<exists, pending>>
        \/ exists' = exists \cup {SlaveDataQ} /\ UNCHANGED pending
    BY <1>2
  <2>3. QED
    BY <2>1, <2>2, DataQueues
<1>4. \A q \in HsQueues \cup StreamQ : (q \in exists' <=> q \in exists) /\ pending'[q] = pending[q]
  BY <1>3, OtherQueues, HsNames
<1>5. Streaming /\ Streaming' /\ table # <<>>
  <2>1. Streaming /\ table # <<>>
    BY <1>2 DEF Streaming, RunInv, SlaveInv
  <2>2. SlaveProcQ \notin exists' /\ table' # <<>>
    BY <1>1, <1>4, <2>1, HsNames DEF DataFrame
  <2>3. QED
    BY <1>2, <2>1, <2>2 DEF Streaming
<1>6. hsSlave = "slTasks" /\ hsTable = table /\ ~ Ready
  BY <1>2, <1>5, StreamingNotReady
<1>7. hsSlave' = "slTasks" /\ hsTable' = table' /\ ~ Ready'
  <2>1. spc' # "slDelete"
    BY <1>2
  <2>2. hsSlave' = "slTasks" /\ hsTable' = table'
    BY <1>2, <1>5 DEF hsSlave, hsTable
  <2>3. QED
    BY <2>2 DEF Ready
<1>8. hpc \notin {"dhPut", "dhGet"} /\ (~ fault \/ runs = 0 => hpc # "idle") /\ (~ fault => hpc \notin {"dhDelete", "leave"})
  BY <1>2, <1>6 DEF RunInv, DataInv, EndInv
<1>9. HP!IInv'
  <2>1. PendingType /\ HP!IInv
    BY DEF RunInv, Types
  <2>2. hsSlave' = hsSlave /\ hsTable' = hsTable /\ UNCHANGED <<hpc, hi, hoff, plan, numThreads>>
    BY <1>1, <1>6, <1>7 DEF DataFrame
  <2>3. \A q \in HsQueues : (q \in exists' <=> q \in exists) /\ pending'[q] = pending[q]
    BY <1>4
  <2>4. QED
    BY <1>1, <2>1, <2>2, <2>3, HsRests
<1>10. Types'
  <2>1. spc' \in SlavePc
    BY <1>2 DEF SlavePc, DT!SlavePc
  <2>2. live' \in Nat /\ stLive' \in Nat
    BY <1>1 DEF RunInv, Types
  <2>3. QED
    BY <1>1, <1>2, <1>3, <2>1, <2>2 DEF RunInv, Types, DataFrame
<1>11. OwnInv'
  <2>1. SlaveDataQ \notin exists
    BY <1>2 DEF RunInv, OwnInv
  <2>2. \A t \in Thread : (M4RecvQ(t) \in exists' <=> stk[t] = "recv") /\ (A15RecvQ(t) \in exists' <=> hth[t] \in {"recv", "rDelete"})
    BY <1>4, OtherQueues DEF RunInv, OwnInv
  <2>3. HostDataQ \in exists' <=> hpc \in {"dhOpen", "dhPut", "dhGet", "dhDelete"}
    BY <1>3, OtherQueues DEF RunInv, OwnInv
  <2>4. SlaveProcQ \notin exists'
    BY <1>1, <1>4, HsNames
  <2>5. UNCHANGED <<hpc, hth, stk>>
    BY <1>1 DEF DataFrame
  <2>6. SlaveDataQ \in exists' <=> spc' = "dtGet"
    BY <1>2, <2>1
  <2>7. QED
    BY <1>2, <1>3, <2>2, <2>3, <2>4, <2>5, <2>6 DEF OwnInv
<1>12. SlaveInv'
  <2>1. \A t \in Thread : stk[t] = (IF t <= numThreads THEN "finished" ELSE "none")
    BY <1>2 DEF RunInv, SlaveInv
  <2>2. spc' \in {"dtGet", "aborted"} /\ UNCHANGED <<stk, numThreads, table>>
    BY <1>1, <1>2 DEF DataFrame
  <2>3. QED
    BY <1>5, <2>1, <2>2 DEF SlaveInv
<1>13. ThreadsInv'
  BY <1>1 DEF RunInv, ThreadsInv, DataFrame, HostHandshakes
<1>14. DataInv'
  BY <1>1, <1>2, <1>8 DEF RunInv, DataInv
<1>15. EndInv'
  <2>1. spc' \notin {"dtDelete", "slFree"} /\ UNCHANGED <<hpc, runs>>
    BY <1>1, <1>2 DEF DataFrame
  <2>2. ~ fault' => ~ fault
    BY <1>1
  <2>3. QED
    BY <1>8, <2>1, <2>2 DEF EndInv
<1>16. OutInv'
  <2>1. ~ Scope' => hpc \in {"dhDelete", "leave", "idle"}
    BY <1>1, <1>2, <1>5, <1>8 DEF Scope
  <2>2. ASSUME ~ Scope' PROVE \A q \in StreamQ : pending[q] = <<>>
    <3>1. hpc \notin HS!HostPc \cup {"join", "crashed"}
      BY <2>1, <2>2 DEF HS!HostPc
    <3>2. QED
      BY <1>2, <3>1, StreamsEmpty
  <2>3. hpc' # "dhGet" /\ UNCHANGED pending
    BY <1>1, <1>2, <1>8
  <2>4. QED
    BY <2>2, <2>3 DEF OutInv
<1>17. Scope' => StreamsInv'
  <2>1. StreamsInv
    BY <1>2, <1>5, <1>8 DEF RunInv, Scope
  <2>2. UNCHANGED <<stHost, stIndex, stOffset>>
    BY <1>1 DEF stHost, stIndex, stOffset, HostHandshakes, DataFrame
  <2>3. stSlave' \in {stSlave, "aborted"}
    BY <1>2 DEF stSlave
  <2>4. UNCHANGED <<plan, numThreads, table, si, hth, hcnt, hptr, stk, scnt, finished, reg, stLive>> /\ fault' \in BOOLEAN
    BY <1>1 DEF DataFrame
  <2>5. \A q \in StreamQ : (q \in exists' <=> q \in exists) /\ pending'[q] = pending[q]
    BY <1>4
  <2>6. QED
    BY <2>1, <2>2, <2>3, <2>4, <2>5, StRests
<1>18. QED
  BY <1>9, <1>10, <1>11, <1>12, <1>13, <1>14, <1>15, <1>16, <1>17 DEF RunInv

\* The slave's part with the message keeps the invariant: it finds the seed,
\* changes it, and gives the message back.
LEMMA DtGetInv ==
  ASSUME BaseInv, RunInv, InTransaction(DT!SlaveDataGet), Ok'
  PROVE  RunInv'
<1>0. InTransaction(DT!SlaveNext)
  BY DEF InTransaction, DT!SlaveNext
<1>1. /\ DataFrame /\ UNCHANGED <<hpc, verdict, live, hsLive, stLive>> /\ fault' \in BOOLEAN /\ (fault => fault')
      /\ SlaveProcQ \notin exists /\ DT!HostDataQ = HostDataQ /\ DT!SlaveDataQ = SlaveDataQ
  BY <1>0, DtSlaveFrame
<1>2. spc = "dtGet" /\ pending[SlaveDataQ] # <<>>
  BY <1>1 DEF InTransaction, DT!SlaveDataGet, DT!HasMessage
<1>3. Streaming /\ table # <<>> /\ hsSlave = "slTasks" /\ hsTable = table /\ ~ Ready
  <2>1. Streaming /\ table # <<>>
    BY <1>2 DEF Streaming, RunInv, SlaveInv
  <2>2. QED
    BY <1>2, <2>1, StreamingNotReady
<1>4. /\ hpc = "dhGet" /\ buf = "0xbeefdead"
      /\ pending[SlaveDataQ] = <<DT!DataMsg>> /\ pending[HostDataQ] = <<>>
  BY <1>2, <1>3 DEF RunInv, DataInv
<1>5. HostDataQ \in exists /\ SlaveDataQ \in exists
  BY <1>2, <1>4 DEF RunInv, OwnInv
<1>6. pending = [q \in QueueName |-> pending[q]] /\ HostDataQ \in QueueName /\ SlaveDataQ \in QueueName /\ HostDataQ # SlaveDataQ
  BY OtherQueues DEF RunInv, Types, PendingType
\* What is received is the message, and the buffer is as it should be.
<1>7. /\ UNCHANGED exists /\ seedSeen' = "match" /\ buf' = "0xdeadbeef"
      /\ \/ /\ spc' = "dtDelete" /\ UNCHANGED fault
            /\ pending' = [pending EXCEPT ![SlaveDataQ] = <<>>, ![HostDataQ] = <<DT!DataMsg>>]
         \/ spc' = "aborted" /\ fault' = TRUE /\ pending' = [pending EXCEPT ![SlaveDataQ] = <<>>]
  <2>1. /\ Head(pending[SlaveDataQ]) = DT!DataMsg /\ Tail(pending[SlaveDataQ]) = <<>> /\ DT!DataMsg.id = 1
        /\ Append(<<>>, DT!DataMsg) = <<DT!DataMsg>>
    BY <1>4 DEF DT!DataMsg
  <2>2. DT!WithoutHead(pending, SlaveDataQ) = [pending EXCEPT ![SlaveDataQ] = <<>>]
    BY <2>1 DEF DT!WithoutHead
  <2>3. DT!WithPut(DT!WithoutHead(pending, SlaveDataQ), HostDataQ, DT!DataMsg)
          = [pending EXCEPT ![SlaveDataQ] = <<>>, ![HostDataQ] = <<DT!DataMsg>>]
    <3> DEFINE p == DT!WithoutHead(pending, SlaveDataQ)
    <3>1. p = [pending EXCEPT ![SlaveDataQ] = <<>>] /\ p[HostDataQ] = <<>>
      BY <1>4, <1>6, <2>2
    <3>2. DT!WithPut(p, HostDataQ, DT!DataMsg) = [p EXCEPT ![HostDataQ] = Append(p[HostDataQ], DT!DataMsg)]
      BY <1>5 DEF DT!WithPut
    <3> HIDE DEF p
    <3>3. QED
      BY <2>1, <3>1, <3>2 DEF p
  <2>4. /\ UNCHANGED exists /\ seedSeen' = "match" /\ buf' = "0xdeadbeef"
    BY <1>4 DEF InTransaction, DT!SlaveDataGet, DT!Compare
  <2>5. \/ spc' = "dtDelete" /\ UNCHANGED fault /\ pending' = DT!WithPut(DT!WithoutHead(pending, SlaveDataQ), HostDataQ, DT!DataMsg)
        \/ spc' = "aborted" /\ fault' = TRUE /\ pending' = DT!WithoutHead(pending, SlaveDataQ)
    BY <1>1, <2>1 DEF InTransaction, DT!SlaveDataGet, DT!Fails
  <2>6. QED
    BY <2>2, <2>3, <2>4, <2>5
<1>8. /\ PendingType' /\ \A r \in QueueName \ {HostDataQ, SlaveDataQ} : pending'[r] = pending[r]
      /\ pending'[SlaveDataQ] = <<>>
      /\ spc' = "dtDelete" => pending'[HostDataQ] = <<DT!DataMsg>>
      /\ spc' = "aborted" => pending'[HostDataQ] = <<>>
  BY <1>4, <1>6, <1>7 DEF PendingType
<1>9. \A q \in HsQueues \cup StreamQ : (q \in exists' <=> q \in exists) /\ pending'[q] = pending[q]
  BY <1>7, <1>8, OtherQueues, HsNames
<1>10. UNCHANGED <<hpc, hi, hoff, plan, numThreads, table, stk>> /\ SlaveProcQ \notin exists'
  BY <1>1, <1>7 DEF DataFrame
<1>11. spc' = "dtDelete" => hsSlave' = "slCreate" /\ hsTable' = <<>> /\ ~ Streaming' /\ Ready'
  BY <1>10 DEF hsSlave, hsTable, Streaming, Ready
<1>12. spc' = "aborted" => Streaming' /\ hsSlave' = hsSlave /\ hsTable' = hsTable
  BY <1>3, <1>10 DEF hsSlave, hsTable, Streaming
<1>13. HP!IInv'
  <2>1. CASE spc' = "dtDelete"
    <3>1. hsHost = "spawn" /\ hsHost' = "hsCreate"
      BY <1>3, <1>4, <1>10, <1>11, <2>1 DEF hsHost, HS!HostPc
    <3>2. hsIndex' = 0 /\ hsOffset' = 0 /\ hsLive' = 0
      BY <1>4, <1>10 DEF hsIndex, hsOffset, hsLive, HostHandshakes, HS!HostPc
    <3>3. HandshakeQ \notin exists /\ pending[HandshakeQ] = <<>> /\ pending[SlaveProcQ] = <<>>
      BY <3>1, SeenQueues, HsNames DEF RunInv, HP!IInv, HP!QueuesInv, HP!AfterConf, HP!Nowhere
    <3>4. HandshakeQ \notin exists' /\ pending'[HandshakeQ] = <<>> /\ pending'[SlaveProcQ] = <<>>
      BY <1>9, <3>3, HsNames
    <3>5. plan' \in Plans /\ numThreads' \in Nat
      BY <1>10 DEF RunInv, HP!IInv, HP!TypeOK
    <3>6. QED
      BY <1>1, <1>11, <2>1, <3>1, <3>2, <3>4, <3>5, HsFresh
  <2>2. CASE spc' = "aborted"
    <3>1. PendingType /\ HP!IInv /\ \A q \in HsQueues : (q \in exists' <=> q \in exists) /\ pending'[q] = pending[q]
      BY <1>9 DEF RunInv, Types
    <3>2. hpc \in HostLast => hpc' \in HostLast
      BY <1>10
    <3>3. QED
      BY <1>1, <1>10, <1>12, <2>2, <3>1, <3>2, HsRests
  <2>3. QED
    BY <1>7, <2>1, <2>2
<1>14. Types'
  <2>1. spc' \in SlavePc
    BY <1>7 DEF SlavePc, DT!SlavePc
  <2>2. live' \in Nat /\ stLive' \in Nat
    BY <1>1 DEF RunInv, Types
  <2>3. buf' \in DT!Content /\ seedSeen' \in DT!Finding
    BY <1>7 DEF DT!Content, DT!Finding
  <2>4. QED
    BY <1>1, <1>7, <1>8, <2>1, <2>2, <2>3 DEF RunInv, Types, DataFrame
<1>15. OwnInv'
  <2>1. \A q \in QueueName \ exists' : pending'[q] = <<>>
    BY <1>5, <1>7, <1>8 DEF RunInv, OwnInv
  <2>2. \A t \in Thread : (M4RecvQ(t) \in exists' <=> stk[t] = "recv") /\ (A15RecvQ(t) \in exists' <=> hth[t] \in {"recv", "rDelete"})
    BY <1>7 DEF RunInv, OwnInv
  <2>3. HostDataQ \in exists' <=> hpc \in {"dhOpen", "dhPut", "dhGet", "dhDelete"}
    BY <1>7 DEF RunInv, OwnInv
  <2>4. UNCHANGED <<hpc, hth, stk>>
    BY <1>1 DEF DataFrame
  <2>5. spc' = "dtDelete" \/ (spc' = "aborted" /\ hpc' = "dhGet" /\ Streaming')
    BY <1>4, <1>7, <1>12, <2>4
  <2>6. SlaveDataQ \in exists'
    BY <1>5, <1>7
  <2>7. QED
    BY <1>10, <2>1, <2>2, <2>3, <2>4, <2>5, <2>6 DEF OwnInv
<1>16. SlaveInv'
  <2>1. \A t \in Thread : stk[t] = (IF t <= numThreads THEN "finished" ELSE "none")
    BY <1>2 DEF RunInv, SlaveInv
  <2>2. QED
    BY <1>3, <1>7, <1>10, <1>11, <1>12, <2>1 DEF SlaveInv
<1>17. ThreadsInv'
  BY <1>1 DEF RunInv, ThreadsInv, DataFrame, HostHandshakes
<1>18. DataInv'
  <2>1. verdict' # "mismatch" /\ seedSeen' # "mismatch" /\ hpc' = "dhGet"
    BY <1>1, <1>4, <1>7 DEF RunInv, DataInv
  <2>2. QED
    BY <1>7, <1>8, <1>11, <1>12, <2>1 DEF DataInv
<1>19. EndInv'
  BY <1>4, <1>10 DEF EndInv
<1>20. OutInv' /\ ~ Scope'
  <2>1. ~ Scope /\ ~ Scope'
    BY <1>4, <1>10 DEF Scope
  <2>2. \A q \in StreamQ : pending'[q] = <<>>
    BY <1>9, <2>1 DEF RunInv, OutInv
  <2>3. live' >= 1
    BY <1>1, <1>4, <2>1 DEF RunInv, OutInv
  <2>4. QED
    BY <2>1, <2>2, <2>3 DEF OutInv
<1>21. QED
  BY <1>13, <1>14, <1>15, <1>16, <1>17, <1>18, <1>19, <1>20 DEF RunInv

\* When the slave has deleted its queue of the transaction, it is ready for the
\* next run for the handshake, though its tasks are still to be deleted.
LEMMA DtDeleteInv ==
  ASSUME BaseInv, RunInv, InTransaction(DT!SlaveDataDelete), Ok'
  PROVE  RunInv'
<1>0. InTransaction(DT!SlaveNext)
  BY DEF InTransaction, DT!SlaveNext
<1>1. /\ DataFrame /\ UNCHANGED <<hpc, verdict, live, hsLive, stLive>> /\ fault' \in BOOLEAN /\ (fault => fault')
      /\ SlaveProcQ \notin exists /\ DT!SlaveDataQ = SlaveDataQ
  BY <1>0, DtSlaveFrame
<1>2. /\ spc = "dtDelete" /\ spc' = "slFree" /\ UNCHANGED <<buf, seedSeen, fault>>
      /\ exists' = exists \ {SlaveDataQ} /\ pending' = [pending EXCEPT ![SlaveDataQ] = <<>>]
  BY <1>1 DEF InTransaction, DT!SlaveDataDelete, DT!Delete
<1>3. /\ PendingType' /\ exists' \subseteq QueueName
      /\ \A r \in QueueName \ {SlaveDataQ} : (r \in exists' <=> r \in exists) /\ pending'[r] = pending[r]
      /\ \A r \in QueueName \ exists' : pending'[r] = <<>>
  <2>1. SlaveDataQ \in {HostDataQ, SlaveDataQ}
    OBVIOUS
  <2>2. QED
    BY <1>2, <2>1, DataQueues
<1>4. \A q \in HsQueues \cup StreamQ : (q \in exists' <=> q \in exists) /\ pending'[q] = pending[q]
  BY <1>3, OtherQueues, HsNames
<1>5. SlaveProcQ \notin exists'
  BY <1>1, <1>2
<1>6. /\ hsSlave = "slCreate" /\ hsTable = <<>> /\ ~ Streaming /\ Ready
      /\ hsSlave' = "slCreate" /\ hsTable' = <<>> /\ ~ Streaming' /\ Ready'
  BY <1>1, <1>2, <1>5 DEF hsSlave, hsTable, Streaming, Ready
<1>7. HP!IInv'
  <2>1. PendingType /\ HP!IInv
    BY DEF RunInv, Types
  <2>2. UNCHANGED <<hpc, hi, hoff, plan, numThreads>> /\ hsSlave' = hsSlave /\ hsTable' = hsTable
    BY <1>1, <1>6 DEF DataFrame
  <2>3. \A q \in HsQueues : (q \in exists' <=> q \in exists) /\ pending'[q] = pending[q]
    BY <1>4
  <2>4. QED
    BY <1>1, <2>1, <2>2, <2>3, HsRests
<1>8. Types'
  <2>1. spc' \in SlavePc
    BY <1>2 DEF SlavePc, DT!SlavePc
  <2>2. live' \in Nat /\ stLive' \in Nat
    BY <1>1 DEF RunInv, Types
  <2>3. QED
    BY <1>1, <1>2, <1>3, <2>1, <2>2 DEF RunInv, Types, DataFrame
<1>9. OwnInv'
  <2>1. \A t \in Thread : (M4RecvQ(t) \in exists' <=> stk[t] = "recv") /\ (A15RecvQ(t) \in exists' <=> hth[t] \in {"recv", "rDelete"})
    BY <1>4, OtherQueues DEF RunInv, OwnInv
  <2>2. HostDataQ \in exists' <=> hpc \in {"dhOpen", "dhPut", "dhGet", "dhDelete"}
    BY <1>3, OtherQueues DEF RunInv, OwnInv
  <2>3. UNCHANGED <<hpc, hth, stk>>
    BY <1>1 DEF DataFrame
  <2>4. SlaveDataQ \notin exists'
    BY <1>2
  <2>5. QED
    BY <1>2, <1>3, <1>5, <2>1, <2>2, <2>3, <2>4 DEF OwnInv
<1>10. SlaveInv'
  <2>1. \A t \in Thread : stk[t] = (IF t <= numThreads THEN "finished" ELSE "none")
    BY <1>2 DEF RunInv, SlaveInv
  <2>2. UNCHANGED <<stk, numThreads>>
    BY <1>1 DEF DataFrame
  <2>3. QED
    BY <1>2, <1>6, <2>1, <2>2 DEF SlaveInv
<1>11. ThreadsInv'
  BY <1>1 DEF RunInv, ThreadsInv, DataFrame, HostHandshakes
<1>12. DataInv'
  <2>1. /\ hpc = "dhGet" => buf = "0xdeadbeef" /\ pending[SlaveDataQ] = <<>> /\ pending[HostDataQ] = <<DT!DataMsg>>
        /\ hpc # "dhPut"
    BY <1>2, <1>6 DEF RunInv, DataInv
  <2>2. pending'[SlaveDataQ] = <<>> /\ pending'[HostDataQ] = pending[HostDataQ]
    <3>1. pending = [q \in QueueName |-> pending[q]] /\ SlaveDataQ \in QueueName /\ HostDataQ \in QueueName /\ HostDataQ # SlaveDataQ
      BY OtherQueues DEF RunInv, Types, PendingType
    <3>2. QED
      BY <1>2, <3>1
  <2>3. QED
    BY <1>1, <1>2, <1>6, <2>1, <2>2 DEF RunInv, DataInv
<1>13. EndInv'
  <2>1. UNCHANGED <<hpc, runs, fault>>
    BY <1>1, <1>2 DEF DataFrame
  <2>2. QED
    BY <1>2, <1>6, <2>1 DEF RunInv, EndInv
<1>14. OutInv' /\ ~ Scope'
  <2>1. ~ Scope /\ ~ Scope'
    BY <1>6 DEF Scope
  <2>2. QED
    BY <1>1, <1>4, <2>1 DEF RunInv, OutInv
<1>15. QED
  BY <1>7, <1>8, <1>9, <1>10, <1>11, <1>12, <1>13, <1>14 DEF RunInv

-----------------------------------------------------------------------------
(* The steps between two runs. *)

\* A new run of the host keeps the invariant: what the last one has left is what
\* the handshake begins with.
LEMMA HostStartInv ==
  ASSUME BaseInv, RunInv, HostStart, Ok'
  PROVE  RunInv'
<1>1. /\ hpc = "idle" /\ hpc' = "hsCreate" /\ plan' \in Plans /\ hi' = 0 /\ hoff' = 0
      /\ hth' = [t \in Thread |-> "none"] /\ hcnt' = [t \in Thread |-> 0] /\ hptr' = [t \in Thread |-> 0]
      /\ buf' = "computed" /\ verdict' = "none"
      /\ UNCHANGED <<exists, pending, live, fault, spc, numThreads, table, si, stk, scnt, finished, reg, seedSeen, runs>>
  BY DEF HostStart, mqVars, taskVars
<1>2. ~ fault \/ runs = 0
  BY <1>1 DEF Ok
<1>3. Ready /\ hsHost = "hsCreate"
  BY <1>1, <1>2 DEF RunInv, EndInv, hsHost, HS!HostPc
<1>4. ~ Streaming /\ ~ Streaming' /\ Ready' /\ ~ Scope /\ ~ Scope'
  <2>1. ~ Streaming
    BY <1>3 DEF Ready, Streaming, hsSlave
  <2>2. (Streaming' <=> Streaming) /\ (Ready' <=> Ready)
    BY <1>1, SlaveSame
  <2>3. QED
    BY <1>3, <2>1, <2>2 DEF Scope
<1>5. hsHost' = "hsCreate" /\ hsIndex' = 0 /\ hsOffset' = 0 /\ hsLive' = 0 /\ hsLive = 0
  BY <1>1 DEF hsHost, hsIndex, hsOffset, hsLive, HostHandshakes, HS!HostPc
<1>6. HP!IInv'
  <2>1. HandshakeQ \notin exists /\ pending[HandshakeQ] = <<>> /\ pending[SlaveProcQ] = <<>>
    BY <1>3, SeenQueues, HsNames DEF RunInv, HP!IInv, HP!QueuesInv, HP!BeforeCount, HP!Nowhere
  <2>2. numThreads' \in Nat /\ fault' \in BOOLEAN
    BY <1>1 DEF RunInv, HP!IInv, HP!TypeOK
  <2>3. QED
    BY <1>1, <1>4, <1>5, <2>1, <2>2, HsFresh
<1>7. Types'
  <2>1. live' \in Nat /\ live' \in Int
    BY <1>1 DEF RunInv, Types
  <2>2. stLive' \in Nat
    BY <1>5, <2>1, LiveSplitNext DEF LiveSplits
  <2>3. 0 \in 0 .. IdRange - 1
    BY IdRangeAssumption
  <2>4. /\ hth' \in [Thread -> ST!ThreadPc] /\ hcnt' \in [Thread -> 0 .. IdRange - 1] /\ hptr' \in [Thread -> Nat]
        /\ hpc' \in HostPc /\ buf' \in DT!Content /\ verdict' \in DT!Finding
    BY <1>1, <2>3 DEF ST!ThreadPc, HostPc, HS!HostPc, DT!Content, DT!Finding
  <2>5. PendingType'
    BY <1>1 DEF RunInv, Types, PendingType
  <2>6. QED
    BY <1>1, <2>1, <2>2, <2>4, <2>5 DEF RunInv, Types
<1>8. OwnInv'
  <2>1. \A t \in Thread : A15RecvQ(t) \notin exists
    BY <1>1 DEF RunInv, OwnInv, ThreadsInv, Ended, HS!HostPc
  <2>2. HostDataQ \notin exists
    BY <1>1 DEF RunInv, OwnInv
  <2>3. SlaveDataQ \in exists => spc \in {"dtGet", "dtDelete"}
    BY <1>1 DEF RunInv, OwnInv
  <2>4. \A t \in Thread : hth'[t] \notin {"recv", "rDelete"}
    BY <1>1
  <2>5. QED
    BY <1>1, <2>1, <2>2, <2>3, <2>4 DEF RunInv, OwnInv
<1>9. SlaveInv'
  BY <1>1, <1>4 DEF RunInv, SlaveInv
<1>10. ThreadsInv'
  BY <1>1 DEF ThreadsInv, Ended, HS!HostPc
<1>11. DataInv'
  BY <1>1 DEF RunInv, DataInv
<1>12. EndInv'
  BY <1>1, <1>2 DEF RunInv, EndInv, BaseInv
<1>13. OutInv'
  BY <1>1, <1>4 DEF RunInv, OutInv
<1>14. QED
  BY <1>4, <1>6, <1>7, <1>8, <1>9, <1>10, <1>11, <1>12, <1>13 DEF RunInv

\* The end of a run of the host keeps the invariant.
LEMMA HostLeaveInv ==
  ASSUME BaseInv, RunInv, HostLeave, Ok'
  PROVE  RunInv'
<1>1. /\ hpc = "leave" /\ hpc' = "idle" /\ runs' = runs + 1
      /\ UNCHANGED <<plan, hi, hoff, hth, hcnt, hptr, exists, pending, live, fault, spc, numThreads, table, si, stk, scnt,
                     finished, reg, seedSeen, buf, verdict>>
  BY DEF HostLeave, mqVars, planVars, threadVars, taskVars, dataVars
<1>2. hsSlave' = hsSlave /\ hsTable' = hsTable /\ (Streaming' <=> Streaming) /\ (Ready' <=> Ready) /\ UNCHANGED stSlave
  BY <1>1, SlaveSame DEF stSlave
<1>3. (Scope' <=> Scope) /\ fault' \in BOOLEAN /\ fault \in BOOLEAN /\ (fault => fault') /\ live \in Nat /\ live' \in Nat /\ runs \in Nat
  <2>1. Scope' <=> Scope
    BY <1>1, <1>2 DEF Scope
  <2>2. live \in Nat /\ runs \in Nat /\ fault \in BOOLEAN
    BY MaxRunsAssumption DEF RunInv, Types, BaseInv
  <2>3. fault' = fault /\ live' = live
    BY <1>1
  <2>4. fault => fault'
    BY <1>1
  <2>5. QED
    BY <2>1, <2>2, <2>3, <2>4
<1>4. HP!IInv' /\ ThreadsInv' /\ (Scope' => StreamsInv') /\ stLive' \in Nat
  <2>1. hpc \notin HS!HostPc \cup {"join", "crashed"} /\ hpc' \notin HS!HostPc \cup {"join", "crashed"}
    BY <1>1 DEF HS!HostPc
  <2>2. \A q \in HsQueues \cup StreamQ : (q \in exists' <=> q \in exists) /\ pending'[q] = pending[q]
    BY <1>1
  <2>3. Scope' => Scope /\ UNCHANGED live
    BY <1>1, <1>3
  <2>4. hpc \in HostLast => hpc' \in HostLast
    BY <1>1 DEF HostLast
  <2>5. QED
    BY <1>1, <1>2, <1>3, <2>1, <2>2, <2>3, <2>4, OthersRest
<1>5. Types'
  <2>1. PendingType'
    BY <1>1 DEF RunInv, Types, PendingType
  <2>2. hpc' \in HostPc
    BY <1>1 DEF HostPc
  <2>3. QED
    BY <1>1, <1>3, <1>4, <2>1, <2>2 DEF RunInv, Types
<1>6. OwnInv'
  BY <1>1, <1>2 DEF RunInv, OwnInv
<1>7. SlaveInv'
  BY <1>1, <1>2 DEF RunInv, SlaveInv
<1>8. DataInv'
  BY <1>1 DEF RunInv, DataInv
<1>9. EndInv'
  <2>1. runs' > 0 /\ runs' # 0
    BY <1>1, <1>3
  <2>2. ~ fault' => Ready'
    BY <1>1, <1>2 DEF RunInv, EndInv
  <2>3. QED
    BY <1>1, <2>1, <2>2 DEF EndInv
<1>10. OutInv'
  BY <1>1, <1>3 DEF RunInv, OutInv
<1>11. QED
  BY <1>4, <1>5, <1>6, <1>7, <1>8, <1>9, <1>10 DEF RunInv

\* tsk1Fxn's Task_delete and Memory_free at the end of its loop, and the resets
\* at its start, keep the invariant.
LEMMA SlaveLoopInv ==
  ASSUME BaseInv, RunInv, SlaveReset \/ SlaveFree, Ok'
  PROVE  RunInv'
<1>1. /\ UNCHANGED <<exists, pending, live, fault, plan, hi, hoff, hpc, numThreads, hth, hcnt, hptr, scnt, reg, buf, verdict, runs>>
      /\ \/ /\ spc = "slReset" /\ spc' = "slCreate" /\ finished' = 0 /\ si' = 0 /\ seedSeen' = "none"
            /\ UNCHANGED <<table, stk>>
         \/ /\ spc = "slFree" /\ spc' = "slReset" /\ table' = <<>>
            /\ stk' = [t \in Thread |-> IF t <= numThreads THEN "none" ELSE stk[t]]
            /\ UNCHANGED <<si, finished, seedSeen>>
  BY DEF SlaveReset, SlaveFree, mqVars, planVars, threadVars, dataVars
<1>2. SlaveProcQ \notin exists /\ SlaveDataQ \notin exists
  BY <1>1 DEF RunInv, OwnInv
\* After it, the slave has no task and no table.
<1>3. table' = <<>> /\ \A t \in Thread : stk'[t] = "none"
  <2>1. CASE spc = "slReset"
    <3>1. ~ Streaming
      BY <2>1 DEF Streaming
    <3>2. QED
      BY <1>1, <2>1, <3>1 DEF RunInv, SlaveInv
  <2>2. CASE spc = "slFree"
    <3>1. \A t \in Thread : stk[t] = (IF t <= numThreads THEN "finished" ELSE "none")
      BY <2>2 DEF RunInv, SlaveInv
    <3>2. QED
      BY <1>1, <2>2, <3>1
  <2>3. QED
    BY <1>1, <2>1, <2>2
<1>4. /\ hsSlave = "slCreate" /\ hsTable = <<>> /\ ~ Streaming /\ Ready
      /\ hsSlave' = "slCreate" /\ hsTable' = <<>> /\ ~ Streaming' /\ Ready'
  <2>1. hsSlave = "slCreate" /\ hsTable = <<>> /\ ~ Streaming
    BY <1>1 DEF hsSlave, hsTable, Streaming
  <2>2. hsSlave' = "slCreate" /\ hsTable' = <<>> /\ ~ Streaming' /\ SlaveProcQ \notin exists'
    BY <1>1, <1>2, <1>3 DEF hsSlave, hsTable, Streaming
  <2>3. QED
    BY <1>2, <2>1, <2>2 DEF Ready
<1>5. fault \in BOOLEAN /\ fault' \in BOOLEAN /\ (fault => fault') /\ UNCHANGED <<hsLive, stLive>>
  <2>1. fault' = fault /\ fault \in BOOLEAN
    BY <1>1 DEF BaseInv
  <2>2. fault => fault'
    BY <1>1
  <2>3. hsLive' = hsLive
    BY <1>1 DEF hsLive
  <2>4. stLive' = stLive
    BY <1>1, <2>3 DEF stLive
  <2>5. QED
    BY <2>1, <2>2, <2>3, <2>4
<1>6. HP!IInv'
  <2>1. PendingType /\ HP!IInv
    BY DEF RunInv, Types
  <2>2. UNCHANGED <<hpc, hi, hoff, plan, numThreads>> /\ hsSlave' = hsSlave /\ hsTable' = hsTable
    BY <1>1, <1>4
  <2>3. \A q \in HsQueues : (q \in exists' <=> q \in exists) /\ pending'[q] = pending[q]
    BY <1>1
  <2>4. hpc \in HostLast => hpc' \in HostLast
    BY <1>1
  <2>5. QED
    BY <1>5, <2>1, <2>2, <2>3, <2>4, HsRests
<1>7. Types'
  <2>1. PendingType'
    BY <1>1 DEF RunInv, Types, PendingType
  <2>2. spc' \in SlavePc
    BY <1>1 DEF SlavePc, HS!SlavePc
  <2>3. table' \in Seq(HS!TaskConf)
    BY <1>3
  <2>4. stk' \in [Thread -> ST!TaskPc]
    <3>1. "none" \in ST!TaskPc
      BY DEF ST!TaskPc
    <3>2. QED
      BY <1>1, <3>1 DEF RunInv, Types
  <2>5. si' \in 0 .. MaxThreads /\ finished' \in Nat /\ seedSeen' \in DT!Finding
    BY <1>1, MaxThreadsAssumption DEF RunInv, Types, DT!Finding
  <2>6. QED
    BY <1>1, <1>5, <2>1, <2>2, <2>3, <2>4, <2>5 DEF RunInv, Types
<1>8. OwnInv'
  <2>1. \A t \in Thread : M4RecvQ(t) \notin exists
    <3>1. \A t \in Thread : stk[t] # "recv"
      BY <1>1, <1>4 DEF RunInv, SlaveInv
    <3>2. QED
      BY <3>1 DEF RunInv, OwnInv
  <2>2. \A t \in Thread : stk'[t] # "recv"
    BY <1>3
  <2>3. QED
    BY <1>1, <1>2, <2>1, <2>2 DEF RunInv, OwnInv
<1>9. SlaveInv'
  <2>1. spc' \in {"slCreate", "slReset"} /\ (spc' = "slCreate" => finished' = 0 /\ si' = 0)
    BY <1>1
  <2>2. QED
    BY <1>3, <1>4, <2>1 DEF SlaveInv
<1>10. ThreadsInv'
  BY <1>1 DEF RunInv, ThreadsInv, HostHandshakes
<1>11. DataInv'
  <2>1. /\ hpc = "dhGet" => buf = "0xdeadbeef" /\ pending[SlaveDataQ] = <<>> /\ pending[HostDataQ] = <<DT!DataMsg>>
        /\ hpc # "dhPut"
    BY <1>1, <1>4 DEF RunInv, DataInv
  <2>2. seedSeen' # "mismatch"
    BY <1>1 DEF RunInv, DataInv
  <2>3. QED
    BY <1>1, <1>4, <2>1, <2>2 DEF RunInv, DataInv
<1>12. EndInv'
  BY <1>1, <1>4 DEF EndInv
<1>13. OutInv' /\ ~ Scope'
  <2>1. ~ Scope /\ ~ Scope'
    BY <1>4 DEF Scope
  <2>2. QED
    BY <1>1, <2>1 DEF RunInv, OutInv
<1>14. QED
  BY <1>6, <1>7, <1>8, <1>9, <1>10, <1>11, <1>12, <1>13 DEF RunInv

-----------------------------------------------------------------------------
(* The session. *)

\* A failure is not forgotten.
LEMMA FaultStays == fault \in BOOLEAN /\ Next => fault' \in BOOLEAN /\ (fault => fault')
<1> SUFFICES ASSUME fault \in BOOLEAN, Next PROVE fault' \in BOOLEAN /\ (fault => fault')
  OBVIOUS
<1>1. ASSUME InHandshake(HS!HostNext) PROVE fault' \in BOOLEAN /\ (fault => fault')
  BY <1>1 DEF InHandshake, HS!HostNext, HS!HostCreate, HS!HostOpen, HS!HostAlloc, HS!HostPutCount,
     HS!HostGetCount, HS!HostPutConf, HS!HostGetConf, HS!HostCleanup, HS!Create, HS!CreateFails, HS!Fails
<1>2. ASSUME InHandshake(HS!SlaveNext) PROVE fault' \in BOOLEAN /\ (fault => fault')
  BY <1>2 DEF InHandshake, HS!SlaveNext, HS!SlaveCreate, HS!SlaveGetCount, HS!SlaveGetConf, HS!SlaveDelete,
     HS!Create, HS!CreateFails, HS!Fails, HS!SlaveReceiveAndEcho
<1>3. ASSUME InTransaction(DT!HostNext) \/ InTransaction(DT!SlaveNext) PROVE fault' \in BOOLEAN /\ (fault => fault')
  BY <1>3 DEF InTransaction, DT!HostNext, DT!HostDataCreate, DT!HostDataOpen, DT!HostDataPut, DT!HostDataGet, DT!HostDataDelete,
     DT!SlaveNext, DT!SlaveDataCreate, DT!SlaveDataGet, DT!SlaveDataDelete, DT!Create, DT!CreateFails, DT!Fails
<1>4. ASSUME InStreams(ST!HostMain) \/ InStreams(ST!SlaveMain) PROVE fault' \in BOOLEAN /\ (fault => fault')
  BY <1>4 DEF InStreams, ST!HostMain, ST!HostSpawn, ST!HostJoin, ST!SlaveMain, ST!SlaveCreateTask, ST!SlaveTasksCreated,
     ST!SlaveAllFinished, ST!Fails, ST!mqVars
<1>5. ASSUME NEW t \in Thread, HostThread(t) PROVE fault' \in BOOLEAN /\ (fault => fault')
  BY <1>5 DEF HostThread, InStreams, ST!HostThread, ST!ThreadSendOpen, ST!ThreadSend, ST!ThreadSendEnd, ST!ThreadRecvCreate,
     ST!ThreadRecvGet, ST!ThreadRecvEnd, ST!Create, ST!CreateFails, ST!Fails, ST!mqVars
<1>6. ASSUME NEW t \in Thread, SlaveTask(t) PROVE fault' \in BOOLEAN /\ (fault => fault')
  BY <1>6 DEF SlaveTask, InStreams, ST!SlaveTask, ST!TaskSendOpen, ST!TaskSend, ST!TaskSendEnd, ST!TaskRecvCreate, ST!TaskRecvGet,
     ST!TaskRecvEnd, ST!TaskCountRead, ST!TaskCountWrite, ST!Create, ST!CreateFails, ST!Fails, ST!mqVars
<1>7. ASSUME HostStart \/ HostLeave \/ SlaveReset \/ SlaveFree PROVE fault' \in BOOLEAN /\ (fault => fault')
  BY <1>7 DEF HostStart, HostLeave, SlaveReset, SlaveFree, mqVars
<1>8. QED
  BY <1>1, <1>2, <1>3, <1>4, <1>5, <1>6, <1>7 DEF Next, HostMain, SlaveMain

\* Runs are counted only where the host ends.
LEMMA NextBase ==
  ASSUME BaseInv, Next
  PROVE  BaseInv' /\ (Ok' => Ok)
<1>0. fault \in BOOLEAN /\ fault' \in BOOLEAN /\ (fault => fault')
  BY FaultStays DEF BaseInv
<1>1. CASE HostStart
  <2>1. hpc = "idle" /\ hpc' = "hsCreate" /\ runs < MaxRuns /\ UNCHANGED runs
    BY <1>1 DEF HostStart
  <2>2. QED
    BY <1>0, <2>1 DEF BaseInv, Ok
<1>2. CASE HostLeave
  <2>1. hpc = "leave" /\ hpc' = "idle" /\ runs' = runs + 1
    BY <1>2 DEF HostLeave
  <2>2. runs \in Nat /\ runs + 1 \in 0 .. MaxRuns
    BY <2>1, MaxRunsAssumption DEF BaseInv
  <2>3. QED
    BY <1>0, <2>1, <2>2 DEF BaseInv, Ok
<1>3. CASE ~ HostStart /\ ~ HostLeave
  <2>1. UNCHANGED runs
    BY <1>3 DEF Next, HostMain, SlaveMain, HostThread, SlaveTask, InHandshake, InStreams, InTransaction, SlaveReset, SlaveFree
  <2>2. hpc = "idle" <=> hpc' = "idle"
    <3>1. InHandshake(HS!HostNext) => hpc # "idle" /\ hpc' # "idle"
      BY DEF InHandshake, HS!HostNext, HS!HostCreate, HS!HostOpen, HS!HostAlloc, HS!HostPutCount,
         HS!HostGetCount, HS!HostPutConf, HS!HostGetConf, HS!HostCleanup
    <3>2. InStreams(ST!HostMain) => hpc # "idle" /\ hpc' # "idle"
      BY DEF InStreams, ST!HostMain, ST!HostSpawn, ST!HostJoin
    <3>3. InTransaction(DT!HostNext) => hpc # "idle" /\ hpc' # "idle"
      BY DEF InTransaction, DT!HostNext, DT!HostDataCreate, DT!HostDataOpen, DT!HostDataPut, DT!HostDataGet, DT!HostDataDelete
    <3>4. SlaveMain => UNCHANGED hpc
      BY DEF SlaveMain, SlaveReset, SlaveFree, InHandshake, InStreams, InTransaction,
         HS!SlaveNext, HS!SlaveCreate, HS!SlaveGetCount, HS!SlaveGetConf, HS!SlaveDelete, HS!hostVars,
         DT!SlaveNext, DT!SlaveDataCreate, DT!SlaveDataGet, DT!SlaveDataDelete,
         ST!SlaveMain, ST!SlaveCreateTask, ST!SlaveTasksCreated, ST!SlaveAllFinished, ST!hostVars
    <3>5. ASSUME NEW t \in Thread, HostThread(t) PROVE UNCHANGED hpc
      BY <3>5 DEF HostThread, InStreams, ST!HostThread, ST!ThreadSendOpen, ST!ThreadSend, ST!ThreadSendEnd, ST!ThreadRecvCreate,
         ST!ThreadRecvGet, ST!ThreadRecvEnd, ST!ThreadFrame, ST!hostVars
    <3>6. ASSUME NEW t \in Thread, SlaveTask(t) PROVE UNCHANGED hpc
      BY <3>6 DEF SlaveTask, InStreams, ST!SlaveTask, ST!TaskSendOpen, ST!TaskSend, ST!TaskSendEnd, ST!TaskRecvCreate, ST!TaskRecvGet,
         ST!TaskRecvEnd, ST!TaskCountRead, ST!TaskCountWrite, ST!TaskFrame, ST!hostVars
    <3>7. QED
      BY <1>3, <3>1, <3>2, <3>3, <3>4, <3>5, <3>6 DEF Next, HostMain
  <2>3. QED
    BY <1>0, <2>1, <2>2 DEF BaseInv, Ok
<1>4. QED
  BY <1>1, <1>2, <1>3

\* The invariant holds when the slave has booted and the first run is to be
\* started.
LEMMA InitSession == Init => SessionInv
<1> SUFFICES ASSUME Init PROVE SessionInv
  OBVIOUS
<1>0. /\ Len(plan) \in Nat \ {0} /\ exists = {} /\ spc = "slReset" /\ hpc = "idle" /\ table = <<>>
      /\ live = 0 /\ fault = FALSE /\ runs = 0 /\ \A q \in QueueName : pending[q] = <<>>
      /\ plan \in Plans /\ hi = 0 /\ hoff = 0 /\ numThreads = 0 /\ si = 0 /\ finished = 0
      /\ hth = [t \in Thread |-> "none"] /\ stk = [t \in Thread |-> "none"]
      /\ hcnt = [t \in Thread |-> 0] /\ hptr = [t \in Thread |-> 0]
      /\ scnt = [t \in Thread |-> 0] /\ reg = [t \in Thread |-> 0]
      /\ pending = [q \in QueueName |-> <<>>]
      /\ buf = "computed" /\ seedSeen = "none" /\ verdict = "none"
  BY PlanLines DEF Init, MqInit
<1>1. BaseInv
  <2>1. 0 \in 0 .. MaxRuns
    BY MaxRunsAssumption
  <2>2. runs \in 0 .. MaxRuns /\ fault \in BOOLEAN
    BY <1>0, <2>1
  <2>3. QED
    BY <1>0, <2>2 DEF BaseInv
<1>2. hsSlave = "slCreate" /\ hsTable = <<>> /\ ~ Streaming /\ ~ Scope /\ Ready
  BY <1>0 DEF hsSlave, hsTable, Streaming, Scope, Ready
<1>3. hsHost = "hsCreate" /\ hsIndex = 0 /\ hsOffset = 0 /\ hsLive = 0 /\ stLive = 0
  <2>1. hpc \notin HS!HostPc /\ hpc \in {"dhGet", "dhDelete", "leave", "idle"}
    BY <1>0 DEF HS!HostPc
  <2>2. hsHost = "hsCreate" /\ hsIndex = 0 /\ hsOffset = 0 /\ hsLive = 0
    BY <1>0, <1>2, <2>1 DEF hsHost, hsIndex, hsOffset, hsLive, HostHandshakes
  <2>3. stLive = 0
    BY <1>0, <2>2 DEF stLive
  <2>4. QED
    BY <2>2, <2>3
<1>4. HP!IInv
  <2>1. HP!Init
    <3>1. Seen(HsQueues) = [q \in QueueName |-> <<>>] /\ hsExists = {}
      BY <1>0 DEF Seen, hsExists, HsQueues
    <3>2. HP!QueueName = QueueName
      BY DEF HP!Thread, HP!QueueName, QueueName, HP!StreamQ, StreamQ, HP!M4RecvQ, M4RecvQ, HP!A15RecvQ, A15RecvQ,
         HP!HandshakeQ, HP!SlaveProcQ, HP!HostDataQ, HP!SlaveDataQ, HandshakeQ, SlaveProcQ, HostDataQ, SlaveDataQ, Thread
    <3>3. QED
      BY <1>0, <1>2, <1>3, <3>1, <3>2 DEF HP!Init, HP!MqInit
  <2>2. QED
    BY <2>1, HP!InitIInv, HandshakeAssumptions
<1>5. Types
  <2>1. 0 \in 0 .. IdRange - 1 /\ 0 \in 0 .. MaxThreads
    BY IdRangeAssumption, MaxThreadsAssumption
  <2>2. PendingType /\ hpc \in HostPc /\ spc \in SlavePc
    BY <1>0 DEF PendingType, HostPc, SlavePc
  <2>3. table \in Seq(HS!TaskConf) /\ buf \in DT!Content /\ seedSeen \in DT!Finding /\ verdict \in DT!Finding
    BY <1>0 DEF DT!Content, DT!Finding
  <2>4. hth \in [Thread -> ST!ThreadPc] /\ stk \in [Thread -> ST!TaskPc]
    BY <1>0 DEF ST!ThreadPc, ST!TaskPc
  <2>5. QED
    BY <1>0, <1>3, <2>1, <2>2, <2>3, <2>4 DEF Types
<1>6. OwnInv
  BY <1>0 DEF OwnInv
<1>7. SlaveInv
  BY <1>0, <1>2 DEF SlaveInv
<1>8. ThreadsInv
  BY <1>0 DEF ThreadsInv, HostHandshakes, HS!HostPc, Ended
<1>9. DataInv
  BY <1>0, OtherQueues DEF DataInv
<1>10. EndInv
  BY <1>0, <1>2 DEF EndInv
<1>11. OutInv
  BY <1>0, OtherQueues DEF OutInv
<1>12. QED
  BY <1>1, <1>2, <1>4, <1>5, <1>6, <1>7, <1>8, <1>9, <1>10, <1>11 DEF SessionInv, RunInv

\* A step that changes nothing keeps it.
LEMMA SessionSame ==
  ASSUME BaseInv, RunInv, UNCHANGED vars
  PROVE  RunInv'
<1>1. UNCHANGED <<exists, pending, live, fault, plan, hpc, hi, hoff, spc, numThreads, table, hth, hcnt, hptr,
                  si, stk, scnt, finished, reg, buf, seedSeen, verdict, runs>>
  BY DEF vars, mqVars, planVars, threadVars, taskVars, dataVars
<1>2. hsSlave' = hsSlave /\ hsTable' = hsTable /\ (Streaming' <=> Streaming) /\ (Ready' <=> Ready)
  BY <1>1, SlaveSame
<1>3. (Scope' <=> Scope) /\ UNCHANGED <<stHost, stSlave, stIndex, stOffset, stLive>>
  BY <1>1, <1>2 DEF Scope, stHost, stSlave, stIndex, stOffset, stLive, HostHandshakes, hsLive
<1>4. fault' \in BOOLEAN /\ (fault => fault')
  BY <1>1 DEF BaseInv
<1>5. HP!IInv'
  <2>1. PendingType /\ HP!IInv
    BY DEF RunInv, Types
  <2>2. \A q \in HsQueues : (q \in exists' <=> q \in exists) /\ pending'[q] = pending[q]
    BY <1>1
  <2>3. hpc \in HostLast => hpc' \in HostLast
    BY <1>1
  <2>4. QED
    BY <1>1, <1>2, <1>4, <2>1, <2>2, <2>3, HsRests
<1>6. Scope' => StreamsInv'
  <2>1. Scope => StreamsInv
    BY DEF RunInv
  <2>2. \A q \in StreamQ : (q \in exists' <=> q \in exists) /\ pending'[q] = pending[q]
    BY <1>1
  <2>3. QED
    BY <1>1, <1>3, <1>4, <2>1, <2>2, StRests
<1>7. Types' /\ OwnInv'
  BY <1>1, <1>2, <1>3 DEF RunInv, Types, PendingType, OwnInv
<1>8. SlaveInv' /\ ThreadsInv'
  BY <1>1, <1>2 DEF RunInv, SlaveInv, ThreadsInv, HostHandshakes
<1>9. DataInv' /\ EndInv' /\ OutInv'
  BY <1>1, <1>2, <1>3 DEF RunInv, DataInv, EndInv, OutInv
<1>10. QED
  BY <1>5, <1>6, <1>7, <1>8, <1>9 DEF RunInv

\* Every step of the session keeps it; the first failing call after a run that
\* has ended ends what is said.
LEMMA NextSession == SessionInv /\ [Next]_vars => SessionInv'
<1> SUFFICES ASSUME SessionInv, [Next]_vars PROVE SessionInv'
  OBVIOUS
<1>0. BaseInv /\ (Ok => RunInv)
  BY DEF SessionInv
<1>1. CASE UNCHANGED vars
  <2>1. UNCHANGED <<fault, runs, hpc>>
    BY <1>1 DEF vars, mqVars
  <2>2. BaseInv' /\ (Ok' => Ok)
    BY <1>0, <2>1 DEF BaseInv, Ok
  <2>3. QED
    BY <1>0, <1>1, <2>2, SessionSame DEF SessionInv
<1>2. CASE Next
  <2>1. BaseInv' /\ (Ok' => Ok)
    BY <1>0, <1>2, NextBase
  <2>2. ASSUME Ok' PROVE RunInv'
    <3>1. RunInv
      BY <1>0, <2>1, <2>2
    <3>2. CASE HostMain
      <4>1. InTransaction(DT!HostNext) => RunInv'
        BY <1>0, <2>2, <3>1, DtHostInv
      <4>2. InHandshake(HS!HostNext) => RunInv'
        BY <1>0, <2>2, <3>1, HsHostInv
      <4>3. InStreams(ST!HostMain) => RunInv'
        BY <1>0, <2>2, <3>1, StHostInv
      <4>4. HostStart \/ HostLeave => RunInv'
        BY <1>0, <2>2, <3>1, HostStartInv, HostLeaveInv
      <4>5. QED
        BY <3>2, <4>1, <4>2, <4>3, <4>4 DEF HostMain
    <3>3. CASE SlaveMain
      <4>1. InTransaction(DT!SlaveNext) => \/ InTransaction(DT!SlaveDataCreate) \/ InTransaction(DT!SlaveDataGet)
                                          \/ InTransaction(DT!SlaveDataDelete)
        BY DEF InTransaction, DT!SlaveNext
      <4>2. InTransaction(DT!SlaveNext) => RunInv'
        BY <1>0, <2>2, <3>1, <4>1, DtCreateInv, DtGetInv, DtDeleteInv
      <4>3. InHandshake(HS!SlaveNext) => RunInv'
        BY <1>0, <2>2, <3>1, HsSlaveInv
      <4>4. InStreams(ST!SlaveMain) => RunInv'
        BY <1>0, <2>2, <3>1, StSlaveInv
      <4>5. SlaveReset \/ SlaveFree => RunInv'
        BY <1>0, <2>2, <3>1, SlaveLoopInv
      <4>6. QED
        BY <3>3, <4>2, <4>3, <4>4, <4>5 DEF SlaveMain
    <3>4. CASE \E t \in Thread : HostThread(t) \/ SlaveTask(t)
      <4>1. PICK t \in Thread : InStreams(ST!HostThread(t)) \/ InStreams(ST!SlaveTask(t))
        BY <3>4 DEF HostThread, SlaveTask
      <4>2. QED
        BY <1>0, <2>2, <3>1, <4>1, StThreadInv, StTaskInv
    <3>5. QED
      BY <1>2, <3>2, <3>3, <3>4 DEF Next
  <2>3. QED
    BY <2>1, <2>2 DEF SessionInv
<1>3. QED
  BY <1>1, <1>2

\* In every run up to and with the first in which a call fails, the handshake,
\* the streams and the transaction keep what they promise to each other, for all
\* plans and any number of runs.
THEOREM SessionInvariant == Spec => []SessionInv
<1>1. QED
  BY InitSession, NextSession, PTL DEF Spec

\* Where no library call fails of itself, none fails: a queue is only created
\* where none of its name is left.
LEMMA NoneFails ==
  ASSUME Faults = {}, RunInv, ~ fault, Next
  PROVE  ~ fault'
<1>1. ASSUME InHandshake(HS!HostNext) PROVE ~ fault'
  <2>1. hpc = "hsCreate" => HandshakeQ \notin exists
    <3>1. hpc = "hsCreate" => hsHost = "hsCreate"
      BY HostShows DEF HS!HostPc
    <3>2. QED
      BY <3>1, SeenQueues, HsNames DEF RunInv, HP!IInv, HP!QueuesInv
  <2>2. QED
    BY <1>1, <2>1, HsNames DEF InHandshake, HS!HostNext, HS!HostCreate, HS!HostOpen, HS!HostAlloc, HS!HostPutCount,
       HS!HostGetCount, HS!HostPutConf, HS!HostGetConf, HS!HostCleanup, HS!Create, HS!CreateFails, HS!Fails
<1>2. ASSUME InHandshake(HS!SlaveNext) PROVE ~ fault'
  <2>1. spc = "slCreate" => SlaveProcQ \notin exists
    BY DEF RunInv, OwnInv
  <2>2. QED
    BY <1>2, <2>1, HsNames DEF InHandshake, HS!SlaveNext, HS!SlaveCreate, HS!SlaveGetCount, HS!SlaveGetConf, HS!SlaveDelete,
       HS!Create, HS!CreateFails, HS!Fails, HS!SlaveReceiveAndEcho
<1>3. ASSUME InTransaction(DT!HostNext) \/ InTransaction(DT!SlaveNext) PROVE ~ fault'
  <2>1. /\ hpc = "dhCreate" => HostDataQ \notin exists
        /\ spc = "dtCreate" => SlaveDataQ \notin exists
        /\ DT!HostDataQ = HostDataQ /\ DT!SlaveDataQ = SlaveDataQ
    BY DEF RunInv, OwnInv, DT!HostDataQ, HostDataQ, DT!SlaveDataQ, SlaveDataQ
  <2>2. spc = "dtGet" /\ pending[SlaveDataQ] # <<>> => Head(pending[SlaveDataQ]).id = 1
    <3>1. spc = "dtGet" /\ pending[SlaveDataQ] # <<>> => pending[SlaveDataQ] = <<DT!DataMsg>>
      BY DEF RunInv, DataInv
    <3>2. Head(<<DT!DataMsg>>).id = 1
      BY DEF DT!DataMsg
    <3>3. QED
      BY <3>1, <3>2
  <2>3. QED
    BY <1>3, <2>1, <2>2 DEF InTransaction, DT!HostNext, DT!HostDataCreate, DT!HostDataOpen, DT!HostDataPut, DT!HostDataGet,
       DT!HostDataDelete, DT!SlaveNext, DT!SlaveDataCreate, DT!SlaveDataGet, DT!SlaveDataDelete, DT!Create, DT!CreateFails,
       DT!Fails, DT!HasMessage
<1>4. ASSUME InStreams(ST!HostMain) \/ InStreams(ST!SlaveMain) PROVE ~ fault'
  BY <1>4 DEF InStreams, ST!HostMain, ST!HostSpawn, ST!HostJoin, ST!SlaveMain, ST!SlaveCreateTask, ST!SlaveTasksCreated,
     ST!SlaveAllFinished, ST!Fails, ST!mqVars
<1>5. ASSUME NEW t \in Thread, HostThread(t) PROVE ~ fault'
  <2>1. hth[t] = "rCreate" => ST!A15RecvQ(t) \notin exists
    BY StNames DEF RunInv, OwnInv
  <2>2. QED
    BY <1>5, <2>1 DEF HostThread, InStreams, ST!HostThread, ST!ThreadSendOpen, ST!ThreadSend, ST!ThreadSendEnd,
       ST!ThreadRecvCreate, ST!ThreadRecvGet, ST!ThreadRecvEnd, ST!Create, ST!CreateFails, ST!Fails, ST!mqVars
<1>6. ASSUME NEW t \in Thread, SlaveTask(t) PROVE ~ fault'
  <2>1. stk[t] = "rCreate" => ST!M4RecvQ(t) \notin exists
    BY StNames DEF RunInv, OwnInv
  <2>2. QED
    BY <1>6, <2>1 DEF SlaveTask, InStreams, ST!SlaveTask, ST!TaskSendOpen, ST!TaskSend, ST!TaskSendEnd, ST!TaskRecvCreate,
       ST!TaskRecvGet, ST!TaskRecvEnd, ST!TaskCountRead, ST!TaskCountWrite, ST!Create, ST!CreateFails, ST!Fails, ST!mqVars
<1>7. ASSUME HostStart \/ HostLeave \/ SlaveReset \/ SlaveFree PROVE ~ fault'
  BY <1>7 DEF HostStart, HostLeave, SlaveReset, SlaveFree, mqVars
<1>8. QED
  BY <1>1, <1>2, <1>3, <1>4, <1>5, <1>6, <1>7 DEF Next, HostMain, SlaveMain

\* With one run, or where no library call fails of itself, the invariant always
\* speaks.
LEMMA RunInvariant ==
  ASSUME MaxRuns <= 1 \/ Faults = {}
  PROVE  Spec => []RunInv
<1>1. CASE MaxRuns <= 1
  <2>1. SessionInv => RunInv
    BY <1>1, MaxRunsAssumption DEF SessionInv, BaseInv, Ok
  <2>2. QED
    BY <2>1, SessionInvariant, PTL
<1>2. CASE Faults = {}
  <2>1. Init => ~ fault
    BY DEF Init, MqInit
  <2>2. SessionInv /\ ~ fault /\ [Next]_vars => ~ fault'
    <3>1. SessionInv /\ ~ fault => RunInv
      BY DEF SessionInv, Ok
    <3>2. SessionInv /\ ~ fault /\ Next => ~ fault'
      BY <1>2, <3>1, NoneFails
    <3>3. ~ fault /\ UNCHANGED vars => ~ fault'
      BY DEF vars, mqVars
    <3>4. QED
      BY <3>2, <3>3
  <2>3. SessionInv /\ ~ fault => RunInv
    BY DEF SessionInv, Ok
  <2>4. QED
    BY <2>1, <2>2, <2>3, SessionInvariant, PTL DEF Spec
<1>3. QED
  BY <1>1, <1>2

\* The invariant says that no task runs when it is deleted.
LEMMA RunTasksFinished == RunInv => TasksFinishedBeforeDelete
<1> SUFFICES ASSUME RunInv, spc \in {"dtGet", "dtDelete", "slFree"}, NEW t \in 1 .. numThreads
             PROVE  stk[t] = "finished"
  BY DEF TasksFinishedBeforeDelete
<1>1. numThreads \in 0 .. MaxThreads
  BY DEF RunInv, Types
<1>2. t \in Thread /\ t <= numThreads
  BY <1>1, MaxThreadsAssumption DEF Thread
<1>3. QED
  BY <1>2 DEF RunInv, SlaveInv

\* It says that the transaction has the buffer for itself.
LEMMA RunTransactionExclusive == RunInv => TransactionExclusive
<1> SUFFICES ASSUME RunInv, hpc = "dhGet"
             PROVE  /\ \A t \in Thread : hth[t] \in {"done", "none"}
                    /\ \A t \in Thread : stk[t] \in {"finished", "none"}
                    /\ \A q \in StreamQ : q \notin exists /\ pending[q] = <<>>
  BY DEF TransactionExclusive
<1>1. \A t \in Thread : hth[t] \in {"done", "none"}
  BY DEF RunInv, ThreadsInv, Ended, HS!HostPc
<1>2. \A t \in Thread : stk[t] \in {"finished", "none"}
  BY DEF RunInv, SlaveInv
<1>3. \A q \in StreamQ : q \notin exists
  BY <1>1, <1>2 DEF RunInv, OwnInv, StreamQ
<1>4. \A q \in StreamQ : pending[q] = <<>>
  BY <1>3, OtherQueues DEF RunInv, OwnInv
<1>5. QED
  BY <1>1, <1>2, <1>3, <1>4

\* It says that the slave works on the table of this run.
LEMMA RunTableOfThisRun == RunInv => TableOfThisRun
<1> SUFFICES ASSUME RunInv, Working, ~ fault
             PROVE  Len(table) = Len(plan) /\ HS!TableFollowsPlan /\ HS!RegionsTile
  BY DEF TableOfThisRun
<1>1. Streaming \/ hsHost = "spawn"
  <2>1. CASE spc \in {"slTasks", "slWait", "dtCreate", "dtGet"}
    BY <2>1 DEF Streaming
  <2>2. CASE hpc \in {"spawn", "join", "dhCreate", "dhOpen", "dhPut"}
    BY <2>2 DEF hsHost, HS!HostPc
  <2>3. QED
    BY <2>1, <2>2 DEF Working
<1>2. hsSlave \in {"slDelete", "slTasks"} /\ HP!Told(Len(plan))
  <2>1. CASE hsHost = "spawn"
    BY <2>1 DEF RunInv, HP!IInv, HP!AfterConf, HP!Complete
  <2>2. CASE hsHost # "spawn" /\ Streaming
    <3>1. spc \in {"slTasks", "slWait", "dtCreate", "dtGet"} /\ hsSlave = "slTasks"
      <4>1. hpc \notin {"spawn", "join", "dhCreate", "dhOpen", "dhPut"}
        BY <2>2 DEF hsHost, HS!HostPc
      <4>2. QED
        BY <2>2, <4>1 DEF Working, hsSlave
    <3>2. hsHost \in {"hsGetConf", "hsFree"}
      <4>1. hsHost \in HP!HostPc
        BY DEF RunInv, HP!IInv, HP!TypeOK
      <4>2. QED
        BY <2>2, <3>1, <4>1 DEF RunInv, HP!IInv, HP!HostPc, HP!BeforeCount, HP!DuringCount, HP!BeforeConf, HP!AfterConf, HP!NotTold
    <3>3. CASE hsHost = "hsFree"
      BY <3>1, <3>3 DEF RunInv, HP!IInv, HP!AfterConf, HP!Complete
    <3>4. CASE hsHost = "hsGetConf"
      <4>1. HP!Told(hsIndex + 1) /\ ~ (hsIndex + 1 < Len(plan)) /\ hsIndex < Len(plan)
        BY <3>1, <3>4 DEF RunInv, HP!IInv, HP!DuringConf
      <4>2. hsIndex \in Nat /\ Len(plan) \in Nat
        BY <3>4, PlanLines DEF RunInv, Types, hsIndex, HostHandshakes
      <4>3. hsIndex + 1 = Len(plan)
        BY <4>1, <4>2
      <4>4. QED
        BY <3>1, <4>1, <4>3
    <3>5. QED
      BY <3>2, <3>3, <3>4
  <2>3. QED
    BY <1>1, <2>1, <2>2
<1>3. hsTable = table
  BY <1>2 DEF hsTable, hsSlave, Streaming
<1>4. Len(table) = Len(plan)
  BY <1>2, <1>3 DEF HP!Told
<1>5. HP!TableFollowsPlan /\ HP!RegionsTile
  BY DEF RunInv, HP!IInv
<1>6. \A d : HP!Inverse(d) = HS!Inverse(d)
  BY DEF HP!Inverse, HS!Inverse, HP!ThreadDirection, HS!ThreadDirection, HP!bidirectional, HS!bidirectional,
     HP!unidirectional_send, HS!unidirectional_send, HP!unidirectional_recv, HS!unidirectional_recv
<1>7. QED
  BY <1>3, <1>4, <1>5, <1>6 DEF HP!TableFollowsPlan, HP!RegionsTile, HS!TableFollowsPlan, HS!RegionsTile

\* For one run of the host with whatever calls failing, and for any number of
\* runs in which no library call fails of itself:
\* tsk1Fxn deletes its tasks (messageq_zerocpy.c, the loop over Task_delete)
\* only when each has ended, though it only looks at a counter that two cores
\* may miscount.
THEOREM SessionTasksFinishedBeforeDelete ==
  ASSUME MaxRuns <= 1 \/ Faults = {}
  PROVE  Spec => []TasksFinishedBeforeDelete
BY RunInvariant, RunTasksFinished, PTL

\* For one run of the host with whatever calls failing, and for any number of
\* runs in which no library call fails of itself:
\* While the host waits for the answer of the data transaction, no thread or
\* task of the streams is left that could write to the shared buffer, and no
\* message for one (main's pthread_join loop before DataTransact; tsk1Fxn's
\* polling loop).
THEOREM SessionTransactionExclusive ==
  ASSUME MaxRuns <= 1 \/ Faults = {}
  PROVE  Spec => []TransactionExclusive
BY RunInvariant, RunTransactionExclusive, PTL

\* For one run of the host with whatever calls failing, and for any number of
\* runs in which no library call fails of itself:
\* Both sides of the data transaction always find in the buffer what the other
\* has written: neither of the two comparisons of DataTransact ever reports a
\* mismatch.
THEOREM SessionDataIntegrity ==
  ASSUME MaxRuns <= 1 \/ Faults = {}
  PROVE  Spec => []DataIntegrity
<1>1. RunInv => DataIntegrity
  BY DEF RunInv, DataInv, DataIntegrity
<1>2. QED
  BY <1>1, RunInvariant, PTL

\* Until a call fails, the slave works on the lines the host was started with,
\* never on those of an earlier run, and the parts of the buffer tile it
\* (SlaveHandshake against the table of tsk1Fxn).
THEOREM SessionTableOfThisRun == Spec => []TableOfThisRun
<1>1. SessionInv => TableOfThisRun
  <2>1. ~ fault => Ok
    BY DEF Ok
  <2>2. fault => TableOfThisRun
    BY DEF TableOfThisRun
  <2>3. QED
    BY <2>1, <2>2, RunTableOfThisRun DEF SessionInv
<1>2. QED
  BY <1>1, SessionInvariant, PTL

\* Until a run is started after one in which a call has failed, however many
\* there are: what the three theorems above say of the transaction.
THEOREM SessionUntilFailure ==
  Spec => [](~ fault \/ runs = 0 => TasksFinishedBeforeDelete /\ TransactionExclusive /\ DataIntegrity)
<1>1. SessionInv => (~ fault \/ runs = 0 => TasksFinishedBeforeDelete /\ TransactionExclusive /\ DataIntegrity)
  <2>1. RunInv => DataIntegrity
    BY DEF RunInv, DataInv, DataIntegrity
  <2>2. QED
    BY <2>1, RunTasksFinished, RunTransactionExclusive DEF SessionInv, Ok
<1>2. QED
  BY <1>1, SessionInvariant, PTL

-----------------------------------------------------------------------------
(* Until a call fails. *)

\* Until then the slave does not stop, and every buffer of the heap is accounted
\* for: while the streams are on they have the messages that wait on their
\* queues, in the transaction there is its one message, else there is none.
QuietInv ==
  ~ fault => /\ spc # "aborted"
             /\ Scope => SP!CalmInv
             /\ ~ Scope => stLive = IF hpc = "dhGet" THEN 1 ELSE 0

\* What the streams have does not depend on the rest of the session.
LEMMA CalmRests ==
  ASSUME SP!CalmInv, UNCHANGED <<stk, stLive>>, fault => fault', spc' # "aborted",
         \A q \in StreamQ : pending'[q] = pending[q]
  PROVE  SP!CalmInv'
<1>1. Seen(StreamQ)' = Seen(StreamQ)
  BY DEF Seen
<1>2. SP!Waiting' = SP!Waiting
  BY <1>1 DEF SP!Waiting
<1>3. stSlave' # "aborted"
  BY DEF stSlave
<1>4. QED
  BY <1>2, <1>3 DEF SP!CalmInv

\* So it stays true when neither what the streams have changes nor whether they
\* are on.
LEMMA QuietRests ==
  ASSUME QuietInv, UNCHANGED <<stk, stLive>>, fault => fault', Scope' <=> Scope,
         ~ fault' => spc' # "aborted",
         ~ Scope => (hpc' = "dhGet" <=> hpc = "dhGet"),
         \A q \in StreamQ : pending'[q] = pending[q]
  PROVE  QuietInv'
<1> SUFFICES ASSUME ~ fault' PROVE QuietInv'
  BY DEF QuietInv
<1>1. ~ fault /\ spc' # "aborted"
  OBVIOUS
<1>2. CASE Scope
  <2>1. SP!CalmInv'
    BY <1>1, <1>2, CalmRests DEF QuietInv
  <2>2. QED
    BY <1>1, <1>2, <2>1 DEF QuietInv
<1>3. CASE ~ Scope
  BY <1>1, <1>3 DEF QuietInv
<1>4. QED
  BY <1>2, <1>3

\* The handshake leaves the streams alone, ...
LEMMA HsHostQuiet ==
  ASSUME BaseInv, RunInv, QuietInv, InHandshake(HS!HostNext)
  PROVE  QuietInv'
<1>1. /\ UNCHANGED <<stk, stLive, spc>> /\ (fault => fault') /\ (Scope' <=> Scope)
      /\ hpc # "dhGet" /\ hpc' # "dhGet"
      /\ \A q \in QueueName \ HsQueues : pending'[q] = pending[q]
  BY HsHostFrame DEF HS!HostPc
<1>2. \A q \in StreamQ : q \in QueueName \ HsQueues
  BY OtherQueues, HsNames DEF HsQueues
<1>3. ~ fault' => spc' # "aborted"
  BY <1>1 DEF QuietInv
<1>4. QED
  BY <1>1, <1>2, <1>3, QuietRests

\* ... which begin, once the slave knows everything, with no message.
LEMMA HsSlaveQuiet ==
  ASSUME BaseInv, RunInv, QuietInv, InHandshake(HS!SlaveNext)
  PROVE  QuietInv'
<1>1. /\ UNCHANGED <<stk, live, hpc>> /\ (fault => fault')
      /\ \A q \in QueueName \ HsQueues : pending'[q] = pending[q]
      /\ ~ fault' => spc' # "aborted"
  BY HsSlaveFrame, HsSlavePlaces
<1>2. \A q \in StreamQ : q \in QueueName \ HsQueues /\ pending'[q] = pending[q]
  BY <1>1, OtherQueues, HsNames DEF HsQueues
<1>3. UNCHANGED <<hsLive, stLive>>
  BY <1>1 DEF hsLive, stLive
<1> SUFFICES ASSUME ~ fault' PROVE QuietInv'
  BY DEF QuietInv
<1>4. ~ fault /\ spc # "aborted" /\ spc' # "aborted"
  BY <1>1 DEF QuietInv
<1>5. \/ spc \in {"slCreate", "slGetCount", "slGetConf"} /\ ~ Streaming
      \/ spc = "slDelete" /\ spc' = "slTasks" /\ Streaming /\ Streaming'
  BY <1>4, HsSlavePlaces DEF Streaming
<1>6. CASE Scope' <=> Scope
  BY <1>1, <1>2, <1>3, <1>4, <1>6, QuietRests
<1>7. CASE ~ (Scope' <=> Scope)
  <2>1. ~ Scope /\ Scope' /\ hpc # "dhGet" /\ ~ Streaming
    BY <1>1, <1>4, <1>5, <1>7 DEF Scope
  <2>2. stLive' = 0 /\ \A q \in StreamQ : pending'[q] = <<>>
    BY <1>2, <1>3, <1>4, <2>1 DEF QuietInv, RunInv, OutInv
  <2>3. \A t \in Thread : stk'[t] = "none"
    BY <1>1, <1>5, <2>1 DEF RunInv, SlaveInv
  <2>4. SP!Waiting' = {}
    <3>1. \A q \in QueueName : Seen(StreamQ)'[q] = <<>>
      BY <2>2 DEF Seen
    <3>2. QED
      BY <3>1, SpNames DEF SP!Waiting
  <2>5. SP!Cardinality({}) = 0
    BY SP!FS_EmptySet, StreamsAssumptions
  <2>6. SP!CalmInv'
    BY <1>4, <2>2, <2>3, <2>4, <2>5, SpNames DEF SP!CalmInv, stSlave
  <2>7. QED
    BY <1>4, <2>1, <2>6 DEF QuietInv
<1>8. QED
  BY <1>6, <1>7

\* Until a call fails the host streams, or goes on from there, only with a slave
\* that does.
LEMMA HostWithSlave ==
  ASSUME RunInv, ~ fault, hpc \in {"spawn", "join", "crashed", "dhCreate", "dhOpen", "dhPut"}
  PROVE  Streaming /\ Scope
<1>1. hsHost = "spawn"
  BY DEF hsHost, HS!HostPc
<1>2. hsSlave \in {"slDelete", "slTasks"}
  BY <1>1 DEF RunInv, HP!IInv, HP!AfterConf, HP!Complete
<1>3. Streaming
  BY <1>2 DEF hsSlave, Streaming
<1>4. QED
  BY <1>3 DEF Scope

\* Streams loses no message in a step that it takes within the session.
LEMMA StreamsQuiet ==
  ASSUME SP!CountsFit, RunInv, QuietInv, SP!Next, Scope, Scope', fault => fault'
  PROVE  QuietInv'
<1> SUFFICES ASSUME ~ fault' PROVE QuietInv'
  BY DEF QuietInv
<1>1. SP!TypeInv /\ SP!IdsInv /\ SP!CalmInv
  BY DEF RunInv, StreamsInv, QuietInv
<1>2. SP!CalmInv'
  BY <1>1, SP!NextCalmInv, StreamsAssumptions
<1>3. spc' # "aborted"
  <2>1. stSlave' # "aborted"
    BY <1>2 DEF SP!CalmInv
  <2>2. QED
    BY <2>1 DEF stSlave
<1>4. QED
  BY <1>2, <1>3 DEF QuietInv

\* Its steps are taken while it is on.
LEMMA StMainQuiet ==
  ASSUME SP!CountsFit, BaseInv, RunInv, QuietInv, InStreams(ST!HostMain) \/ InStreams(ST!SlaveMain)
  PROVE  QuietInv'
<1>1. CASE InStreams(ST!HostMain)
  <2>1. /\ UNCHANGED <<spc, table, exists>> /\ (fault => fault')
        /\ hpc \in {"spawn", "join"} /\ hpc' \in {"spawn", "join", "dhCreate", "crashed"}
    BY <1>1 DEF InStreams, ST!HostMain, ST!HostSpawn, ST!HostJoin, ST!mqVars, ST!slaveVars, ST!Fails, BaseInv
  <2> SUFFICES ASSUME ~ fault' PROVE QuietInv'
    BY DEF QuietInv
  <2>2. Streaming /\ Scope
    BY <2>1, HostWithSlave
  <2>3. Scope'
    <3>1. Streaming'
      BY <2>1, <2>2, SlaveSame
    <3>2. QED
      BY <2>1, <3>1 DEF Scope
  <2>4. SP!Next
    <3>1. si < numThreads => si + 1 \in Thread
      BY MaxThreadsAssumption DEF RunInv, Types, Thread
    <3>2. SP!HostMain \/ SP!SlaveMain
      BY <1>1, <3>1, StMainSteps DEF RunInv, Types
    <3>3. QED
      BY <3>2 DEF SP!Next
  <2>5. QED
    BY <2>1, <2>2, <2>3, <2>4, StreamsQuiet
<1>2. CASE InStreams(ST!SlaveMain)
  <2>1. /\ UNCHANGED hpc /\ (fault => fault')
        /\ spc \in {"slTasks", "slWait"} /\ spc' \in {"slTasks", "slWait", "dtCreate"}
    BY <1>2 DEF InStreams, ST!SlaveMain, ST!SlaveCreateTask, ST!SlaveTasksCreated, ST!SlaveAllFinished,
       ST!mqVars, ST!hostVars, ST!Fails, BaseInv
  <2>2. Scope /\ hpc # "dhGet"
    BY <2>1, TasksStream
  <2>3. Scope'
    BY <2>1, <2>2 DEF Scope, Streaming
  <2>4. SP!Next
    <3>1. si < numThreads => si + 1 \in Thread
      BY MaxThreadsAssumption DEF RunInv, Types, Thread
    <3>2. SP!HostMain \/ SP!SlaveMain
      BY <1>2, <3>1, StMainSteps DEF RunInv, Types
    <3>3. QED
      BY <3>2 DEF SP!Next
  <2>5. QED
    BY <2>1, <2>2, <2>3, <2>4, StreamsQuiet
<1>3. QED
  BY <1>1, <1>2

\* A thread of the host moves its messages,
LEMMA StThreadQuiet ==
  ASSUME SP!CountsFit, BaseInv, RunInv, QuietInv, NEW t \in Thread, InStreams(ST!HostThread(t))
  PROVE  QuietInv'
<1>1. /\ UNCHANGED <<hpc, spc, table>> /\ (fault => fault') /\ hth[t] \notin Ended
      /\ exists' \in {exists, exists \cup {A15RecvQ(t)}, exists \ {A15RecvQ(t)}}
  BY ThreadFrameFacts
<1> SUFFICES ASSUME ~ fault' PROVE QuietInv'
  BY DEF QuietInv
<1>2. hpc \in {"spawn", "join", "crashed"}
  <2>1. HostHandshakes => hth[t] \in Ended
    BY DEF RunInv, ThreadsInv, Ended
  <2>2. hpc \notin HS!HostPc \cup {"join", "crashed"} => hth[t] \in Ended
    BY DEF RunInv, ThreadsInv
  <2>3. QED
    BY <1>1, <2>1, <2>2 DEF HostHandshakes
<1>3. Streaming /\ Scope
  BY <1>1, <1>2, HostWithSlave
<1>4. Scope'
  <2>1. SlaveProcQ \in exists' <=> SlaveProcQ \in exists
    BY <1>1, OtherQueues
  <2>2. Streaming'
    BY <1>1, <1>3, <2>1, SlaveSame
  <2>3. QED
    BY <1>1, <1>2, <2>2 DEF Scope
<1>5. SP!Next
  <2>1. PendingType /\ live \in Nat
    BY DEF RunInv, Types
  <2>2. SP!HostThread(t)
    BY <2>1, StThreadStep
  <2>3. QED
    BY <2>2, SpNames DEF SP!Next
<1>6. QED
  BY <1>1, <1>3, <1>4, <1>5, StreamsQuiet

\* and so does a task of the slave.
LEMMA StTaskQuiet ==
  ASSUME SP!CountsFit, BaseInv, RunInv, QuietInv, NEW t \in Thread, InStreams(ST!SlaveTask(t))
  PROVE  QuietInv'
<1>1. /\ UNCHANGED <<hpc, table>> /\ (fault => fault')
      /\ spc # "aborted" /\ spc' \in {spc, "aborted"} /\ stk[t] \notin {"none", "finished"}
      /\ exists' \in {exists, exists \cup {M4RecvQ(t)}, exists \ {M4RecvQ(t)}}
  BY TaskFrameFacts
<1>2. spc \in {"slTasks", "slWait"} /\ hpc # "dhGet" /\ Scope /\ table # <<>> /\ SlaveProcQ \notin exists
  BY <1>1, TasksStream
<1>3. Scope'
  <2>1. SlaveProcQ \notin exists'
    BY <1>1, <1>2, OtherQueues
  <2>2. Streaming' /\ spc' # "dtGet"
    BY <1>1, <1>2, <2>1 DEF Streaming
  <2>3. QED
    BY <1>1, <1>2, <2>2 DEF Scope
<1>4. SP!Next
  <2>1. PendingType /\ live \in Nat /\ stk \in [Thread -> ST!TaskPc] /\ scnt \in [Thread -> Nat]
    BY DEF RunInv, Types
  <2>2. SP!SlaveTask(t)
    BY <2>1, StTaskStep
  <2>3. QED
    BY <2>2, SpNames DEF SP!Next
<1>5. QED
  BY <1>1, <1>2, <1>3, <1>4, StreamsQuiet

\* Where the slave is ready for the next run it is not in the streams.
LEMMA ReadyNotStreaming == Ready => ~ Streaming
BY DEF Ready, hsSlave, hsTable, Streaming

\* In the transaction the one message is allocated by the host and freed by it;
\* when it is allocated, no message of the streams is left.
LEMMA DtHostQuiet ==
  ASSUME BaseInv, RunInv, QuietInv, InTransaction(DT!HostNext)
  PROVE  QuietInv'
<1>1. /\ UNCHANGED <<plan, stk, spc, table>> /\ (fault => fault') /\ live \in Nat
      /\ hpc \in {"dhCreate", "dhOpen", "dhPut", "dhGet", "dhDelete"}
      /\ hpc' \in {"dhOpen", "dhPut", "dhGet", "dhDelete", "leave"}
  BY DEF InTransaction, DT!HostNext, DT!HostDataCreate, DT!HostDataOpen, DT!HostDataPut, DT!HostDataGet, DT!HostDataDelete,
     planVars, taskVars, DT!Create, DT!CreateFails, DT!Fails, DT!Delete, RunInv, Types
<1> SUFFICES ASSUME ~ fault' PROVE QuietInv'
  BY DEF QuietInv
<1>2. spc # "aborted" /\ spc' # "aborted" /\ ~ fault
  BY <1>1 DEF QuietInv
<1>3. hsLive = 0 /\ hsLive' = 0 /\ stLive = live /\ (live' \in Int => stLive' = live')
  <2>1. hsLive = 0 /\ hsLive' = 0
    BY <1>1 DEF hsLive
  <2>2. QED
    BY <1>1, <2>1, LiveSplit, LiveSplitNext DEF LiveSplits
<1>4. DT!HostDataQ = HostDataQ /\ DT!SlaveDataQ = SlaveDataQ
  BY DEF DT!HostDataQ, HostDataQ, DT!SlaveDataQ, SlaveDataQ
<1>5. /\ SlaveProcQ \in exists' <=> SlaveProcQ \in exists
      /\ \A q \in StreamQ : pending'[q] = pending[q]
  <2>1. /\ exists' \in {exists, exists \cup {HostDataQ}, exists \ {HostDataQ}}
        /\ \/ UNCHANGED pending
           \/ \E x : pending' = [pending EXCEPT ![HostDataQ] = x]
           \/ \E x : pending' = [pending EXCEPT ![SlaveDataQ] = x]
    BY <1>4 DEF InTransaction, DT!HostNext, DT!HostDataCreate, DT!HostDataOpen, DT!HostDataPut, DT!HostDataGet, DT!HostDataDelete,
       DT!Create, DT!CreateFails, DT!Delete, DT!WithPut, DT!WithoutHead
  <2>2. PICK x : \/ UNCHANGED pending
                 \/ pending' = [pending EXCEPT ![HostDataQ] = x]
                 \/ pending' = [pending EXCEPT ![SlaveDataQ] = x]
    BY <2>1
  <2>3. HandshakeQ # SlaveProcQ /\ SlaveProcQ # HostDataQ
    BY HsNames, OtherQueues
  <2>4. PendingType
    BY DEF RunInv, Types
  <2>5. SlaveProcQ \in exists' <=> SlaveProcQ \in exists
    BY <2>1, <2>3
  <2>6. \A q \in StreamQ : pending'[q] = pending[q]
    BY <2>2, <2>4, OtherQueues DEF PendingType
  <2>7. QED
    BY <2>5, <2>6
<1>6. (Streaming' <=> Streaming) /\ (Ready' <=> Ready)
  BY <1>1, <1>5, SlaveSame
<1>7. CASE hpc \in {"dhCreate", "dhOpen"}
  <2>1. UNCHANGED live /\ hpc' \in {"dhOpen", "dhPut", "dhDelete", "leave"}
    BY <1>7 DEF InTransaction, DT!HostNext, DT!HostDataCreate, DT!HostDataOpen, DT!HostDataPut, DT!HostDataGet, DT!HostDataDelete,
       DT!Create, DT!CreateFails
  <2>2. hpc' \in {"dhOpen", "dhPut"}
    <3>1. hpc = "dhCreate" => HostDataQ \notin exists
      BY DEF RunInv, OwnInv
    <3>2. QED
      BY <1>2, <1>4, <1>7, <3>1 DEF InTransaction, DT!HostNext, DT!HostDataCreate, DT!HostDataOpen, DT!HostDataPut, DT!HostDataGet,
         DT!HostDataDelete, DT!CreateFails, DT!Fails
  <2>3. Scope' <=> Scope
    BY <1>1, <1>6, <1>7, <2>2 DEF Scope
  <2>4. UNCHANGED stLive
    BY <1>1, <1>3, <2>1
  <2>5. QED
    BY <1>1, <1>2, <1>5, <1>7, <2>2, <2>3, <2>4, QuietRests
<1>8. CASE hpc = "dhPut"
  <2>1. live' = live + 1 /\ hpc' = "dhGet"
    BY <1>2, <1>8 DEF InTransaction, DT!HostNext, DT!HostDataCreate, DT!HostDataOpen, DT!HostDataPut, DT!HostDataGet, DT!HostDataDelete,
       DT!Fails
  <2>2. Scope /\ ~ Scope'
    BY <1>2, <1>8, <2>1, HostWithSlave DEF Scope
  <2>3. \A q \in StreamQ : pending[q] = <<>>
    <3>1. spc = "dtGet"
      BY <1>8 DEF RunInv, DataInv
    <3>2. hpc \notin HS!HostPc \cup {"join", "crashed"}
      BY <1>8 DEF HS!HostPc
    <3>3. QED
      BY <3>1, <3>2, StreamsEmpty
  <2>4. SP!Waiting = {}
    <3>1. \A q \in QueueName : Seen(StreamQ)[q] = <<>>
      BY <2>3 DEF Seen
    <3>2. QED
      BY <3>1, SpNames DEF SP!Waiting
  <2>5. SP!Cardinality({}) = 0
    BY SP!FS_EmptySet, StreamsAssumptions
  <2>6. stLive = 0
    BY <1>2, <2>2, <2>4, <2>5 DEF QuietInv, SP!CalmInv
  <2>7. stLive' = 1
    BY <1>1, <1>3, <2>1, <2>6
  <2>8. QED
    BY <1>2, <2>1, <2>2, <2>7 DEF QuietInv
<1>9. CASE hpc = "dhGet"
  <2>1. live' = live - 1 /\ hpc' = "dhDelete" /\ pending[HostDataQ] # <<>>
    BY <1>4, <1>9 DEF InTransaction, DT!HostNext, DT!HostDataCreate, DT!HostDataOpen, DT!HostDataPut, DT!HostDataGet, DT!HostDataDelete,
       DT!HasMessage
  <2>2. Ready
    BY <1>9, <2>1 DEF RunInv, DataInv
  <2>3. ~ Scope /\ ~ Scope'
    BY <1>6, <2>2, ReadyNotStreaming DEF Scope
  <2>4. stLive = 1
    BY <1>2, <1>9, <2>3 DEF QuietInv
  <2>5. stLive' = 0
    BY <1>1, <1>3, <2>1, <2>4
  <2>6. QED
    BY <1>2, <2>1, <2>3, <2>5 DEF QuietInv
<1>10. CASE hpc = "dhDelete"
  <2>1. UNCHANGED live /\ hpc' = "leave"
    BY <1>10 DEF InTransaction, DT!HostNext, DT!HostDataCreate, DT!HostDataOpen, DT!HostDataPut, DT!HostDataGet, DT!HostDataDelete
  <2>2. Ready
    BY <1>2, <1>10 DEF RunInv, EndInv
  <2>3. ~ Scope /\ ~ Scope'
    BY <1>6, <2>2, ReadyNotStreaming DEF Scope
  <2>4. UNCHANGED stLive
    BY <1>1, <1>3, <2>1
  <2>5. QED
    BY <1>1, <1>2, <1>5, <1>10, <2>1, <2>3, <2>4, QuietRests
<1>11. QED
  BY <1>1, <1>7, <1>8, <1>9, <1>10

\* The slave only passes the message of the transaction on.
LEMMA DtSlaveQuiet ==
  ASSUME BaseInv, RunInv, QuietInv, InTransaction(DT!SlaveNext)
  PROVE  QuietInv'
<1>1. /\ UNCHANGED <<plan, stk, hpc, table, live>> /\ (fault => fault')
      /\ spc \in {"dtCreate", "dtGet", "dtDelete"}
  BY DEF InTransaction, DT!SlaveNext, DT!SlaveDataCreate, DT!SlaveDataGet, DT!SlaveDataDelete,
     planVars, taskVars, DT!Create, DT!CreateFails, DT!Fails, DT!Delete
<1> SUFFICES ASSUME ~ fault' PROVE QuietInv'
  BY DEF QuietInv
<1>2. spc # "aborted" /\ ~ fault
  BY <1>1 DEF QuietInv
<1>3. UNCHANGED <<hsLive, stLive>>
  BY <1>1 DEF hsLive, stLive
<1>4. DT!HostDataQ = HostDataQ /\ DT!SlaveDataQ = SlaveDataQ
  BY DEF DT!HostDataQ, HostDataQ, DT!SlaveDataQ, SlaveDataQ
<1>5. \A q \in StreamQ : pending'[q] = pending[q]
  <2> DEFINE taken == DT!WithoutHead(pending, SlaveDataQ)
  <2>1. \/ UNCHANGED pending
        \/ pending' = [pending EXCEPT ![SlaveDataQ] = <<>>]
        \/ pending' = taken
        \/ \E m : pending' = DT!WithPut(taken, HostDataQ, m)
    BY <1>4 DEF InTransaction, DT!SlaveNext, DT!SlaveDataCreate, DT!SlaveDataGet, DT!SlaveDataDelete,
       DT!Create, DT!CreateFails, DT!Delete
  <2>2. PICK m : \/ UNCHANGED pending
                 \/ pending' = [pending EXCEPT ![SlaveDataQ] = <<>>]
                 \/ pending' = taken
                 \/ pending' = DT!WithPut(taken, HostDataQ, m)
    BY <2>1
  <2>3. \A q \in StreamQ : taken[q] = pending[q]
    BY OtherQueues DEF DT!WithoutHead, RunInv, Types, PendingType
  <2>4. PendingType
    BY DEF RunInv, Types
  <2>5. \A q \in StreamQ : q # HostDataQ /\ q # SlaveDataQ /\ q \in QueueName
    BY OtherQueues
  <2>6. \A q \in StreamQ : DT!WithPut(taken, HostDataQ, m)[q] = pending[q]
    <3>1. taken = [q \in QueueName |-> taken[q]]
      BY <2>4 DEF DT!WithoutHead, PendingType
    <3> HIDE DEF taken
    <3>2. QED
      BY <2>3, <2>5, <3>1 DEF DT!WithPut
  <2> HIDE DEF taken
  <2>7. QED
    BY <2>2, <2>3, <2>4, <2>5, <2>6 DEF PendingType
<1>6. CASE spc = "dtCreate"
  <2>1. spc' = "dtGet"
    <3>1. SlaveDataQ \notin exists
      BY <1>6 DEF RunInv, OwnInv
    <3>2. QED
      BY <1>4, <1>6, <3>1 DEF InTransaction, DT!SlaveNext, DT!SlaveDataCreate, DT!SlaveDataGet, DT!SlaveDataDelete, DT!CreateFails
  <2>2. Streaming /\ Streaming'
    BY <1>6, <2>1 DEF Streaming
  <2>3. hpc \notin {"dhGet", "dhDelete", "leave", "idle"}
    BY <1>2, <1>6, <2>2, ReadyNotStreaming DEF RunInv, DataInv, EndInv
  <2>4. Scope /\ Scope'
    BY <1>1, <2>2, <2>3 DEF Scope
  <2>5. QED
    BY <1>1, <1>3, <1>5, <2>1, <2>4, QuietRests
<1>7. CASE spc = "dtGet"
  <2>1. pending[SlaveDataQ] # <<>>
    BY <1>4, <1>7 DEF InTransaction, DT!SlaveNext, DT!SlaveDataCreate, DT!SlaveDataGet, DT!SlaveDataDelete, DT!HasMessage
  <2>2. hpc = "dhGet" /\ pending[SlaveDataQ] = <<DT!DataMsg>>
    BY <2>1 DEF RunInv, DataInv
  <2>3. Head(<<DT!DataMsg>>).id = 1
    BY DEF DT!DataMsg
  <2>4. spc' = "dtDelete"
    BY <1>4, <1>7, <2>2, <2>3 DEF InTransaction, DT!SlaveNext, DT!SlaveDataCreate, DT!SlaveDataGet, DT!SlaveDataDelete, DT!Fails
  <2>5. ~ Scope /\ ~ Scope'
    BY <2>2, <2>4 DEF Scope, Streaming
  <2>6. QED
    BY <1>1, <1>3, <1>5, <2>4, <2>5, QuietRests
<1>8. CASE spc = "dtDelete"
  <2>1. spc' = "slFree"
    BY <1>8 DEF InTransaction, DT!SlaveNext, DT!SlaveDataCreate, DT!SlaveDataGet, DT!SlaveDataDelete
  <2>2. ~ Scope /\ ~ Scope'
    BY <1>8, <2>1 DEF Scope, Streaming
  <2>3. QED
    BY <1>1, <1>3, <1>5, <2>1, <2>2, QuietRests
<1>9. QED
  BY <1>1, <1>6, <1>7, <1>8

\* Between two runs nothing is allocated or freed.
LEMMA EndsQuiet ==
  ASSUME BaseInv, RunInv, QuietInv, HostStart \/ HostLeave \/ SlaveReset \/ SlaveFree
  PROVE  QuietInv'
<1>1. /\ UNCHANGED <<live, exists, fault, pending>>
      /\ \/ hpc = "idle" /\ hpc' = "hsCreate" /\ UNCHANGED <<spc, table>>
         \/ hpc = "leave" /\ hpc' = "idle" /\ UNCHANGED <<spc, table>>
         \/ spc = "slReset" /\ spc' = "slCreate" /\ UNCHANGED hpc
         \/ spc = "slFree" /\ spc' = "slReset" /\ UNCHANGED hpc
  BY DEF HostStart, HostLeave, SlaveReset, SlaveFree, mqVars, planVars
<1> SUFFICES ASSUME ~ fault' PROVE QuietInv'
  BY DEF QuietInv
<1>2. spc # "aborted" /\ ~ fault /\ spc' # "aborted"
  BY <1>1 DEF QuietInv
<1>3. ~ Scope /\ ~ Scope'
  <2>1. spc \in {"slReset", "slFree"} => ~ Streaming /\ ~ Streaming'
    BY <1>1 DEF Streaming
  <2>2. hpc \in {"idle", "leave"} => Ready
    BY <1>2 DEF RunInv, EndInv
  <2>3. spc' = spc => (Streaming' <=> Streaming)
    BY <1>2 DEF Streaming
  <2>4. QED
    BY <1>1, <2>1, <2>2, <2>3, ReadyNotStreaming DEF Scope
<1>4. UNCHANGED <<hsLive, stLive>> /\ (hpc' = "dhGet" <=> hpc = "dhGet")
  <2>1. UNCHANGED hsLive
    BY <1>1 DEF hsLive
  <2>2. QED
    BY <1>1, <2>1 DEF stLive
<1>5. QED
  BY <1>2, <1>3, <1>4 DEF QuietInv

\* All of this is so at the start.
LEMMA InitQuiet == Init => QuietInv
<1> SUFFICES ASSUME Init PROVE QuietInv
  OBVIOUS
<1>1. spc = "slReset" /\ hpc = "idle" /\ live = 0
  BY DEF Init, MqInit
<1>2. hsLive = 0 /\ ~ Streaming
  BY <1>1 DEF hsLive, Streaming
<1>3. QED
  BY <1>1, <1>2 DEF QuietInv, Scope, stLive

\* So it holds after every step.
LEMMA NextQuiet ==
  ASSUME SP!CountsFit
  PROVE  SessionInv /\ QuietInv /\ [Next]_vars => QuietInv'
<1> SUFFICES ASSUME SessionInv, QuietInv, [Next]_vars PROVE QuietInv'
  OBVIOUS
<1> SUFFICES ASSUME ~ fault' PROVE QuietInv'
  BY DEF QuietInv
<1>1. BaseInv /\ (fault => fault')
  <2>1. BaseInv
    BY DEF SessionInv
  <2>2. Next => (fault => fault')
    BY <2>1, FaultStays DEF BaseInv
  <2>3. QED
    BY <2>1, <2>2 DEF vars, mqVars
<1>2. RunInv
  BY <1>1 DEF SessionInv, Ok
<1>3. CASE UNCHANGED vars
  <2>1. UNCHANGED <<exists, pending, live, fault, hpc, spc, table, stk>>
    BY <1>3 DEF vars, mqVars, planVars, taskVars
  <2>2. UNCHANGED <<hsLive, stLive>> /\ (Streaming' <=> Streaming)
    BY <2>1 DEF hsLive, stLive, Streaming
  <2>3. Scope' <=> Scope
    BY <2>1, <2>2 DEF Scope
  <2>4. ~ fault' => spc' # "aborted"
    BY <2>1 DEF QuietInv
  <2>5. \A q \in StreamQ : pending'[q] = pending[q]
    BY <2>1
  <2>6. hpc' = "dhGet" <=> hpc = "dhGet"
    BY <2>1
  <2>7. UNCHANGED <<stk, stLive>>
    BY <2>1, <2>2
  <2>8. QED
    BY <1>1, <2>3, <2>4, <2>5, <2>6, <2>7, QuietRests
<1>4. CASE HostMain
  <2>1. InHandshake(HS!HostNext) => QuietInv'
    BY <1>1, <1>2, HsHostQuiet
  <2>2. InStreams(ST!HostMain) => QuietInv'
    BY <1>1, <1>2, StMainQuiet
  <2>3. InTransaction(DT!HostNext) => QuietInv'
    BY <1>1, <1>2, DtHostQuiet
  <2>4. HostStart \/ HostLeave => QuietInv'
    BY <1>1, <1>2, EndsQuiet
  <2>5. QED
    BY <1>4, <2>1, <2>2, <2>3, <2>4 DEF HostMain
<1>5. CASE SlaveMain
  <2>1. InHandshake(HS!SlaveNext) => QuietInv'
    BY <1>1, <1>2, HsSlaveQuiet
  <2>2. InStreams(ST!SlaveMain) => QuietInv'
    BY <1>1, <1>2, StMainQuiet
  <2>3. InTransaction(DT!SlaveNext) => QuietInv'
    BY <1>1, <1>2, DtSlaveQuiet
  <2>4. SlaveReset \/ SlaveFree => QuietInv'
    BY <1>1, <1>2, EndsQuiet
  <2>5. QED
    BY <1>5, <2>1, <2>2, <2>3, <2>4 DEF SlaveMain
<1>6. CASE \E t \in Thread : HostThread(t) \/ SlaveTask(t)
  <2>1. PICK t \in Thread : InStreams(ST!HostThread(t)) \/ InStreams(ST!SlaveTask(t))
    BY <1>6 DEF HostThread, SlaveTask
  <2>2. QED
    BY <1>1, <1>2, <2>1, StThreadQuiet, StTaskQuiet
<1>7. QED
  BY <1>3, <1>4, <1>5, <1>6 DEF Next

\* main's index of the line it is at does not go beyond the plan.
LEMMA NextLine ==
  ASSUME RunInv, RunInv', hi <= Len(plan), [Next]_vars
  PROVE  hi' <= Len(plan')
<1>0. hi \in Nat /\ hi' \in Nat /\ Len(plan) \in Nat /\ Len(plan') \in Nat
  BY PlanLines DEF RunInv, Types
<1>1. CASE hpc' \in HS!HostPc \ {"spawn"}
  <2>1. hsIndex' = hi'
    BY <1>1 DEF hsIndex, HostHandshakes
  <2>2. hsIndex' \in 0 .. Len(plan')
    BY DEF RunInv, HP!IInv, HP!TypeOK
  <2>3. QED
    BY <1>0, <2>1, <2>2
<1>2. CASE hpc' \in {"spawn", "join"}
  BY <1>0, <1>2 DEF RunInv, ThreadsInv
<1>3. CASE hpc' \notin HS!HostPc \cup {"join"}
  <2>1. ~ InHandshake(HS!HostNext) /\ ~ HostStart
    BY <1>3, HsHostFrame DEF HostStart, HS!HostPc, InHandshake, HS!HostNext, HS!HostCreate, HS!HostOpen, HS!HostAlloc,
       HS!HostPutCount, HS!HostGetCount, HS!HostPutConf, HS!HostGetConf, HS!HostCleanup
  <2>2. CASE InStreams(ST!HostMain)
    <3>1. hpc \in {"spawn", "join"} /\ UNCHANGED plan /\ hi' \in {0, hi, hi + 1}
      BY <2>2 DEF InStreams, ST!HostMain, ST!HostSpawn, ST!HostJoin
    <3>2. hi < Len(plan)
      BY <3>1 DEF RunInv, ThreadsInv
    <3>3. QED
      BY <1>0, <3>1, <3>2
  <2>3. CASE ~ InStreams(ST!HostMain)
    <3>1. HostLeave \/ InTransaction(DT!HostNext) \/ SlaveReset \/ SlaveFree \/ InTransaction(DT!SlaveNext)
          => UNCHANGED <<plan, hi>>
      BY DEF HostLeave, InTransaction, SlaveReset, SlaveFree, planVars
    <3>2. InHandshake(HS!SlaveNext) => UNCHANGED <<plan, hi>>
      BY HsSlaveFrame
    <3>3. InStreams(ST!SlaveMain) => UNCHANGED <<plan, hi>>
      BY DEF InStreams, ST!SlaveMain, ST!SlaveCreateTask, ST!SlaveTasksCreated, ST!SlaveAllFinished, ST!hostVars
    <3>4. ASSUME NEW t \in Thread, HostThread(t) \/ SlaveTask(t) PROVE UNCHANGED <<plan, hi>>
      BY <3>4, ThreadFrameFacts, TaskFrameFacts DEF HostThread, SlaveTask
    <3>5. UNCHANGED vars => UNCHANGED <<plan, hi>>
      BY DEF vars, planVars
    <3>6. UNCHANGED <<plan, hi>>
      BY <2>1, <2>3, <3>1, <3>2, <3>3, <3>4, <3>5 DEF Next, HostMain, SlaveMain
    <3>7. QED
      BY <3>6
  <2>4. QED
    BY <2>2, <2>3
<1>4. QED
  BY <1>1, <1>2, <1>3 DEF HS!HostPc

\* Between two runs the host has ended and the slave waits: by what is known of
\* the queues only the slave's own is left, and no message.
LEMMA RunNothingLeft ==
  ASSUME RunInv, QuietInv, hpc = "idle", spc = "slGetCount", ~ fault
  PROVE  live = 0 /\ exists = {SlaveProcQ} /\ \A q \in QueueName : pending[q] = <<>>
<1>1. Ready /\ ~ Streaming /\ ~ Scope
  BY ReadyNotStreaming DEF RunInv, EndInv, Scope
<1>2. live = 0
  <2>1. hsLive = 0 /\ stLive = 0
    BY <1>1 DEF QuietInv, hsLive
  <2>2. live \in Int
    BY DEF RunInv, Types
  <2>3. QED
    BY <2>1, <2>2, LiveSplit DEF LiveSplits
<1>3. SlaveProcQ \in exists /\ SlaveDataQ \notin exists /\ HostDataQ \notin exists
  BY DEF RunInv, OwnInv
<1>4. HandshakeQ \notin exists
  <2>1. hsHost = "hsCreate"
    BY <1>1 DEF hsHost, HS!HostPc
  <2>2. QED
    BY <2>1, SeenQueues, HsNames DEF RunInv, HP!IInv, HP!QueuesInv
<1>5. \A q \in StreamQ : q \notin exists
  <2>1. \A t \in Thread : hth[t] \in Ended
    BY DEF RunInv, ThreadsInv, HS!HostPc
  <2>2. \A t \in Thread : stk[t] = "none"
    BY <1>1 DEF RunInv, SlaveInv
  <2>3. QED
    BY <2>1, <2>2 DEF RunInv, OwnInv, StreamQ, Ended
<1>6. exists = {SlaveProcQ}
  BY <1>3, <1>4, <1>5 DEF RunInv, Types, QueueName
<1>7. pending[SlaveProcQ] = <<>>
  BY SlaveMessage
<1>8. QED
  BY <1>2, <1>6, <1>7 DEF RunInv, OwnInv

\* Where counts fit in the host's 16-bit counter, and until a call fails, for any
\* number of runs: when the tool has ended and tsk1Fxn waits for the next run,
\* every message that was allocated has been freed and every queue deleted but
\* the slave's own. (The types of all variables are part of it.) Of what is left
\* after a failing call, which the code does leak, nothing is said.
THEOREM SessionNothingLeft ==
  ASSUME SP!CountsFit
  PROVE  Spec => [](~ fault => NothingLeft)
<1> DEFINE LineInv == ~ fault => hi <= Len(plan)
<1>1. Spec => []SessionInv
  BY SessionInvariant
<1>2. Init => QuietInv /\ LineInv
  <2>1. Init => LineInv
    BY PlanLines DEF Init
  <2>2. QED
    BY <2>1, InitQuiet
<1>3. SessionInv /\ SessionInv' /\ QuietInv /\ LineInv /\ [Next]_vars => QuietInv' /\ LineInv'
  <2> SUFFICES ASSUME SessionInv, SessionInv', QuietInv, LineInv, [Next]_vars PROVE QuietInv' /\ LineInv'
    OBVIOUS
  <2>1. QuietInv'
    BY NextQuiet
  <2>2. ASSUME ~ fault' PROVE hi' <= Len(plan')
    <3>1. ~ fault
      <4>1. fault => fault' \/ UNCHANGED vars
        BY FaultStays DEF SessionInv, BaseInv
      <4>2. UNCHANGED vars => fault' = fault
        BY DEF vars, mqVars
      <4>3. QED
        BY <2>2, <4>1, <4>2
    <3>2. RunInv /\ RunInv'
      BY <2>2, <3>1 DEF SessionInv, Ok
    <3>3. QED
      BY <3>1, <3>2, NextLine
  <2>3. QED
    BY <2>1, <2>2
<1>4. SessionInv /\ QuietInv /\ LineInv => (~ fault => NothingLeft)
  <2> SUFFICES ASSUME SessionInv, QuietInv, LineInv, ~ fault PROVE NothingLeft
    OBVIOUS
  <2>1. RunInv
    BY DEF SessionInv, Ok
  <2>2. TypeOK
    <3>1. hi \in 0 .. Len(plan)
      BY <2>1, PlanLines DEF RunInv, Types
    <3>2. DOMAIN pending = QueueName
      BY <2>1 DEF RunInv, Types, PendingType
    <3>3. {seedSeen, verdict} \subseteq DT!Finding /\ buf \in DT!Content
      BY <2>1 DEF RunInv, Types
    <3>4. QED
      BY <2>1, <3>1, <3>2, <3>3 DEF TypeOK, RunInv, Types, SessionInv, BaseInv
  <2>3. QED
    BY <2>1, <2>2, RunNothingLeft DEF NothingLeft
<1> HIDE DEF LineInv
<1>5. QED
  BY <1>1, <1>2, <1>3, <1>4, PTL DEF Spec

-----------------------------------------------------------------------------
(* The two programs stay in step. *)

\* Every line moves at least one message, one way, and not more than the host's
\* 16-bit counter can count. (A task whose line moves nothing ends without
\* waiting for the host; main joins a thread it did not create for a line that
\* is not one-way.)
OneWayPlans ==
  \A p \in Plans : \A i \in 1 .. Len(p) :
    p[i].direction # HS!bidirectional /\ p[i].msgCount \in 1 .. IdRange - 1

\* Where a task of the slave has got past opening its queue, or has ended.
Passed == {"send", "inc", "store", "finished"}

\* Until a call fails, the threads that main has been through in its spawn loop
\* are all there, and no task gets on without the thread at the other end.
PaceInv ==
  ~ fault => /\ hpc # "crashed"
             /\ hpc = "spawn" => \A t \in 1 .. hi : hth[t] # "none"
             /\ hpc \notin HS!HostPc \cup {"idle"} => \A t \in 1 .. Len(plan) : hth[t] # "none"
             /\ Streaming => \A t \in 1 .. Len(plan) : stk[t] \in Passed => hth[t] # "none"

\* What keeps it beside the threads and the tasks.
LEMMA PaceRests ==
  ASSUME PaceInv, UNCHANGED <<plan, hth>>, fault => fault',
         Streaming' => Streaming /\ \A t \in 1 .. Len(plan) : stk'[t] \in Passed => stk[t] \in Passed,
         hpc' # "crashed",
         hpc' = "spawn" => hpc = "spawn" /\ hi' = hi,
         hpc' \in HS!HostPc \cup {"idle"} \/ hpc \notin HS!HostPc \cup {"idle"}
  PROVE  PaceInv'
BY DEF PaceInv

\* Counts that leave room in the counter fit in it.
LEMMA OneWayFits == OneWayPlans => SP!CountsFit
<1> SUFFICES ASSUME OneWayPlans, NEW p \in Plans, NEW i \in 1 .. Len(p) PROVE p[i].msgCount < IdRange
  BY DEF SP!CountsFit
<1>1. p[i].msgCount \in 1 .. IdRange - 1
  BY DEF OneWayPlans
<1>2. QED
  BY <1>1, IdRangeAssumption

\* The handshake: no thread or task is there.
LEMMA HandshakePace ==
  ASSUME BaseInv, RunInv, PaceInv, InHandshake(HS!HostNext) \/ InHandshake(HS!SlaveNext)
  PROVE  PaceInv'
<1>1. CASE InHandshake(HS!HostNext)
  <2>1. /\ UNCHANGED <<plan, hth, stk>> /\ (fault => fault') /\ (Streaming' <=> Streaming)
        /\ hpc \in HS!HostPc \ {"spawn"} /\ hpc' \in HS!HostPc
    BY <1>1, HsHostFrame
  <2>2. hpc' = "spawn" => fault' \/ hi' = 0
    BY <1>1 DEF InHandshake, HS!HostNext, HS!HostCreate, HS!HostOpen, HS!HostAlloc, HS!HostPutCount,
       HS!HostGetCount, HS!HostPutConf, HS!HostGetConf, HS!HostCleanup, HS!CreateFails
  <2>3. 1 .. 0 = {}
    OBVIOUS
  <2>4. QED
    BY <2>1, <2>2, <2>3 DEF PaceInv, HS!HostPc
<1>2. CASE InHandshake(HS!SlaveNext)
  <2>1. UNCHANGED <<plan, hpc, hi, hth, stk>> /\ (fault => fault')
    BY <1>2, HsSlaveFrame
  <2>2. spc \in {"slCreate", "slGetCount", "slGetConf", "slDelete"}
    BY <1>2, HsSlavePlaces
  <2>3. \A t \in Thread : stk[t] = "none"
    BY <2>2 DEF RunInv, SlaveInv, Streaming
  <2>4. \A t \in 1 .. Len(plan) : t \in Thread
    BY PlanLines DEF RunInv, Types
  <2>5. \A t \in 1 .. Len(plan) : stk'[t] \notin Passed
    BY <2>1, <2>3, <2>4 DEF Passed
  <2>6. QED
    BY <2>1, <2>5 DEF PaceInv
<1>3. QED
  BY <1>1, <1>2

\* main creates a thread for every one-way line and joins only those.
LEMMA StMainPace ==
  ASSUME OneWayPlans, BaseInv, RunInv, PaceInv, InStreams(ST!HostMain) \/ InStreams(ST!SlaveMain)
  PROVE  PaceInv'
<1>0. Len(plan) \in Nat \ {0} /\ hi \in Nat /\ hth \in [Thread -> ST!ThreadPc] /\ stk \in [Thread -> ST!TaskPc]
      /\ plan \in Plans /\ \A t \in 1 .. Len(plan) : t \in Thread
  BY PlanLines DEF RunInv, Types
<1>1. CASE InStreams(ST!HostMain)
  <2>1. /\ UNCHANGED <<spc, table, exists, stk, plan>> /\ (fault => fault')
        /\ hpc \in {"spawn", "join"} /\ hpc' \in {"spawn", "join", "dhCreate", "crashed"}
    BY <1>1 DEF InStreams, ST!HostMain, ST!HostSpawn, ST!HostJoin, ST!mqVars, ST!slaveVars, ST!taskVars, ST!Fails, BaseInv
  <2>2. Streaming' <=> Streaming
    BY <2>1, SlaveSame
  <2>3. hi < Len(plan)
    BY <2>1 DEF RunInv, ThreadsInv
  <2>4. hi + 1 \in 1 .. Len(plan)
    BY <1>0, <2>3
  <2>5. CASE ST!HostSpawn
    <3> SUFFICES ASSUME ~ fault' PROVE PaceInv'
      BY DEF PaceInv
    <3>1. plan[hi + 1].direction # ST!bidirectional
      BY <1>0, <2>4 DEF OneWayPlans, ST!bidirectional, HS!bidirectional
    <3>2. /\ hpc = "spawn" /\ hpc' = (IF hi + 1 < Len(plan) THEN "spawn" ELSE "join")
          /\ hi' = (IF hi + 1 < Len(plan) THEN hi + 1 ELSE 0)
          /\ \E pc \in {"sOpen", "rCreate"} : hth' = [hth EXCEPT ![hi + 1] = pc]
      BY <2>5, <3>1 DEF ST!HostSpawn, ST!Goto, ST!Fails
    <3>3. PICK pc \in {"sOpen", "rCreate"} : hth' = [hth EXCEPT ![hi + 1] = pc]
      BY <3>2
    <3>4. hth'[hi + 1] # "none" /\ \A t \in Thread : hth[t] # "none" => hth'[t] # "none"
      BY <1>0, <2>4, <3>3
    <3>5. \A t \in 1 .. hi : hth[t] # "none"
      BY <2>1, <3>2 DEF PaceInv
    <3>6. \A t \in 1 .. hi + 1 : hth'[t] # "none"
      <4> SUFFICES ASSUME NEW t \in 1 .. hi + 1 PROVE hth'[t] # "none"
        OBVIOUS
      <4>1. t \in 1 .. Len(plan) /\ (t = hi + 1 \/ t \in 1 .. hi)
        BY <1>0, <2>3
      <4>2. QED
        BY <1>0, <3>4, <3>5, <4>1
    <3>7. hpc' = "spawn" => \A t \in 1 .. hi' : hth'[t] # "none"
      BY <3>2, <3>6
    <3>8. hpc' = "join" => \A t \in 1 .. Len(plan') : hth'[t] # "none"
      <4>1. hpc' = "join" => Len(plan') = hi + 1
        BY <1>0, <2>1, <2>3, <3>2
      <4>2. QED
        BY <3>6, <4>1
    <3>9. Streaming' => \A t \in 1 .. Len(plan') : stk'[t] \in Passed => hth'[t] # "none"
      BY <1>0, <2>1, <2>2, <3>4 DEF PaceInv
    <3>10. hpc' \in {"spawn", "join"}
      BY <3>2
    <3>11. QED
      BY <3>7, <3>8, <3>9, <3>10 DEF PaceInv, HS!HostPc
  <2>6. CASE ST!HostJoin
    <3>1. hpc = "join" /\ hpc' \in {"join", "dhCreate", "crashed"} /\ UNCHANGED <<fault, hth>>
          /\ (hpc' = "crashed" => hth[hi + 1] = "none")
      BY <2>6 DEF ST!HostJoin, ST!mqVars, ST!threadVars
    <3>2. hpc' = "crashed" => fault
      <4>1. hpc \notin HS!HostPc \cup {"idle"}
        BY <3>1 DEF HS!HostPc
      <4>2. QED
        BY <2>4, <3>1, <4>1 DEF PaceInv
    <3>3. QED
      BY <2>1, <2>2, <3>1, <3>2 DEF PaceInv, HS!HostPc
  <2>7. QED
    BY <1>1, <2>5, <2>6 DEF InStreams, ST!HostMain
<1>2. CASE InStreams(ST!SlaveMain)
  <2>1. /\ UNCHANGED <<hpc, hi, hth, plan>> /\ (fault => fault')
        /\ spc \in {"slTasks", "slWait"}
        /\ \/ UNCHANGED stk
           \/ \E pc \in {"rCreate", "sOpen", "none"} : stk' = [stk EXCEPT ![si + 1] = pc]
    BY <1>2 DEF InStreams, ST!SlaveMain, ST!SlaveCreateTask, ST!SlaveTasksCreated, ST!SlaveAllFinished,
       ST!mqVars, ST!hostVars, ST!threadVars, ST!taskVars, ST!Goto, ST!Fails, BaseInv
  <2>2. Streaming
    BY <2>1 DEF Streaming
  <2>3. \A t \in 1 .. Len(plan) : stk'[t] \in Passed => stk[t] \in Passed
    BY <1>0, <2>1 DEF Passed
  <2>4. QED
    BY <2>1, <2>2, <2>3 DEF PaceInv
<1>3. QED
  BY <1>1, <1>2

\* A thread of the host that has been created never is as if it had not.
LEMMA StThreadPace ==
  ASSUME RunInv, PaceInv, NEW u \in Thread, InStreams(ST!HostThread(u))
  PROVE  PaceInv'
<1>1. /\ UNCHANGED <<hpc, hi, spc, table, stk, plan>> /\ (fault => fault')
      /\ exists' \in {exists, exists \cup {A15RecvQ(u)}, exists \ {A15RecvQ(u)}}
  BY ThreadFrameFacts
<1>2. \A t \in Thread : hth[t] # "none" => hth'[t] # "none"
  <2>1. \E pc \in {"send", "done", "recv", "rDelete"} : hth' = [hth EXCEPT ![u] = pc] \/ hth' = hth
    BY DEF InStreams, ST!HostThread, ST!ThreadSendOpen, ST!ThreadSend, ST!ThreadSendEnd, ST!ThreadRecvCreate,
       ST!ThreadRecvGet, ST!ThreadRecvEnd, ST!Goto
  <2>2. hth \in [Thread -> ST!ThreadPc]
    BY DEF RunInv, Types
  <2>3. QED
    BY <2>1, <2>2
<1>3. Streaming' <=> Streaming
  <2>1. SlaveProcQ \in exists' <=> SlaveProcQ \in exists
    BY <1>1, OtherQueues
  <2>2. QED
    BY <1>1, <2>1, SlaveSame
<1>4. \A t \in 1 .. Len(plan) : t \in Thread
  BY PlanLines DEF RunInv, Types
<1>5. hpc = "spawn" => \A t \in 1 .. hi : t \in Thread
  BY PlanLines, MaxThreadsAssumption DEF RunInv, Types, ThreadsInv, Thread
<1>6. QED
  BY <1>1, <1>2, <1>3, <1>4, <1>5 DEF PaceInv

\* A task that sends opens a queue that its thread has created; a task that
\* receives is done only when its thread has sent.
LEMMA StTaskPace ==
  ASSUME OneWayPlans, RunInv, QuietInv, PaceInv, NEW u \in Thread, InStreams(ST!SlaveTask(u))
  PROVE  PaceInv'
<1> SUFFICES ASSUME ~ fault' PROVE PaceInv'
  BY DEF PaceInv
<1>1. /\ UNCHANGED <<hpc, hi, hth, plan, table>> /\ (fault => fault')
      /\ spc # "aborted" /\ stk[u] \notin {"none", "finished"}
      /\ \E pc \in ST!TaskPc : stk' = [stk EXCEPT ![u] = pc]
  BY TaskFrameFacts
<1>2. Streaming /\ Scope /\ StreamsInv /\ ~ fault /\ SP!IdsInv /\ SP!TypeInv /\ stk \in [Thread -> ST!TaskPc]
  BY <1>1, TasksStream, OneWayFits DEF StreamsInv, RunInv, Types
<1>3. \A t \in 1 .. Len(plan) : t \in Thread /\ plan[t].msgCount \in 1 .. IdRange - 1 /\ plan[t].direction # HS!bidirectional
  BY PlanLines DEF OneWayPlans, RunInv, Types
<1>4. ASSUME u \in 1 .. Len(plan), stk'[u] \in Passed, stk[u] \notin Passed PROVE hth[u] # "none"
  <2>1. ST!A15RecvQ(u) = A15RecvQ(u)
    BY StNames
  <2>2. stk[u] # "sendLost"
    BY <1>2, SpNames DEF QuietInv, SP!CalmInv
  <2>3. \/ stk[u] = "sOpen" /\ A15RecvQ(u) \in exists
        \/ stk[u] = "recv" /\ scnt[u] >= table[u].numMessages
    BY <1>2, <1>4, <2>1, <2>2 DEF Passed, InStreams, ST!SlaveTask, ST!TaskSendOpen, ST!TaskSend, ST!TaskSendEnd, ST!TaskRecvCreate,
       ST!TaskRecvGet, ST!TaskRecvEnd, ST!TaskCountRead, ST!TaskCountWrite, ST!Goto, ST!Fails
  <2>4. CASE stk[u] = "sOpen" /\ A15RecvQ(u) \in exists
    BY <2>4 DEF RunInv, OwnInv
  <2>5. CASE stk[u] = "recv" /\ scnt[u] >= table[u].numMessages
    <3>1. u \in SP!Lines /\ SP!LineInv(u)
      BY <1>2, <1>4 DEF SP!IdsInv, SP!Lines
    <3>2. table[u].numMessages = plan[u].msgCount /\ table[u].thrDirection = 1 - plan[u].direction
          /\ plan[u].direction \in {0, 1, 2} /\ plan[u].direction # 2
      BY <1>2, <1>3, <1>4, <3>1, SpNames, SP!LineFacts, StreamsAssumptions DEF SP!TypeInv, SP!TablePlanned
    <3>3. table[u].thrDirection = SP!unidirectional_recv
      BY <2>5, <3>1 DEF SP!LineInv, SP!RoleInv
    <3>4. SP!HostSends(u)
      BY <3>1, <3>2, <3>3 DEF SP!HostSends, SP!unidirectional_recv, SP!unidirectional_send
    <3>5. SP!Sent(u) = hcnt[u] /\ SP!Rcvd(u) = scnt[u]
      BY <2>5, <3>4 DEF SP!Sent, SP!Rcvd, stScnt
    <3>6. Len(Seen(StreamQ)[SP!StreamQueue(u)]) = hcnt[u] - scnt[u]
      BY <3>1, <3>5 DEF SP!LineInv, SP!ChannelInv
    <3>7. Len(Seen(StreamQ)[SP!StreamQueue(u)]) \in Nat
      <4>1. Seen(StreamQ) \in [SP!QueueName -> Seq(SP!StreamMessage)]
        BY <1>2 DEF SP!TypeInv, SP!QueuesInv
      <4>2. SP!StreamQueue(u) \in SP!QueueName
        BY SP!StreamQueues, StreamsAssumptions, SpNames DEF SP!StreamQueue
      <4>3. QED
        BY <4>1, <4>2
    <3>8. hcnt[u] \in Nat /\ scnt[u] \in Nat /\ plan[u].msgCount \in Nat \ {0}
      BY <1>3, <1>4, IdRangeAssumption DEF RunInv, Types
    <3>9. hcnt[u] # 0
      BY <2>5, <3>2, <3>6, <3>7, <3>8
    <3>10. QED
      BY <3>1, <3>9 DEF SP!LineInv, SP!RoleInv
  <2>6. QED
    BY <2>3, <2>4, <2>5
<1>5. \A t \in 1 .. Len(plan) : stk'[t] \in Passed => hth[t] # "none"
  <2> SUFFICES ASSUME NEW t \in 1 .. Len(plan), stk'[t] \in Passed PROVE hth[t] # "none"
    OBVIOUS
  <2>1. CASE stk[t] \in Passed
    BY <1>2, <2>1 DEF PaceInv
  <2>2. CASE stk[t] \notin Passed
    <3>1. t = u
      BY <1>1, <1>2, <1>3, <2>2
    <3>2. QED
      BY <1>4, <2>2, <3>1
  <2>3. QED
    BY <2>1, <2>2
<1>6. QED
  BY <1>1, <1>2, <1>5 DEF PaceInv

\* The transaction and the ends of a run: only where the slave has left the
\* streams are threads and tasks forgotten.
LEMMA OthersPace ==
  ASSUME BaseInv, RunInv, QuietInv, PaceInv,
         \/ InTransaction(DT!HostNext) \/ InTransaction(DT!SlaveNext)
         \/ HostStart \/ HostLeave \/ SlaveReset \/ SlaveFree
  PROVE  PaceInv'
<1> SUFFICES ASSUME ~ fault' PROVE PaceInv'
  BY DEF PaceInv
<1>1. CASE InTransaction(DT!HostNext)
  <2>1. /\ UNCHANGED <<plan, hth, stk, spc, table, hi>> /\ (fault => fault')
        /\ hpc \in {"dhCreate", "dhOpen", "dhPut", "dhGet", "dhDelete"}
        /\ hpc' \in {"dhOpen", "dhPut", "dhGet", "dhDelete", "leave"}
    BY <1>1 DEF InTransaction, DT!HostNext, DT!HostDataCreate, DT!HostDataOpen, DT!HostDataPut, DT!HostDataGet, DT!HostDataDelete,
       planVars, taskVars, threadVars, DT!Create, DT!CreateFails, DT!Fails, DT!Delete
  <2>2. spc # "aborted"
    BY <2>1 DEF QuietInv
  <2>3. Streaming' => Streaming
    BY <2>1, <2>2 DEF Streaming
  <2>4. hpc \notin HS!HostPc \cup {"idle"}
    BY <2>1 DEF HS!HostPc
  <2>5. hpc' # "spawn" /\ hpc' # "crashed"
    BY <2>1
  <2>6. QED
    BY <2>1, <2>3, <2>4, <2>5, PaceRests
<1>2. CASE InTransaction(DT!SlaveNext)
  <2>1. /\ UNCHANGED <<plan, hth, stk, hpc, table, hi>> /\ (fault => fault')
        /\ \/ spc = "dtCreate" /\ spc' \in {"dtGet", "aborted"}
           \/ spc = "dtGet" /\ spc' \in {"dtDelete", "aborted"}
           \/ spc = "dtDelete" /\ spc' = "slFree"
    BY <1>2 DEF InTransaction, DT!SlaveNext, DT!SlaveDataCreate, DT!SlaveDataGet, DT!SlaveDataDelete,
       planVars, taskVars, threadVars, DT!Create, DT!CreateFails, DT!Fails, DT!Delete
  <2>2. Streaming' => Streaming
    BY <2>1 DEF Streaming
  <2>3. QED
    BY <2>1, <2>2 DEF PaceInv
<1>3. CASE HostStart
  <2>1. ~ Streaming'
    <3>1. hpc = "idle" /\ UNCHANGED <<spc, table, exists, fault>>
      BY <1>3 DEF HostStart, mqVars
    <3>2. Ready
      BY <3>1 DEF RunInv, EndInv
    <3>3. QED
      BY <3>1, <3>2, ReadyNotStreaming DEF Streaming
  <2>2. hpc' = "hsCreate"
    BY <1>3 DEF HostStart
  <2>3. QED
    BY <2>1, <2>2 DEF PaceInv, HS!HostPc
<1>4. CASE HostLeave
  <2>1. UNCHANGED <<plan, hth, stk, spc, table, exists, fault>> /\ hpc' = "idle"
    BY <1>4 DEF HostLeave, mqVars, planVars, taskVars, threadVars
  <2>2. Streaming' => Streaming
    BY <2>1 DEF Streaming
  <2>3. QED
    BY <2>1, <2>2 DEF PaceInv
<1>5. CASE SlaveReset \/ SlaveFree
  <2>1. UNCHANGED <<plan, hth, hpc, hi, fault>> /\ spc' \in {"slCreate", "slReset"}
    BY <1>5 DEF SlaveReset, SlaveFree, mqVars, planVars, threadVars
  <2>2. ~ Streaming'
    BY <2>1 DEF Streaming
  <2>3. QED
    BY <2>1, <2>2 DEF PaceInv
<1>6. QED
  BY <1>1, <1>2, <1>3, <1>4, <1>5

\* It holds at the start.
LEMMA InitPace == Init => PaceInv
<1> SUFFICES ASSUME Init PROVE PaceInv
  OBVIOUS
<1>1. spc = "slReset" /\ hpc = "idle"
  BY DEF Init
<1>2. QED
  BY <1>1 DEF PaceInv, Streaming

\* So it holds after every step.
LEMMA NextPace ==
  ASSUME OneWayPlans
  PROVE  SessionInv /\ QuietInv /\ PaceInv /\ [Next]_vars => PaceInv'
<1> SUFFICES ASSUME SessionInv, QuietInv, PaceInv, [Next]_vars PROVE PaceInv'
  OBVIOUS
<1> SUFFICES ASSUME ~ fault' PROVE PaceInv'
  BY DEF PaceInv
<1>1. BaseInv /\ (fault => fault')
  <2>1. BaseInv
    BY DEF SessionInv
  <2>2. Next => (fault => fault')
    BY <2>1, FaultStays DEF BaseInv
  <2>3. QED
    BY <2>1, <2>2 DEF vars, mqVars
<1>2. RunInv
  BY <1>1 DEF SessionInv, Ok
<1>3. CASE UNCHANGED vars
  <2>1. UNCHANGED <<fault, exists, plan, hpc, hi, spc, table, hth, stk>>
    BY <1>3 DEF vars, mqVars, planVars, taskVars, threadVars
  <2>2. Streaming' <=> Streaming
    BY <2>1 DEF Streaming
  <2>3. QED
    BY <2>1, <2>2 DEF PaceInv
<1>4. CASE HostMain
  <2>1. InHandshake(HS!HostNext) => PaceInv'
    BY <1>1, <1>2, HandshakePace
  <2>2. InStreams(ST!HostMain) => PaceInv'
    BY <1>1, <1>2, StMainPace
  <2>3. InTransaction(DT!HostNext) \/ HostStart \/ HostLeave => PaceInv'
    BY <1>1, <1>2, OthersPace
  <2>4. QED
    BY <1>4, <2>1, <2>2, <2>3 DEF HostMain
<1>5. CASE SlaveMain
  <2>1. InHandshake(HS!SlaveNext) => PaceInv'
    BY <1>1, <1>2, HandshakePace
  <2>2. InStreams(ST!SlaveMain) => PaceInv'
    BY <1>1, <1>2, StMainPace
  <2>3. InTransaction(DT!SlaveNext) \/ SlaveReset \/ SlaveFree => PaceInv'
    BY <1>1, <1>2, OthersPace
  <2>4. QED
    BY <1>5, <2>1, <2>2, <2>3 DEF SlaveMain
<1>6. CASE \E t \in Thread : HostThread(t) \/ SlaveTask(t)
  <2>1. PICK t \in Thread : InStreams(ST!HostThread(t)) \/ InStreams(ST!SlaveTask(t))
    BY <1>6 DEF HostThread, SlaveTask
  <2>2. QED
    BY <1>1, <1>2, <2>1, StThreadPace, StTaskPace
<1>7. QED
  BY <1>3, <1>4, <1>5, <1>6 DEF Next

\* When every task has ended, the host has left its handshake.
LEMMA HostStreamsFirst ==
  ASSUME RunInv, PaceInv, ~ fault, spc \in {"dtCreate", "dtGet"}
  PROVE  hpc \notin HS!HostPc \ {"spawn"}
<1> SUFFICES ASSUME hpc \in HS!HostPc \ {"spawn"} PROVE FALSE
  OBVIOUS
<1>1. 1 \in 1 .. Len(plan) /\ 1 \in Thread
  <2>1. Len(plan) \in Nat \ {0} /\ 1 .. Len(plan) \subseteq Thread
    BY PlanLines DEF RunInv, Types
  <2>2. 1 \in 1 .. Len(plan)
    BY <2>1
  <2>3. QED
    BY <2>1, <2>2
<1>2. hth[1] = "none"
  BY <1>1 DEF RunInv, ThreadsInv, HostHandshakes
<1>3. numThreads >= 1
  <2>1. StreamsInv
    BY DEF RunInv, Scope, Streaming, HS!HostPc
  <2>2. numThreads = Len(plan)
    BY <2>1 DEF StreamsInv, SP!TypeInv, SP!PcInv
  <2>3. QED
    BY <2>2, PlanLines DEF RunInv, Types
<1>4. stk[1] = "finished"
  BY <1>1, <1>3 DEF RunInv, SlaveInv
<1>5. QED
  BY <1>1, <1>2, <1>4 DEF PaceInv, Streaming, Passed

\* The phases of Rounds.
hostAt ==
  CASE hpc \in {"idle", "crashed"} -> "idle"
    [] hpc \in HS!HostPc \ {"spawn"} -> "handshake"
    [] hpc \in {"spawn", "join"} -> "streams"
    [] OTHER -> "transaction"
slaveAt ==
  CASE spc \in {"slDelete", "slTasks", "slWait"} -> "streams"
    [] spc \in {"dtCreate", "dtGet"} -> "transaction"
    [] spc \in {"dtDelete", "slFree"} -> "replied"
    [] OTHER -> "ready"

RD == INSTANCE Rounds WITH host <- hostAt, slave <- slaveAt

\* Where the host and the slave are in them.
LEMMA HostAt ==
  /\ hpc \in {"idle", "crashed"} => hostAt = "idle"
  /\ hpc \in HS!HostPc \ {"spawn"} => hostAt = "handshake"
  /\ hpc \in {"spawn", "join"} => hostAt = "streams"
  /\ hpc \in {"dhCreate", "dhOpen", "dhPut", "dhGet", "dhDelete", "leave"} => hostAt = "transaction"
BY DEF hostAt, HS!HostPc

\* The same for the slave.
LEMMA SlaveAt ==
  /\ spc \in {"slDelete", "slTasks", "slWait"} => slaveAt = "streams"
  /\ spc \in {"dtCreate", "dtGet"} => slaveAt = "transaction"
  /\ spc \in {"dtDelete", "slFree"} => slaveAt = "replied"
  /\ spc \in {"slReset", "slCreate", "slGetCount", "slGetConf"} => slaveAt = "ready"
BY DEF slaveAt

\* The same after a step.
LEMMA HostAtNext ==
  /\ hpc' \in {"idle", "crashed"} => hostAt' = "idle"
  /\ hpc' \in HS!HostPc \ {"spawn"} => hostAt' = "handshake"
  /\ hpc' \in {"spawn", "join"} => hostAt' = "streams"
  /\ hpc' \in {"dhCreate", "dhOpen", "dhPut", "dhGet", "dhDelete", "leave"} => hostAt' = "transaction"
BY DEF hostAt, HS!HostPc

\* And for the slave.
LEMMA SlaveAtNext ==
  /\ spc' \in {"slDelete", "slTasks", "slWait"} => slaveAt' = "streams"
  /\ spc' \in {"dtCreate", "dtGet"} => slaveAt' = "transaction"
  /\ spc' \in {"dtDelete", "slFree"} => slaveAt' = "replied"
  /\ spc' \in {"slReset", "slCreate", "slGetCount", "slGetConf"} => slaveAt' = "ready"
BY DEF slaveAt

\* They are those of InStep.
LEMMA RoundsInStep == [RD!Next]_(RD!vars) => [InStep!Next]_(InStep!vars)
BY DEF RD!Next, RD!Progress, RD!HostStart, RD!SlaveAgrees, RD!HostAgrees, RD!HostStreamed, RD!SlaveStreamed, RD!SlaveReplies,
   RD!HostEnds, RD!SlaveEnds, RD!vars, InStep!Next, InStep!Progress, InStep!HostStart, InStep!SlaveAgrees, InStep!HostAgrees,
   InStep!HostStreamed, InStep!SlaveStreamed, InStep!SlaveReplies, InStep!HostEnds, InStep!SlaveEnds, InStep!vars, hostAt, slaveAt

\* The same of the state after a step.
LEMMA HostStreamsFirstNext ==
  (RunInv /\ PaceInv /\ ~ fault /\ spc \in {"dtCreate", "dtGet"} => hpc \notin HS!HostPc \ {"spawn"})'
<1>1. RunInv /\ PaceInv /\ ~ fault /\ spc \in {"dtCreate", "dtGet"} => hpc \notin HS!HostPc \ {"spawn"}
  BY HostStreamsFirst
<1>2. QED
  BY <1>1, PTL

\* What does not change where the two programs are is no step of Rounds.
LEMMA RoundsStutter == hostAt' = hostAt /\ slaveAt' = slaveAt => [RD!Next]_(RD!vars)
BY DEF RD!vars

\* The handshake: first the slave knows that it has been told everything, then
\* the host does.
LEMMA HandshakeInStep ==
  ASSUME BaseInv, RunInv, RunInv', QuietInv, PaceInv, ~ fault, ~ fault',
         InHandshake(HS!HostNext) \/ InHandshake(HS!SlaveNext)
  PROVE  [RD!Next]_(RD!vars)
<1>1. CASE InHandshake(HS!HostNext)
  <2>1. UNCHANGED spc /\ hpc \in HS!HostPc \ {"spawn"} /\ hpc' \in HS!HostPc /\ (Streaming' <=> Streaming)
    BY <1>1, HsHostFrame
  <2>2. slaveAt' = slaveAt /\ hostAt = "handshake"
    BY <2>1, HostAt DEF slaveAt
  <2>3. CASE hpc' # "spawn"
    <3>1. hostAt' = "handshake"
      BY <2>1, <2>3, HostAtNext
    <3>2. QED
      BY <2>2, <3>1, RoundsStutter
  <2>4. CASE hpc' = "spawn"
    <3>1. hsHost' = "spawn"
      BY <2>4 DEF hsHost, HS!HostPc
    <3>2. hsSlave' \in {"slDelete", "slTasks"}
      BY <3>1 DEF RunInv, HP!IInv, HP!AfterConf, HP!Complete
    <3>3. Streaming
      BY <2>1, <3>2 DEF hsSlave, Streaming
    <3>4. spc \in {"slDelete", "slTasks", "slWait", "dtCreate", "dtGet"}
      BY <3>3 DEF Streaming, QuietInv
    <3>5. spc \notin {"dtCreate", "dtGet"}
      BY <2>1, HostStreamsFirst
    <3>6. slaveAt = "streams"
      BY <3>4, <3>5, SlaveAt
    <3>7. hostAt' = "streams"
      BY <2>4, HostAtNext
    <3>8. RD!HostAgrees
      BY <2>2, <3>6, <3>7 DEF RD!HostAgrees
    <3>9. QED
      BY <3>8 DEF RD!Next, RD!Progress
  <2>5. QED
    BY <2>3, <2>4
<1>2. CASE InHandshake(HS!SlaveNext)
  <2>1. UNCHANGED hpc /\ spc' # "aborted"
    BY <1>2, HsSlaveFrame, HsSlavePlaces
  <2>2. hostAt' = hostAt
    BY <2>1 DEF hostAt
  <2>3. \/ spc \in {"slCreate", "slGetCount", "slGetConf"} /\ spc' \in {"slGetCount", "slGetConf"}
        \/ spc = "slGetConf" /\ spc' = "slDelete" /\ hpc = "hsGetConf"
        \/ spc = "slDelete" /\ spc' = "slTasks"
    BY <1>2, <2>1, HsSlavePlaces
  <2>4. CASE spc = "slGetConf" /\ spc' = "slDelete" /\ hpc = "hsGetConf"
    <3>1. hostAt = "handshake"
      BY <2>4, HostAt DEF HS!HostPc
    <3>2. slaveAt = "ready" /\ slaveAt' = "streams"
      BY <2>4, SlaveAt, SlaveAtNext
    <3>3. RD!SlaveAgrees
      BY <2>2, <3>1, <3>2 DEF RD!SlaveAgrees
    <3>4. QED
      BY <3>3 DEF RD!Next, RD!Progress
  <2>5. CASE ~ (spc = "slGetConf" /\ spc' = "slDelete" /\ hpc = "hsGetConf")
    <3>1. slaveAt' = slaveAt
      BY <2>3, <2>5, SlaveAt, SlaveAtNext
    <3>2. QED
      BY <2>2, <3>1, RoundsStutter
  <2>6. QED
    BY <2>4, <2>5
<1>3. QED
  BY <1>1, <1>2

\* The streams: either side may be the first to end them, with the other past
\* its handshake.
LEMMA StreamsInStep ==
  ASSUME BaseInv, RunInv, RunInv', QuietInv, QuietInv', PaceInv, PaceInv', ~ fault, ~ fault',
         \/ InStreams(ST!HostMain) \/ InStreams(ST!SlaveMain)
         \/ \E t \in Thread : InStreams(ST!HostThread(t)) \/ InStreams(ST!SlaveTask(t))
  PROVE  [RD!Next]_(RD!vars)
<1>1. CASE InStreams(ST!HostMain)
  <2>1. UNCHANGED spc /\ hpc \in {"spawn", "join"} /\ hpc' \in {"spawn", "join", "dhCreate", "crashed"}
    BY <1>1 DEF InStreams, ST!HostMain, ST!HostSpawn, ST!HostJoin, ST!slaveVars
  <2>2. slaveAt' = slaveAt /\ hostAt = "streams"
    BY <2>1, HostAt DEF slaveAt
  <2>3. CASE hpc' \in {"spawn", "join"}
    <3>1. hostAt' = "streams"
      BY <2>3, HostAtNext
    <3>2. QED
      BY <2>2, <3>1, RoundsStutter
  <2>4. CASE hpc' = "dhCreate"
    <3>1. Streaming
      BY <2>1, HostWithSlave
    <3>2. spc \in {"slDelete", "slTasks", "slWait", "dtCreate", "dtGet"}
      BY <3>1 DEF Streaming, QuietInv
    <3>3. slaveAt \in {"streams", "transaction"}
      BY <3>2, SlaveAt
    <3>4. hostAt' = "transaction"
      BY <2>4, HostAtNext
    <3>5. RD!HostStreamed
      BY <2>2, <3>3, <3>4 DEF RD!HostStreamed
    <3>6. QED
      BY <3>5 DEF RD!Next, RD!Progress
  <2>5. hpc' # "crashed"
    BY DEF PaceInv
  <2>6. QED
    BY <2>1, <2>3, <2>4, <2>5
<1>2. CASE InStreams(ST!SlaveMain)
  <2>1. UNCHANGED hpc /\ spc \in {"slTasks", "slWait"} /\ spc' \in {"slTasks", "slWait", "dtCreate"}
    BY <1>2 DEF InStreams, ST!SlaveMain, ST!SlaveCreateTask, ST!SlaveTasksCreated, ST!SlaveAllFinished, ST!hostVars
  <2>2. hostAt' = hostAt /\ slaveAt = "streams"
    BY <2>1, SlaveAt DEF hostAt
  <2>3. CASE spc' \in {"slTasks", "slWait"}
    <3>1. slaveAt' = "streams"
      BY <2>3, SlaveAtNext
    <3>2. QED
      BY <2>2, <3>1, RoundsStutter
  <2>4. CASE spc' = "dtCreate"
    <3>1. hpc \notin HS!HostPc \ {"spawn"}
      BY <2>1, <2>4, HostStreamsFirstNext
    <3>2. hpc \notin {"idle", "crashed"}
      BY <2>1, TasksStream DEF PaceInv
    <3>3. hpc \in {"spawn", "join", "dhCreate", "dhOpen", "dhPut", "dhGet", "dhDelete", "leave"}
      BY <3>1, <3>2 DEF RunInv, Types, HostPc, HS!HostPc, ST!HostPc, DT!HostPc
    <3>4. hostAt \in {"streams", "transaction"}
      BY <3>3, HostAt
    <3>5. slaveAt' = "transaction"
      BY <2>4, SlaveAtNext
    <3>6. RD!SlaveStreamed
      BY <2>2, <3>4, <3>5 DEF RD!SlaveStreamed
    <3>7. QED
      BY <3>6 DEF RD!Next, RD!Progress
  <2>5. QED
    BY <2>1, <2>3, <2>4
<1>3. ASSUME NEW t \in Thread, InStreams(ST!HostThread(t)) \/ InStreams(ST!SlaveTask(t)) PROVE [RD!Next]_(RD!vars)
  <2>1. UNCHANGED hpc /\ spc' \in {spc, "aborted"}
    BY <1>3, ThreadFrameFacts, TaskFrameFacts
  <2>2. UNCHANGED spc
    BY <2>1 DEF QuietInv
  <2>3. hostAt' = hostAt /\ slaveAt' = slaveAt
    BY <2>1, <2>2 DEF hostAt, slaveAt
  <2>4. QED
    BY <2>3, RoundsStutter
<1>4. QED
  BY <1>1, <1>2, <1>3

\* The transaction: the slave replies to a host that waits for the reply.
LEMMA TransactionInStep ==
  ASSUME RunInv, QuietInv', ~ fault', InTransaction(DT!HostNext) \/ InTransaction(DT!SlaveNext)
  PROVE  [RD!Next]_(RD!vars)
<1>1. CASE InTransaction(DT!HostNext)
  <2>1. /\ UNCHANGED spc
        /\ hpc \in {"dhCreate", "dhOpen", "dhPut", "dhGet", "dhDelete"}
        /\ hpc' \in {"dhOpen", "dhPut", "dhGet", "dhDelete", "leave"}
    BY <1>1 DEF InTransaction, DT!HostNext, DT!HostDataCreate, DT!HostDataOpen, DT!HostDataPut, DT!HostDataGet, DT!HostDataDelete
  <2>2. hostAt' = hostAt /\ slaveAt' = slaveAt
    BY <2>1, HostAt, HostAtNext DEF slaveAt
  <2>3. QED
    BY <2>2, RoundsStutter
<1>2. CASE InTransaction(DT!SlaveNext)
  <2>1. UNCHANGED hpc /\ spc' # "aborted"
    BY <1>2 DEF InTransaction, DT!SlaveNext, DT!SlaveDataCreate, DT!SlaveDataGet, DT!SlaveDataDelete, QuietInv
  <2>2. \/ spc = "dtCreate" /\ spc' = "dtGet"
        \/ spc = "dtGet" /\ spc' = "dtDelete" /\ pending[SlaveDataQ] # <<>>
        \/ spc = "dtDelete" /\ spc' = "slFree"
    <3>1. HS!SlaveProcQ = SlaveProcQ /\ DT!SlaveDataQ = SlaveDataQ
      BY HsNames DEF DT!SlaveDataQ, SlaveDataQ
    <3>2. QED
      BY <1>2, <2>1, <3>1 DEF InTransaction, DT!SlaveNext, DT!SlaveDataCreate, DT!SlaveDataGet, DT!SlaveDataDelete, DT!HasMessage
  <2>3. hostAt' = hostAt
    BY <2>1 DEF hostAt
  <2>4. CASE spc # "dtGet"
    <3>1. slaveAt' = slaveAt
      BY <2>2, <2>4, SlaveAt, SlaveAtNext
    <3>2. QED
      BY <2>3, <3>1, RoundsStutter
  <2>5. CASE spc = "dtGet"
    <3>1. hpc = "dhGet"
      BY <2>2, <2>5 DEF RunInv, DataInv
    <3>2. hostAt = "transaction"
      BY <3>1, HostAt
    <3>3. slaveAt = "transaction" /\ slaveAt' = "replied"
      BY <2>2, <2>5, SlaveAt, SlaveAtNext
    <3>4. RD!SlaveReplies
      BY <2>3, <3>2, <3>3 DEF RD!SlaveReplies
    <3>5. QED
      BY <3>4 DEF RD!Next, RD!Progress
  <2>6. QED
    BY <2>4, <2>5
<1>3. QED
  BY <1>1, <1>2

\* The ends: a run is started while the slave may still clean up after the one
\* before, and left only when the slave has replied.
LEMMA EndsInStep ==
  ASSUME RunInv, QuietInv, ~ fault, HostStart \/ HostLeave \/ SlaveReset \/ SlaveFree
  PROVE  [RD!Next]_(RD!vars)
<1>1. CASE HostStart
  <2>1. hpc = "idle" /\ hpc' \in HS!HostPc \ {"spawn"} /\ UNCHANGED spc
    BY <1>1 DEF HostStart, HS!HostPc
  <2>2. hostAt = "idle" /\ hostAt' = "handshake" /\ slaveAt' = slaveAt
    BY <2>1, HostAt, HostAtNext DEF slaveAt
  <2>3. RD!HostStart
    BY <2>2 DEF RD!HostStart
  <2>4. QED
    BY <2>3 DEF RD!Next
<1>2. CASE HostLeave
  <2>1. hpc = "leave" /\ hpc' = "idle" /\ UNCHANGED spc
    BY <1>2 DEF HostLeave
  <2>2. hostAt = "transaction" /\ hostAt' = "idle" /\ slaveAt' = slaveAt
    BY <2>1, HostAt, HostAtNext DEF slaveAt
  <2>3. Ready /\ spc # "aborted"
    BY <2>1 DEF RunInv, EndInv, QuietInv
  <2>4. spc \in {"dtDelete", "slFree", "slReset", "slCreate", "slGetCount"}
    BY <2>3, ReadyNotStreaming DEF Ready, hsSlave
  <2>5. slaveAt \in {"replied", "ready"}
    BY <2>4, SlaveAt
  <2>6. RD!HostEnds
    BY <2>2, <2>5 DEF RD!HostEnds
  <2>7. QED
    BY <2>6 DEF RD!Next, RD!Progress
<1>3. CASE SlaveReset
  <2>1. UNCHANGED hpc /\ spc = "slReset" /\ spc' = "slCreate"
    BY <1>3 DEF SlaveReset
  <2>2. hostAt' = hostAt /\ slaveAt' = slaveAt
    BY <2>1, SlaveAt, SlaveAtNext DEF hostAt
  <2>3. QED
    BY <2>2, RoundsStutter
<1>4. CASE SlaveFree
  <2>1. UNCHANGED hpc /\ spc = "slFree" /\ spc' = "slReset"
    BY <1>4 DEF SlaveFree
  <2>2. hostAt' = hostAt /\ slaveAt = "replied" /\ slaveAt' = "ready"
    BY <2>1, SlaveAt, SlaveAtNext DEF hostAt
  <2>3. RD!SlaveEnds
    BY <2>2 DEF RD!SlaveEnds
  <2>4. QED
    BY <2>3 DEF RD!Next, RD!Progress
<1>5. QED
  BY <1>1, <1>2, <1>3, <1>4

\* Every step of a run without failure is one of Rounds, or none.
LEMMA NextInStep ==
  ASSUME BaseInv, RunInv, RunInv', QuietInv, QuietInv', PaceInv, PaceInv', ~ fault, ~ fault', Next
  PROVE  [RD!Next]_(RD!vars)
<1>1. CASE HostMain
  <2>1. InHandshake(HS!HostNext) => [RD!Next]_(RD!vars)
    BY HandshakeInStep
  <2>2. InStreams(ST!HostMain) => [RD!Next]_(RD!vars)
    BY StreamsInStep
  <2>3. InTransaction(DT!HostNext) => [RD!Next]_(RD!vars)
    BY TransactionInStep
  <2>4. HostStart \/ HostLeave => [RD!Next]_(RD!vars)
    BY EndsInStep
  <2>5. QED
    BY <1>1, <2>1, <2>2, <2>3, <2>4 DEF HostMain
<1>2. CASE SlaveMain
  <2>1. InHandshake(HS!SlaveNext) => [RD!Next]_(RD!vars)
    BY HandshakeInStep
  <2>2. InStreams(ST!SlaveMain) => [RD!Next]_(RD!vars)
    BY StreamsInStep
  <2>3. InTransaction(DT!SlaveNext) => [RD!Next]_(RD!vars)
    BY TransactionInStep
  <2>4. SlaveReset \/ SlaveFree => [RD!Next]_(RD!vars)
    BY EndsInStep
  <2>5. QED
    BY <1>2, <2>1, <2>2, <2>3, <2>4 DEF SlaveMain
<1>3. CASE \E t \in Thread : HostThread(t) \/ SlaveTask(t)
  <2>1. \E t \in Thread : InStreams(ST!HostThread(t)) \/ InStreams(ST!SlaveTask(t))
    BY <1>3 DEF HostThread, SlaveTask
  <2>2. QED
    BY <2>1, StreamsInStep
<1>4. QED
  BY <1>1, <1>2, <1>3 DEF Next

\* Where every line moves messages one way and their count fits in the host's
\* counter, until a call fails: the two programs go through handshake, streams
\* and transaction in step, run after run, as module Rounds promises. This holds
\* with one core or two, and however the end of one run overlaps the start of the
\* next.
THEOREM SessionStaysInStep ==
  ASSUME OneWayPlans
  PROVE  Spec => StaysInStepSafely
<1>1. Spec => []SessionInv
  BY SessionInvariant
<1>2. Init => QuietInv /\ PaceInv
  BY InitQuiet, InitPace
<1>3. SessionInv /\ QuietInv /\ PaceInv /\ [Next]_vars => QuietInv' /\ PaceInv'
  BY OneWayFits, NextQuiet, NextPace
<1>4. SessionInv /\ SessionInv' /\ QuietInv /\ QuietInv' /\ PaceInv /\ PaceInv' /\ [Next]_vars
        => [fault' \/ InStep!Next]_(InStep!vars)
  <2> SUFFICES ASSUME SessionInv, SessionInv', QuietInv, QuietInv', PaceInv, PaceInv', [Next]_vars
               PROVE  [fault' \/ InStep!Next]_(InStep!vars)
    OBVIOUS
  <2>1. CASE fault'
    BY <2>1
  <2>2. CASE ~ fault' /\ Next
    <3>1. BaseInv /\ ~ fault
      <4>1. BaseInv
        BY DEF SessionInv
      <4>2. fault => fault'
        BY <2>2, <4>1, FaultStays DEF BaseInv
      <4>3. QED
        BY <2>2, <4>1, <4>2
    <3>2. RunInv /\ RunInv'
      BY <2>2, <3>1 DEF SessionInv, Ok
    <3>3. [RD!Next]_(RD!vars)
      BY <2>2, <3>1, <3>2, NextInStep
    <3>4. [InStep!Next]_(InStep!vars)
      BY <3>3, RoundsInStep
    <3>5. QED
      BY <3>4
  <2>3. CASE ~ fault' /\ UNCHANGED vars
    <3>1. UNCHANGED <<hpc, spc>>
      BY <2>3 DEF vars
    <3>2. [RD!Next]_(RD!vars)
      BY <3>1, RoundsStutter DEF hostAt, slaveAt
    <3>3. [InStep!Next]_(InStep!vars)
      BY <3>2, RoundsInStep
    <3>4. QED
      BY <3>3
  <2>4. QED
    BY <2>1, <2>2, <2>3
<1>5. QED
  BY <1>1, <1>2, <1>3, <1>4, PTL DEF Spec, StaysInStepSafely

=============================================================================
