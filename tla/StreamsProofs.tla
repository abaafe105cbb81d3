--------------------------- MODULE StreamsProofs ---------------------------
(***************************************************************************)
(* Proofs about module Streams, for every set of plans, every number of    *)
(* threads and every set of library calls that may fail.                   *)
(***************************************************************************)
EXTENDS Streams, FiniteSetTheorems, TLAPS

-----------------------------------------------------------------------------
(* Induction, in the first-order form that the provers can use. *)

\* A set of natural numbers that is not empty has a least element.
LEMMA LeastNumber ==
  ASSUME NEW T \in SUBSET Nat, T # {}
  PROVE  \E n \in T : \A m \in T : n <= m
<1>1. IsWellFoundedOn(OpToRel(<, Nat), Nat)
  BY NatLessThanWellFounded
<1>2. PICK x \in T : \A y \in T : ~ (<<y, x>> \in OpToRel(<, Nat))
  BY <1>1, WFMin
<1>3. \A y \in T : ~ (y < x)
  BY <1>2 DEF OpToRel
<1>4. QED
  BY <1>3

\* A plan is a sequence of lines, at least one, each with its three numbers.
LEMMA LinesOfPlan ==
  ASSUME NEW p \in Plans
  PROVE  /\ p \in Seq(ThreadConf) /\ Len(p) \in Nat \ {0} /\ 1 .. Len(p) \subseteq Thread
         /\ \A i \in 1 .. Len(p) :
              /\ p[i].msgSize \in Nat /\ p[i].msgCount \in Nat
              /\ p[i].direction \in ThreadDirection
<1>1. p \in Seq(ThreadConf) /\ Len(p) \in Thread
  BY PlansAssumption
<1>2. \A i \in 1 .. Len(p) : p[i] \in ThreadConf
  BY <1>1
<1>3. QED
  BY <1>1, <1>2, MaxThreadsAssumption DEF Thread, ThreadConf

\* The functions f on 1 .. m that the definition of RegionStart describes.
IsStart(p, m, f) ==
  /\ f \in [1 .. m -> Nat]
  /\ \A i \in 1 .. m : f[i] = IF i = 1 THEN BufBase ELSE f[i - 1] + p[i - 1].msgSize

\* The offsets of the first m lines can be computed.
LEMMA StartExists ==
  ASSUME NEW p \in Plans, NEW m \in 0 .. Len(p)
  PROVE  \E f : IsStart(p, m, f)
<1> DEFINE T == {n \in 0 .. Len(p) : ~ \E f : IsStart(p, n, f)}
<1>0. /\ Len(p) \in Nat
      /\ \A i \in 1 .. Len(p) : p[i].msgSize \in Nat
  BY LinesOfPlan
<1> SUFFICES T = {}
  OBVIOUS
<1>1. SUFFICES ASSUME T # {} PROVE FALSE
  OBVIOUS
<1>2. PICK n \in T : \A k \in T : n <= k
  <2>1. T \in SUBSET Nat
    BY <1>0
  <2>2. QED
    BY <1>1, <2>1, LeastNumber
<1>3. n # 0
  <2>1. IsStart(p, 0, [i \in 1 .. 0 |-> 0])
    BY DEF IsStart
  <2>2. QED
    BY <2>1
<1>4. n - 1 \in 0 .. Len(p) /\ n - 1 \notin T
  <2>1. n \in 1 .. Len(p) /\ n - 1 \in 0 .. Len(p)
    BY <1>0, <1>2, <1>3
  <2> HIDE DEF T
  <2>2. n - 1 \in T => n <= n - 1
    BY <1>2
  <2>3. QED
    BY <2>1, <2>2
<1>5. PICK f : IsStart(p, n - 1, f)
  BY <1>4
<1> DEFINE last == IF n = 1 THEN BufBase ELSE f[n - 1] + p[n - 1].msgSize
           g == [i \in 1 .. n |-> IF i = n THEN last ELSE f[i]]
<1>6. last \in Nat
  BY <1>0, <1>3, <1>5, BufBaseAssumption DEF IsStart
<1>7. g \in [1 .. n -> Nat]
  BY <1>0, <1>5, <1>6 DEF IsStart
<1>8. ASSUME NEW i \in 1 .. n
      PROVE  g[i] = IF i = 1 THEN BufBase ELSE g[i - 1] + p[i - 1].msgSize
  BY <1>0, <1>5, <1>3 DEF IsStart
<1>9. IsStart(p, n, g)
  BY <1>7, <1>8 DEF IsStart
<1>10. QED
  BY <1>9

\* RegionStart is that function for the whole plan: the regions of the shared
\* buffer lie one after another.
LEMMA RegionStartFacts ==
  ASSUME NEW p \in Plans
  PROVE  IsStart(p, Len(p), RegionStart(p))
<1> DEFINE R(g) == g = [i \in 1 .. Len(p) |->
                          IF i = 1 THEN BufBase ELSE g[i - 1] + p[i - 1].msgSize]
<1>1. PICK f : IsStart(p, Len(p), f)
  BY LinesOfPlan, StartExists
<1>2. R(f)
  BY <1>1 DEF IsStart
<1>3. RegionStart(p) = CHOOSE g : R(g)
  BY DEF RegionStart
<1>4. R(RegionStart(p))
  <2> HIDE DEF R
  <2> QED
    BY <1>2, <1>3
<1> DEFINE T == {i \in 1 .. Len(p) : RegionStart(p)[i] # f[i]}
<1>5. T = {}
  <2> SUFFICES ASSUME T # {} PROVE FALSE
    OBVIOUS
  <2>1. PICK i \in T : \A k \in T : i <= k
    <3>1. T \in SUBSET Nat
      BY LinesOfPlan
    <3>2. QED
      BY <3>1, LeastNumber
  <2>2. i # 1 => RegionStart(p)[i - 1] = f[i - 1]
    BY <2>1, LinesOfPlan
  <2>3. QED
    BY <1>2, <1>4, <2>1, <2>2
<1>6. RegionStart(p) = f
  <2> DEFINE S == RegionStart(p)
  <2>1. S = [i \in 1 .. Len(p) |-> IF i = 1 THEN BufBase ELSE S[i - 1] + p[i - 1].msgSize]
    BY <1>4
  <2> HIDE DEF S
  <2>2. S = [i \in 1 .. Len(p) |-> S[i]]
    BY <2>1
  <2>3. f = [i \in 1 .. Len(p) |-> f[i]]
    BY <1>1 DEF IsStart
  <2>4. \A i \in 1 .. Len(p) : S[i] = f[i]
    BY <1>5 DEF S
  <2>5. S = f
    BY <2>2, <2>3, <2>4
  <2>6. QED
    BY <2>5 DEF S
<1>7. QED
  BY <1>1, <1>6

-----------------------------------------------------------------------------
(* Queues and the messages in them. *)

\* The queues of the streams are registered under different names.
LEMMA StreamQueues ==
  \A t, u \in Thread :
    /\ M4RecvQ(t) \in StreamQ /\ A15RecvQ(t) \in StreamQ
    /\ M4RecvQ(t) \in QueueName /\ A15RecvQ(t) \in QueueName
    /\ M4RecvQ(t) # A15RecvQ(u)
    /\ M4RecvQ(t) = M4RecvQ(u) => t = u
    /\ A15RecvQ(t) = A15RecvQ(u) => t = u
BY DEF StreamQ, QueueName, M4RecvQ, A15RecvQ

StreamMessage == [id : 0 .. IdRange - 1, boBufPayloadPtr : Nat, boBufPayloadSize : Nat]

\* Messages that carry thread t's part of the buffer.
OwnMessage(t) ==
  {m \in StreamMessage : /\ m.boBufPayloadPtr = table[t].boBufPayloadPtr
                         /\ m.boBufPayloadSize = table[t].boBufPayloadSize}

\* The places taken in the queues.
Waiting == UNION {{q} \X (1 .. Len(pending[q])) : q \in QueueName}

\* What a step may do to the queues: a line's thread or task puts one of its
\* own messages, a message is taken, and freed or not, a queue is deleted, or
\* messages are only allocated.
SomePut ==
  \E t \in Lines : \E q \in {M4RecvQ(t), A15RecvQ(t)}, m \in OwnMessage(t) :
    pending' = [pending EXCEPT ![q] = Append(@, m)] /\ live' = live + 1

SomeTake ==
  \E q \in QueueName :
    HasMessage(q) /\ pending' = WithoutHead(pending, q) /\ live' \in {live, live - 1}

SomeDelete == \E q \in QueueName : pending' = [pending EXCEPT ![q] = <<>>] /\ live' = live

NoMove == pending' = pending /\ live' \in {live, live + 1}

-----------------------------------------------------------------------------
(* The types, with what they need: a message that is freed was allocated, the *)
(* slave's table and the host's running offset follow from the plan.          *)

TablePlanned ==
  /\ table \in [Lines -> [boBufPayloadPtr : Nat, boBufPayloadSize : Nat,
                          numMessages : Nat, thrDirection : ThreadDirection]]
  /\ \A t \in Lines :
       /\ table[t].boBufPayloadSize = plan[t].msgSize
       /\ table[t].numMessages = plan[t].msgCount
       /\ plan[t].direction # bidirectional =>
            table[t].thrDirection = 1 - plan[t].direction
       /\ table[t].boBufPayloadPtr =
            IF t = 1 THEN BufBase ELSE table[t - 1].boBufPayloadPtr + plan[t - 1].msgSize

Regions ==
  /\ hpc = "spawn" => BufBase + hoff = table[hi + 1].boBufPayloadPtr
  /\ \A t \in Lines : hth[t] # "none" => hptr[t] = table[t].boBufPayloadPtr

OnlyLines == \A t \in Thread \ Lines : hth[t] = "none" /\ stk[t] = "none"

QueuesInv ==
  /\ pending \in [QueueName -> Seq(StreamMessage)]
  /\ \A t \in Lines : /\ pending[M4RecvQ(t)] \in Seq(OwnMessage(t))
                      /\ pending[A15RecvQ(t)] \in Seq(OwnMessage(t))

LiveInv == IsFiniteSet(Waiting) /\ Cardinality(Waiting) <= live

PcInv ==
  /\ fault \in BOOLEAN /\ exists \subseteq StreamQ
  /\ hpc \in HostPc /\ hi \in 0 .. Len(plan) /\ hoff \in Nat
  /\ hpc \in {"spawn", "join"} => hi < Len(plan)
  /\ spc \in SlavePc /\ si \in 0 .. numThreads /\ numThreads = Len(plan)
  /\ hth \in [Thread -> ThreadPc] /\ hcnt \in [Thread -> 0 .. IdRange - 1]
  /\ hptr \in [Thread -> Nat]
  /\ stk \in [Thread -> TaskPc] /\ scnt \in [Thread -> Nat]
  /\ finished \in Nat /\ reg \in [Thread -> Nat]

TypeInv ==
  /\ plan \in Plans /\ TablePlanned
  /\ PcInv /\ OnlyLines /\ Regions
  /\ live \in Nat /\ QueuesInv /\ LiveInv

\* A number of two bytes.
LEMMA IdInRange == \A n \in Nat : n % IdRange \in 0 .. IdRange - 1
BY IdRangeAssumption

\* What the types say of the lines of a plan.
LEMMA LineFacts ==
  ASSUME plan \in Plans
  PROVE  /\ Len(plan) \in Nat \ {0} /\ Lines \subseteq Thread
         /\ \A t \in Lines : /\ plan[t].msgSize \in Nat /\ plan[t].msgCount \in Nat
                             /\ plan[t].direction \in ThreadDirection
BY LinesOfPlan DEF Lines

\* The types hold at the start.
LEMMA InitTypeInv == Init => TypeInv
<1> SUFFICES ASSUME Init PROVE TypeInv
  OBVIOUS
<1>1. /\ plan \in Plans /\ Len(plan) \in Nat \ {0} /\ Lines \subseteq Thread
      /\ \A t \in Lines : /\ plan[t].msgSize \in Nat /\ plan[t].msgCount \in Nat
                          /\ plan[t].direction \in ThreadDirection
  BY LineFacts DEF Init
<1>2. IsStart(plan, Len(plan), RegionStart(plan))
  BY <1>1, RegionStartFacts
<1>3. PICK dirs \in [1 .. Len(plan) -> ThreadDirection] :
        /\ \A i \in 1 .. Len(plan) :
             plan[i].direction # bidirectional => dirs[i] = 1 - plan[i].direction
        /\ table = TableFor(plan, dirs)
  BY DEF Init
<1>4. TablePlanned
  BY <1>1, <1>2, <1>3 DEF TablePlanned, TableFor, IsStart, Lines
<1>5. PcInv
  <2>1. 0 \in 0 .. IdRange - 1
    BY IdRangeAssumption
  <2>2. /\ hth \in [Thread -> ThreadPc] /\ hcnt \in [Thread -> 0 .. IdRange - 1]
        /\ hptr \in [Thread -> Nat]
        /\ stk \in [Thread -> TaskPc] /\ scnt \in [Thread -> Nat]
        /\ reg \in [Thread -> Nat]
    BY <2>1 DEF Init, ThreadPc, TaskPc
  <2>3. fault \in BOOLEAN /\ exists \subseteq StreamQ /\ hpc \in HostPc /\ spc \in SlavePc
    BY DEF Init, MqInit, HostPc, SlavePc
  <2>4. /\ hi \in 0 .. Len(plan) /\ hoff \in Nat /\ hi < Len(plan) /\ finished \in Nat
        /\ numThreads = Len(plan) /\ si \in 0 .. numThreads
    BY <1>1 DEF Init
  <2>5. QED
    BY <2>2, <2>3, <2>4 DEF PcInv
<1>6. OnlyLines
  BY DEF Init, OnlyLines
<1>7. Regions
  <2>1. 1 \in Lines /\ hi + 1 = 1 /\ BufBase + hoff = BufBase
    BY <1>1, BufBaseAssumption DEF Init, Lines
  <2>2. BufBase + hoff = table[hi + 1].boBufPayloadPtr
    BY <1>4, <2>1 DEF TablePlanned
  <2>3. \A t \in Lines : hth[t] = "none"
    BY <1>1 DEF Init
  <2>4. QED
    BY <2>2, <2>3 DEF Regions
<1>8. QueuesInv
  BY <1>1, StreamQueues DEF Init, MqInit, QueuesInv
<1>9. live \in Nat /\ LiveInv
  <2>1. Waiting = {}
    BY DEF Init, MqInit, Waiting
  <2>2. QED
    BY <2>1, FS_EmptySet DEF Init, MqInit, LiveInv
<1>10. QED
  BY <1>1, <1>4, <1>5, <1>6, <1>7, <1>8, <1>9 DEF TypeInv, Init

\* However the queues change, the messages in them stay of their own kind.
LEMMA MessagesKept ==
  ASSUME plan \in Plans, QueuesInv, UNCHANGED <<plan, table>>,
         SomePut \/ SomeTake \/ SomeDelete \/ NoMove
  PROVE  QueuesInv'
<1>1. Lines' = Lines /\ \A t \in Lines : OwnMessage(t)' = OwnMessage(t)
  BY DEF Lines, OwnMessage
<1>2. \A t \in Lines : OwnMessage(t) \subseteq StreamMessage
  BY DEF OwnMessage
<1>3. Lines \subseteq Thread
  BY LineFacts
<1>4. CASE SomePut
  <2>0. PICK t \in Lines : \E q \in {M4RecvQ(t), A15RecvQ(t)}, m \in OwnMessage(t) :
          pending' = [pending EXCEPT ![q] = Append(@, m)]
    BY <1>4 DEF SomePut
  <2>1. PICK q \in {M4RecvQ(t), A15RecvQ(t)}, m \in OwnMessage(t) :
          pending' = [pending EXCEPT ![q] = Append(@, m)]
    BY <2>0
  <2>2. q \in QueueName /\ m \in StreamMessage
    BY <1>2, <1>3, <2>1, StreamQueues
  <2>3. pending' \in [QueueName -> Seq(StreamMessage)]
    BY <2>1, <2>2 DEF QueuesInv
  <2>4. ASSUME NEW u \in Lines, NEW r \in {M4RecvQ(u), A15RecvQ(u)}
        PROVE  pending'[r] \in Seq(OwnMessage(u))
    <3>1. r \in QueueName /\ pending[r] \in Seq(OwnMessage(u))
      BY <1>3, StreamQueues DEF QueuesInv
    <3>2. r = q => u = t
      BY <1>3, <2>1, StreamQueues
    <3>3. CASE r = q
      <4>1. pending'[r] = Append(pending[r], m) /\ m \in OwnMessage(u)
        BY <2>1, <2>2, <3>2, <3>3 DEF QueuesInv
      <4>2. QED
        BY <3>1, <4>1
    <3>4. CASE r # q
      BY <2>1, <3>1, <3>4 DEF QueuesInv
    <3>5. QED
      BY <3>3, <3>4
  <2>5. QED
    BY <1>1, <2>3, <2>4 DEF QueuesInv
<1>5. CASE SomeTake
  <2>1. PICK q \in QueueName : HasMessage(q) /\ pending' = WithoutHead(pending, q)
    BY <1>5 DEF SomeTake
  <2>2. \A S : pending[q] \in Seq(S) => Tail(pending[q]) \in Seq(S)
    BY <2>1 DEF HasMessage
  <2>3. pending' = [pending EXCEPT ![q] = Tail(pending[q])]
    BY <2>1 DEF WithoutHead
  <2>4. QED
    BY <1>1, <1>3, <2>2, <2>3, StreamQueues DEF QueuesInv
<1>6. CASE SomeDelete
  <2>1. PICK q \in QueueName : pending' = [pending EXCEPT ![q] = <<>>]
    BY <1>6 DEF SomeDelete
  <2>2. \A S : <<>> \in Seq(S)
    OBVIOUS
  <2>3. QED
    BY <1>1, <1>3, <2>1, <2>2, StreamQueues DEF QueuesInv
<1>7. CASE NoMove
  BY <1>1, <1>7 DEF NoMove, QueuesInv
<1>8. QED
  BY <1>4, <1>5, <1>6, <1>7

\* The places after each kind of change.
LEMMA WaitingAfterPut ==
  ASSUME QueuesInv, NEW q \in QueueName, NEW m \in StreamMessage,
         pending' = [pending EXCEPT ![q] = Append(@, m)]
  PROVE  Waiting' = Waiting \cup {<<q, Len(pending[q]) + 1>>}
<1>1. pending \in [QueueName -> Seq(StreamMessage)]
  BY DEF QueuesInv
<1>2. Len(pending[q]) \in Nat /\ Len(pending'[q]) = Len(pending[q]) + 1
  BY <1>1
<1>3. \A r \in QueueName : r # q => pending'[r] = pending[r]
  BY <1>1
<1>4. 1 .. Len(pending'[q]) = (1 .. Len(pending[q])) \cup {Len(pending[q]) + 1}
  BY <1>2
<1>5. \A w : w \in Waiting' <=> \E r \in QueueName : w \in {r} \X (1 .. Len(pending'[r]))
  BY DEF Waiting
<1>6. \A w : w \in Waiting <=> \E r \in QueueName : w \in {r} \X (1 .. Len(pending[r]))
  BY DEF Waiting
<1>7. {q} \X (1 .. Len(pending'[q])) =
        ({q} \X (1 .. Len(pending[q]))) \cup {<<q, Len(pending[q]) + 1>>}
  BY <1>4
<1>8. QED
  BY <1>3, <1>5, <1>6, <1>7

\* It grows by at most one place, or shrinks.
LEMMA LiveKept ==
  ASSUME plan \in Plans, QueuesInv, LiveInv, live \in Nat, 
         SomePut \/ SomeTake \/ SomeDelete \/ NoMove
  PROVE  LiveInv' /\ live' \in Nat
<1>0. pending \in [QueueName -> Seq(StreamMessage)]
  BY DEF QueuesInv
<1>1. IsFiniteSet(Waiting) /\ Cardinality(Waiting) \in Nat /\ Cardinality(Waiting) <= live
  BY FS_CardinalityType DEF LiveInv
<1>2. CASE SomePut
  <2>0. PICK t \in Lines : \E q \in {M4RecvQ(t), A15RecvQ(t)}, m \in OwnMessage(t) :
          pending' = [pending EXCEPT ![q] = Append(@, m)] /\ live' = live + 1
    BY <1>2 DEF SomePut
  <2>1. PICK q \in {M4RecvQ(t), A15RecvQ(t)}, m \in OwnMessage(t) :
          pending' = [pending EXCEPT ![q] = Append(@, m)] /\ live' = live + 1
    BY <2>0
  <2>2. q \in QueueName /\ m \in StreamMessage
    BY LineFacts, StreamQueues DEF OwnMessage
  <2>3. Waiting' = Waiting \cup {<<q, Len(pending[q]) + 1>>}
    BY <2>1, <2>2, WaitingAfterPut
  <2>4. /\ IsFiniteSet(Waiting')
        /\ Cardinality(Waiting') \in {Cardinality(Waiting), Cardinality(Waiting) + 1}
    BY <1>1, <2>3, FS_AddElement
  <2>5. QED
    BY <1>1, <2>1, <2>4 DEF LiveInv
<1>3. CASE SomeTake
  <2>1. PICK q \in QueueName : /\ HasMessage(q) /\ pending' = WithoutHead(pending, q)
                               /\ live' \in {live, live - 1}
    BY <1>3 DEF SomeTake
  <2>2. Len(pending[q]) \in Nat \ {0} /\ Len(pending'[q]) = Len(pending[q]) - 1
    BY <1>0, <2>1 DEF HasMessage, WithoutHead
  <2>3. \A r \in QueueName : r # q => pending'[r] = pending[r]
    BY <1>0, <2>1 DEF WithoutHead
  <2>4. \A r \in QueueName : 1 .. Len(pending'[r]) \subseteq 1 .. Len(pending[r])
    BY <2>2, <2>3
  <2> DEFINE last == <<q, Len(pending[q])>>
  <2>5. last \in Waiting /\ last \notin Waiting'
    BY <2>2 DEF Waiting
  <2>6. Waiting' \subseteq Waiting \ {last}
    BY <2>4, <2>5 DEF Waiting
  <2>7. /\ IsFiniteSet(Waiting \ {last})
        /\ Cardinality(Waiting \ {last}) = Cardinality(Waiting) - 1
    BY <1>1, <2>5, FS_RemoveElement
  <2>8. IsFiniteSet(Waiting') /\ Cardinality(Waiting') <= Cardinality(Waiting) - 1
    BY <2>6, <2>7, FS_Subset
  <2>9. Cardinality(Waiting') \in Nat
    BY <2>8, FS_CardinalityType
  <2>10. QED
    BY <1>1, <2>1, <2>8, <2>9 DEF LiveInv
<1>4. CASE SomeDelete
  <2>1. PICK q \in QueueName : pending' = [pending EXCEPT ![q] = <<>>] /\ live' = live
    BY <1>4 DEF SomeDelete
  <2>2. Len(pending'[q]) = 0 /\ \A r \in QueueName : r # q => pending'[r] = pending[r]
    BY <1>0, <2>1
  <2>3. \A r \in QueueName : 1 .. Len(pending'[r]) \subseteq 1 .. Len(pending[r])
    BY <2>2
  <2>4. Waiting' \subseteq Waiting
    BY <2>3 DEF Waiting
  <2>5. IsFiniteSet(Waiting') /\ Cardinality(Waiting') <= Cardinality(Waiting)
    BY <1>1, <2>4, FS_Subset
  <2>6. Cardinality(Waiting') \in Nat
    BY <2>5, FS_CardinalityType
  <2>7. QED
    BY <1>1, <2>1, <2>5, <2>6 DEF LiveInv
<1>5. CASE NoMove
  <2>1. Waiting' = Waiting
    BY <1>5 DEF NoMove, Waiting
  <2>2. QED
    BY <1>1, <1>5, <2>1 DEF NoMove, LiveInv
<1>6. QED
  BY <1>2, <1>3, <1>4, <1>5

\* Every action leaves the plan and the table alone, does one of the four
\* things to the queues, and keeps the rest of TypeInv.
GoodStep ==
  /\ UNCHANGED <<plan, table>>
  /\ SomePut \/ SomeTake \/ SomeDelete \/ NoMove
  /\ PcInv' /\ OnlyLines' /\ Regions'

\* Every action keeps the types and moves at most one message: pthread_create,
LEMMA HostSpawnGood == TypeInv /\ HostSpawn => GoodStep
<1> SUFFICES ASSUME TypeInv, HostSpawn PROVE GoodStep
  OBVIOUS
<1> USE DEF HostSpawn, slaveVars, taskVars, Fails, Goto
<1> DEFINE t == hi + 1
<1>1. /\ Len(plan) \in Nat \ {0} /\ Lines \subseteq Thread /\ t \in Lines /\ t \in Thread
      /\ plan[t].msgSize \in Nat /\ hoff \in Nat /\ hi \in Nat
  <2>1. Len(plan) \in Nat \ {0} /\ Lines \subseteq Thread
    BY LineFacts DEF TypeInv
  <2>2. hoff \in Nat /\ hi \in Nat /\ hi < Len(plan)
    BY <2>1 DEF TypeInv, PcInv
  <2>3. t \in Lines
    BY <2>1, <2>2 DEF Lines
  <2>4. QED
    BY <2>1, <2>2, <2>3, LineFacts DEF TypeInv
<1>2. UNCHANGED <<plan, table>> /\ NoMove
  BY <1>1 DEF NoMove, TypeInv
<1>3. /\ hoff' = hoff + plan[t].msgSize /\ hptr' = [hptr EXCEPT ![t] = BufBase + hoff]
      /\ hcnt' = [hcnt EXCEPT ![t] = 0]
      /\ fault' \in {TRUE, fault}
      /\ hi' = IF hi + 1 < Len(plan) THEN hi + 1 ELSE 0
      /\ hpc' = IF hi + 1 < Len(plan) THEN "spawn" ELSE "join"
  OBVIOUS
<1>4. \E pc \in {"sOpen", "rCreate", "none"} : hth' = [hth EXCEPT ![t] = pc]
  OBVIOUS
<1>5. PcInv'
  <2>1. hth' \in [Thread -> ThreadPc]
    BY <1>1, <1>4 DEF TypeInv, PcInv, ThreadPc
  <2>2. hptr' \in [Thread -> Nat] /\ hcnt' \in [Thread -> 0 .. IdRange - 1]
    BY <1>1, <1>3, BufBaseAssumption, IdRangeAssumption DEF TypeInv, PcInv
  <2>3. hi' \in 0 .. Len(plan) /\ hi' < Len(plan) /\ hoff' \in Nat /\ hpc' \in HostPc
    BY <1>1, <1>3 DEF HostPc
  <2>4. fault' \in BOOLEAN
    BY <1>3 DEF TypeInv, PcInv
  <2>5. QED
    BY <1>2, <2>1, <2>2, <2>3, <2>4 DEF TypeInv, PcInv
<1>6. OnlyLines'
  BY <1>1, <1>4 DEF TypeInv, PcInv, OnlyLines, Lines
<1>7. Regions'
  <2>1. hptr'[t] = table[t].boBufPayloadPtr
    BY <1>1, <1>3 DEF TypeInv, PcInv, Regions
  <2>2. \A u \in Lines : u # t => hptr'[u] = hptr[u] /\ hth'[u] = hth[u]
    BY <1>1, <1>3, <1>4 DEF TypeInv, PcInv
  <2>3. hpc' = "spawn" => BufBase + hoff' = table[hi' + 1].boBufPayloadPtr
    <3> SUFFICES ASSUME hpc' = "spawn" PROVE BufBase + hoff' = table[hi' + 1].boBufPayloadPtr
      OBVIOUS
    <3>1. hi' = t /\ t + 1 \in Lines /\ t + 1 # 1 /\ (t + 1) - 1 = t
      BY <1>1, <1>3 DEF Lines
    <3>2. table[t + 1].boBufPayloadPtr = table[t].boBufPayloadPtr + plan[t].msgSize
      BY <3>1 DEF TypeInv, TablePlanned
    <3>3. BufBase + hoff = table[t].boBufPayloadPtr
      BY DEF TypeInv, Regions
    <3>4. QED
      BY <1>1, <1>3, <3>1, <3>2, <3>3, BufBaseAssumption
  <2>4. QED
    BY <1>2, <2>1, <2>2, <2>3 DEF Regions, Lines, TypeInv
<1>8. QED
  BY <1>2, <1>5, <1>6, <1>7 DEF GoodStep

\* pthread_join,
LEMMA HostJoinGood == TypeInv /\ HostJoin => GoodStep
<1> SUFFICES ASSUME TypeInv, HostJoin PROVE GoodStep
  OBVIOUS
<1> USE DEF HostJoin, slaveVars, threadVars, taskVars, mqVars
<1>1. Len(plan) \in Nat
  BY LineFacts DEF TypeInv
<1>2. UNCHANGED <<plan, table>> /\ NoMove
  BY DEF NoMove, TypeInv
<1>3. PcInv'
  BY <1>1 DEF TypeInv, PcInv, HostPc
<1>4. OnlyLines' /\ Regions'
  BY DEF TypeInv, OnlyLines, Regions, Lines
<1>5. QED
  BY <1>2, <1>3, <1>4 DEF GoodStep

\* A host thread moves on its own variables and the queues alone.
LEMMA ThreadStepGood ==
  ASSUME TypeInv, NEW t \in Thread, t \in Lines, ThreadFrame,
         NEW pc \in ThreadPc, hth' = Goto(hth, t, pc), hth[t] # "none",
         hcnt' \in [Thread -> 0 .. IdRange - 1],
         fault' \in BOOLEAN, exists' \subseteq StreamQ,
         SomePut \/ SomeTake \/ SomeDelete \/ NoMove
  PROVE  GoodStep
<1> USE DEF ThreadFrame, hostVars, slaveVars, taskVars, Goto
<1>1. UNCHANGED <<plan, table>> /\ Lines' = Lines
  BY DEF Lines
<1>2. PcInv'
  BY DEF TypeInv, PcInv
<1>3. \A u \in Thread : hth'[u] = IF u = t THEN pc ELSE hth[u]
  BY DEF TypeInv, PcInv
<1>4. OnlyLines'
  BY <1>1, <1>3 DEF TypeInv, OnlyLines
<1>5. Regions'
  BY <1>1, <1>3, LineFacts DEF TypeInv, Regions
<1>6. QED
  BY <1>1, <1>2, <1>4, <1>5 DEF GoodStep

\* What a thread knows of its line.
LEMMA ThreadOfLine ==
  ASSUME TypeInv, NEW t \in Thread, hth[t] # "none"
  PROVE  /\ t \in Lines /\ plan[t].msgCount \in Nat
         /\ hcnt[t] \in 0 .. IdRange - 1
         /\ StreamMsg(hcnt[t], hptr[t], plan[t].msgSize) \in OwnMessage(t)
<1>1. t \in Lines
  BY DEF TypeInv, OnlyLines
<1>2. /\ hptr[t] = table[t].boBufPayloadPtr /\ plan[t].msgSize = table[t].boBufPayloadSize
      /\ plan[t].msgSize \in Nat /\ hptr[t] \in Nat /\ hcnt[t] \in 0 .. IdRange - 1
      /\ plan[t].msgCount \in Nat
  BY <1>1, LineFacts DEF TypeInv, Regions, TablePlanned, PcInv
<1>3. QED
  BY <1>1, <1>2 DEF OwnMessage, StreamMessage, StreamMsg

\* a thread of the host,
LEMMA HostThreadGood ==
  ASSUME TypeInv, NEW t \in Thread, HostThread(t)
  PROVE  GoodStep
<1> USE DEF Fails
<1>0. hth[t] # "none"
  BY DEF HostThread, ThreadSendOpen, ThreadSend, ThreadSendEnd, ThreadRecvCreate, ThreadRecvGet, ThreadRecvEnd
<1>1. /\ t \in Lines /\ plan[t].msgCount \in Nat /\ hcnt[t] \in 0 .. IdRange - 1
      /\ StreamMsg(hcnt[t], hptr[t], plan[t].msgSize) \in OwnMessage(t)
  BY <1>0, ThreadOfLine
<1>2. /\ M4RecvQ(t) \in QueueName /\ A15RecvQ(t) \in QueueName
      /\ M4RecvQ(t) \in StreamQ /\ A15RecvQ(t) \in StreamQ
  BY StreamQueues
<1>3. /\ hcnt \in [Thread -> 0 .. IdRange - 1] /\ fault \in BOOLEAN /\ exists \subseteq StreamQ
      /\ live \in Nat /\ hth \in [Thread -> ThreadPc]
  BY DEF TypeInv, PcInv
<1>4. [hcnt EXCEPT ![t] = (@ + 1) % IdRange] \in [Thread -> 0 .. IdRange - 1]
  BY <1>1, <1>3, IdInRange
<1>5. \A pc \in ThreadPc : pc = hth[t] => hth = Goto(hth, t, pc)
  BY <1>3 DEF Goto
<1>6. hth[t] \in ThreadPc
  BY <1>3
<1>7. {"sOpen", "send", "rCreate", "recv", "rDelete", "done"} \subseteq ThreadPc
  BY DEF ThreadPc
<1>8. CASE ThreadSendOpen(t)
  <2>1. NoMove /\ hcnt' = hcnt /\ fault' \in BOOLEAN /\ exists' = exists /\ ThreadFrame
    BY <1>3, <1>8 DEF ThreadSendOpen, NoMove
  <2>2. PICK pc \in {"send", "done"} : hth' = Goto(hth, t, pc)
    BY <1>8 DEF ThreadSendOpen
  <2>3. QED
    BY <1>0, <1>1, <1>3, <1>7, <2>1, <2>2, ThreadStepGood
<1>9. CASE ThreadSend(t)
  <2>1. hcnt' \in [Thread -> 0 .. IdRange - 1] /\ fault' \in BOOLEAN /\ exists' = exists /\ ThreadFrame
    BY <1>3, <1>4, <1>9 DEF ThreadSend
  <2>2. PICK pc \in ThreadPc : hth' = Goto(hth, t, pc)
    BY <1>5, <1>6, <1>7, <1>9 DEF ThreadSend
  <2>3. SomePut \/ NoMove
    BY <1>1, <1>3, <1>9 DEF ThreadSend, SomePut, NoMove, WithPut
  <2>4. QED
    BY <1>0, <1>1, <1>3, <2>1, <2>2, <2>3, ThreadStepGood
<1>10. CASE ThreadSendEnd(t)
  <2>1. NoMove /\ hcnt' = hcnt /\ fault' \in BOOLEAN /\ exists' = exists /\ ThreadFrame
    BY <1>3, <1>10 DEF ThreadSendEnd, NoMove, mqVars
  <2>2. hth' = Goto(hth, t, "done")
    BY <1>10 DEF ThreadSendEnd
  <2>3. QED
    BY <1>0, <1>1, <1>3, <1>7, <2>1, <2>2, ThreadStepGood
<1>11. CASE ThreadRecvCreate(t)
  <2>1. /\ NoMove /\ hcnt' = hcnt /\ fault' \in BOOLEAN /\ exists' \subseteq StreamQ
        /\ ThreadFrame
    BY <1>2, <1>3, <1>11 DEF ThreadRecvCreate, Create, CreateFails, NoMove
  <2>2. PICK pc \in {"recv", "done"} : hth' = Goto(hth, t, pc)
    BY <1>11 DEF ThreadRecvCreate
  <2>3. QED
    BY <1>0, <1>1, <1>3, <1>7, <2>1, <2>2, ThreadStepGood
<1>12. CASE ThreadRecvGet(t)
  <2>1. hcnt' \in [Thread -> 0 .. IdRange - 1] /\ fault' \in BOOLEAN /\ exists' = exists /\ ThreadFrame
    BY <1>3, <1>4, <1>12 DEF ThreadRecvGet
  <2>2. PICK pc \in ThreadPc : hth' = Goto(hth, t, pc)
    BY <1>5, <1>6, <1>7, <1>12 DEF ThreadRecvGet
  <2>3. SomeTake
    BY <1>2, <1>12 DEF ThreadRecvGet, SomeTake
  <2>4. QED
    BY <1>0, <1>1, <1>3, <2>1, <2>2, <2>3, ThreadStepGood
<1>13. CASE ThreadRecvEnd(t)
  <2>1. SomeDelete /\ hcnt' = hcnt /\ fault' \in BOOLEAN /\ exists' \subseteq StreamQ /\ ThreadFrame
    BY <1>2, <1>3, <1>13 DEF ThreadRecvEnd, Delete, SomeDelete
  <2>2. hth' = Goto(hth, t, "done")
    BY <1>13 DEF ThreadRecvEnd
  <2>3. QED
    BY <1>0, <1>1, <1>3, <1>7, <2>1, <2>2, ThreadStepGood
<1>14. QED
  BY <1>8, <1>9, <1>10, <1>11, <1>12, <1>13 DEF HostThread

\* A step of the slave moves on one task, the slave's main task and the
\* queues alone.
LEMMA SlaveStepGood ==
  ASSUME TypeInv, UNCHANGED <<plan, hostVars, numThreads, table, hth, hptr, hcnt>>,
         NEW t \in Lines, NEW pc \in TaskPc, stk' = Goto(stk, t, pc),
         si' \in 0 .. numThreads, spc' \in SlavePc,
         scnt' \in [Thread -> Nat], finished' \in Nat, reg' \in [Thread -> Nat],
         fault' \in BOOLEAN, exists' \subseteq StreamQ,
         SomePut \/ SomeTake \/ SomeDelete \/ NoMove
  PROVE  GoodStep
<1> USE DEF hostVars, Goto
<1>1. UNCHANGED <<plan, table>> /\ Lines' = Lines /\ Lines \subseteq Thread
  BY LineFacts DEF TypeInv, Lines
<1>2. PcInv'
  BY <1>1 DEF TypeInv, PcInv
<1>3. \A u \in Thread : stk'[u] = IF u = t THEN pc ELSE stk[u]
  BY <1>1 DEF TypeInv, PcInv
<1>4. OnlyLines'
  BY <1>1, <1>3 DEF TypeInv, OnlyLines
<1>5. Regions'
  BY <1>1 DEF TypeInv, Regions
<1>6. QED
  BY <1>1, <1>2, <1>4, <1>5 DEF GoodStep

\* tsk1Fxn,
LEMMA SlaveMainGood == TypeInv /\ SlaveMain => GoodStep
<1> SUFFICES ASSUME TypeInv, SlaveMain PROVE GoodStep
  OBVIOUS
<1>1. /\ Len(plan) \in Nat \ {0} /\ Lines \subseteq Thread /\ numThreads = Len(plan)
      /\ si \in 0 .. numThreads /\ spc \in SlavePc
  BY LineFacts DEF TypeInv, PcInv
<1>2. /\ fault \in BOOLEAN /\ exists \subseteq StreamQ /\ live \in Nat
      /\ stk \in [Thread -> TaskPc] /\ scnt \in [Thread -> Nat]
      /\ finished \in Nat /\ reg \in [Thread -> Nat]
  BY DEF TypeInv, PcInv
<1>3. CASE SlaveCreateTask
  <2> DEFINE t == si + 1
  <2>1. t \in Lines /\ t \in 0 .. numThreads /\ t \in Thread
    BY <1>1, <1>3 DEF SlaveCreateTask, Lines
  <2>2. PICK pc \in {"rCreate", "sOpen", "none"} : stk' = Goto(stk, t, pc)
    BY <1>3 DEF SlaveCreateTask
  <2>3. scnt' \in [Thread -> Nat] /\ si' = t
    BY <1>2, <1>3, <2>1 DEF SlaveCreateTask
  <2>4. fault' \in BOOLEAN
    BY <1>2, <1>3 DEF SlaveCreateTask, Fails
  <2>5. /\ UNCHANGED <<plan, hostVars, spc, numThreads, table, hth, hptr, hcnt, finished, reg, exists>>
        /\ NoMove
    BY <1>2, <1>3 DEF SlaveCreateTask, threadVars, NoMove
  <2>6. pc \in TaskPc
    BY <2>2 DEF TaskPc
  <2>7. QED
    BY <1>1, <1>2, <2>1, <2>2, <2>3, <2>4, <2>5, <2>6, SlaveStepGood
<1>4. CASE SlaveTasksCreated \/ SlaveAllFinished
  <2>1. spc' \in SlavePc
    BY <1>4 DEF SlaveTasksCreated, SlaveAllFinished, SlavePc
  <2>2. UNCHANGED <<mqVars, plan, hostVars, si, numThreads, table, threadVars, taskVars>>
    BY <1>4 DEF SlaveTasksCreated, SlaveAllFinished
  <2>3. NoMove
    BY <1>2, <2>2 DEF NoMove, mqVars
  <2>4. PcInv'
    BY <2>1, <2>2 DEF TypeInv, PcInv, mqVars, hostVars, threadVars, taskVars
  <2>5. OnlyLines' /\ Regions'
    BY <2>2 DEF TypeInv, OnlyLines, Regions, Lines, hostVars, threadVars, taskVars
  <2>6. QED
    BY <2>2, <2>3, <2>4, <2>5 DEF GoodStep
<1>5. QED
  BY <1>3, <1>4 DEF SlaveMain

\* What a task knows of its line.
LEMMA TaskOfLine ==
  ASSUME TypeInv, NEW t \in Thread, stk[t] # "none"
  PROVE  /\ t \in Lines /\ table[t].numMessages = plan[t].msgCount
         /\ plan[t].msgCount \in Nat /\ scnt[t] \in Nat
         /\ StreamMsg(scnt[t] % IdRange, table[t].boBufPayloadPtr,
                      table[t].boBufPayloadSize) \in OwnMessage(t)
<1>1. t \in Lines
  BY DEF TypeInv, OnlyLines
<1>2. /\ table[t].boBufPayloadPtr \in Nat /\ table[t].boBufPayloadSize \in Nat
      /\ table[t].numMessages = plan[t].msgCount /\ plan[t].msgCount \in Nat
  BY <1>1, LineFacts DEF TypeInv, TablePlanned
<1>3. scnt[t] \in Nat /\ scnt[t] % IdRange \in 0 .. IdRange - 1
  BY IdInRange DEF TypeInv, PcInv
<1>4. QED
  BY <1>1, <1>2, <1>3 DEF OwnMessage, StreamMessage, StreamMsg

\* A task's own step.
LEMMA TaskStepGood ==
  ASSUME TypeInv, NEW t \in Thread, stk[t] # "none", TaskFrame,
         NEW pc \in TaskPc, stk' = Goto(stk, t, pc),
         spc' \in {spc, "aborted"}, scnt' \in [Thread -> Nat],
         finished' \in Nat, reg' \in [Thread -> Nat],
         fault' \in BOOLEAN, exists' \subseteq StreamQ,
         SomePut \/ SomeTake \/ SomeDelete \/ NoMove
  PROVE  GoodStep
<1>1. t \in Lines
  BY DEF TypeInv, OnlyLines
<1>2. spc' \in SlavePc /\ si' \in 0 .. numThreads
  BY DEF TypeInv, PcInv, SlavePc, TaskFrame
<1>3. UNCHANGED <<plan, hostVars, numThreads, table, hth, hptr, hcnt>>
  BY DEF TaskFrame, threadVars
<1>4. QED
  BY <1>1, <1>2, <1>3, SlaveStepGood

\* and a task of the slave.
LEMMA SlaveTaskGood ==
  ASSUME TypeInv, NEW t \in Thread, SlaveTask(t)
  PROVE  GoodStep
<1> USE DEF Fails
<1>0. stk[t] # "none"
  BY DEF SlaveTask, TaskSendOpen, TaskSend, TaskSendEnd, TaskRecvCreate, TaskRecvGet,
         TaskRecvEnd, TaskCountRead, TaskCountWrite
<1>1. /\ t \in Lines /\ scnt[t] \in Nat
      /\ StreamMsg(scnt[t] % IdRange, table[t].boBufPayloadPtr,
                   table[t].boBufPayloadSize) \in OwnMessage(t)
  BY <1>0, TaskOfLine
<1>2. /\ M4RecvQ(t) \in QueueName /\ A15RecvQ(t) \in QueueName
      /\ M4RecvQ(t) \in StreamQ /\ A15RecvQ(t) \in StreamQ
  BY StreamQueues
<1>3. /\ scnt \in [Thread -> Nat] /\ fault \in BOOLEAN /\ exists \subseteq StreamQ
      /\ live \in Nat /\ stk \in [Thread -> TaskPc] /\ stk[t] \in TaskPc
      /\ finished \in Nat /\ reg \in [Thread -> Nat] /\ reg[t] \in Nat
  BY DEF TypeInv, PcInv
<1>4. [scnt EXCEPT ![t] = @ + 1] \in [Thread -> Nat]
  BY <1>1, <1>3
<1>5. stk = Goto(stk, t, stk[t])
  BY <1>3 DEF Goto
<1>6. {"send", "sendLost", "recv", "inc", "store", "finished"} \subseteq TaskPc
  BY DEF TaskPc
<1>7. CASE TaskSendOpen(t)
  <2>1. /\ NoMove /\ spc' = spc /\ scnt' = scnt /\ finished' = finished /\ reg' = reg
        /\ fault' \in BOOLEAN /\ exists' = exists /\ TaskFrame
    BY <1>3, <1>7 DEF TaskSendOpen, NoMove
  <2>2. PICK pc \in {"send", "sendLost"} : stk' = Goto(stk, t, pc)
    BY <1>7 DEF TaskSendOpen
  <2>3. QED
    BY <1>0, <1>3, <1>6, <2>1, <2>2, TaskStepGood
<1>8. CASE TaskSend(t)
  <2>1. /\ spc' \in {spc, "aborted"} /\ scnt' \in [Thread -> Nat] /\ finished' = finished
        /\ reg' = reg /\ fault' \in BOOLEAN /\ exists' = exists /\ TaskFrame
    BY <1>3, <1>4, <1>8 DEF TaskSend, Abort
  <2>2. PICK pc \in TaskPc : stk' = Goto(stk, t, pc)
    BY <1>3, <1>5, <1>6, <1>8 DEF TaskSend
  <2>3. SomePut \/ NoMove
    BY <1>1, <1>3, <1>8 DEF TaskSend, SomePut, NoMove, WithPut
  <2>4. QED
    BY <1>0, <1>3, <2>1, <2>2, <2>3, TaskStepGood
<1>9. CASE TaskSendEnd(t) \/ TaskCountRead(t) \/ TaskCountWrite(t)
  <2>1. /\ NoMove /\ spc' = spc /\ scnt' = scnt /\ fault' \in BOOLEAN /\ exists' = exists
        /\ TaskFrame
    BY <1>3, <1>9 DEF TaskSendEnd, TaskCountRead, TaskCountWrite, NoMove, mqVars
  <2>2. finished' \in Nat /\ reg' \in [Thread -> Nat]
    BY <1>3, <1>9 DEF TaskSendEnd, TaskCountRead, TaskCountWrite
  <2>3. PICK pc \in {"inc", "store", "finished"} : stk' = Goto(stk, t, pc)
    BY <1>9 DEF TaskSendEnd, TaskCountRead, TaskCountWrite
  <2>4. QED
    BY <1>0, <1>3, <1>6, <2>1, <2>2, <2>3, TaskStepGood
<1>10. CASE TaskRecvCreate(t)
  <2>1. /\ NoMove /\ spc' \in {spc, "aborted"} /\ scnt' = scnt /\ finished' = finished
        /\ reg' = reg /\ fault' \in BOOLEAN /\ exists' \subseteq StreamQ /\ TaskFrame
    BY <1>2, <1>3, <1>10 DEF TaskRecvCreate, Create, CreateFails, NoMove, Abort
  <2>2. PICK pc \in TaskPc : stk' = Goto(stk, t, pc)
    BY <1>3, <1>5, <1>6, <1>10 DEF TaskRecvCreate
  <2>3. QED
    BY <1>0, <1>3, <2>1, <2>2, TaskStepGood
<1>11. CASE TaskRecvGet(t)
  <2>1. /\ spc' \in {spc, "aborted"} /\ scnt' \in [Thread -> Nat] /\ finished' = finished
        /\ reg' = reg /\ fault' \in BOOLEAN /\ exists' = exists /\ TaskFrame
        /\ stk' = Goto(stk, t, stk[t])
    BY <1>3, <1>4, <1>5, <1>11 DEF TaskRecvGet, Abort
  <2>2. SomeTake
    BY <1>2, <1>11 DEF TaskRecvGet, SomeTake
  <2>3. QED
    BY <1>0, <1>3, <2>1, <2>2, TaskStepGood
<1>12. CASE TaskRecvEnd(t)
  <2>1. /\ SomeDelete /\ spc' = spc /\ scnt' = scnt /\ finished' = finished
        /\ reg' = reg /\ fault' \in BOOLEAN /\ exists' \subseteq StreamQ /\ TaskFrame
        /\ stk' = Goto(stk, t, "inc")
    BY <1>2, <1>3, <1>12 DEF TaskRecvEnd, Delete, SomeDelete
  <2>2. QED
    BY <1>0, <1>3, <1>6, <2>1, TaskStepGood
<1>13. QED
  BY <1>7, <1>8, <1>9, <1>10, <1>11, <1>12 DEF SlaveTask

\* So the types hold after every step,
LEMMA NextTypeInv == TypeInv /\ [Next]_vars => TypeInv'
<1> SUFFICES ASSUME TypeInv, [Next]_vars PROVE TypeInv'
  OBVIOUS
<1>1. CASE Next
  <2>1. GoodStep
    BY <1>1, HostSpawnGood, HostJoinGood, SlaveMainGood, HostThreadGood, SlaveTaskGood
       DEF Next, HostMain
  <2>2. UNCHANGED <<plan, table>> /\ PcInv' /\ OnlyLines' /\ Regions'
    BY <2>1 DEF GoodStep
  <2>3. QueuesInv' /\ LiveInv' /\ live' \in Nat
    BY <2>1, MessagesKept, LiveKept DEF GoodStep, TypeInv
  <2>4. TablePlanned'
    BY <2>2 DEF TypeInv, TablePlanned, Lines
  <2>5. QED
    BY <2>2, <2>3, <2>4 DEF TypeInv
<1>2. CASE UNCHANGED vars
  BY <1>2 DEF vars, mqVars, hostVars, slaveVars, threadVars, taskVars, TypeInv, TablePlanned,
     PcInv, OnlyLines, Regions, QueuesInv, LiveInv, Lines, OwnMessage, Waiting
<1>3. QED
  BY <1>1, <1>2

\* and in every state.
LEMMA TypeInvariant == Spec => []TypeInv
BY InitTypeInv, NextTypeInv, PTL DEF Spec

\* The two computations of a thread's region agree, every message carries its
\* own thread's region, no message is freed that was not allocated, and every
\* variable keeps its type: RegionsAgree, for every plan, any number of threads
\* and whatever calls fail.
THEOREM StreamsRegionsAgree == Spec => []RegionsAgree
<1>1. TypeInv => RegionsAgree
  <2> SUFFICES ASSUME TypeInv PROVE RegionsAgree
    OBVIOUS
  <2>1. \A q \in QueueName : \A i \in 1 .. Len(pending[q]) :
          pending[q][i] \in [id : 0 .. IdRange - 1, boBufPayloadPtr : Nat, boBufPayloadSize : Nat]
    <3>1. \A q \in QueueName : pending[q] \in Seq(StreamMessage)
      BY DEF TypeInv, QueuesInv
    <3>2. \A q \in QueueName : \A i \in 1 .. Len(pending[q]) : pending[q][i] \in StreamMessage
      BY <3>1
    <3>3. QED
      BY <3>2 DEF StreamMessage
  <2>2. TypeOK
    BY <2>1 DEF TypeInv, PcInv, TypeOK
  <2>3. \A t \in Lines : pending[StreamQueue(t)] \in Seq(OwnMessage(t))
    BY DEF TypeInv, QueuesInv, StreamQueue
  <2>4. \A t \in Lines : \A i \in 1 .. Len(pending[StreamQueue(t)]) :
          pending[StreamQueue(t)][i] \in OwnMessage(t)
    BY <2>3
  <2>5. QED
    BY <2>2, <2>4 DEF TypeInv, Regions, RegionsAgree, OwnMessage
<1>2. QED
  BY <1>1, TypeInvariant, PTL

-----------------------------------------------------------------------------
(* gFinishedCounter++.  The set of finished tasks only grows, and no task    *)
(* has read, or will store, more than its size.                              *)

FinishedTasks == {t \in Thread : stk[t] = "finished"}

CountInv ==
  /\ \A t \in Thread : t > si => stk[t] = "none"
  /\ finished <= Cardinality(FinishedTasks)
  /\ \A t \in Thread : stk[t] = "store" => reg[t] <= Cardinality(FinishedTasks)
  /\ spc = "dtCreate" => \A t \in Lines : stk[t] = "finished"

\* All steps but the two halves of the increment leave alone which tasks have
\* finished and which are about to store.
NoCount ==
  /\ UNCHANGED <<finished, reg>>
  /\ \A t \in Thread : /\ stk'[t] = "finished" <=> stk[t] = "finished"
                       /\ stk'[t] = "store" <=> stk[t] = "store"
  /\ \A t \in Thread : t > si' => stk'[t] = stk[t]
  /\ si' >= si
  /\ spc' = "dtCreate" /\ spc # "dtCreate" => SlaveAllFinished

\* A task that neither reads nor writes the counter leaves it alone,
LEMMA SlaveTaskNoCount ==
  ASSUME TypeInv, CountInv, NEW t \in Thread, SlaveTask(t),
         ~ TaskCountRead(t), ~ TaskCountWrite(t)
  PROVE  NoCount
<1>1. /\ stk \in [Thread -> TaskPc] /\ si \in Nat /\ stk[t] # "none"
      /\ stk[t] \notin {"finished", "store"}
      /\ finished' = finished /\ reg' = reg /\ si' = si
  BY DEF SlaveTask, TaskSendOpen, TaskSend, TaskSendEnd, TaskRecvCreate, TaskRecvGet,
         TaskRecvEnd, TaskFrame, TypeInv, PcInv
<1>2. t <= si
  BY <1>1 DEF CountInv, Thread
<1>3. spc' \in {spc, "aborted"}
  BY DEF SlaveTask, TaskSendOpen, TaskSend, TaskSendEnd, TaskRecvCreate, TaskRecvGet,
         TaskRecvEnd, Abort
<1>4. stk' = stk \/ \E pc \in {"send", "sendLost", "recv", "inc"} : stk' = [stk EXCEPT ![t] = pc]
  BY DEF SlaveTask, TaskSendOpen, TaskSend, TaskSendEnd, TaskRecvCreate, TaskRecvGet,
         TaskRecvEnd, Goto
<1>5. \A u \in Thread : /\ u # t => stk'[u] = stk[u]
                        /\ stk'[t] \notin {"finished", "store"}
  BY <1>1, <1>4
<1>6. QED
  BY <1>1, <1>2, <1>3, <1>5 DEF NoCount, Thread

\* as does everyone else,
LEMMA OthersNoCount ==
  ASSUME TypeInv, CountInv,
         HostMain \/ SlaveMain \/ (\E t \in Thread : HostThread(t)) \/ UNCHANGED vars
  PROVE  NoCount
<1>1. stk \in [Thread -> TaskPc] /\ si \in 0 .. numThreads /\ numThreads = Len(plan) /\ Len(plan) \in Nat
  BY LineFacts DEF TypeInv, PcInv
<1>2. CASE SlaveCreateTask
  <2> DEFINE t == si + 1
  <2>1. t \in Thread /\ stk[t] = "none" /\ UNCHANGED <<finished, reg, spc>> /\ si' = t
    BY <1>1, <1>2, LineFacts DEF SlaveCreateTask, CountInv, TypeInv, Lines
  <2>2. PICK pc \in {"rCreate", "sOpen", "none"} : stk' = [stk EXCEPT ![t] = pc]
    BY <1>2 DEF SlaveCreateTask, Goto
  <2>3. \A u \in Thread : /\ u # t => stk'[u] = stk[u]
                          /\ stk'[t] \notin {"finished", "store"}
    BY <1>1, <2>1, <2>2
  <2>4. QED
    BY <1>1, <2>1, <2>3 DEF NoCount, Thread
<1>3. CASE HostMain \/ SlaveTasksCreated \/ SlaveAllFinished
           \/ (\E t \in Thread : HostThread(t)) \/ UNCHANGED vars
  <2>1. UNCHANGED <<finished, reg, stk, si>>
    BY <1>3 DEF HostMain, HostSpawn, HostJoin, SlaveTasksCreated, SlaveAllFinished, HostThread,
       ThreadSendOpen, ThreadSend, ThreadSendEnd, ThreadRecvCreate, ThreadRecvGet,
       ThreadRecvEnd, ThreadFrame, vars, slaveVars, taskVars
  <2>2. spc' = "dtCreate" /\ spc # "dtCreate" => SlaveAllFinished
    BY <1>3 DEF HostMain, HostSpawn, HostJoin, SlaveTasksCreated, HostThread,
       ThreadSendOpen, ThreadSend, ThreadSendEnd, ThreadRecvCreate, ThreadRecvGet,
       ThreadRecvEnd, ThreadFrame, vars, slaveVars
  <2>3. QED
    BY <1>1, <2>1, <2>2 DEF NoCount
<1>4. QED
  BY <1>2, <1>3 DEF SlaveMain

\* There are finitely many tasks, all of them of lines of the plan.
LEMMA FinishedFinite ==
  ASSUME TypeInv
  PROVE  /\ IsFiniteSet(FinishedTasks) /\ Cardinality(FinishedTasks) \in Nat
         /\ FinishedTasks \subseteq Lines
         /\ IsFiniteSet(Lines) /\ Cardinality(Lines) = Len(plan)
<1>1. FinishedTasks \subseteq Lines
  BY DEF FinishedTasks, TypeInv, OnlyLines
<1>2. IsFiniteSet(Lines) /\ Cardinality(Lines) = Len(plan)
  <2>1. Len(plan) \in Nat \ {0}
    BY LineFacts DEF TypeInv
  <2>2. QED
    BY <2>1, FS_Interval DEF Lines
<1>3. QED
  BY <1>1, <1>2, FS_Subset, FS_CardinalityType

\* and then what is known of the counter stays true.
LEMMA NoCountInv ==
  ASSUME TypeInv, CountInv, NoCount, UNCHANGED <<plan, numThreads>>, si' \in Nat
  PROVE  CountInv'
<1>1. FinishedTasks' = FinishedTasks
  BY DEF FinishedTasks, NoCount
<1>2. si \in Nat /\ Lines' = Lines /\ Lines \subseteq Thread
  BY LineFacts DEF TypeInv, PcInv, Lines
<1>3. \A t \in Thread : t > si' => stk'[t] = "none"
  BY <1>2 DEF NoCount, CountInv, Thread
<1>4. /\ finished' <= Cardinality(FinishedTasks')
      /\ \A t \in Thread : stk'[t] = "store" => reg'[t] <= Cardinality(FinishedTasks')
  BY <1>1 DEF NoCount, CountInv
<1>5. spc' = "dtCreate" => \A t \in Lines : stk'[t] = "finished"
  <2>1. CASE spc = "dtCreate"
    BY <1>2, <2>1 DEF NoCount, CountInv
  <2>2. CASE spc # "dtCreate" /\ spc' = "dtCreate"
    <3>1. finished >= Len(plan)
      BY <2>2 DEF NoCount, SlaveAllFinished, TypeInv, PcInv
    <3>2. /\ IsFiniteSet(Lines) /\ Cardinality(Lines) = Len(plan) /\ FinishedTasks \subseteq Lines
          /\ Cardinality(FinishedTasks) \in Nat /\ Len(plan) \in Nat /\ finished \in Nat
      BY FinishedFinite, LineFacts DEF TypeInv, PcInv
    <3>3. Cardinality(FinishedTasks) >= Cardinality(Lines)
      BY <3>1, <3>2 DEF CountInv
    <3>4. FinishedTasks = Lines
      BY <3>2, <3>3, FS_Subset
    <3>5. QED
      BY <1>2, <3>4 DEF FinishedTasks, NoCount
  <2>3. QED
    BY <2>1, <2>2
<1>6. QED
  BY <1>2, <1>3, <1>4, <1>5 DEF CountInv

\* A task that reads the counter sees no more than have finished;
LEMMA CountReadInv ==
  ASSUME TypeInv, CountInv, NEW t \in Thread, TaskCountRead(t)
  PROVE  CountInv'
<1>1. /\ stk \in [Thread -> TaskPc] /\ reg \in [Thread -> Nat] /\ stk[t] = "inc"
      /\ stk' = [stk EXCEPT ![t] = "store"] /\ reg' = [reg EXCEPT ![t] = finished]
      /\ UNCHANGED <<finished, spc, si, plan>>
  BY DEF TypeInv, PcInv, TaskCountRead, TaskFrame, Goto
<1>2. FinishedTasks' = FinishedTasks /\ Lines' = Lines /\ Lines \subseteq Thread
  BY <1>1, LineFacts DEF FinishedTasks, Lines, TypeInv
<1>3. \A u \in Thread : u # t => stk'[u] = stk[u] /\ reg'[u] = reg[u]
  BY <1>1
<1>4. stk'[t] = "store" /\ reg'[t] = finished
  BY <1>1
<1>5. t \in Lines /\ ~ (t > si) /\ spc # "dtCreate"
  BY <1>1 DEF CountInv, TypeInv, OnlyLines
<1>6. QED
  BY <1>1, <1>2, <1>3, <1>4, <1>5 DEF CountInv

\* one that writes it has finished, so the counter still is not ahead.
LEMMA CountWriteInv ==
  ASSUME TypeInv, CountInv, NEW t \in Thread, TaskCountWrite(t)
  PROVE  CountInv' /\ Cardinality(FinishedTasks') = Cardinality(FinishedTasks) + 1
<1>1. /\ stk \in [Thread -> TaskPc] /\ reg \in [Thread -> Nat] /\ stk[t] = "store"
      /\ stk' = [stk EXCEPT ![t] = "finished"] /\ finished' = reg[t] + 1
      /\ UNCHANGED <<reg, spc, si, plan>>
  BY DEF TypeInv, PcInv, TaskCountWrite, TaskFrame, Goto
<1>2. FinishedTasks' = FinishedTasks \cup {t} /\ t \notin FinishedTasks
  BY <1>1 DEF FinishedTasks
<1>3. /\ Cardinality(FinishedTasks) \in Nat
      /\ Cardinality(FinishedTasks') = Cardinality(FinishedTasks) + 1
  BY <1>2, FinishedFinite, FS_AddElement
<1>4. reg[t] \in Nat /\ reg[t] <= Cardinality(FinishedTasks) /\ \A u \in Thread : reg[u] \in Nat
  BY <1>1 DEF CountInv
<1>5. \A u \in Thread : u # t => stk'[u] = stk[u]
  BY <1>1
<1>6. stk'[t] = "finished"
  BY <1>1
<1>7. t \in Lines /\ ~ (t > si) /\ spc # "dtCreate" /\ Lines' = Lines /\ Lines \subseteq Thread
  BY <1>1, LineFacts DEF CountInv, TypeInv, OnlyLines, Lines
<1>8. finished' <= Cardinality(FinishedTasks')
  BY <1>1, <1>3, <1>4
<1>9. \A u \in Thread : stk'[u] = "store" => reg'[u] <= Cardinality(FinishedTasks')
  BY <1>1, <1>3, <1>4, <1>5, <1>6 DEF CountInv
<1>10. CountInv'
  BY <1>1, <1>5, <1>6, <1>7, <1>8, <1>9 DEF CountInv
<1>11. QED
  BY <1>3, <1>10

\* Every step keeps what is known of the counter of finished tasks.
LEMMA NextCountInv == TypeInv /\ TypeInv' /\ CountInv /\ [Next]_vars => CountInv'
<1> SUFFICES ASSUME TypeInv, TypeInv', CountInv, [Next]_vars PROVE CountInv'
  OBVIOUS
<1>1. UNCHANGED plan /\ si' \in Nat /\ UNCHANGED numThreads
  <2>1. UNCHANGED plan
    BY HostSpawnGood, HostJoinGood, SlaveMainGood, HostThreadGood, SlaveTaskGood
       DEF Next, HostMain, GoodStep, vars
  <2>2. QED
    BY <2>1 DEF TypeInv, PcInv
<1>2. CASE \E t \in Thread : TaskCountRead(t) \/ TaskCountWrite(t)
  BY <1>2, CountReadInv, CountWriteInv
<1>3. CASE ~ \E t \in Thread : TaskCountRead(t) \/ TaskCountWrite(t)
  <2>1. NoCount
    BY <1>3, SlaveTaskNoCount, OthersNoCount DEF Next
  <2>2. QED
    BY <1>1, <2>1, NoCountInv
<1>4. QED
  BY <1>2, <1>3

\* The counter is never ahead, on one core or two.
LEMMA CountInvariant == Spec => []CountInv
<1>1. Init => CountInv
  <2> SUFFICES ASSUME Init PROVE CountInv
    OBVIOUS
  <2>1. FinishedTasks = {} /\ finished = 0
    BY DEF Init, FinishedTasks
  <2>2. QED
    BY <2>1, FS_EmptySet DEF Init, CountInv
<1>2. QED
  BY <1>1, NextCountInv, TypeInvariant, PTL DEF Spec

\* tsk1Fxn never leaves its polling loop, and later never deletes a task,
\* before all tasks have ended, even where increments of gFinishedCounter are
\* lost: CounterNeverAhead, on one core or two.
THEOREM StreamsCounterNeverAhead == Spec => []CounterNeverAhead
<1>1. CountInv => CounterNeverAhead
  BY DEF CountInv, CounterNeverAhead, FinishedTasks
<1>2. QED
  BY <1>1, CountInvariant, PTL

\* On one core a task between the two halves of the increment is alone there,
\* and what it has read is still the counter's value.
ExactInv ==
  /\ finished = Cardinality(FinishedTasks)
  /\ \A t \in Thread : stk[t] = "store" =>
       reg[t] = finished /\ \A u \in Thread \ {t} : stk[u] # "store"

\* On one core no other task comes between the read and the write.
LEMMA ExactKept ==
  ASSUME ~ Smp, TypeInv, CountInv, ExactInv, [Next]_vars
  PROVE  ExactInv'
<1>1. /\ stk \in [Thread -> TaskPc] /\ reg \in [Thread -> Nat]
  BY DEF TypeInv, PcInv
<1>2. CASE \E t \in Thread : TaskCountRead(t)
  <2>1. PICK t \in Thread : TaskCountRead(t)
    BY <1>2
  <2>2. /\ stk' = [stk EXCEPT ![t] = "store"] /\ reg' = [reg EXCEPT ![t] = finished]
        /\ finished' = finished /\ stk[t] = "inc"
        /\ \A u \in Thread \ {t} : stk[u] # "store"
    BY <2>1 DEF TaskCountRead, MayRun, Undisturbed, Goto
  <2>3. FinishedTasks' = FinishedTasks
    BY <1>1, <2>2 DEF FinishedTasks
  <2>4. QED
    BY <1>1, <2>2, <2>3 DEF ExactInv
<1>3. CASE \E t \in Thread : TaskCountWrite(t)
  <2>1. PICK t \in Thread : TaskCountWrite(t)
    BY <1>3
  <2>2. /\ stk' = [stk EXCEPT ![t] = "finished"] /\ reg' = reg
        /\ finished' = reg[t] + 1 /\ stk[t] = "store"
    BY <2>1 DEF TaskCountWrite, Goto
  <2>3. Cardinality(FinishedTasks') = Cardinality(FinishedTasks) + 1
    BY <2>1, CountWriteInv
  <2>4. \A u \in Thread : stk'[u] # "store"
    BY <1>1, <2>2 DEF ExactInv
  <2>5. QED
    BY <2>2, <2>3, <2>4 DEF ExactInv
<1>4. CASE ~ \E t \in Thread : TaskCountRead(t) \/ TaskCountWrite(t)
  <2>1. NoCount
    BY <1>4, SlaveTaskNoCount, OthersNoCount DEF Next
  <2>2. FinishedTasks' = FinishedTasks
    BY <2>1 DEF NoCount, FinishedTasks
  <2>3. QED
    BY <2>1, <2>2 DEF NoCount, ExactInv
<1>5. QED
  BY <1>2, <1>3, <1>4

\* While the slave has one core no increment of gFinishedCounter is lost:
\* AllFinishedCounted, which two cores break (run streams_lost).
THEOREM StreamsAllFinishedCounted ==
  ASSUME ~ Smp
  PROVE  Spec => []AllFinishedCounted
<1>1. Init => ExactInv
  <2> SUFFICES ASSUME Init PROVE ExactInv
    OBVIOUS
  <2>1. FinishedTasks = {} /\ finished = 0
    BY DEF Init, FinishedTasks
  <2>2. QED
    BY <2>1, FS_EmptySet DEF Init, ExactInv
<1>2. TypeInv /\ CountInv /\ ExactInv /\ [Next]_vars => ExactInv'
  BY ExactKept
<1>3. ExactInv => AllFinishedCounted
  BY DEF ExactInv, AllFinishedCounted, FinishedTasks
<1>4. QED
  BY <1>1, <1>2, <1>3, TypeInvariant, CountInvariant, PTL DEF Spec

-----------------------------------------------------------------------------
(* The ids.  A line's messages under way are numbered from the receiver's   *)
(* counter to the sender's; a sender in its loop has a queue to send to     *)
(* unless everything has been received; a line that is not one-way moves    *)
(* nothing.  Counts that do not fit in two bytes are left out, for what     *)
(* then happens see run MCStreamsWrap.                                      *)

CountsFit == \A p \in Plans : \A i \in 1 .. Len(p) : p[i].msgCount < IdRange

Sent(t) == IF HostSends(t) THEN hcnt[t] ELSE scnt[t]
Rcvd(t) == IF HostSends(t) THEN scnt[t] ELSE hcnt[t]
AtSend(t) == IF HostSends(t) THEN hth[t] = "send" ELSE stk[t] = "send"

RoleInv(t) ==
  /\ hpc = "spawn" /\ t > hi => hth[t] = "none"
  /\ hth[t] = "none" => hcnt[t] = 0
  /\ stk[t] = "none" => scnt[t] = 0
  /\ hth[t] \in {"sOpen", "send"} => plan[t].direction = unidirectional_send
  /\ hth[t] \in {"rCreate", "recv"} => plan[t].direction = unidirectional_recv
  /\ hth[t] # "rDelete"
  /\ stk[t] \in {"sOpen", "send", "sendLost"} => table[t].thrDirection = unidirectional_send
  /\ stk[t] \in {"rCreate", "recv"} => table[t].thrDirection = unidirectional_recv
  /\ plan[t].direction = bidirectional =>
       /\ hth[t] = "none" /\ A15RecvQ(t) \notin exists
       /\ stk[t] # "send" /\ scnt[t] = 0 /\ pending[M4RecvQ(t)] = <<>>

ChannelInv(t) ==
  /\ Len(pending[StreamQueue(t)]) = Sent(t) - Rcvd(t)
  /\ \A i \in 1 .. Len(pending[StreamQueue(t)]) :
       pending[StreamQueue(t)][i].id = Rcvd(t) + i - 1
  /\ Sent(t) <= plan[t].msgCount

OpenInv(t) == AtSend(t) => StreamQueue(t) \in exists \/ Rcvd(t) = plan[t].msgCount

LineInv(t) == RoleInv(t) /\ ChannelInv(t) /\ OpenInv(t)

IdsInv == \A t \in Lines : LineInv(t)

\* What a step may do to one line as a channel.
SendsOne(t) ==
  /\ Sent(t) < plan[t].msgCount
  /\ \E m \in OwnMessage(t) :
       m.id = Sent(t) /\ pending'[StreamQueue(t)] = Append(pending[StreamQueue(t)], m)
  /\ Sent(t)' = Sent(t) + 1 /\ Rcvd(t)' = Rcvd(t)

ReceivesOne(t) ==
  /\ HasMessage(StreamQueue(t)) /\ Head(pending[StreamQueue(t)]).id = Rcvd(t)
  /\ pending'[StreamQueue(t)] = Tail(pending[StreamQueue(t)])
  /\ Rcvd(t)' = Rcvd(t) + 1 /\ Sent(t)' = Sent(t)

Rests(t) ==
  /\ pending'[StreamQueue(t)] = pending[StreamQueue(t)]
  /\ Sent(t)' = Sent(t) /\ Rcvd(t)' = Rcvd(t)

\* What a step of one line leaves alone of another.
Same(u) ==
  /\ hth'[u] = hth[u] /\ stk'[u] = stk[u] /\ hcnt'[u] = hcnt[u] /\ scnt'[u] = scnt[u]
  /\ \A q \in {M4RecvQ(u), A15RecvQ(u)} :
       pending'[q] = pending[q] /\ (q \in exists' <=> q \in exists)

\* A line of which nothing has changed keeps its invariant.
LEMMA SameKept ==
  ASSUME NEW u \in Lines, LineInv(u), Same(u), UNCHANGED <<plan, table>>,
         hpc' = "spawn" => hpc = "spawn" /\ hi' >= hi, hi \in Nat, hi' \in Nat, u \in Nat
  PROVE  LineInv(u)' /\ Rests(u)
<1>1. StreamQueue(u) \in {M4RecvQ(u), A15RecvQ(u)}
  BY DEF StreamQueue
<1>2. Lines' = Lines /\ StreamQueue(u)' = StreamQueue(u) /\ HostSends(u)' = HostSends(u)
  BY DEF Lines, StreamQueue, HostSends
<1>3. /\ Sent(u)' = Sent(u) /\ Rcvd(u)' = Rcvd(u) /\ AtSend(u)' = AtSend(u)
  BY <1>2 DEF Sent, Rcvd, AtSend, Same
<1>4. /\ pending'[StreamQueue(u)] = pending[StreamQueue(u)]
      /\ StreamQueue(u) \in exists' <=> StreamQueue(u) \in exists
  BY <1>1 DEF Same
<1>5. RoleInv(u)'
  BY DEF LineInv, RoleInv, Same
<1>6. ChannelInv(u)' /\ OpenInv(u)'
  BY <1>2, <1>3, <1>4 DEF LineInv, ChannelInv, OpenInv
<1>7. QED
  BY <1>3, <1>4, <1>5, <1>6 DEF Rests, LineInv

\* A step of one thread or task does nothing to the other lines.
LEMMA OtherLines ==
  ASSUME TypeInv, NEW t \in Thread, HostThread(t) \/ SlaveTask(t), NEW u \in Thread, u # t
  PROVE  Same(u)
<1>1. /\ hth \in [Thread -> ThreadPc] /\ stk \in [Thread -> TaskPc]
      /\ hcnt \in [Thread -> 0 .. IdRange - 1] /\ scnt \in [Thread -> Nat]
      /\ pending \in [QueueName -> Seq(StreamMessage)]
  BY DEF TypeInv, PcInv, QueuesInv
<1> DEFINE Mine == {M4RecvQ(t), A15RecvQ(t)}
           Theirs == {M4RecvQ(u), A15RecvQ(u)}
<1>2. Mine \subseteq QueueName /\ Theirs \subseteq QueueName /\ Mine \cap Theirs = {}
  BY StreamQueues
<1> HIDE DEF Mine, Theirs
<1>3. M4RecvQ(t) \in Mine /\ A15RecvQ(t) \in Mine
  BY DEF Mine
<1>4. \A q \in Theirs : q \in exists' <=> q \in exists
  BY <1>2, <1>3 DEF HostThread, SlaveTask, ThreadSendOpen, ThreadSend, ThreadSendEnd,
     ThreadRecvCreate, ThreadRecvGet, ThreadRecvEnd, TaskSendOpen, TaskSend, TaskSendEnd,
     TaskRecvCreate, TaskRecvGet, TaskRecvEnd, TaskCountRead, TaskCountWrite,
     Create, CreateFails, Delete, mqVars
<1>5. pending' = pending \/ \E q \in Mine : \E s : pending' = [pending EXCEPT ![q] = s]
  BY <1>3 DEF HostThread, SlaveTask, ThreadSendOpen, ThreadSend, ThreadSendEnd,
     ThreadRecvCreate, ThreadRecvGet, ThreadRecvEnd, TaskSendOpen, TaskSend, TaskSendEnd,
     TaskRecvCreate, TaskRecvGet, TaskRecvEnd, TaskCountRead, TaskCountWrite,
     Create, CreateFails, Delete, mqVars, WithPut, WithoutHead
<1>6. \A q \in Theirs : pending'[q] = pending[q]
  BY <1>1, <1>2, <1>5
<1>7. /\ hth' = hth \/ \E pc : hth' = [hth EXCEPT ![t] = pc]
      /\ stk' = stk \/ \E pc : stk' = [stk EXCEPT ![t] = pc]
      /\ hcnt' = hcnt \/ \E c : hcnt' = [hcnt EXCEPT ![t] = c]
      /\ scnt' = scnt \/ \E c : scnt' = [scnt EXCEPT ![t] = c]
  BY DEF HostThread, SlaveTask, ThreadSendOpen, ThreadSend, ThreadSendEnd,
     ThreadRecvCreate, ThreadRecvGet, ThreadRecvEnd, TaskSendOpen, TaskSend, TaskSendEnd,
     TaskRecvCreate, TaskRecvGet, TaskRecvEnd, TaskCountRead, TaskCountWrite,
     ThreadFrame, TaskFrame, taskVars, threadVars, Goto
<1>8. hth'[u] = hth[u] /\ stk'[u] = stk[u] /\ hcnt'[u] = hcnt[u] /\ scnt'[u] = scnt[u]
  BY <1>1, <1>7
<1>9. QED
  BY <1>4, <1>6, <1>8 DEF Same, Theirs

\* A channel's three moves keep its messages numbered.
LEMMA MoveKept ==
  ASSUME TypeInv, NEW t \in Lines, UNCHANGED <<plan, table>>, ChannelInv(t),
         SendsOne(t) \/ ReceivesOne(t) \/ Rests(t)
  PROVE  ChannelInv(t)'
<1> DEFINE q == StreamQueue(t)
           s == pending[StreamQueue(t)]
<1>1. /\ Lines' = Lines /\ StreamQueue(t)' = StreamQueue(t)
      /\ t \in Thread /\ plan[t].msgCount \in Nat
  BY LineFacts DEF Lines, StreamQueue, TypeInv
<1>2. s \in Seq(OwnMessage(t)) /\ \A m \in OwnMessage(t) : m.id \in Nat
  <2>1. s \in Seq(OwnMessage(t))
    BY DEF TypeInv, QueuesInv, StreamQueue
  <2>2. \A m \in OwnMessage(t) : m.id \in 0 .. IdRange - 1
    BY DEF OwnMessage, StreamMessage
  <2>3. QED
    BY <2>1, <2>2, IdRangeAssumption
<1>3. Sent(t) \in Nat /\ Rcvd(t) \in Nat
  BY <1>1, IdRangeAssumption DEF TypeInv, PcInv, Sent, Rcvd
<1>4. /\ Len(s) = Sent(t) - Rcvd(t) /\ Sent(t) <= plan[t].msgCount
      /\ \A i \in 1 .. Len(s) : s[i].id = Rcvd(t) + i - 1
  BY DEF ChannelInv
<1> HIDE DEF s
<1>5. CASE SendsOne(t)
  <2>1. PICK m \in OwnMessage(t) : m.id = Sent(t) /\ pending'[q] = Append(s, m)
    BY <1>5 DEF SendsOne, s
  <2>2. /\ Sent(t)' = Sent(t) + 1 /\ Rcvd(t)' = Rcvd(t) /\ Sent(t) < plan[t].msgCount
    BY <1>5 DEF SendsOne
  <2>3. Len(Append(s, m)) = Len(s) + 1 /\ Len(s) \in Nat
    BY <1>2
  <2>4. ASSUME NEW i \in 1 .. Len(Append(s, m))
        PROVE  Append(s, m)[i].id = Rcvd(t) + i - 1
    <3>1. CASE i = Len(s) + 1
      BY <1>2, <1>3, <1>4, <2>1, <3>1
    <3>2. CASE i # Len(s) + 1
      BY <1>2, <1>4, <2>3, <3>2
    <3>3. QED
      BY <3>1, <3>2
  <2>5. QED
    BY <1>1, <1>3, <1>4, <2>1, <2>2, <2>3, <2>4 DEF ChannelInv
<1>6. CASE ReceivesOne(t)
  <2>1. /\ s # <<>> /\ pending'[q] = Tail(s)
        /\ Rcvd(t)' = Rcvd(t) + 1 /\ Sent(t)' = Sent(t)
    BY <1>6 DEF ReceivesOne, HasMessage, s
  <2>2. /\ Len(Tail(s)) = Len(s) - 1 /\ Len(s) \in Nat
        /\ \A i \in 1 .. Len(Tail(s)) : Tail(s)[i] = s[i + 1] /\ i + 1 \in 1 .. Len(s)
    BY <1>2, <2>1
  <2>3. \A i \in 1 .. Len(Tail(s)) : Tail(s)[i].id = Rcvd(t) + 1 + i - 1
    BY <1>3, <1>4, <2>2
  <2>4. QED
    BY <1>1, <1>3, <1>4, <2>1, <2>2, <2>3 DEF ChannelInv
<1>7. CASE Rests(t)
  BY <1>1, <1>4, <1>7 DEF Rests, ChannelInv, s
<1>8. QED
  BY <1>5, <1>6, <1>7

\* The numbers of a line.
LEMMA LineNumbers ==
  ASSUME CountsFit, TypeInv, NEW t \in Lines, LineInv(t)
  PROVE  /\ t \in Thread /\ t \in Nat /\ plan[t].msgCount \in Nat /\ plan[t].msgCount < IdRange
         /\ table[t].numMessages = plan[t].msgCount
         /\ plan[t].direction \in ThreadDirection
         /\ plan[t].direction # bidirectional => table[t].thrDirection = 1 - plan[t].direction
         /\ hcnt[t] \in Nat /\ scnt[t] \in Nat /\ Sent(t) \in Nat /\ Rcvd(t) \in Nat
         /\ Rcvd(t) <= Sent(t) /\ Sent(t) <= plan[t].msgCount
         /\ M4RecvQ(t) \in QueueName /\ A15RecvQ(t) \in QueueName /\ M4RecvQ(t) # A15RecvQ(t)
         /\ StreamQueue(t) \in QueueName
         /\ pending[StreamQueue(t)] \in Seq(OwnMessage(t))
         /\ pending[StreamQueue(t)] # <<>> =>
              Head(pending[StreamQueue(t)]).id = Rcvd(t) /\ Rcvd(t) < Sent(t)
         /\ Rcvd(t) = plan[t].msgCount => pending[StreamQueue(t)] = <<>>
<1>1. /\ t \in Thread /\ t \in Nat /\ plan[t].msgCount \in Nat
      /\ plan[t].direction \in ThreadDirection
  BY LineFacts DEF TypeInv, Thread
<1>2. plan[t].msgCount < IdRange
  BY DEF CountsFit, TypeInv, Lines
<1>3. /\ table[t].numMessages = plan[t].msgCount
      /\ plan[t].direction # bidirectional => table[t].thrDirection = 1 - plan[t].direction
  BY DEF TypeInv, TablePlanned
<1>4. hcnt[t] \in Nat /\ scnt[t] \in Nat
  BY <1>1, IdRangeAssumption DEF TypeInv, PcInv
<1>5. Sent(t) \in Nat /\ Rcvd(t) \in Nat
  BY <1>4 DEF Sent, Rcvd
<1>6. /\ M4RecvQ(t) \in QueueName /\ A15RecvQ(t) \in QueueName /\ M4RecvQ(t) # A15RecvQ(t)
      /\ StreamQueue(t) \in QueueName
  BY <1>1, StreamQueues DEF StreamQueue
<1>7. pending[StreamQueue(t)] \in Seq(OwnMessage(t))
  BY DEF TypeInv, QueuesInv, StreamQueue
<1>8. Len(pending[StreamQueue(t)]) \in Nat
  BY <1>7
<1>9. /\ Len(pending[StreamQueue(t)]) = Sent(t) - Rcvd(t) /\ Sent(t) <= plan[t].msgCount
      /\ \A i \in 1 .. Len(pending[StreamQueue(t)]) :
           pending[StreamQueue(t)][i].id = Rcvd(t) + i - 1
  BY DEF LineInv, ChannelInv
<1>10. Rcvd(t) <= Sent(t)
  BY <1>5, <1>8, <1>9
<1>11. ASSUME pending[StreamQueue(t)] # <<>>
       PROVE  Head(pending[StreamQueue(t)]).id = Rcvd(t) /\ Rcvd(t) < Sent(t)
  <2>1. Len(pending[StreamQueue(t)]) # 0 /\ Head(pending[StreamQueue(t)]) = pending[StreamQueue(t)][1]
    BY <1>7, <1>11
  <2>2. 1 \in 1 .. Len(pending[StreamQueue(t)])
    BY <1>8, <2>1
  <2>3. pending[StreamQueue(t)][1].id = Rcvd(t) + 1 - 1
    BY <1>9, <2>2
  <2>4. QED
    BY <1>5, <1>9, <1>10, <2>1, <2>3
<1>12. ASSUME Rcvd(t) = plan[t].msgCount PROVE pending[StreamQueue(t)] = <<>>
  <2>1. Len(pending[StreamQueue(t)]) = 0
    BY <1>1, <1>5, <1>8, <1>9, <1>12
  <2>2. QED
    BY <1>7, <2>1
<1>13. QED
  BY <1>1, <1>2, <1>3, <1>4, <1>5, <1>6, <1>7, <1>9, <1>10, <1>11, <1>12

\* Counting on by one does not run over.
LEMMA NoWrap == \A n \in Nat : n < IdRange => n % IdRange = n
BY IdRangeAssumption

\* The two directions, spelt out.
LEMMA HostToSlave ==
  ASSUME NEW t \in Lines, plan[t].direction = unidirectional_send, UNCHANGED plan
  PROVE  /\ StreamQueue(t) = M4RecvQ(t) /\ Sent(t) = hcnt[t] /\ Rcvd(t) = scnt[t]
         /\ AtSend(t) <=> hth[t] = "send"
         /\ StreamQueue(t)' = M4RecvQ(t) /\ Sent(t)' = hcnt'[t] /\ Rcvd(t)' = scnt'[t]
         /\ AtSend(t)' <=> hth'[t] = "send"
         /\ plan[t].direction # bidirectional /\ plan[t].direction # unidirectional_recv
<1>1. HostSends(t) /\ HostSends(t)'
  BY DEF HostSends, Lines
<1>2. QED
  BY <1>1 DEF StreamQueue, Sent, Rcvd, AtSend, unidirectional_send, bidirectional, unidirectional_recv

\* The stream of a line on which the slave sends, in terms of the task and the
\* thread.
LEMMA SlaveToHost ==
  ASSUME NEW t \in Lines, plan[t].direction # unidirectional_send, UNCHANGED plan
  PROVE  /\ StreamQueue(t) = A15RecvQ(t) /\ Sent(t) = scnt[t] /\ Rcvd(t) = hcnt[t]
         /\ AtSend(t) <=> stk[t] = "send"
         /\ StreamQueue(t)' = A15RecvQ(t) /\ Sent(t)' = scnt'[t] /\ Rcvd(t)' = hcnt'[t]
         /\ AtSend(t)' <=> stk'[t] = "send"
<1>1. ~ HostSends(t) /\ ~ HostSends(t)'
  BY DEF HostSends, Lines
<1>2. QED
  BY <1>1 DEF StreamQueue, Sent, Rcvd, AtSend

LineStep(t) == SendsOne(t) \/ ReceivesOne(t) \/ Rests(t)

\* A sending thread: its put reaches the slave's queue, and its counter does
\* not wrap.
LEMMA HostSendLine ==
  ASSUME CountsFit, TypeInv, NEW t \in Lines, LineInv(t),
         ThreadSendOpen(t) \/ ThreadSend(t) \/ ThreadSendEnd(t)
  PROVE  LineStep(t) /\ RoleInv(t)' /\ OpenInv(t)'
<1>1. /\ UNCHANGED <<plan, table, hpc, hi, stk, scnt>> /\ exists' = exists
      /\ hth[t] \in {"sOpen", "send"}
  BY DEF ThreadSendOpen, ThreadSend, ThreadSendEnd, ThreadFrame, hostVars, slaveVars, taskVars, mqVars
<1>2. plan[t].direction = unidirectional_send
  BY <1>1 DEF LineInv, RoleInv
<1>3. /\ StreamQueue(t) = M4RecvQ(t) /\ Sent(t) = hcnt[t] /\ Rcvd(t) = scnt[t]
      /\ AtSend(t) <=> hth[t] = "send"
      /\ StreamQueue(t)' = M4RecvQ(t) /\ Sent(t)' = hcnt'[t] /\ Rcvd(t)' = scnt'[t]
      /\ AtSend(t)' <=> hth'[t] = "send"
      /\ plan[t].direction # bidirectional /\ plan[t].direction # unidirectional_recv
  BY <1>1, <1>2, HostToSlave
<1>4. /\ t \in Thread /\ plan[t].msgCount \in Nat /\ plan[t].msgCount < IdRange
      /\ hcnt[t] \in Nat /\ scnt[t] \in Nat /\ scnt[t] <= hcnt[t] /\ M4RecvQ(t) \in QueueName
  BY <1>3, LineNumbers
<1>5. /\ hth \in [Thread -> ThreadPc] /\ hcnt \in [Thread -> 0 .. IdRange - 1]
      /\ pending \in [QueueName -> Seq(StreamMessage)]
  BY DEF TypeInv, PcInv, QueuesInv
<1>6. hth'[t] \in {"send", "done"} /\ (hth'[t] = "send" => M4RecvQ(t) \in exists \/ hth[t] = "send")
  BY <1>1, <1>4, <1>5 DEF ThreadSendOpen, ThreadSend, ThreadSendEnd, Goto
<1>7. RoleInv(t)'
  BY <1>1, <1>2, <1>3, <1>6, <1>4 DEF LineInv, RoleInv
<1>8. OpenInv(t)'
  BY <1>1, <1>3, <1>6 DEF LineInv, OpenInv
<1> DEFINE Put ==
      /\ hth[t] = "send" /\ hcnt[t] < plan[t].msgCount
      /\ pending' = WithPut(pending, M4RecvQ(t), StreamMsg(hcnt[t], hptr[t], plan[t].msgSize))
      /\ hcnt' = [hcnt EXCEPT ![t] = (@ + 1) % IdRange]
<1>9. CASE Put
  <2>2. M4RecvQ(t) \in exists
    BY <1>3, <1>4, <1>9 DEF LineInv, OpenInv
  <2>3. /\ StreamMsg(hcnt[t], hptr[t], plan[t].msgSize) \in OwnMessage(t)
        /\ StreamMsg(hcnt[t], hptr[t], plan[t].msgSize).id = hcnt[t]
    BY <1>4, <1>9, ThreadOfLine DEF StreamMsg
  <2>4. pending'[M4RecvQ(t)] =
          Append(pending[M4RecvQ(t)], StreamMsg(hcnt[t], hptr[t], plan[t].msgSize))
    BY <1>4, <1>5, <1>9, <2>2 DEF WithPut
  <2>5. hcnt[t] + 1 \in Nat /\ hcnt[t] + 1 < IdRange
    BY <1>4, <1>9, IdRangeAssumption
  <2>6. (hcnt[t] + 1) % IdRange = hcnt[t] + 1
    BY <2>5, NoWrap
  <2>7. hcnt'[t] = hcnt[t] + 1
    BY <1>4, <1>5, <1>9, <2>6
  <2>8. SendsOne(t)
    BY <1>1, <1>3, <1>9, <2>3, <2>4, <2>7 DEF SendsOne
  <2>9. QED
    BY <1>7, <1>8, <2>8 DEF LineStep
<1>10. CASE UNCHANGED <<hcnt, pending>>
  BY <1>1, <1>3, <1>7, <1>8, <1>10 DEF Rests, LineStep
<1>11. Put \/ UNCHANGED <<hcnt, pending>>
  BY DEF ThreadSendOpen, ThreadSend, ThreadSendEnd, mqVars
<1>12. QED
  BY <1>9, <1>10, <1>11

\* A receiving thread finds the id it expects, and deletes its queue only when
\* it is empty.
LEMMA HostRecvLine ==
  ASSUME CountsFit, TypeInv, NEW t \in Lines, LineInv(t),
         ThreadRecvCreate(t) \/ ThreadRecvGet(t) \/ ThreadRecvEnd(t)
  PROVE  LineStep(t) /\ RoleInv(t)' /\ OpenInv(t)'
<1>1. UNCHANGED <<plan, table, hpc, hi, stk, scnt>> /\ hth[t] \in {"rCreate", "recv"}
  BY DEF ThreadRecvCreate, ThreadRecvGet, ThreadRecvEnd, ThreadFrame, hostVars, slaveVars,
     taskVars, LineInv, RoleInv
<1>2. /\ plan[t].direction = unidirectional_recv /\ plan[t].direction # unidirectional_send
      /\ plan[t].direction # bidirectional
  BY <1>1 DEF LineInv, RoleInv, unidirectional_recv, unidirectional_send, bidirectional
<1>3. /\ StreamQueue(t) = A15RecvQ(t) /\ Sent(t) = scnt[t] /\ Rcvd(t) = hcnt[t]
      /\ AtSend(t) <=> stk[t] = "send"
      /\ StreamQueue(t)' = A15RecvQ(t) /\ Sent(t)' = scnt'[t] /\ Rcvd(t)' = hcnt'[t]
      /\ AtSend(t)' <=> stk'[t] = "send"
  BY <1>1, <1>2, SlaveToHost
<1>4. /\ t \in Thread /\ plan[t].msgCount \in Nat /\ plan[t].msgCount < IdRange
      /\ hcnt[t] \in Nat /\ scnt[t] \in Nat /\ hcnt[t] <= scnt[t] /\ scnt[t] <= plan[t].msgCount
      /\ A15RecvQ(t) \in QueueName
      /\ HasMessage(A15RecvQ(t)) => Head(pending[A15RecvQ(t)]).id = hcnt[t] /\ hcnt[t] < scnt[t]
      /\ hcnt[t] = plan[t].msgCount => pending[A15RecvQ(t)] = <<>>
  BY <1>3, LineNumbers DEF HasMessage
<1>5. /\ hth \in [Thread -> ThreadPc] /\ hcnt \in [Thread -> 0 .. IdRange - 1]
      /\ pending \in [QueueName -> Seq(StreamMessage)]
  BY DEF TypeInv, PcInv, QueuesInv
<1>6. CASE ThreadRecvCreate(t)
  <2>1. hth'[t] \in {"recv", "done"} /\ UNCHANGED <<hcnt, pending>> /\ exists \subseteq exists'
    BY <1>4, <1>5, <1>6 DEF ThreadRecvCreate, Create, CreateFails, Goto
  <2>2. RoleInv(t)'
    BY <1>1, <1>2, <2>1 DEF LineInv, RoleInv
  <2>3. OpenInv(t)'
    BY <1>1, <1>3, <2>1 DEF LineInv, OpenInv
  <2>4. QED
    BY <1>1, <1>3, <2>1, <2>2, <2>3 DEF Rests, LineStep
<1>7. CASE ThreadRecvGet(t)
  <2>1. /\ HasMessage(A15RecvQ(t)) /\ pending' = [pending EXCEPT ![A15RecvQ(t)] = Tail(@)]
        /\ hcnt' = [hcnt EXCEPT ![t] = (@ + 1) % IdRange] /\ hth' = hth /\ exists' = exists
    BY <1>4, <1>7 DEF ThreadRecvGet, WithoutHead
  <2>2. hcnt[t] + 1 \in Nat /\ hcnt[t] + 1 < IdRange
    BY <1>4, <2>1, IdRangeAssumption
  <2>3. (hcnt[t] + 1) % IdRange = hcnt[t] + 1
    BY <2>2, NoWrap
  <2>4. hcnt'[t] = hcnt[t] + 1
    BY <1>4, <1>5, <2>1, <2>3
  <2>5. pending'[A15RecvQ(t)] = Tail(pending[A15RecvQ(t)])
    BY <1>4, <1>5, <2>1
  <2>6. ReceivesOne(t)
    BY <1>1, <1>3, <1>4, <2>1, <2>4, <2>5 DEF ReceivesOne
  <2>7. RoleInv(t)'
    BY <1>1, <1>2, <2>1 DEF LineInv, RoleInv
  <2>8. OpenInv(t)'
    <3>1. A15RecvQ(t) \in exists \/ hcnt[t] = plan[t].msgCount \/ ~ AtSend(t)
      BY <1>3 DEF LineInv, OpenInv
    <3>2. hcnt[t] # plan[t].msgCount
      BY <1>4, <2>1
    <3>3. QED
      BY <1>1, <1>3, <2>1, <3>1, <3>2 DEF OpenInv
  <2>9. QED
    BY <2>6, <2>7, <2>8 DEF LineStep
<1>8. CASE ThreadRecvEnd(t)
  <2>1. /\ hcnt[t] >= plan[t].msgCount /\ hcnt' = hcnt
        /\ pending' = [pending EXCEPT ![A15RecvQ(t)] = <<>>]
        /\ hth' = Goto(hth, t, "done")
    BY <1>1, <1>8 DEF ThreadRecvEnd, Delete
  <2>2. hcnt[t] = plan[t].msgCount /\ pending[A15RecvQ(t)] = <<>>
    BY <1>4, <2>1
  <2>3. pending' = pending /\ hth'[t] = "done"
    BY <1>4, <1>5, <2>1, <2>2 DEF Goto
  <2>4. RoleInv(t)'
    BY <1>1, <1>2, <2>1, <2>3 DEF LineInv, RoleInv
  <2>5. OpenInv(t)'
    BY <1>1, <1>3, <2>1, <2>2 DEF OpenInv
  <2>6. QED
    BY <1>1, <1>3, <2>1, <2>3, <2>4, <2>5 DEF Rests, LineStep
<1>9. QED
  BY <1>6, <1>7, <1>8

\* A sending task; on a line that is not one-way it finds no queue to send to.
LEMMA SlaveSendLine ==
  ASSUME CountsFit, TypeInv, NEW t \in Lines, LineInv(t),
         TaskSendOpen(t) \/ TaskSend(t) \/ TaskSendEnd(t)
  PROVE  LineStep(t) /\ RoleInv(t)' /\ OpenInv(t)'
<1>1. /\ UNCHANGED <<plan, table, hpc, hi, hth, hcnt>> /\ exists' = exists
      /\ stk[t] \in {"sOpen", "send", "sendLost"}
  BY DEF TaskSendOpen, TaskSend, TaskSendEnd, TaskFrame, hostVars, threadVars, mqVars
<1>2. table[t].thrDirection = unidirectional_send
  BY <1>1 DEF LineInv, RoleInv
<1>3. plan[t].direction # unidirectional_send
  BY <1>2, LineNumbers DEF unidirectional_send, bidirectional
<1>4. /\ StreamQueue(t) = A15RecvQ(t) /\ Sent(t) = scnt[t] /\ Rcvd(t) = hcnt[t]
      /\ AtSend(t) <=> stk[t] = "send"
      /\ StreamQueue(t)' = A15RecvQ(t) /\ Sent(t)' = scnt'[t] /\ Rcvd(t)' = hcnt'[t]
      /\ AtSend(t)' <=> stk'[t] = "send"
  BY <1>1, <1>3, SlaveToHost
<1>5. /\ t \in Thread /\ plan[t].msgCount \in Nat /\ plan[t].msgCount < IdRange
      /\ hcnt[t] \in Nat /\ scnt[t] \in Nat /\ hcnt[t] <= scnt[t]
      /\ table[t].numMessages = plan[t].msgCount
      /\ M4RecvQ(t) \in QueueName /\ A15RecvQ(t) \in QueueName /\ M4RecvQ(t) # A15RecvQ(t)
  BY <1>4, LineNumbers
<1>6. /\ stk \in [Thread -> TaskPc] /\ scnt \in [Thread -> Nat]
      /\ pending \in [QueueName -> Seq(StreamMessage)]
  BY DEF TypeInv, PcInv, QueuesInv
<1>7. /\ stk'[t] \in {"send", "sendLost", "inc"}
      /\ stk'[t] = "send" => A15RecvQ(t) \in exists \/ stk[t] = "send"
  BY <1>1, <1>5, <1>6 DEF TaskSendOpen, TaskSend, TaskSendEnd, Goto
<1>8. OpenInv(t)'
  BY <1>1, <1>4, <1>7 DEF LineInv, OpenInv
<1>9. /\ pending'[M4RecvQ(t)] = pending[M4RecvQ(t)]
      /\ scnt'[t] # scnt[t] => stk[t] = "send"
  BY <1>5, <1>6 DEF TaskSendOpen, TaskSend, TaskSendEnd, WithPut, mqVars
<1>10. RoleInv(t)'
  BY <1>1, <1>2, <1>3, <1>5, <1>7, <1>9 DEF LineInv, RoleInv
<1> DEFINE msg == StreamMsg(scnt[t] % IdRange, table[t].boBufPayloadPtr, table[t].boBufPayloadSize)
           Put == /\ stk[t] = "send" /\ scnt[t] < table[t].numMessages
                  /\ pending' = WithPut(pending, A15RecvQ(t), msg)
                  /\ scnt' = [scnt EXCEPT ![t] = @ + 1]
<1>11. CASE Put
  <2>1. A15RecvQ(t) \in exists
    BY <1>4, <1>5, <1>11 DEF LineInv, OpenInv
  <2>2. scnt[t] % IdRange = scnt[t]
    <3>1. scnt[t] \in Nat /\ scnt[t] < IdRange
      BY <1>5, <1>11, IdRangeAssumption
    <3>2. QED
      BY <3>1, NoWrap
  <2>3. msg \in OwnMessage(t) /\ msg.id = scnt[t]
    BY <1>5, <1>11, <2>2, TaskOfLine DEF StreamMsg
  <2>4. pending'[A15RecvQ(t)] = Append(pending[A15RecvQ(t)], msg)
    BY <1>5, <1>6, <1>11, <2>1 DEF WithPut
  <2>5. scnt'[t] = scnt[t] + 1
    BY <1>5, <1>6, <1>11
  <2>6. SendsOne(t)
    BY <1>1, <1>4, <1>5, <1>11, <2>3, <2>4, <2>5 DEF SendsOne
  <2>7. QED
    BY <1>8, <1>10, <2>6 DEF LineStep
<1>12. CASE UNCHANGED <<scnt, pending>>
  BY <1>1, <1>4, <1>8, <1>10, <1>12 DEF Rests, LineStep
<1>13. Put \/ UNCHANGED <<scnt, pending>>
  BY DEF TaskSendOpen, TaskSend, TaskSendEnd, mqVars
<1>14. QED
  BY <1>11, <1>12, <1>13

\* A receiving task finds the id it expects, so it never stops the slave over
\* one; on a line that is not one-way it finds nothing.
LEMMA SlaveRecvLine ==
  ASSUME CountsFit, TypeInv, NEW t \in Lines, LineInv(t),
         TaskRecvCreate(t) \/ TaskRecvGet(t) \/ TaskRecvEnd(t)
  PROVE  LineStep(t) /\ RoleInv(t)' /\ OpenInv(t)'
<1>1. /\ UNCHANGED <<plan, table, hpc, hi, hth, hcnt>> /\ stk[t] \in {"rCreate", "recv"}
  BY DEF TaskRecvCreate, TaskRecvGet, TaskRecvEnd, TaskFrame, hostVars, threadVars
<1>2. table[t].thrDirection = unidirectional_recv
  BY <1>1 DEF LineInv, RoleInv
<1>3. /\ t \in Thread /\ plan[t].msgCount \in Nat
      /\ hcnt[t] \in Nat /\ scnt[t] \in Nat
      /\ table[t].numMessages = plan[t].msgCount
      /\ M4RecvQ(t) \in QueueName /\ A15RecvQ(t) \in QueueName /\ M4RecvQ(t) # A15RecvQ(t)
      /\ plan[t].direction \in {unidirectional_send, bidirectional}
  BY <1>2, LineNumbers DEF unidirectional_send, unidirectional_recv, bidirectional, ThreadDirection
<1>4. /\ stk \in [Thread -> TaskPc] /\ scnt \in [Thread -> Nat]
      /\ pending \in [QueueName -> Seq(StreamMessage)]
  BY DEF TypeInv, PcInv, QueuesInv
<1>5. /\ stk'[t] \in {"rCreate", "recv", "inc"}
      /\ A15RecvQ(t) \in exists' <=> A15RecvQ(t) \in exists
      /\ pending'[A15RecvQ(t)] = pending[A15RecvQ(t)]
  BY <1>1, <1>3, <1>4 DEF TaskRecvCreate, TaskRecvGet, TaskRecvEnd, Goto, Create, CreateFails,
     Delete, WithoutHead
<1>6. ASSUME plan[t].direction = bidirectional
      PROVE  pending' = pending /\ scnt' = scnt
  <2>1. pending[M4RecvQ(t)] = <<>>
    BY <1>6 DEF LineInv, RoleInv
  <2>2. [pending EXCEPT ![M4RecvQ(t)] = <<>>] = pending
    BY <1>3, <1>4, <2>1
  <2>3. QED
    BY <2>1, <2>2 DEF TaskRecvCreate, TaskRecvGet, TaskRecvEnd, HasMessage, Create, CreateFails, Delete
<1>7. RoleInv(t)'
  BY <1>1, <1>2, <1>3, <1>5, <1>6 DEF LineInv, RoleInv
<1>8. CASE plan[t].direction = bidirectional
  <2>1. plan[t].direction # unidirectional_send
    BY <1>8 DEF bidirectional, unidirectional_send
  <2>2. /\ StreamQueue(t) = A15RecvQ(t) /\ Sent(t) = scnt[t] /\ Rcvd(t) = hcnt[t]
        /\ StreamQueue(t)' = A15RecvQ(t) /\ Sent(t)' = scnt'[t] /\ Rcvd(t)' = hcnt'[t]
        /\ AtSend(t)' <=> stk'[t] = "send"
    BY <1>1, <2>1, SlaveToHost
  <2>3. Rests(t) /\ OpenInv(t)'
    BY <1>1, <1>5, <1>6, <1>8, <2>2 DEF Rests, OpenInv
  <2>4. QED
    BY <1>7, <2>3 DEF LineStep
<1>9. CASE plan[t].direction = unidirectional_send
  <2>1. /\ StreamQueue(t) = M4RecvQ(t) /\ Sent(t) = hcnt[t] /\ Rcvd(t) = scnt[t]
        /\ AtSend(t) <=> hth[t] = "send"
        /\ StreamQueue(t)' = M4RecvQ(t) /\ Sent(t)' = hcnt'[t] /\ Rcvd(t)' = scnt'[t]
        /\ AtSend(t)' <=> hth'[t] = "send"
    BY <1>1, <1>9, HostToSlave
  <2>2. /\ scnt[t] <= hcnt[t] /\ hcnt[t] <= plan[t].msgCount
        /\ HasMessage(M4RecvQ(t)) => Head(pending[M4RecvQ(t)]).id = scnt[t] /\ scnt[t] < hcnt[t]
        /\ scnt[t] = plan[t].msgCount => pending[M4RecvQ(t)] = <<>>
    BY <2>1, LineNumbers DEF HasMessage
  <2>3. CASE TaskRecvCreate(t)
    <3>1. scnt' = scnt /\ pending' = pending /\ exists \subseteq exists'
      BY <2>3 DEF TaskRecvCreate, Create, CreateFails
    <3>2. Rests(t) /\ OpenInv(t)'
      BY <1>1, <2>1, <3>1 DEF Rests, LineInv, OpenInv
    <3>3. QED
      BY <1>7, <3>2 DEF LineStep
  <2>4. CASE TaskRecvGet(t)
    <3>1. /\ HasMessage(M4RecvQ(t)) /\ pending' = [pending EXCEPT ![M4RecvQ(t)] = Tail(@)]
          /\ scnt' = [scnt EXCEPT ![t] = @ + 1] /\ exists' = exists
      BY <2>2, <2>4 DEF TaskRecvGet, WithoutHead
    <3>2. pending'[M4RecvQ(t)] = Tail(pending[M4RecvQ(t)]) /\ scnt'[t] = scnt[t] + 1
      BY <1>3, <1>4, <3>1
    <3>3. ReceivesOne(t)
      BY <1>1, <2>1, <2>2, <3>1, <3>2 DEF ReceivesOne
    <3>4. scnt[t] # plan[t].msgCount
      BY <1>3, <2>2, <3>1, LineNumbers
    <3>5. OpenInv(t)'
      BY <1>1, <2>1, <3>1, <3>4 DEF LineInv, OpenInv
    <3>6. QED
      BY <1>7, <3>3, <3>5 DEF LineStep
  <2>5. CASE TaskRecvEnd(t)
    <3>1. /\ scnt[t] >= plan[t].msgCount /\ scnt' = scnt
          /\ pending' = [pending EXCEPT ![M4RecvQ(t)] = <<>>]
      BY <1>3, <2>5 DEF TaskRecvEnd, Delete
    <3>2. scnt[t] = plan[t].msgCount /\ pending[M4RecvQ(t)] = <<>>
      BY <1>3, <2>2, <3>1, LineNumbers
    <3>3. pending' = pending
      BY <1>3, <1>4, <3>1, <3>2
    <3>4. Rests(t) /\ OpenInv(t)'
      BY <1>1, <2>1, <3>1, <3>2, <3>3 DEF Rests, OpenInv
    <3>5. QED
      BY <1>7, <3>4 DEF LineStep
  <2>6. QED
    BY <2>3, <2>4, <2>5
<1>10. QED
  BY <1>3, <1>8, <1>9

\* The end of a task.
LEMMA SlaveCountLine ==
  ASSUME CountsFit, TypeInv, NEW t \in Lines, LineInv(t), TaskCountRead(t) \/ TaskCountWrite(t)
  PROVE  LineStep(t) /\ RoleInv(t)' /\ OpenInv(t)'
<1>1. /\ UNCHANGED <<plan, table, hpc, hi, hth, hcnt, scnt, exists, pending>>
      /\ stk[t] # "none"
  BY DEF TaskCountRead, TaskCountWrite, TaskFrame, hostVars, threadVars, mqVars
<1>2. t \in Thread /\ stk \in [Thread -> TaskPc]
  BY LineNumbers DEF TypeInv, PcInv
<1>3. stk'[t] \in {"store", "finished"}
  BY <1>2 DEF TaskCountRead, TaskCountWrite, Goto
<1>4. Rests(t)
  BY <1>1 DEF Rests, StreamQueue, Sent, Rcvd, HostSends, Lines
<1>5. RoleInv(t)'
  BY <1>1, <1>3 DEF LineInv, RoleInv
<1>6. OpenInv(t)'
  BY <1>1, <1>3 DEF LineInv, OpenInv, AtSend, HostSends, Lines, StreamQueue, Rcvd
<1>7. QED
  BY <1>4, <1>5, <1>6 DEF LineStep

\* Every step is a step of one line; all others stay as they are.
StepOf(t) ==
  /\ UNCHANGED <<plan, table>>
  /\ hpc' = "spawn" => hpc = "spawn" /\ hi' >= hi
  /\ LineStep(t) /\ RoleInv(t)' /\ OpenInv(t)'
  /\ \A u \in Thread \ {t} : Same(u)

\* pthread_create is a step of the line it creates the thread of;
LEMMA HostSpawnLine ==
  ASSUME CountsFit, TypeInv, IdsInv, HostSpawn, NEW t, t = hi + 1
  PROVE  t \in Lines /\ StepOf(t)
<1>1. /\ Lines \subseteq Thread /\ Len(plan) \in Nat /\ hi \in Nat /\ hi < Len(plan) /\ hpc = "spawn"
      /\ hth \in [Thread -> ThreadPc] /\ hcnt \in [Thread -> 0 .. IdRange - 1]
  BY LineFacts DEF TypeInv, PcInv, HostSpawn
<1>2. t \in Lines /\ t \in Thread /\ t > hi
  BY <1>1 DEF Lines
<1>3. LineInv(t) /\ hth[t] = "none" /\ hcnt[t] = 0
  BY <1>1, <1>2 DEF IdsInv, LineInv, RoleInv
<1>4. /\ UNCHANGED <<plan, table, stk, scnt, exists, pending>>
      /\ hcnt' = [hcnt EXCEPT ![t] = 0]
      /\ hpc' = "spawn" => hi' = t
  BY DEF HostSpawn, slaveVars, taskVars
<1>5. hcnt' = hcnt
  BY <1>1, <1>2, <1>3, <1>4
<1>6. \E pc \in {"sOpen", "rCreate", "none"} :
        /\ hth' = [hth EXCEPT ![t] = pc]
        /\ pc = "sOpen" => plan[t].direction = unidirectional_send
        /\ pc = "rCreate" => plan[t].direction = unidirectional_recv
  BY DEF HostSpawn, Goto
<1>7. /\ hth'[t] \in {"sOpen", "rCreate", "none"}
      /\ hth'[t] = "sOpen" => plan[t].direction = unidirectional_send
      /\ hth'[t] = "rCreate" => plan[t].direction = unidirectional_recv
      /\ \A u \in Thread \ {t} : hth'[u] = hth[u]
  BY <1>1, <1>2, <1>6
<1>8. Rests(t)
  BY <1>4, <1>5 DEF Rests, StreamQueue, Sent, Rcvd, HostSends, Lines
<1>9. RoleInv(t)'
  BY <1>1, <1>2, <1>3, <1>4, <1>5, <1>7 DEF LineInv, RoleInv, unidirectional_send,
     unidirectional_recv, bidirectional
<1>10. OpenInv(t)'
  BY <1>3, <1>4, <1>5, <1>7 DEF LineInv, OpenInv, AtSend, HostSends, Lines, StreamQueue, Rcvd
<1>11. \A u \in Thread \ {t} : Same(u)
  BY <1>4, <1>5, <1>7 DEF Same
<1>12. QED
  BY <1>1, <1>2, <1>4, <1>8, <1>9, <1>10, <1>11 DEF StepOf, LineStep

\* Task_create is one of the line of its task.
LEMMA SlaveCreateLine ==
  ASSUME CountsFit, TypeInv, CountInv, IdsInv, SlaveCreateTask, NEW t, t = si + 1
  PROVE  t \in Lines /\ StepOf(t)
<1>1. /\ Lines \subseteq Thread /\ Len(plan) \in Nat /\ si \in Nat /\ si < Len(plan)
      /\ stk \in [Thread -> TaskPc] /\ scnt \in [Thread -> Nat] /\ hi \in Nat
  BY LineFacts DEF TypeInv, PcInv, SlaveCreateTask
<1>2. t \in Lines /\ t \in Thread /\ t > si
  BY <1>1 DEF Lines
<1>3. LineInv(t) /\ stk[t] = "none" /\ scnt[t] = 0
  BY <1>1, <1>2 DEF IdsInv, LineInv, RoleInv, CountInv
<1>4. /\ UNCHANGED <<plan, table, hth, hcnt, hpc, hi, exists, pending>>
      /\ scnt' = [scnt EXCEPT ![t] = 0]
  BY DEF SlaveCreateTask, threadVars, hostVars
<1>5. scnt' = scnt
  BY <1>1, <1>2, <1>3, <1>4
<1>6. \E pc \in {"sOpen", "rCreate", "none"} :
        /\ stk' = [stk EXCEPT ![t] = pc]
        /\ pc = "sOpen" => table[t].thrDirection = unidirectional_send
        /\ pc = "rCreate" => table[t].thrDirection = unidirectional_recv
  BY DEF SlaveCreateTask, Goto
<1>7. /\ stk'[t] \in {"sOpen", "rCreate", "none"}
      /\ stk'[t] = "sOpen" => table[t].thrDirection = unidirectional_send
      /\ stk'[t] = "rCreate" => table[t].thrDirection = unidirectional_recv
      /\ \A u \in Thread \ {t} : stk'[u] = stk[u]
  BY <1>1, <1>2, <1>6
<1>8. Rests(t)
  BY <1>4, <1>5 DEF Rests, StreamQueue, Sent, Rcvd, HostSends, Lines
<1>9. RoleInv(t)'
  BY <1>1, <1>2, <1>3, <1>4, <1>5, <1>7 DEF LineInv, RoleInv
<1>10. OpenInv(t)'
  BY <1>3, <1>4, <1>5, <1>7 DEF LineInv, OpenInv, AtSend, HostSends, Lines, StreamQueue, Rcvd
<1>11. \A u \in Thread \ {t} : Same(u)
  BY <1>4, <1>5, <1>7 DEF Same
<1>12. QED
  BY <1>1, <1>2, <1>4, <1>8, <1>9, <1>10, <1>11 DEF StepOf, LineStep

\* The steps of the main thread and the main task that concern no line.
LEMMA IdleStep ==
  ASSUME CountsFit, TypeInv, IdsInv,
         HostJoin \/ SlaveTasksCreated \/ SlaveAllFinished \/ UNCHANGED vars
  PROVE  1 \in Lines /\ StepOf(1)
<1>1. 1 \in Lines /\ Lines \subseteq Thread /\ hi \in Nat
  BY LineFacts DEF TypeInv, PcInv, Lines
<1>2. /\ UNCHANGED <<plan, table, hth, hcnt, stk, scnt, exists, pending>>
      /\ hpc' = "spawn" => hpc = "spawn" /\ hi' = hi
  BY DEF HostJoin, SlaveTasksCreated, SlaveAllFinished, vars, mqVars, hostVars, slaveVars,
     threadVars, taskVars
<1>3. LineInv(1)
  BY <1>1 DEF IdsInv
<1>4. Rests(1)
  BY <1>2 DEF Rests, StreamQueue, Sent, Rcvd, HostSends, Lines
<1>5. RoleInv(1)'
  BY <1>2, <1>3 DEF LineInv, RoleInv
<1>6. OpenInv(1)'
  BY <1>2, <1>3 DEF LineInv, OpenInv, AtSend, HostSends, Lines, StreamQueue, Rcvd
<1>7. \A u \in Thread : Same(u)
  BY <1>2 DEF Same
<1>8. QED
  BY <1>1, <1>2, <1>4, <1>5, <1>6, <1>7 DEF StepOf, LineStep

\* Every step is a step of at most one line.
LEMMA OneLineSteps ==
  ASSUME CountsFit, TypeInv, CountInv, IdsInv, [Next]_vars
  PROVE  \E t \in Lines : StepOf(t)
<1>1. CASE HostSpawn
  <2>1. PICK t : t = hi + 1
    OBVIOUS
  <2>2. QED
    BY <1>1, <2>1, HostSpawnLine
<1>2. CASE SlaveCreateTask
  <2>1. PICK t : t = si + 1
    OBVIOUS
  <2>2. QED
    BY <1>2, <2>1, SlaveCreateLine
<1>3. CASE HostJoin \/ SlaveTasksCreated \/ SlaveAllFinished \/ UNCHANGED vars
  BY <1>3, IdleStep
<1>4. CASE \E t \in Thread : HostThread(t) \/ SlaveTask(t)
  <2>1. PICK t \in Thread : HostThread(t) \/ SlaveTask(t)
    BY <1>4
  <2>2. hth[t] # "none" \/ stk[t] # "none"
    BY <2>1 DEF HostThread, SlaveTask, ThreadSendOpen, ThreadSend, ThreadSendEnd,
       ThreadRecvCreate, ThreadRecvGet, ThreadRecvEnd, TaskSendOpen, TaskSend, TaskSendEnd,
       TaskRecvCreate, TaskRecvGet, TaskRecvEnd, TaskCountRead, TaskCountWrite
  <2>3. t \in Lines /\ LineInv(t) /\ hi \in Nat
    BY <2>2 DEF TypeInv, OnlyLines, IdsInv, PcInv
  <2>4. LineStep(t) /\ RoleInv(t)' /\ OpenInv(t)'
    BY <2>1, <2>3, HostSendLine, HostRecvLine, SlaveSendLine, SlaveRecvLine, SlaveCountLine
       DEF HostThread, SlaveTask
  <2>5. UNCHANGED <<plan, table, hpc, hi>>
    BY <2>1 DEF HostThread, SlaveTask, ThreadSendOpen, ThreadSend, ThreadSendEnd,
       ThreadRecvCreate, ThreadRecvGet, ThreadRecvEnd, TaskSendOpen, TaskSend, TaskSendEnd,
       TaskRecvCreate, TaskRecvGet, TaskRecvEnd, TaskCountRead, TaskCountWrite,
       ThreadFrame, TaskFrame, hostVars, slaveVars
  <2>6. \A u \in Thread \ {t} : Same(u)
    BY <2>1, OtherLines
  <2>7. QED
    BY <2>3, <2>4, <2>5, <2>6 DEF StepOf
<1>5. QED
  BY <1>1, <1>2, <1>3, <1>4 DEF Next, HostMain, SlaveMain

\* A step of one line keeps the invariants of all.
LEMMA StepKept ==
  ASSUME CountsFit, TypeInv, TypeInv', IdsInv, NEW t \in Lines, StepOf(t)
  PROVE  IdsInv' /\ \A u \in Lines \ {t} : Rests(u)
<1>1. /\ Lines' = Lines /\ Lines \subseteq Thread /\ hi \in Nat /\ hi' \in Nat
      /\ UNCHANGED <<plan, table>>
      /\ hpc' = "spawn" => hpc = "spawn" /\ hi' >= hi
  BY LineFacts DEF StepOf, Lines, TypeInv, PcInv
<1>2. LineInv(t)'
  <2>1. ChannelInv(t)'
    BY <1>1, MoveKept DEF StepOf, LineStep, IdsInv, LineInv
  <2>2. QED
    BY <2>1 DEF StepOf, LineInv
<1>3. ASSUME NEW u \in Lines \ {t} PROVE LineInv(u)' /\ Rests(u)
  <2>1. u \in Nat /\ u \in Thread
    BY <1>1 DEF Thread
  <2>2. LineInv(u) /\ Same(u)
    BY <2>1 DEF IdsInv, StepOf
  <2>3. QED
    BY <1>1, <2>1, <2>2, SameKept
<1>4. QED
  BY <1>1, <1>2, <1>3 DEF IdsInv

\* They hold at the start,
LEMMA InitIdsInv == Init => IdsInv
<1> SUFFICES ASSUME Init, NEW t \in Lines PROVE LineInv(t)
  BY DEF IdsInv
<1>1. /\ t \in Thread /\ plan[t].msgCount \in Nat
      /\ M4RecvQ(t) \in QueueName /\ A15RecvQ(t) \in QueueName
  BY LineFacts, StreamQueues DEF Init
<1>2. /\ hth[t] = "none" /\ hcnt[t] = 0 /\ stk[t] = "none" /\ scnt[t] = 0 /\ exists = {}
      /\ pending[M4RecvQ(t)] = <<>> /\ pending[A15RecvQ(t)] = <<>>
  BY <1>1 DEF Init, MqInit
<1>3. RoleInv(t)
  BY <1>2 DEF RoleInv
<1>4. Sent(t) = 0 /\ Rcvd(t) = 0 /\ pending[StreamQueue(t)] = <<>> /\ ~ AtSend(t)
  BY <1>2 DEF Sent, Rcvd, StreamQueue, AtSend
<1>5. ChannelInv(t) /\ OpenInv(t)
  BY <1>1, <1>4 DEF ChannelInv, OpenInv
<1>6. QED
  BY <1>3, <1>5 DEF LineInv

\* Every step keeps what is known of the ids of the messages on their way.
LEMMA NextIdsInv ==
  ASSUME CountsFit
  PROVE  TypeInv /\ TypeInv' /\ CountInv /\ IdsInv /\ [Next]_vars => IdsInv'
BY OneLineSteps, StepKept

\* and in every state.
LEMMA IdsInvariant ==
  ASSUME CountsFit
  PROVE  Spec => []IdsInv
BY NextIdsInv, InitIdsInv, TypeInvariant, CountInvariant, PTL DEF Spec

\* The slave never stops, and a host thread never gives up, over a message it
\* did not expect, whatever calls fail: IdsAlwaysExpected, for plans whose
\* counts fit in the two bytes of an id.
THEOREM StreamsIdsAlwaysExpected ==
  ASSUME CountsFit
  PROVE  Spec => []IdsAlwaysExpected
<1>1. TypeInv /\ IdsInv => IdsAlwaysExpected
  <2> SUFFICES ASSUME TypeInv, IdsInv, NEW t \in Lines
               PROVE  \A i \in 1 .. Len(IdsIn(StreamQueue(t))) :
                        IdsIn(StreamQueue(t))[i] = Rcvd(t) + i - 1
    BY DEF IdsAlwaysExpected, Rcvd
  <2> DEFINE s == pending[StreamQueue(t)]
  <2>1. Len(s) \in Nat /\ \A i \in 1 .. Len(s) : s[i].id = Rcvd(t) + i - 1
    BY LineNumbers DEF IdsInv, LineInv, ChannelInv
  <2>2. IdsIn(StreamQueue(t)) = [i \in 1 .. Len(s) |-> s[i].id]
    BY DEF IdsIn
  <2> HIDE DEF s
  <2>3. Len([i \in 1 .. Len(s) |-> s[i].id]) = Len(s)
    BY <2>1
  <2>4. QED
    BY <2>1, <2>2, <2>3
<1>2. QED
  BY <1>1, IdsInvariant, TypeInvariant, PTL

-----------------------------------------------------------------------------
(* Until a call fails, every message allocated is on its way, and neither    *)
(* side stops.                                                              *)

CalmInv ==
  ~ fault => /\ live = Cardinality(Waiting)
             /\ spc # "aborted"
             /\ \A t \in Thread : stk[t] # "sendLost"

\* A put, a get, or neither; a message is allocated with the first and freed
\* with the second.
PutsOne ==
  \E q \in QueueName, m \in StreamMessage :
    pending' = [pending EXCEPT ![q] = Append(@, m)] /\ live' = live + 1
TakesOne ==
  \E q \in QueueName : HasMessage(q) /\ pending' = WithoutHead(pending, q) /\ live' = live - 1
MovesNone == pending' = pending /\ live' = live

\* Such steps keep the count of messages exact.
LEMMA ExactMoves ==
  ASSUME TypeInv, live = Cardinality(Waiting), PutsOne \/ TakesOne \/ MovesNone
  PROVE  live' = Cardinality(Waiting')
<1>1. /\ QueuesInv /\ IsFiniteSet(Waiting) /\ Cardinality(Waiting) \in Nat
      /\ pending \in [QueueName -> Seq(StreamMessage)]
  BY FS_CardinalityType DEF TypeInv, LiveInv, QueuesInv
<1>2. CASE PutsOne
  <2>1. PICK q \in QueueName, m \in StreamMessage :
          pending' = [pending EXCEPT ![q] = Append(@, m)] /\ live' = live + 1
    BY <1>2 DEF PutsOne
  <2> DEFINE new == <<q, Len(pending[q]) + 1>>
  <2>2. Waiting' = Waiting \cup {new}
    BY <1>1, <2>1, WaitingAfterPut
  <2>3. new \notin Waiting
    <3>1. Len(pending[q]) \in Nat
      BY <1>1
    <3>2. QED
      BY <3>1 DEF Waiting
  <2> HIDE DEF new
  <2>4. Cardinality(Waiting \cup {new}) = Cardinality(Waiting) + 1
    BY <1>1, <2>3, FS_AddElement
  <2>5. QED
    BY <2>1, <2>2, <2>4
<1>3. CASE TakesOne
  <2>1. PICK q \in QueueName : HasMessage(q) /\ pending' = WithoutHead(pending, q) /\ live' = live - 1
    BY <1>3 DEF TakesOne
  <2>2. Len(pending[q]) \in Nat \ {0} /\ Len(pending'[q]) = Len(pending[q]) - 1
    BY <1>1, <2>1 DEF HasMessage, WithoutHead
  <2>3. \A r \in QueueName : r # q => pending'[r] = pending[r]
    BY <1>1, <2>1 DEF WithoutHead
  <2> DEFINE last == <<q, Len(pending[q])>>
  <2>4. last \in Waiting
    BY <2>2 DEF Waiting
  <2>5. Waiting' = Waiting \ {last}
    <3>1. 1 .. Len(pending'[q]) = (1 .. Len(pending[q])) \ {Len(pending[q])}
      BY <2>2
    <3>2. {q} \X (1 .. Len(pending'[q])) = ({q} \X (1 .. Len(pending[q]))) \ {last}
      BY <3>1
    <3>3. \A r \in QueueName : {r} \X (1 .. Len(pending'[r])) = ({r} \X (1 .. Len(pending[r]))) \ {last}
      BY <2>3, <3>2
    <3> HIDE DEF last
    <3>4. QED
      BY <3>3 DEF Waiting
  <2> HIDE DEF last
  <2>6. Cardinality(Waiting \ {last}) = Cardinality(Waiting) - 1
    BY <1>1, <2>4, FS_RemoveElement
  <2>7. QED
    BY <2>1, <2>5, <2>6
<1>4. CASE MovesNone
  BY <1>4 DEF MovesNone, Waiting
<1>5. QED
  BY <1>2, <1>3, <1>4

\* What a step must do to be one of them, in which the slave does not stop.
CalmStep ==
  /\ PutsOne \/ TakesOne \/ MovesNone
  /\ spc' # "aborted" /\ \A t \in Thread : stk'[t] # "sendLost"

\* A thread that puts a message has a queue to put it on, one that gets a
\* message finds the id it expects, and a queue is empty when it is deleted.
LEMMA ThreadCalm ==
  ASSUME CountsFit, TypeInv, IdsInv, ~ fault, CalmInv, ~ fault', NEW t \in Thread, HostThread(t)
  PROVE  CalmStep
<1>0. hth[t] # "none" /\ UNCHANGED <<stk, spc>>
  BY DEF HostThread, ThreadSendOpen, ThreadSend, ThreadSendEnd, ThreadRecvCreate, ThreadRecvGet, ThreadRecvEnd,
     ThreadFrame, slaveVars, taskVars
<1>1. t \in Lines /\ LineInv(t) /\ StreamMsg(hcnt[t], hptr[t], plan[t].msgSize) \in StreamMessage
  BY <1>0, ThreadOfLine DEF IdsInv, OwnMessage
<1>2. pending \in [QueueName -> Seq(StreamMessage)]
  BY DEF TypeInv, QueuesInv
<1>3. CASE ThreadSendOpen(t) \/ ThreadSendEnd(t) \/ ThreadRecvCreate(t)
  BY <1>0, <1>3 DEF ThreadSendOpen, ThreadSendEnd, ThreadRecvCreate, Create, CreateFails, mqVars, MovesNone, CalmStep, CalmInv
<1>4. CASE ThreadSend(t)
  <2>1. plan[t].direction = unidirectional_send
    BY <1>1, <1>4 DEF ThreadSend, LineInv, RoleInv
  <2>2. StreamQueue(t) = M4RecvQ(t) /\ Sent(t) = hcnt[t] /\ AtSend(t)
    BY <1>1, <1>4, <2>1 DEF ThreadSend, StreamQueue, Sent, AtSend, HostSends
  <2>3. M4RecvQ(t) \in exists /\ M4RecvQ(t) \in QueueName
    BY <1>1, <1>4, <2>2, LineNumbers DEF ThreadSend, LineInv, OpenInv
  <2>4. CASE pending' = pending /\ live' = live
    BY <1>0, <2>4 DEF CalmStep, MovesNone, CalmInv
  <2>5. CASE pending' = WithPut(pending, M4RecvQ(t), StreamMsg(hcnt[t], hptr[t], plan[t].msgSize)) /\ live' = live + 1
    <3>1. PutsOne
      BY <1>1, <2>3, <2>5 DEF PutsOne, WithPut
    <3>2. QED
      BY <1>0, <3>1 DEF CalmStep, CalmInv
  <2>6. QED
    BY <1>4, <2>4, <2>5 DEF ThreadSend, Fails
<1>5. ASSUME hth[t] = "recv"
      PROVE  /\ A15RecvQ(t) \in QueueName
             /\ HasMessage(A15RecvQ(t)) => Head(pending[A15RecvQ(t)]).id = hcnt[t]
             /\ hcnt[t] >= plan[t].msgCount => pending[A15RecvQ(t)] = <<>>
  <2>1. plan[t].direction # unidirectional_send
    BY <1>1, <1>5 DEF LineInv, RoleInv, unidirectional_recv, unidirectional_send
  <2>2. StreamQueue(t) = A15RecvQ(t) /\ Rcvd(t) = hcnt[t]
    BY <2>1 DEF StreamQueue, Rcvd, HostSends
  <2>3. QED
    BY <1>1, <2>2, LineNumbers DEF HasMessage
<1>6. CASE ThreadRecvGet(t)
  <2>1. TakesOne
    BY <1>5, <1>6 DEF ThreadRecvGet, TakesOne
  <2>2. QED
    BY <1>0, <2>1 DEF CalmStep, CalmInv
<1>7. CASE ThreadRecvEnd(t)
  <2>1. hth[t] = "recv" /\ hcnt[t] >= plan[t].msgCount
    BY <1>1, <1>7 DEF ThreadRecvEnd, LineInv, RoleInv
  <2>2. pending' = pending /\ live' = live
    BY <1>2, <1>5, <1>7, <2>1 DEF ThreadRecvEnd, Delete
  <2>3. QED
    BY <1>0, <2>2 DEF CalmStep, MovesNone, CalmInv
<1>8. QED
  BY <1>3, <1>4, <1>6, <1>7 DEF HostThread

\* The same for a task, which does not stop the slave either.
LEMMA TaskCalm ==
  ASSUME CountsFit, TypeInv, IdsInv, ~ fault, CalmInv, ~ fault', NEW t \in Thread, SlaveTask(t)
  PROVE  CalmStep
<1>0. /\ stk[t] # "none" /\ stk[t] # "sendLost" /\ spc # "aborted"
      /\ stk \in [Thread -> TaskPc] /\ \A u \in Thread : stk[u] # "sendLost"
  BY DEF SlaveTask, TaskSendOpen, TaskSend, TaskSendEnd, TaskRecvCreate, TaskRecvGet, TaskRecvEnd,
     TaskCountRead, TaskCountWrite, CalmInv, TypeInv, PcInv
<1>1. /\ t \in Lines /\ LineInv(t) /\ table[t].numMessages = plan[t].msgCount
      /\ StreamMsg(scnt[t] % IdRange, table[t].boBufPayloadPtr, table[t].boBufPayloadSize) \in StreamMessage
  BY <1>0, TaskOfLine DEF IdsInv, OwnMessage
<1>2. pending \in [QueueName -> Seq(StreamMessage)]
  BY DEF TypeInv, QueuesInv
<1>3. CASE TaskSendOpen(t) \/ TaskSendEnd(t) \/ TaskRecvCreate(t) \/ TaskCountRead(t) \/ TaskCountWrite(t)
  <2>1. MovesNone /\ spc' = spc
    BY <1>3 DEF TaskSendOpen, TaskSendEnd, TaskRecvCreate, TaskCountRead, TaskCountWrite, Create, CreateFails,
       mqVars, MovesNone, Fails
  <2>2. stk' = stk \/ \E pc \in TaskPc \ {"sendLost"} : stk' = [stk EXCEPT ![t] = pc]
    BY <1>3 DEF TaskSendOpen, TaskSendEnd, TaskRecvCreate, TaskCountRead, TaskCountWrite, CreateFails, Fails, Goto, TaskPc
  <2>3. QED
    BY <1>0, <2>1, <2>2 DEF CalmStep
<1>4. CASE TaskSend(t)
  <2>1. stk[t] = "send" /\ scnt[t] < plan[t].msgCount
    BY <1>0, <1>1, <1>4 DEF TaskSend
  <2>2. plan[t].direction # unidirectional_send
    BY <1>1, <2>1, LineNumbers DEF LineInv, RoleInv, unidirectional_send, bidirectional
  <2>3. StreamQueue(t) = A15RecvQ(t) /\ Sent(t) = scnt[t] /\ AtSend(t)
    BY <2>1, <2>2 DEF StreamQueue, Sent, AtSend, HostSends
  <2>4. A15RecvQ(t) \in exists /\ A15RecvQ(t) \in QueueName
    BY <1>1, <2>1, <2>3, LineNumbers DEF LineInv, OpenInv
  <2>5. /\ pending' = WithPut(pending, A15RecvQ(t), StreamMsg(scnt[t] % IdRange, table[t].boBufPayloadPtr,
                                                              table[t].boBufPayloadSize))
        /\ live' = live + 1 /\ spc' = spc /\ stk' = stk
    BY <1>0, <1>4 DEF TaskSend, Fails
  <2>6. PutsOne
    BY <1>1, <2>4, <2>5 DEF PutsOne, WithPut
  <2>7. QED
    BY <1>0, <2>5, <2>6 DEF CalmStep
<1>5. ASSUME stk[t] = "recv"
      PROVE  /\ M4RecvQ(t) \in QueueName
             /\ HasMessage(M4RecvQ(t)) => Head(pending[M4RecvQ(t)]).id = scnt[t]
             /\ scnt[t] >= plan[t].msgCount => pending[M4RecvQ(t)] = <<>>
  <2>1. CASE plan[t].direction = bidirectional
    BY <1>1, <2>1, LineNumbers DEF LineInv, RoleInv, HasMessage
  <2>2. CASE plan[t].direction # bidirectional
    <3>1. plan[t].direction = unidirectional_send
      BY <1>1, <1>5, <2>2, LineNumbers DEF LineInv, RoleInv, unidirectional_recv, unidirectional_send, bidirectional,
         ThreadDirection
    <3>2. StreamQueue(t) = M4RecvQ(t) /\ Rcvd(t) = scnt[t]
      BY <1>1, <3>1 DEF StreamQueue, Rcvd, HostSends
    <3>3. QED
      BY <1>1, <3>2, LineNumbers DEF HasMessage
  <2>3. QED
    BY <2>1, <2>2
<1>6. CASE TaskRecvGet(t)
  <2>1. TakesOne /\ spc' = spc /\ stk' = stk
    BY <1>5, <1>6 DEF TaskRecvGet, TakesOne
  <2>2. QED
    BY <1>0, <2>1 DEF CalmStep
<1>7. CASE TaskRecvEnd(t)
  <2>1. pending' = pending /\ live' = live /\ spc' = spc
    BY <1>1, <1>2, <1>5, <1>7 DEF TaskRecvEnd, Delete
  <2>2. stk' = [stk EXCEPT ![t] = "inc"]
    BY <1>7 DEF TaskRecvEnd, Goto
  <2>3. QED
    BY <1>0, <2>1, <2>2 DEF CalmStep, MovesNone
<1>8. QED
  BY <1>3, <1>4, <1>6, <1>7 DEF SlaveTask

\* Every step keeps CalmInv: none forgets a failure.
LEMMA NextCalmInv ==
  ASSUME CountsFit
  PROVE  TypeInv /\ IdsInv /\ CalmInv /\ [Next]_vars => CalmInv'
<1> SUFFICES ASSUME TypeInv, IdsInv, CalmInv, [Next]_vars, ~ fault' PROVE CalmInv'
  BY DEF CalmInv
<1>1. CASE HostMain \/ SlaveMain \/ UNCHANGED vars
  <2>1. ~ fault
    BY <1>1 DEF HostMain, HostSpawn, HostJoin, SlaveMain, SlaveCreateTask, SlaveTasksCreated, SlaveAllFinished, Fails,
       mqVars, vars
  <2>2. MovesNone
    BY <1>1 DEF HostMain, HostSpawn, HostJoin, SlaveMain, SlaveCreateTask, SlaveTasksCreated, SlaveAllFinished, mqVars,
       vars, MovesNone
  <2>3. spc' # "aborted"
    BY <1>1, <2>1 DEF HostMain, HostSpawn, HostJoin, SlaveMain, SlaveCreateTask, SlaveTasksCreated, SlaveAllFinished,
       slaveVars, vars, CalmInv
  <2>4. stk' = stk \/ \E t \in Thread, pc \in {"rCreate", "sOpen", "none"} : stk' = [stk EXCEPT ![t] = pc]
    <3>1. SlaveCreateTask => si + 1 \in Thread
      <4>1. Lines \subseteq Thread /\ Len(plan) \in Nat /\ si \in 0 .. numThreads /\ numThreads = Len(plan)
        BY LineFacts DEF TypeInv, PcInv
      <4>2. SlaveCreateTask => si + 1 \in Lines
        BY <4>1 DEF SlaveCreateTask, Lines
      <4>3. QED
        BY <4>1, <4>2
    <3>2. QED
      BY <1>1, <3>1 DEF HostMain, HostSpawn, HostJoin, SlaveMain, SlaveCreateTask, SlaveTasksCreated, SlaveAllFinished,
         taskVars, vars, Goto
  <2>5. \A t \in Thread : stk'[t] # "sendLost"
    BY <2>1, <2>4 DEF CalmInv, TypeInv, PcInv
  <2>6. QED
    BY <2>1, <2>2, <2>3, <2>5, ExactMoves DEF CalmInv
<1>2. ASSUME NEW t \in Thread, HostThread(t) \/ SlaveTask(t) PROVE CalmInv'
  <2>1. ~ fault
    BY <1>2 DEF HostThread, SlaveTask, ThreadSendOpen, ThreadSend, ThreadSendEnd,
       ThreadRecvCreate, ThreadRecvGet, ThreadRecvEnd, TaskSendOpen, TaskSend, TaskSendEnd,
       TaskRecvCreate, TaskRecvGet, TaskRecvEnd, TaskCountRead, TaskCountWrite, Create, CreateFails, Fails, mqVars
  <2>2. CalmStep
    BY <1>2, <2>1, ThreadCalm, TaskCalm
  <2>3. QED
    BY <2>1, <2>2, ExactMoves DEF CalmInv, CalmStep
<1>3. QED
  BY <1>1, <1>2 DEF Next

\* It holds at the start.
LEMMA InitCalmInv == Init => CalmInv
<1> SUFFICES ASSUME Init PROVE CalmInv
  OBVIOUS
<1>1. Waiting = {}
  BY DEF Init, MqInit, Waiting
<1>2. QED
  BY <1>1, FS_EmptySet DEF Init, MqInit, CalmInv

\* Until a call fails, each message that a thread or a task has allocated waits
\* in a queue that somebody will empty, so that none is lost when a queue is
\* deleted or put where nobody looks; and no task stops the slave.
THEOREM StreamsLoseNothing ==
  ASSUME CountsFit
  PROVE  Spec => [](~ fault => live = Cardinality(Waiting) /\ spc # "aborted")
<1>1. CalmInv => (~ fault => live = Cardinality(Waiting) /\ spc # "aborted")
  BY DEF CalmInv
<1>2. QED
  BY <1>1, InitCalmInv, NextCalmInv, TypeInvariant, IdsInvariant, PTL DEF Spec

-----------------------------------------------------------------------------
(* The streams implement the channels of module OneWayStreams.              *)

\* The numbers under way, as a sequence, after a put and after a get.
LEMMA IdsMove ==
  ASSUME NEW S, NEW s \in Seq(S)
  PROVE  LET ids(r) == [i \in 1 .. Len(r) |-> r[i].id]
         IN  /\ ids(s) \in Seq({s[i].id : i \in 1 .. Len(s)}) /\ Len(ids(s)) = Len(s)
             /\ \A m \in S : ids(Append(s, m)) = Append(ids(s), m.id)
             /\ s # <<>> => /\ ids(s) # <<>> /\ Head(ids(s)) = Head(s).id
                            /\ ids(Tail(s)) = Tail(ids(s))
<1> DEFINE ids(r) == [i \in 1 .. Len(r) |-> r[i].id]
           I == {s[i].id : i \in 1 .. Len(s)}
<1>1. Len(s) \in Nat
  OBVIOUS
<1>2. ids(s) \in Seq(I) /\ Len(ids(s)) = Len(s)
  BY <1>1
<1>3. ASSUME NEW m \in S PROVE ids(Append(s, m)) = Append(ids(s), m.id)
  <2>1. /\ Len(Append(s, m)) = Len(s) + 1
        /\ \A i \in 1 .. Len(s) + 1 : Append(s, m)[i] = IF i = Len(s) + 1 THEN m ELSE s[i]
    BY <1>1
  <2>2. Append(ids(s), m.id) = [i \in 1 .. Len(s) + 1 |-> IF i = Len(s) + 1 THEN m.id ELSE ids(s)[i]]
    BY <1>1, <1>2
  <2>3. QED
    BY <1>1, <2>1, <2>2
<1>4. ASSUME s # <<>>
      PROVE  ids(s) # <<>> /\ Head(ids(s)) = Head(s).id /\ ids(Tail(s)) = Tail(ids(s))
  <2>1. Len(s) \in Nat \ {0} /\ Head(s) = s[1]
    BY <1>4
  <2>2. ids(s) # <<>> /\ Head(ids(s)) = ids(s)[1] /\ ids(s)[1] = s[1].id
    BY <1>2, <2>1
  <2>3. Len(Tail(s)) = Len(s) - 1 /\ \A i \in 1 .. Len(s) - 1 : Tail(s)[i] = s[i + 1]
    BY <1>4, <2>1
  <2>4. Tail(ids(s)) = [i \in 1 .. Len(s) - 1 |-> ids(s)[i + 1]]
    BY <1>2, <2>1
  <2>5. QED
    BY <2>1, <2>2, <2>3, <2>4
<1>5. QED
  BY <1>2, <1>3, <1>4

Chan(t) == IF t \in Lines THEN IdsIn(StreamQueue(t)) ELSE <<>>
Count(t) == IF t \in Lines THEN plan[t].msgCount ELSE 0

\* At the start nothing has been sent or received.
LEMMA InitOneWay == Init => OneWay!Init
<1> SUFFICES ASSUME Init PROVE OneWay!Init
  OBVIOUS
<1>1. \A t \in Thread : Count(t) \in Nat
  BY LineFacts DEF Init, Count
<1>2. ASSUME NEW t \in Thread PROVE Sent(t) = 0 /\ Rcvd(t) = 0 /\ Chan(t) = <<>>
  <2>1. hcnt[t] = 0 /\ scnt[t] = 0
    BY DEF Init
  <2>2. pending[StreamQueue(t)] = <<>>
    BY StreamQueues DEF Init, MqInit, StreamQueue
  <2>3. IdsIn(StreamQueue(t)) = <<>>
    BY <2>2 DEF IdsIn
  <2>4. QED
    BY <2>1, <2>3 DEF Sent, Rcvd, Chan
<1>3. QED
  BY <1>1, <1>2 DEF OneWay!Init, Count, Sent, Rcvd, Chan

\* What changes outside the line that has moved: nothing.
LEMMA OthersRest ==
  ASSUME TypeInv, NEW t \in Lines, StepOf(t), \A u \in Lines \ {t} : Rests(u)
  PROVE  /\ \A u \in Thread : Count(u)' = Count(u)
         /\ \A u \in Thread \ {t} : /\ Sent(u)' = Sent(u) /\ Rcvd(u)' = Rcvd(u)
                                    /\ Chan(u)' = Chan(u)
<1>1. UNCHANGED <<plan, table>> /\ Lines' = Lines
  BY DEF StepOf, Lines
<1>2. \A u \in Thread : Count(u)' = Count(u)
  BY <1>1 DEF Count
<1>3. ASSUME NEW u \in Thread \ {t}
      PROVE  Sent(u)' = Sent(u) /\ Rcvd(u)' = Rcvd(u) /\ Chan(u)' = Chan(u)
  <2>1. StreamQueue(u)' = StreamQueue(u)
    BY <1>1 DEF StreamQueue
  <2>2. CASE u \in Lines
    <3>1. Rests(u)
      BY <2>2
    <3>2. QED
      BY <1>1, <2>1, <2>2, <3>1 DEF Rests, Chan, IdsIn
  <2>3. CASE u \notin Lines
    <3>1. hcnt'[u] = hcnt[u] /\ scnt'[u] = scnt[u]
      BY DEF StepOf, Same
    <3>2. QED
      BY <1>1, <2>3, <3>1 DEF Sent, Rcvd, HostSends, Chan
  <2>4. QED
    BY <2>2, <2>3
<1>4. QED
  BY <1>2, <1>3

\* The move of a line is a step of the channel, or none.
LEMMA StepOneWay ==
  ASSUME TypeInv, IdsInv, NEW t \in Lines, StepOf(t), \A u \in Lines \ {t} : Rests(u)
  PROVE  [OneWay!Next]_(OneWay!vars)
<1> DEFINE q == StreamQueue(t)
           s == pending[StreamQueue(t)]
<1>1. /\ t \in Thread /\ Lines' = Lines /\ q' = q
      /\ s \in Seq(OwnMessage(t))
  BY LineFacts DEF TypeInv, QueuesInv, StreamQueue, StepOf, Lines
<1>2. /\ \A u \in Thread : Count(u)' = Count(u)
      /\ \A u \in Thread \ {t} : Sent(u)' = Sent(u) /\ Rcvd(u)' = Rcvd(u) /\ Chan(u)' = Chan(u)
  BY OthersRest
<1>3. Chan(t) = IdsIn(q) /\ Chan(t)' = [i \in 1 .. Len(pending'[q]) |-> pending'[q][i].id]
  BY <1>1 DEF Chan, IdsIn
<1>4. IdsIn(q) = [i \in 1 .. Len(s) |-> s[i].id]
  BY DEF IdsIn
<1> HIDE DEF s
<1>5. CASE SendsOne(t)
  <2>1. PICK m \in OwnMessage(t) : m.id = Sent(t) /\ pending'[q] = Append(s, m)
    BY <1>5 DEF SendsOne, s
  <2>2. Chan(t)' = Append(Chan(t), Sent(t))
    BY <1>1, <1>3, <1>4, <2>1, IdsMove
  <2>3. /\ Sent(t)' = Sent(t) + 1 /\ Rcvd(t)' = Rcvd(t) /\ Sent(t) < Count(t)
    BY <1>5 DEF SendsOne, Count
  <2>4. OneWay!Send(t)
    BY <1>1, <1>2, <2>2, <2>3 DEF OneWay!Send, Count, Sent, Rcvd, Chan
  <2>5. QED
    BY <1>1, <2>4 DEF OneWay!Next
<1>6. CASE ReceivesOne(t)
  <2>1. /\ s # <<>> /\ pending'[q] = Tail(s) /\ Head(s).id = Rcvd(t)
        /\ Rcvd(t)' = Rcvd(t) + 1 /\ Sent(t)' = Sent(t)
    BY <1>6 DEF ReceivesOne, HasMessage, s
  <2>2. Chan(t) # <<>> /\ Head(Chan(t)) = Rcvd(t) /\ Chan(t)' = Tail(Chan(t))
    BY <1>1, <1>3, <1>4, <2>1, IdsMove
  <2>3. OneWay!Receive(t)
    BY <1>1, <1>2, <2>1, <2>2 DEF OneWay!Receive, Count, Sent, Rcvd, Chan
  <2>4. QED
    BY <1>1, <2>3 DEF OneWay!Next
<1>7. CASE Rests(t)
  <2>1. Sent(t)' = Sent(t) /\ Rcvd(t)' = Rcvd(t) /\ Chan(t)' = Chan(t)
    BY <1>3, <1>4, <1>7 DEF Rests, s
  <2>2. UNCHANGED OneWay!vars
    BY <1>2, <2>1 DEF OneWay!vars, Count, Sent, Rcvd, Chan
  <2>3. QED
    BY <2>2
<1>8. QED
  BY <1>5, <1>6, <1>7 DEF StepOf, LineStep

\* Every stream delivers its messages in order and once, and no more than the
\* plan asks for, whatever calls fail: StreamsAreSafe, the refinement of
\* OneWayStreams' safety part, for plans whose counts fit in an id.
THEOREM StreamsImplementOneWay ==
  ASSUME CountsFit
  PROVE  Spec => StreamsAreSafe
<1>1. TypeInv /\ TypeInv' /\ CountInv /\ IdsInv /\ [Next]_vars => [OneWay!Next]_(OneWay!vars)
  <2> SUFFICES ASSUME TypeInv, TypeInv', CountInv, IdsInv, [Next]_vars
               PROVE  [OneWay!Next]_(OneWay!vars)
    OBVIOUS
  <2>1. PICK t \in Lines : StepOf(t)
    BY OneLineSteps
  <2>2. \A u \in Lines \ {t} : Rests(u)
    BY <2>1, StepKept
  <2>3. QED
    BY <2>1, <2>2, StepOneWay
<1>2. QED
  BY <1>1, InitOneWay, IdsInvariant, TypeInvariant, CountInvariant, PTL
     DEF Spec, StreamsAreSafe, OneWay!SafeSpec

====
