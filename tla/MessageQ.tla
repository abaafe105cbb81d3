------------------------------ MODULE MessageQ ------------------------------
(***************************************************************************)
(* The MessageQ service of TI's IPC package, modelled from how the two     *)
(* programs of the zero-copy test use it.  Queues are found by name; a put *)
(* appends to the receiver's queue, a get with MessageQ_FOREVER waits for  *)
(* a message and takes the oldest one.  Deleting a queue discards what is  *)
(* in it, and a message put on a queue that is gone is lost.               *)
(***************************************************************************)
EXTENDS TestPlan

VARIABLES
  exists,     \* the names under which a queue is registered
  pending,    \* for each name, the messages waiting in the queue
  live,       \* the number of messages allocated and not freed
  fault       \* history: some library call has failed

mqVars == <<exists, pending, live, fault>>

HandshakeQ == <<"A15_RECEIVER_HANDSHAKE", 0>>   \* owned by the host
SlaveProcQ == <<"SLAVE_PROC", 0>>               \* SLAVE_<name of the core>
HostDataQ  == <<"HOST", 0>>
SlaveDataQ == <<"SLAVE", 0>>
M4RecvQ(t)  == <<"M4_RECV_MQ", t>>              \* the slave receives
A15RecvQ(t) == <<"A15_RECV_MQ", t>>             \* the host receives

StreamQ == {M4RecvQ(t) : t \in Thread} \cup {A15RecvQ(t) : t \in Thread}

QueueName == {HandshakeQ, SlaveProcQ, HostDataQ, SlaveDataQ} \cup StreamQ

MqInit ==
  /\ exists = {}
  /\ pending = [q \in QueueName |-> <<>>]
  /\ live = 0
  /\ fault = FALSE

\* A library call of this kind fails.
Fails(kind) == kind \in Faults /\ fault' = TRUE

\* MessageQ_create: a name that is still registered is refused.
Create(q) ==
  /\ q \notin exists
  /\ exists' = exists \cup {q}
  /\ UNCHANGED <<pending, live, fault>>

CreateFails(q) ==
  /\ q \in exists \/ "create" \in Faults
  /\ fault' = TRUE
  /\ UNCHANGED <<exists, pending, live>>

Delete(q) ==
  /\ exists' = exists \ {q}
  /\ pending' = [pending EXCEPT ![q] = <<>>]

\* The queues after a put of m on q, and after a get from q.
WithPut(p, q, m) == IF q \in exists THEN [p EXCEPT ![q] = Append(@, m)] ELSE p

WithoutHead(p, q) == [p EXCEPT ![q] = Tail(@)]

HasMessage(q) == pending[q] # <<>>

=============================================================================
