------------------------------ MODULE TestPlan ------------------------------
(***************************************************************************)
(* What one run of the host tool MessageQZCpy is asked to do: the lines of *)
(* its cfg file, one per thread.  Both processors' programs are written    *)
(* against these definitions, so every module of the zero-copy test        *)
(* extends this one.  Thread t of a plan is the code's thread t - 1.       *)
(***************************************************************************)
EXTENDS Integers, Sequences

CONSTANTS
  MaxThreads,   \* bounds the length of a plan (the code: fewer than 100 lines)
  Plans,        \* the cfg files a run may be given
  BufBase,      \* bufferPtrRemoteAddr: the slave's address of the shared buffer
  Faults        \* the library calls that may fail, a subset of FaultKind

Thread == 1 .. MaxThreads

unidirectional_send == 0
unidirectional_recv == 1
bidirectional       == 2
ThreadDirection == {unidirectional_send, unidirectional_recv, bidirectional}

\* One cfg line; interval and procID steer timing and placement only.
ThreadConf == [direction : ThreadDirection, msgSize : Nat, msgCount : Nat]

\* "open" is MessageQ_open failing with something else than NOTFOUND.
FaultKind == {"create", "open", "alloc", "put", "spawn", "task"}

ASSUME MaxThreadsAssumption == MaxThreads \in Nat \ {0}

ASSUME PlansAssumption ==
  \A p \in Plans : p \in Seq(ThreadConf) /\ Len(p) \in Thread

ASSUME BufBaseAssumption == BufBase \in Nat

ASSUME FaultsAssumption == Faults \subseteq FaultKind

=============================================================================
