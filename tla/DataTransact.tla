---------------------------- MODULE DataTransact ----------------------------
(***************************************************************************)
(* The data transaction that closes a run (dataTransactFxn on both sides): *)
(* the host fills the whole shared buffer with 0xbeefdead and sends one    *)
(* message, the slave checks the buffer, rewrites it with 0xdeadbeef and   *)
(* sends the message back, the host checks the buffer.                     *)
(***************************************************************************)
EXTENDS MessageQ

VARIABLES
  hpc,       \* the host's main thread
  spc,       \* the slave's tsk1Fxn
  buf,       \* what every word of the shared buffer holds
  seedSeen,  \* what the slave's check of the buffer has found, if made
  verdict    \* what the host's check of the buffer has found, if made

vars == <<mqVars, hpc, spc, buf, seedSeen, verdict>>

HostPc  == {"dhCreate", "dhOpen", "dhPut", "dhGet", "dhDelete", "leave"}
SlavePc == {"dtCreate", "dtGet", "dtDelete", "slFree", "aborted"}

\* "computed": 0xdeadbeef from the MxServer_compute call at the start of the
\* run, but for word 0, which holds the slave's address of the buffer.
Content == {"computed", "0xbeefdead", "0xdeadbeef"}
Finding == {"none", "match", "mismatch"}

Compare(content) == IF buf = content THEN "match" ELSE "mismatch"

DataMsg == [id |-> 1]

-----------------------------------------------------------------------------
(* The host. *)

HostDataCreate ==
  /\ hpc = "dhCreate"
  /\ \/ Create(HostDataQ) /\ hpc' = "dhOpen"
     \/ CreateFails(HostDataQ) /\ hpc' = "leave"
  /\ UNCHANGED <<spc, buf, seedSeen, verdict>>

HostDataOpen ==
  /\ hpc = "dhOpen"
  /\ \/ SlaveDataQ \in exists /\ hpc' = "dhPut" /\ UNCHANGED fault
     \/ Fails("open") /\ hpc' = "dhDelete"
  /\ UNCHANGED <<exists, pending, live, spc, buf, seedSeen, verdict>>

\* The message is allocated, the buffer filled and the message put; if it
\* cannot be put it is not freed.
HostDataPut ==
  /\ hpc = "dhPut"
  /\ \/ /\ live' = live + 1
        /\ buf' = "0xbeefdead"
        /\ pending' = WithPut(pending, SlaveDataQ, DataMsg)
        /\ hpc' = "dhGet"
        /\ UNCHANGED fault
     \/ /\ Fails("alloc")
        /\ hpc' = "dhDelete"
        /\ UNCHANGED <<pending, live, buf>>
     \/ /\ Fails("put")
        /\ live' = live + 1
        /\ buf' = "0xbeefdead"
        /\ hpc' = "dhDelete"
        /\ UNCHANGED pending
  /\ UNCHANGED <<exists, spc, seedSeen, verdict>>

\* Faulty variant: the message that came back is not freed.
HostDataGetLeaks ==
  /\ hpc = "dhGet" /\ HasMessage(HostDataQ)
  /\ pending' = WithoutHead(pending, HostDataQ)
  /\ verdict' = Compare("0xdeadbeef")
  /\ hpc' = "dhDelete"
  /\ UNCHANGED <<exists, live, fault, spc, buf, seedSeen>>

HostDataGet ==
  /\ hpc = "dhGet" /\ HasMessage(HostDataQ)
  /\ pending' = WithoutHead(pending, HostDataQ)
  /\ verdict' = Compare("0xdeadbeef")
  /\ live' = live - 1
  /\ hpc' = "dhDelete"
  /\ UNCHANGED <<exists, fault, spc, buf, seedSeen>>

HostDataDelete ==
  /\ hpc = "dhDelete"
  /\ Delete(HostDataQ)
  /\ hpc' = "leave"
  /\ UNCHANGED <<live, fault, spc, buf, seedSeen, verdict>>

HostNext == HostDataCreate \/ HostDataOpen \/ HostDataPut \/ HostDataGet
            \/ HostDataDelete

-----------------------------------------------------------------------------
(* The slave. *)

SlaveDataCreate ==
  /\ spc = "dtCreate"
  /\ \/ Create(SlaveDataQ) /\ spc' = "dtGet"
     \/ CreateFails(SlaveDataQ) /\ spc' = "aborted"
  /\ UNCHANGED <<hpc, buf, seedSeen, verdict>>

\* Faulty variants: the buffer is not rewritten; a failed put goes unnoticed.
SlaveDataGetLeavesBuffer ==
  /\ spc = "dtGet" /\ HasMessage(SlaveDataQ)
  /\ seedSeen' = Compare("0xbeefdead")
  /\ pending' = WithPut(WithoutHead(pending, SlaveDataQ), HostDataQ,
                        Head(pending[SlaveDataQ]))
  /\ spc' = "dtDelete"
  /\ UNCHANGED <<exists, live, fault, hpc, buf, verdict>>

SlaveDataGetGoesOn ==
  /\ spc = "dtGet" /\ HasMessage(SlaveDataQ)
  /\ seedSeen' = Compare("0xbeefdead")
  /\ buf' = "0xdeadbeef"
  /\ LET taken == WithoutHead(pending, SlaveDataQ)
     IN  \/ pending' = WithPut(taken, HostDataQ, Head(pending[SlaveDataQ]))
            /\ UNCHANGED fault
         \/ pending' = taken /\ Fails("put")
  /\ spc' = "dtDelete"
  /\ UNCHANGED <<exists, live, hpc, verdict>>

\* The buffer is rewritten whatever the check found.
SlaveDataGet ==
  /\ spc = "dtGet" /\ HasMessage(SlaveDataQ)
  /\ seedSeen' = Compare("0xbeefdead")
  /\ buf' = "0xdeadbeef"
  /\ LET msg   == Head(pending[SlaveDataQ])
         taken == WithoutHead(pending, SlaveDataQ)
     IN  \/ /\ msg.id = 1
            /\ pending' = WithPut(taken, HostDataQ, msg)
            /\ spc' = "dtDelete"
            /\ UNCHANGED fault
         \/ /\ \/ msg.id # 1 /\ UNCHANGED fault
               \/ Fails("put")
            /\ pending' = taken
            /\ spc' = "aborted"
  /\ UNCHANGED <<exists, live, hpc, verdict>>

\* Faulty variant: the queue is kept.
SlaveDataDeleteKeeps ==
  /\ spc = "dtDelete"
  /\ spc' = "slFree"
  /\ UNCHANGED <<mqVars, hpc, buf, seedSeen, verdict>>

SlaveDataDelete ==
  /\ spc = "dtDelete"
  /\ Delete(SlaveDataQ)
  /\ spc' = "slFree"
  /\ UNCHANGED <<live, fault, hpc, buf, seedSeen, verdict>>

SlaveNext == SlaveDataCreate \/ SlaveDataGet \/ SlaveDataDelete

=============================================================================
