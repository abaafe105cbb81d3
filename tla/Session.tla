------------------------------ MODULE Session ------------------------------
(***************************************************************************)
(* The zero-copy test as a whole.  The slave's tsk1Fxn serves one run of   *)
(* the host tool after the other, each through the handshake, the streams  *)
(* and the data transaction; the user starts the tool again, with another  *)
(* cfg file, when the previous run has ended.                              *)
(***************************************************************************)
EXTENDS MessageQ, FiniteSets

CONSTANTS
  IdRange, Smp, MaxPending,   \* as in module Streams
  MaxRuns                     \* bounds the runs of the host tool

ASSUME MaxRunsAssumption == MaxRuns \in Nat
ASSUME IdRangeAssumption == IdRange \in Nat \ {0}
ASSUME SmpAssumption == Smp \in BOOLEAN
ASSUME MaxPendingAssumption == MaxPending \in Nat \ {0}

VARIABLES
  plan, hpc, hi, hoff, hth, hcnt, hptr,
  spc, si, numThreads, table, stk, scnt, finished, reg,
  buf, seedSeen, verdict,
  runs        \* the runs that have ended

HS == INSTANCE Handshake
ST == INSTANCE Streams
DT == INSTANCE DataTransact

threadVars == <<hth, hcnt, hptr>>
taskVars   == <<si, stk, scnt, finished, reg>>
dataVars   == <<buf, seedSeen, verdict>>
planVars   == <<plan, hi, hoff, numThreads, table>>
vars == <<mqVars, planVars, hpc, spc, threadVars, taskVars, dataVars, runs>>

InHandshake(A) == A /\ UNCHANGED <<threadVars, taskVars, dataVars, runs>>
InStreams(A) == A /\ UNCHANGED <<dataVars, runs>>
InTransaction(A) == A /\ UNCHANGED <<planVars, threadVars, taskVars, runs>>

-----------------------------------------------------------------------------

\* Faulty variant: tempOffsetCtr outlives the run.
HostStartKeepsOffset ==
  /\ hpc = "idle" /\ runs < MaxRuns
  /\ plan' \in Plans
  /\ hpc' = "hsCreate" /\ hi' = 0
  /\ hth' = [t \in Thread |-> "none"]
  /\ hcnt' = [t \in Thread |-> 0]
  /\ hptr' = [t \in Thread |-> 0]
  /\ buf' = "computed" /\ verdict' = "none"
  /\ UNCHANGED <<mqVars, hoff, spc, numThreads, table, taskVars, seedSeen, runs>>

\* The tool is started: it reads its cfg file, gets a shared buffer and has
\* the slave compute on it (module-level summary of main up to
\* MessageQApp_handshake when no step of it fails).
HostStart ==
  /\ hpc = "idle" /\ runs < MaxRuns
  /\ plan' \in Plans
  /\ hpc' = "hsCreate" /\ hi' = 0 /\ hoff' = 0
  /\ hth' = [t \in Thread |-> "none"]
  /\ hcnt' = [t \in Thread |-> 0]
  /\ hptr' = [t \in Thread |-> 0]
  /\ buf' = "computed" /\ verdict' = "none"
  /\ UNCHANGED <<mqVars, spc, numThreads, table, taskVars, seedSeen, runs>>

\* The end of main.
HostLeave ==
  /\ hpc = "leave"
  /\ hpc' = "idle"
  /\ runs' = runs + 1
  /\ UNCHANGED <<mqVars, planVars, spc, threadVars, taskVars, dataVars>>

HostMain ==
  \/ HostStart \/ HostLeave
  \/ InHandshake(HS!HostNext)
  \/ InStreams(ST!HostMain)
  \/ InTransaction(DT!HostNext)

\* The top of tsk1Fxn's endless loop.
SlaveReset ==
  /\ spc = "slReset"
  /\ finished' = 0
  /\ si' = 0
  /\ seedSeen' = "none"
  /\ spc' = "slCreate"
  /\ UNCHANGED <<mqVars, planVars, hpc, threadVars, stk, scnt, reg, buf,
                 verdict, runs>>

\* Its bottom: every task is deleted and pTaskConfigs freed.
SlaveFree ==
  /\ spc = "slFree"
  /\ stk' = [t \in Thread |-> IF t <= numThreads THEN "none" ELSE stk[t]]
  /\ table' = <<>>
  /\ spc' = "slReset"
  /\ UNCHANGED <<mqVars, plan, hi, hoff, numThreads, hpc, threadVars, si, scnt,
                 finished, reg, dataVars, runs>>

SlaveMain ==
  \/ SlaveReset \/ SlaveFree
  \/ InHandshake(HS!SlaveNext)
  \/ InStreams(ST!SlaveMain)
  \/ InTransaction(DT!SlaveNext)

HostThread(t) == InStreams(ST!HostThread(t))
SlaveTask(t)  == InStreams(ST!SlaveTask(t))

Init ==
  /\ MqInit
  /\ plan \in Plans /\ hpc = "idle" /\ hi = 0 /\ hoff = 0
  /\ hth = [t \in Thread |-> "none"]
  /\ hcnt = [t \in Thread |-> 0] /\ hptr = [t \in Thread |-> 0]
  /\ spc = "slReset" /\ si = 0 /\ numThreads = 0 /\ table = <<>>
  /\ stk = [t \in Thread |-> "none"]
  /\ scnt = [t \in Thread |-> 0] /\ reg = [t \in Thread |-> 0]
  /\ finished = 0
  /\ buf = "computed" /\ seedSeen = "none" /\ verdict = "none"
  /\ runs = 0

Next ==
  \/ HostMain \/ SlaveMain
  \/ \E t \in Thread : HostThread(t) \/ SlaveTask(t)

\* As in modules Handshake and Streams.  The user starts the tool again as
\* often as MaxRuns allows.
Fairness ==
  /\ WF_vars(HostMain) /\ WF_vars(SlaveMain)
  /\ \A t \in Thread : WF_vars(HostThread(t)) /\ WF_vars(SlaveTask(t))

Spec == Init /\ [][Next]_vars /\ Fairness

-----------------------------------------------------------------------------
(* Properties. *)

HostPc  == {"idle"} \cup HS!HostPc \cup ST!HostPc \cup DT!HostPc
SlavePc == {"slReset"} \cup HS!SlavePc \cup ST!SlavePc \cup DT!SlavePc

TypeOK ==
  /\ exists \subseteq QueueName /\ DOMAIN pending = QueueName
  /\ live \in Nat /\ fault \in BOOLEAN
  /\ plan \in Plans
  /\ hpc \in HostPc /\ hi \in 0 .. Len(plan) /\ hoff \in Nat
  /\ spc \in SlavePc /\ si \in 0 .. MaxThreads /\ numThreads \in 0 .. MaxThreads
  /\ table \in Seq(HS!TaskConf)
  /\ hth \in [Thread -> ST!ThreadPc] /\ stk \in [Thread -> ST!TaskPc]
  /\ buf \in DT!Content /\ {seedSeen, verdict} \subseteq DT!Finding
  /\ runs \in 0 .. MaxRuns

\* The two programs stay in step and every run is carried through: module
\* Rounds, with the phases read off the two program counters.
InStep == INSTANCE Rounds WITH
  host  <- CASE hpc \in {"idle", "crashed"} -> "idle"
             [] hpc \in HS!HostPc \ {"spawn"} -> "handshake"
             [] hpc \in {"spawn", "join"} -> "streams"
             [] OTHER -> "transaction",
  slave <- CASE spc \in {"slDelete", "slTasks", "slWait"} -> "streams"
             [] spc \in {"dtCreate", "dtGet"} -> "transaction"
             [] spc \in {"dtDelete", "slFree"} -> "replied"
             [] OTHER -> "ready"

StaysInStep == InStep!Spec

\* On two cores, where a lost count may stop the slave, and until a call
\* fails, what happens at all is in step.
StaysInStepSafely == [][fault' \/ InStep!Next]_(InStep!vars)

\* From the handshake to the data transaction, as the host sees it and as the
\* slave sees it, the slave's table is that of the run that is going on, and
\* never what an earlier run, with another cfg file, has left behind.
Working ==
  \/ hpc \in {"spawn", "join", "dhCreate", "dhOpen", "dhPut"}
  \/ spc \in {"slTasks", "slWait", "dtCreate", "dtGet"}

TableOfThisRun ==
  Working /\ ~fault =>
    Len(table) = Len(plan) /\ HS!TableFollowsPlan /\ HS!RegionsTile

\* From the host's filling of the buffer to its check of it, the buffer
\* belongs to the data transaction: every thread and task has ended and no
\* message of a stream, which would point into the buffer, is under way.
TransactionExclusive ==
  hpc = "dhGet" =>
    /\ \A t \in Thread : hth[t] \in {"done", "none"}
    /\ \A t \in Thread : stk[t] \in {"finished", "none"}
    /\ \A q \in StreamQ : q \notin exists /\ pending[q] = <<>>

\* Neither check of the shared buffer ever fails.
DataIntegrity == verdict # "mismatch" /\ seedSeen # "mismatch"

\* tsk1Fxn deletes only tasks that have counted themselves as finished.
TasksFinishedBeforeDelete ==
  spc \in {"dtGet", "dtDelete", "slFree"} =>
    \A t \in 1 .. numThreads : stk[t] = "finished"

\* Between two runs nothing of the earlier one is left in the message
\* service: no message is allocated and only the slave's queue is registered.
\* (The types of all variables are part of it.)
NothingLeft ==
  /\ TypeOK
  /\ hpc = "idle" /\ spc = "slGetCount" /\ ~fault =>
       live = 0 /\ exists = {SlaveProcQ} /\ \A q \in QueueName : pending[q] = <<>>

\* All runs are served, and the slave waits for the next.
AllRunsServed == <>[](runs = MaxRuns /\ hpc = "idle" /\ spc = "slGetCount")

\* With failures, a host that has sent the message of the data transaction
\* gets it back unless the slave has stopped.
TransactionAnswered == hpc = "dhGet" ~> (hpc = "leave" \/ spc = "aborted")

=============================================================================
