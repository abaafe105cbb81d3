---------------------------- MODULE LoadMonitor ----------------------------
(***************************************************************************)
(* load_task.c: the slave's processor load.  The Load module calls an      *)
(* update hook in the idle task after every window; it adds the window's   *)
(* times to several accumulators, which the load task and tsk1Fxn reset    *)
(* and the load task divides.  Nothing locks them.  The image is an SMP    *)
(* one, so a reset and an update may run at the same time, a statement of  *)
(* one between a load and a store of the other.                            *)
(***************************************************************************)
EXTENDS Integers, Sequences, FiniteSetsExt

CONSTANTS
  Registered,   \* the tasks given to Utils_prfLoadRegister before BIOS_start
  PrintsToReset,   \* the reports between two resets by the load task (50)
  MaxWindows    \* bound: the windows that an accumulator holds

\* The tasks have a table of fixed size (UTILS_PRF_MAX_HNDL).
ASSUME LoadMonitorAssumption ==
  /\ PrintsToReset \in Nat \ {0} /\ MaxWindows \in Nat
  /\ IsFiniteSet(Registered) /\ Registered \cap {"hwi", "swi", "idle", "total", "other"} = {}

Parts == {"hwi", "swi", "idle"} \cup Registered
Tasks == {"loadtsk", "tsk1"}    \* those that reset

VARIABLES
  acc,        \* gUtils_accPrfLoadObj, and loadObj[].totalTskThreadTime
  hook,       \* Utils_prfLoadUpdate: [at, loaded, who], who had the window
  tpc, lpc,   \* where tsk1Fxn and the load task are
  resetAt,    \* per task, the statement of its reset (0: none under way)
  gUtils_startLoadCalc, gUtils_LoadLogInterval, gUtils_AutoResetLogInterval,
  undisturbed,   \* history: per task, its reset has met no update so far
  torn           \* history: the last reset overlapped with an update

loadVars == <<acc, hook, tpc, lpc, resetAt, gUtils_startLoadCalc, gUtils_LoadLogInterval,
              gUtils_AutoResetLogInterval, undisturbed, torn>>
loadSettings == <<gUtils_startLoadCalc, gUtils_LoadLogInterval>>

NotRunning == [at |-> 0, loaded |-> -1, who |-> "none"]

LoadMonitorInit ==
  /\ acc = [a \in Parts \cup {"total"} |-> 0] /\ hook = NotRunning
  /\ tpc = "begin" /\ lpc = "report" /\ resetAt = [t \in Tasks |-> 0]
  /\ gUtils_startLoadCalc = 0 /\ gUtils_LoadLogInterval = 5000 /\ gUtils_AutoResetLogInterval = 0
  /\ undisturbed = [t \in Tasks |-> TRUE] /\ torn = FALSE

-----------------------------------------------------------------------------
(* The update hook: a load, then a store, per accumulator. *)

RegisteredInOrder == CHOOSE s \in [1 .. Cardinality(Registered) -> Registered] :
                       \A i, j \in DOMAIN s : s[i] = s[j] => i = j
UpdateOrder == <<"hwi", "swi", "total", "idle">> \o RegisteredInOrder

\* Load_getGlobalHwiLoad and the like: the window's time (1) went to one of the
\* parts, or to a task that is not registered.
Share(who, a) == IF a = "total" \/ a = who THEN 1 ELSE 0

Disturb == undisturbed' = [t \in Tasks |-> undisturbed[t] /\ resetAt[t] = 0]

UpdateBegin ==
  /\ hook = NotRunning /\ \A a \in DOMAIN acc : acc[a] < MaxWindows
  /\ \E who \in Parts \cup {"other"} : hook' = [at |-> 1, loaded |-> -1, who |-> who]
  /\ Disturb
  /\ UNCHANGED <<acc, tpc, lpc, resetAt, loadSettings, gUtils_AutoResetLogInterval, torn>>

UpdateLoad ==
  /\ hook.at > 0 /\ hook.loaded = -1
  /\ hook' = [hook EXCEPT !.loaded = acc[UpdateOrder[hook.at]]]
  /\ Disturb
  /\ UNCHANGED <<acc, tpc, lpc, resetAt, loadSettings, gUtils_AutoResetLogInterval, torn>>

UpdateStore ==
  /\ hook.at > 0 /\ hook.loaded # -1
  /\ LET a == UpdateOrder[hook.at] IN acc' = [acc EXCEPT ![a] = hook.loaded + Share(hook.who, a)]
  /\ hook' = IF hook.at = Len(UpdateOrder) THEN NotRunning ELSE [hook EXCEPT !.at = @ + 1, !.loaded = -1]
  /\ Disturb
  /\ UNCHANGED <<tpc, lpc, resetAt, loadSettings, gUtils_AutoResetLogInterval, torn>>

-----------------------------------------------------------------------------
(* Utils_prfLoadCalcReset, called by either task. *)

\* Faulty variant: the tasks' accumulators are not reset.
ResetOrderShort == <<"hwi", "swi", "total", "idle">>
ResetOrder == <<"hwi", "swi", "total", "idle">> \o RegisteredInOrder

ResetBegin(t) ==
  /\ resetAt' = [resetAt EXCEPT ![t] = 1]
  /\ undisturbed' = [undisturbed EXCEPT ![t] = (hook = NotRunning)]

ResetStep(t) ==
  /\ resetAt[t] \in DOMAIN ResetOrder
  /\ acc' = [acc EXCEPT ![ResetOrder[resetAt[t]]] = 0]
  /\ resetAt' = [resetAt EXCEPT ![t] = @ + 1]
  /\ UNCHANGED <<hook, tpc, lpc, loadSettings, gUtils_AutoResetLogInterval, undisturbed, torn>>

ResetEnd(t) ==
  /\ resetAt[t] = Len(ResetOrder) + 1
  /\ resetAt' = [resetAt EXCEPT ![t] = 0]
  /\ torn' = ~undisturbed[t]
  /\ UNCHANGED undisturbed

-----------------------------------------------------------------------------
(* The load task. *)

\* Utils_prfLoadPrintAll divides by acc.total, which after a reset is 0 until the
\* next window ends: the division stops the core or yields some figure.
Report ==
  /\ lpc = "report"
  /\ lpc' \in {"sleep"} \cup (IF gUtils_startLoadCalc = 1 /\ acc.total = 0 THEN {"divzero"} ELSE {})
  /\ gUtils_AutoResetLogInterval' =
       IF gUtils_startLoadCalc = 1 /\ gUtils_AutoResetLogInterval < PrintsToReset
       THEN gUtils_AutoResetLogInterval + 1 ELSE gUtils_AutoResetLogInterval
  /\ UNCHANGED <<acc, hook, tpc, resetAt, loadSettings, undisturbed, torn>>

\* Task_sleep, and the reset after as many reports, but not during a run.
AutoReset ==
  /\ lpc = "sleep"
  /\ IF gUtils_AutoResetLogInterval >= PrintsToReset /\ gUtils_LoadLogInterval # 500
     THEN lpc' = "reset" /\ ResetBegin("loadtsk")
     ELSE lpc' = "report" /\ UNCHANGED <<resetAt, undisturbed>>
  /\ UNCHANGED <<acc, hook, tpc, loadSettings, gUtils_AutoResetLogInterval, torn>>

AutoResetDone ==
  /\ lpc = "reset" /\ ResetEnd("loadtsk")
  /\ lpc' = "report" /\ gUtils_AutoResetLogInterval' = 0
  /\ UNCHANGED <<acc, hook, tpc, loadSettings>>

-----------------------------------------------------------------------------
(* tsk1Fxn: a reset before the handshake and one at its first message. *)

Tsk1Begin ==
  /\ tpc = "begin" /\ tpc' = "idle"
  /\ gUtils_startLoadCalc' = 1
  /\ UNCHANGED <<acc, hook, lpc, resetAt, gUtils_LoadLogInterval, gUtils_AutoResetLogInterval, undisturbed, torn>>

Tsk1Reset ==
  /\ \/ tpc = "idle" /\ tpc' = "reset1"
     \/ tpc = "waiting" /\ tpc' = "reset2"
  /\ ResetBegin("tsk1")
  /\ UNCHANGED <<acc, hook, lpc, loadSettings, gUtils_AutoResetLogInterval, torn>>

Tsk1ResetDone ==
  /\ \/ tpc = "reset1" /\ tpc' = "waiting"
     \/ tpc = "reset2" /\ tpc' = "starting"
  /\ ResetEnd("tsk1")
  /\ UNCHANGED <<acc, hook, lpc, loadSettings, gUtils_AutoResetLogInterval>>

Tsk1Run ==
  /\ \/ tpc = "starting" /\ tpc' = "running" /\ gUtils_LoadLogInterval' = 500
     \/ tpc = "running" /\ tpc' = "idle" /\ gUtils_LoadLogInterval' = 5000
  /\ UNCHANGED <<acc, hook, lpc, resetAt, gUtils_startLoadCalc, gUtils_AutoResetLogInterval, undisturbed, torn>>

LoadMonitorNext ==
  /\ lpc # "divzero"
  /\ \/ UpdateBegin \/ UpdateLoad \/ UpdateStore
     \/ \E t \in Tasks : ResetStep(t)
     \/ Report \/ AutoReset \/ AutoResetDone
     \/ Tsk1Begin \/ Tsk1Reset \/ Tsk1ResetDone \/ Tsk1Run

LoadMonitorSpec == LoadMonitorInit /\ [][LoadMonitorNext]_loadVars

-----------------------------------------------------------------------------
(* Properties. *)

\* Safety: unless the last reset overlapped with an update, the parts of the load add
\* up to no more than the whole whenever no update is under way: a reset
\* leaves nothing of the time before it, whoever else resets at that time.
LoadsAddUp ==
  hook = NotRunning /\ (\A t \in Tasks : resetAt[t] = 0) /\ ~torn =>
    FoldSet(LAMBDA a, s : s + acc[a], 0, Parts) <= acc.total

=============================================================================
