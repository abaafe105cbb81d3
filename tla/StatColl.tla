------------------------------ MODULE StatColl ------------------------------
(***************************************************************************)
(* statcoll.c: the bandwidth of the SoC's initiators, sampled through the  *)
(* ten statistic collectors.  Each collector has four filters with a       *)
(* counter; an initiator is given a filter of the collector it belongs to  *)
(* and its counter is read once per interval.  The collectors themselves   *)
(* (select, soft enable, counters that run on) are hardware: an external   *)
(* module, modelled from what the code writes and reads.                   *)
(***************************************************************************)
EXTENDS Integers, Sequences, FiniteSets

CONSTANTS
  Second,     \* microseconds in a second (1000000)
  Word,       \* the range of a UInt32 (2^32)
  MaxTime,    \* bound: how often the hardware's counters change
  STATCOL_MAX,  \* the size of params.user_config_list
  Stale       \* the entries that the uninitialised `params' may begin with

ASSUME StatCollAssumption ==
  Second \in Nat \ {0} /\ Word \in Nat \ {0} /\ MaxTime \in Nat /\ STATCOL_MAX \in Nat
ASSUME StaleAssumption == Stale \subseteq Seq([name : STRING, id : STRING])

\* The cases of statCollectorControlInitialize: the collectors' initiators, in
\* the order of their events (cur_event_mux_req is 0, 2, 4...).
Collector0 == <<"EMIF1_SYS", "EMIF2_SYS", "MA_MPU_P1", "MA_MPU_P2">>
Collector1 == <<"MPU1", "MMU1", "TPTC_RD1", "TPTC_WR1", "TPTC_RD2", "TPTC_WR2">>
Collector2 == <<"VIP1_P1", "VIP1_P2", "VIP2_P1", "VIP2_P2", "VIP3_P1", "VIP3_P2", "VPE_P1", "VPE_P2">>
Collector3 == <<"EVE1_TC0", "EVE1_TC1", "EVE2_TC0", "EVE2_TC1", "EVE3_TC0", "EVE3_TC1", "EVE4_TC0", "EVE4_TC1">>
Collector4 == <<"DSP1_MDMA", "DSP1_EDMA", "DSP2_MDMA", "DSP2_EDMA", "IVA", "GPU_P1", "GPU_P2", "BB2D_P1">>
Collector5 == <<"DSS", "CSI2_2", "MMU2", "IPU1", "IPU2", "DMA_SYSTEM_RD", "DMA_SYSTEM_WR", "CSI2_1">>
Collector6 == <<"USB3_SS", "USB2_SS", "USB2_ULPI_SS1", "USB2_ULPI_SS2", "PCIE_SS1", "PCIE_SS2", "DSP1_CFG", "DSP2_CFG">>
Collector7 == <<"GMAC_SW", "PRUSS1_P1", "PRUSS1_P2", "PRUSS2_P1", "PRUSS2_P2", "DMA_CRYPTO_RD", "DMA_CRYPTO_WR", "MPU2">>
Collector8 == <<"MMC1", "MMC2", "SATA", "MLBSS", "BB2D_P2", "IEEE1500", "DBG", "VCP1">>
Collector9 == <<"OCMC_RAM1", "OCMC_RAM2", "OCMC_RAM3", "GPMC", "MCASP1", "MCASP2", "MCASP3", "VCP2">>

Groups == 0 .. 9
Collector == [g \in Groups |->
  <<Collector0, Collector1, Collector2, Collector3, Collector4,
    Collector5, Collector6, Collector7, Collector8, Collector9>>[g + 1]]
Names(g) == {Collector[g][k] : k \in DOMAIN Collector[g]}
Initiators == UNION {Names(g) : g \in Groups}
GroupOf(i) == CHOOSE g \in Groups : i \in Names(g)
MuxReq(i) == 2 * ((CHOOSE k \in DOMAIN Collector[GroupOf(i)] : Collector[GroupOf(i)][k] = i) - 1)

VARIABLES
  spc,        \* where statcoll_start is
  time, interval,   \* its parameters TOTAL_TIME and INTERVAL_US
  list,       \* the names asked for
  params,     \* the entries of params.user_config_list; an id is shown by its name
  n,          \* the name or entry at hand
  filterCnt,  \* gStatColState
  object,     \* global_object of the initiators touched so far
  TRACE_SZ, alloc,  \* samples, and bytes of each `readings' array
  readings,   \* per sample, the counters read
  group,      \* the collector being read
  hw, now     \* the collectors' registers, and the hardware's time

statVars == <<spc, time, interval, list, params, n, filterCnt, object, TRACE_SZ, alloc,
              readings, group, hw, now>>
settings == <<time, interval, list, params>>

Idle == [on |-> FALSE, held |-> 0, sel |-> [c \in 1 .. 4 |-> -1]]

StatInit ==
  /\ spc = "idle" /\ time = 0 /\ interval = 0 /\ list = <<>> /\ params = <<>> /\ n = 1
  /\ filterCnt = [g \in Groups |-> 0] /\ object = <<>>
  /\ TRACE_SZ = 0 /\ alloc = 0 /\ readings = <<>> /\ group = 0
  /\ hw = [g \in Groups |-> Idle] /\ now = 0

-----------------------------------------------------------------------------
(* Set-up. *)

\* statcoll_start(TOTAL_TIME, INTERVAL_US, list): memset is given its length
\* and its value in the wrong order and clears nothing, so no_of_initiators and
\* the entries it counts are what the stack held, a name and an id each, which
\* need not go together.
StatcollStart(t, us, names) ==
  /\ spc = "idle"
  /\ params' \in Stale /\ list' = names /\ n' = 1
  /\ time' = t /\ interval' = us
  /\ spc' = "lookup"
  /\ UNCHANGED <<filterCnt, object, TRACE_SZ, alloc, readings, group, hw, now>>

\* A name that is in no collector ends the program, with status 0; where the
\* entries end is not looked at.
Lookup ==
  /\ spc = "lookup"
  /\ IF n > Len(list) THEN spc' = "map" /\ UNCHANGED <<n, params>>
     ELSE IF list[n] \notin Initiators THEN spc' = "exit" /\ UNCHANGED <<n, params>>
     ELSE IF Len(params) >= STATCOL_MAX THEN spc' = "wild" /\ UNCHANGED <<n, params>>
     ELSE params' = Append(params, [name |-> list[n], id |-> list[n]]) /\ n' = n + 1 /\ UNCHANGED spc
  /\ UNCHANGED <<time, interval, list, filterCnt, object, TRACE_SZ, alloc, readings, group, hw, now>>

\* Both mappings of /dev/mem, either of which may fail.
Map ==
  /\ spc = "map"
  /\ spc' \in {"size", "failed"}
  /\ UNCHANGED <<settings, n, filterCnt, object, TRACE_SZ, alloc, readings, group, hw, now>>

\* Faulty variant: an element is taken for a byte.
BytesOfSamples(samples) == samples % Word

\* TRACE_SZ, in 32-bit arithmetic.
TraceSize ==
  /\ spc = "size"
  /\ IF interval = 0 THEN spc' = "divzero" /\ UNCHANGED TRACE_SZ
     ELSE spc' = "clock" /\ TRACE_SZ' = ((time * Second) % Word) \div interval
  /\ UNCHANGED <<settings, n, filterCnt, object, alloc, readings, group, hw, now>>

\* The program polls until the hardware says that the clocks run.
ClockReady ==
  /\ spc = "clock"
  /\ spc' = "init"
  /\ UNCHANGED <<settings, n, filterCnt, object, TRACE_SZ, alloc, readings, group, hw, now>>

\* statCollectorInit: what malloc returns is cleared without a look.
Bytes(samples) == (4 * samples) % Word
StatCollectorInit ==
  /\ spc = "init"
  /\ alloc' = Bytes(TRACE_SZ)
  /\ n' = 1
  /\ spc' \in {"control"} \cup (IF alloc' > 0 THEN {"nomemory"} ELSE {})
  /\ UNCHANGED <<settings, filterCnt, object, TRACE_SZ, readings, group, hw, now>>

\* Faulty variant: the initiators beyond the fourth share the last filter.
NextFilterShared(g) == IF filterCnt[g] = 4 THEN 4 ELSE filterCnt[g] + 1

NextFilter(g) == filterCnt[g] + 1

\* One more initiator in a table of those touched so far.
Entered(table, i, x) == [j \in DOMAIN table \cup {i} |-> IF j = i THEN x ELSE table[j]]

\* statCollectorControlInitialize: the next filter of the initiator's
\* collector, if there is one left; the count goes on regardless.
ControlInitialize(i) ==
  LET g == GroupOf(i)
      cnt == NextFilter(g)
      was == IF i \in DOMAIN object THEN object[i] ELSE [group |-> 255, counter |-> 0, enabled |-> FALSE]
  IN /\ filterCnt' = [filterCnt EXCEPT ![g] = cnt]
     /\ IF cnt > 4
        THEN /\ object' = Entered(object, i, [was EXCEPT !.group = g])
             /\ UNCHANGED hw
        ELSE /\ object' = Entered(object, i, [group |-> g, counter |-> cnt, enabled |-> TRUE])
             /\ hw' = [hw EXCEPT ![g].on = TRUE, ![g].sel[cnt] = MuxReq(i)]

\* An id that the stack happened to hold and that is no initiator's ends the
\* program in the `default' case.
Control ==
  /\ spc = "control" /\ n <= Len(params)
  /\ IF n > STATCOL_MAX THEN spc' = "wild" /\ UNCHANGED <<filterCnt, object, hw, n>>
     ELSE IF params[n].id \in Initiators
     THEN ControlInitialize(params[n].id) /\ n' = n + 1 /\ UNCHANGED spc
     ELSE spc' = "exit" /\ UNCHANGED <<filterCnt, object, hw, n>>
  /\ UNCHANGED <<settings, TRACE_SZ, alloc, readings, group, now>>

-----------------------------------------------------------------------------
(* Sampling: statCountIdx is the number of complete samples. *)

statCountIdx == Len(readings) - (IF spc \in {"stop", "read"} THEN 1 ELSE 0)

\* Faulty variant: the loop runs too long.
LastIdxTooLate == TRACE_SZ + 1

\* The loop ends when statCountIdx equals TRACE_SZ - 1, a UInt32; a file that
\* could not be created is only reported and written to all the same.
LastIdx == (TRACE_SZ - 1) % Word

NextSample ==
  /\ \/ spc = "control" /\ n > Len(params)
     \/ spc = "sample"
  /\ IF Len(readings) = LastIdx
     THEN spc' \in {"done", "nofile"} /\ UNCHANGED <<readings, group>>
     ELSE spc' = "stop" /\ group' = 0 /\ readings' = Append(readings, <<>>)
  /\ UNCHANGED <<settings, n, filterCnt, object, TRACE_SZ, alloc, hw, now>>

Members(g) == {i \in DOMAIN object : object[i].group = g /\ object[i].enabled}

\* Faulty variant: the counters run on while they are read.
RunOn(g) == hw

\* A collector that is stopped keeps the counts of that moment.
SoftDisable(g) ==
  [hw EXCEPT ![g].on = FALSE, ![g].held = IF hw[g].on THEN now ELSE @]

\* statCollectorReadGroup: soft disable, read, soft enable.
StopGroup ==
  /\ spc = "stop"
  /\ hw' = SoftDisable(group)
  /\ spc' = "read"
  /\ UNCHANGED <<settings, n, filterCnt, object, TRACE_SZ, alloc, readings, group, now>>

\* What counter c of a collector shows: which initiator it counts, and when.
\* The code's event 2k is the k-th initiator of the collector.
Counter(g, c) ==
  [of |-> IF c \in 1 .. 4 /\ hw[g].sel[c] >= 0 THEN Collector[g][hw[g].sel[c] \div 2 + 1] ELSE "nothing",
   at |-> IF hw[g].on THEN now ELSE hw[g].held]

\* readings[statCountIdx] = counter; beyond the array this is a stray write.
ReadCounter(i) ==
  /\ spc = "read" /\ i \in Members(group) \ DOMAIN readings[Len(readings)]
  /\ IF 4 * statCountIdx < alloc
     THEN /\ readings' = [readings EXCEPT ![Len(readings)] =
                            Entered(@, i, Counter(group, object[i].counter))]
          /\ UNCHANGED spc
     ELSE spc' = "overrun" /\ UNCHANGED readings
  /\ UNCHANGED <<settings, n, filterCnt, object, TRACE_SZ, alloc, group, hw, now>>

StartGroup ==
  /\ spc = "read" /\ Members(group) \subseteq DOMAIN readings[Len(readings)]
  /\ hw' = [hw EXCEPT ![group].on = TRUE]
  /\ IF group = 9 THEN spc' = "sample" /\ UNCHANGED group
     ELSE spc' = "stop" /\ group' = group + 1
  /\ UNCHANGED <<settings, n, filterCnt, object, TRACE_SZ, alloc, readings, now>>

StatProgram ==
  \/ Lookup \/ Map \/ TraceSize \/ StatCollectorInit \/ Control
  \/ NextSample \/ StopGroup \/ StartGroup
  \/ \E i \in DOMAIN object : ReadCounter(i)

\* The hardware: counters advance, whatever the program is doing.
Tick ==
  /\ spc \in {"stop", "read"} /\ now < MaxTime
  /\ now' = now + 1
  /\ UNCHANGED <<spc, settings, n, filterCnt, object, TRACE_SZ, alloc, readings, group, hw>>

StatHardware == ClockReady \/ Tick

StatNext == StatProgram \/ StatHardware

-----------------------------------------------------------------------------
(* Properties. *)

\* statcollector.csv: the first sample is left out.
Csv(k, i) == IF i \in DOMAIN readings[k + 1] THEN readings[k + 1][i] ELSE [of |-> "zero", at |-> 0]

\* The columns of the file that were asked for: those behind what the stack held.
Columns == {j \in DOMAIN params : j > Len(params) - Len(list)}

\* Every figure in a column asked for was counted for the initiator that the
\* column is named after, whatever entries the stack held: with these, one that got a
\* filter has a figure in each sample, and the zeros in the file belong to those
\* that came when the four filters of their collector were gone.
FiguresBelong ==
  spc = "done" =>
    \A k \in 1 .. statCountIdx - 1, j \in Columns :
      LET i == params[j].name  figure == Csv(k, params[j].id) IN
        /\ i = list[j - (Len(params) - Len(list))]
        /\ figure.of \in {i, "zero"}
        /\ figure.of = "zero" =>
             Cardinality({e \in DOMAIN params : params[e].id \in Names(GroupOf(i)) /\ e < j}) >= 4

\* The figures of one collector in one sample were taken at the same moment,
\* though they are read one after another while the initiators work on.
SampleIsSnapshot ==
  \A k \in DOMAIN readings : \A i, j \in DOMAIN readings[k] :
    object[i].group = object[j].group => readings[k][i].at = readings[k][j].at

\* The sampling loop leaves the arrays only where 32 bits cannot hold their
\* size or where the interval is longer than the time; what it then collects
\* covers the time asked for but for the last interval.
SamplesCoverTime ==
  /\ spc = "overrun" => TRACE_SZ = 0 \/ 4 * TRACE_SZ >= Word
  /\ spc = "done" /\ time * Second < Word =>
       (statCountIdx + 2) * interval > time * Second

=============================================================================
