------------------------------ MODULE MCTools ------------------------------
(***************************************************************************)
(* The collection's single programs for TLC, one of which is run:          *)
(*  transfer  do_read and do_write with files shorter and longer than the  *)
(*            buffer;                                                      *)
(*  ddr       DdrStat with a second of 4 microseconds and words of 4 bits, *)
(*            so that sizes and registers wrap; files in and out of order; *)
(*            lists with more initiators than filters (the repository's    *)
(*            initiators.cfg asks for six of collector 2), repetitions and *)
(*            an unknown name;                                             *)
(*  host      HostSetup with well-formed, interrupted and wrong files and  *)
(*            a table of 3 entries;                                        *)
(*  load      LoadMonitor with one task registered and a reset after each  *)
(*            report.                                                      *)
(* They share nothing, so the others stay as they are.                     *)
(***************************************************************************)
EXTENDS Transfer, DdrStat, HostSetup, LoadMonitor

VARIABLE tool
toolsVars == <<tool, vars, ddrVars, hostVars, loadVars>>

MCSizes == 1 .. 5
MCAvail == 0 .. 8

Key(k) == [text |-> k, value |-> 0]
Num(v) == [text |-> "number", value |-> v]

\* The words of a file for DdrStat, one pair to a line, or all on one line.
Line(k, v) == <<[text |-> k, value |-> 0, tokens |-> 3], [text |-> "number", value |-> v, tokens |-> 3]>>
Crowded(words, t) == [p \in DOMAIN words |-> [words[p] EXCEPT !.tokens = t]]
Collect(t, us) == Line("STATCOLL", 1) \o Line("TOTAL_TIME", t) \o Line("INTERVAL_US", us)
Monitor(d, c) == Line("BANDWIDTH", 1) \o Line("DELAY", d) \o Line("EMIF_PERF_CFG1", c)

MCFiles ==
  {Collect(t, us) : t \in {0, 1, 2, 4}, us \in {0, 3, 4}} \cup {Collect(1, 1), Collect(3, 2), Collect(3, 4), Collect(-1, 4)}
  \cup {Monitor(d, 9) : d \in {-1, 2, 3}} \cup {Monitor(1, 11)}
  \cup {Monitor(2, 9) \o Collect(1, 1),                               \* both modes
        Line("TOTAL_TIME", 2) \o Collect(1, 4),                       \* before its mode
        Line("TOTAL_TIME", 2) \o Line("INTERVAL_US", 4) \o Line("STATCOLL", 1),
        Line("STATCOLL", 1) \o Line("TOTAL_TIME", 2) \o Line("STATCOLL", 0),
        <<Line("STATCOLL", 1)[1]>> \o Line("TOTAL_TIME", 2),          \* a value left out
        <<Line("STATCOLL", 1)[1]>> \o Monitor(2, 9),
        Line("STATCOLL", 1) \o <<Line("TOTAL_TIME", 2)[1], Line("INTERVAL_US", 4)[1]>>,
        Line("INITIATORS", 1) \o <<Line("BANDWIDTH", 1)[1]>>,
        Crowded(Monitor(2, 9), 6), Line("STATCOLL", 1) \o Crowded(Collect(2, 4), 7),
        <<>>}

MCLists ==
  {<<"VIP1_P1", "VIP1_P2", "VIP2_P1", "VIP2_P2", "VIP3_P1", "VIP3_P2">>,
   <<"EMIF2_SYS", "MPU1", "MPU1">>, <<"IVA", "GPU_P1", "IVA", "GPU_P2", "IVA">>, <<"GPMC", "STATCOL_MA">>, <<>>,
   [k \in 1 .. 7 |-> "GPMC"], [k \in 1 .. 8 |-> "GPMC"]}

\* What the stack holds: nothing, an initiator under another's name, no
\* initiator, or a number of entries that leaves little or no room.
Entry(i) == [name |-> "IVA", id |-> i]
MCStale == {<<>>, <<Entry("VIP1_P1")>>, <<Entry("unknown")>>}
           \cup {[k \in 1 .. m |-> Entry("GPMC")] : m \in {6, 8}}

\* The lines of a cfg file for the zero-copy test.
Row(words) == [comment |-> FALSE, tokens |-> (Len(words) + 1) \div 2, words |-> words]
HostLine(d, s) == Row(<<Key("direction"), Num(d), Key("msgSize"), Num(s)>>)
Comment == [comment |-> TRUE, tokens |-> 0, words |-> <<Key("Thread"), Num(1)>>]
Counts(m) == IF m = 0 THEN <<>> ELSE [i \in 1 .. 2 * m |-> IF i % 2 = 1 THEN Key("msgCount") ELSE Num(i)]

MCCfgFiles ==
  {<<>>,
   <<Comment, HostLine(0, 4), Comment, HostLine(1, 8)>>,
   <<HostLine(1, 6), HostLine(0, 3)>>,                                \* sizes that are no words
   <<HostLine(0, 4), HostLine(1, 4), HostLine(2, 4)>>,                \* one too many
   <<Row(<<Key("msgCount"), Num(2), Key("msgCount"), Num(3)>>), Row(<<Key("procID"), Num(1)>>)>>,
   <<Row(<<Key("msgSize")>>), Comment, Row(<<Num(8), Key("interval"), Num(7)>>)>>,  \* cut in two
   <<Row(<<Key("direction"), Num(1), Key("msgsize"), Num(4)>>)>>,     \* a key misspelt
   <<HostLine(0, 4), HostLine(1, 4), Row(<<>>), Row(<<>>)>>,
   <<HostLine(1, 8), Row(<<Key("msgSize")>>)>>,                       \* a value missing
   <<Row(<<Key("msgSize"), Key("interval")>>), HostLine(1, 4)>>,      \* a key for a value
   <<Row(Counts(6)), HostLine(1, 4)>>, <<HostLine(1, 4), Row(Counts(7))>>,
   <<HostLine(0, 8), HostLine(1, 8)>>, <<HostLine(0, -4)>>}           \* 16 and more

TransferOff == Init /\ size = 1 /\ avail = 0
DdrOff == DdrInit /\ file = <<>>
HostOff == HostSetupInit /\ cfg = <<>>

ToolsInit ==
  \/ tool = "transfer" /\ Init /\ DdrOff /\ HostOff /\ LoadMonitorInit
  \/ tool = "ddr" /\ TransferOff /\ DdrInit /\ HostOff /\ LoadMonitorInit
  \/ tool = "host" /\ TransferOff /\ DdrOff /\ HostSetupInit /\ LoadMonitorInit
  \/ tool = "load" /\ TransferOff /\ DdrOff /\ HostOff /\ LoadMonitorInit

ToolsDdr == tool = "ddr" /\ DdrProgram /\ UNCHANGED <<tool, vars, hostVars, loadVars>>
ToolsNext ==
  \/ tool = "transfer" /\ Next /\ UNCHANGED <<tool, ddrVars, hostVars, loadVars>>
  \/ ToolsDdr
  \/ tool = "ddr" /\ DdrHardware /\ UNCHANGED <<tool, vars, hostVars, loadVars>>
  \/ tool = "host" /\ HostSetupNext /\ UNCHANGED <<tool, vars, ddrVars, loadVars>>
  \/ tool = "load" /\ LoadMonitorNext /\ UNCHANGED <<tool, vars, ddrVars, hostVars>>

ToolsSpec == ToolsInit /\ [][ToolsNext]_toolsVars /\ WF_toolsVars(ToolsDdr)

=============================================================================
