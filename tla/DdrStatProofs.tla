--------------------------- MODULE DdrStatProofs ---------------------------
(***************************************************************************)
(* Proofs about glsdkstatcoll: the config file (module DdrStat), the EMIF  *)
(* monitor and the collection of statistics (module StatColl), for every   *)
(* config file, list of initiators, width of the registers, clock and      *)
(* pace of the hardware.                                                   *)
(***************************************************************************)
EXTENDS DdrStat, FiniteSetTheorems, SequenceTheorems, TLAPS

-----------------------------------------------------------------------------
(* The tables of the collectors. *)

\* A table of names, none of them the text "zero" that stands for no name.
Table(c) == c \in Seq({c[k] : k \in DOMAIN c}) /\ \A k \in DOMAIN c : c[k] # "zero"

LEMMA CollectorTables == \A g \in Groups : Table(Collector[g])
<1>a. Table(Collector0)
  BY DEF Table, Collector0
<1>b. Table(Collector1)
  BY DEF Table, Collector1
<1>c. Table(Collector2)
  BY DEF Table, Collector2
<1>d. Table(Collector3)
  BY DEF Table, Collector3
<1>e. Table(Collector4)
  BY DEF Table, Collector4
<1>f. Table(Collector5)
  BY DEF Table, Collector5
<1>g. Table(Collector6)
  BY DEF Table, Collector6
<1>h. Table(Collector7)
  BY DEF Table, Collector7
<1>i. Table(Collector8)
  BY DEF Table, Collector8
<1>j. Table(Collector9)
  BY DEF Table, Collector9
<1> DEFINE all == <<Collector0, Collector1, Collector2, Collector3, Collector4,
                    Collector5, Collector6, Collector7, Collector8, Collector9>>
<1>1. \A g \in 1 .. 10 : Table(all[g])
  BY <1>a, <1>b, <1>c, <1>d, <1>e, <1>f, <1>g, <1>h, <1>i, <1>j
<1>2. \A g \in Groups : Collector[g] = all[g + 1] /\ g + 1 \in 1 .. 10
  BY DEF Collector, Groups
<1>3. QED
  BY <1>1, <1>2

\* An initiator belongs to a collector, and its multiplexer setting selects
\* it there.
LEMMA InitiatorFacts ==
  ASSUME NEW i \in Initiators
  PROVE  /\ GroupOf(i) \in Groups /\ i \in Names(GroupOf(i)) /\ i # "zero"
         /\ MuxReq(i) \in Nat /\ Collector[GroupOf(i)][MuxReq(i) \div 2 + 1] = i
<1>1. PICK h \in Groups : i \in Names(h)
  BY DEF Initiators
<1>2. GroupOf(i) \in Groups /\ i \in Names(GroupOf(i))
  BY <1>1 DEF GroupOf
<1> DEFINE c == Collector[GroupOf(i)]
           at == CHOOSE k \in DOMAIN c : c[k] = i
<1>3. Table(c)
  BY <1>2, CollectorTables
<1>4. \E k \in DOMAIN c : c[k] = i
  BY <1>2 DEF Names
<1>5. at \in DOMAIN c /\ c[at] = i
  BY <1>4
<1>6. MuxReq(i) = 2 * (at - 1)
  BY DEF MuxReq
<1> HIDE DEF c, at
<1>7. at \in Nat \ {0} /\ i # "zero"
  BY <1>3, <1>5, LenProperties DEF Table
<1>8. MuxReq(i) \in Nat /\ MuxReq(i) \div 2 + 1 = at
  BY <1>6, <1>7
<1>9. QED
  BY <1>2, <1>5, <1>7, <1>8 DEF c

-----------------------------------------------------------------------------
(* main: its types. *)

Settings == {"DELAY", "EMIF_PERF_CFG1", "EMIF_PERF_CFG2", "BANDWIDTH", "STATCOLL",
             "TOTAL_TIME", "INTERVAL_US"}

LEMMA SettingsFacts ==
  /\ DOMAIN Default = Settings /\ Default \in [Settings -> Int]
  /\ Settings = Modes \cup DOMAIN ModeOf /\ Settings \subseteq keylist
  /\ \A k \in DOMAIN ModeOf : ModeOf[k] \in Modes
  /\ Modes \cap DOMAIN ModeOf = {}
BY DEF Default, Settings, Modes, ModeOf, keylist

MainTypes ==
  /\ file \in Seq([text : STRING, value : Int, tokens : Nat])
  /\ w \in 1 .. Len(file) + 1 /\ flag \in {0, 1}
  /\ config \in [Settings -> Int] /\ clk \in Nat
  /\ start \in [1 .. 2 -> Nat] /\ end \in [1 .. 2 -> Nat]

LEMMA MainInit ==
  ASSUME DdrInit
  PROVE  MainTypes
<1>1. file \in Seq([text : STRING, value : Int, tokens : Nat]) /\ Len(file) \in Nat
  BY FilesAssumption, LenProperties DEF DdrInit
<1>2. QED
  BY <1>1, SettingsFacts DEF DdrInit, MainTypes

Measuring == {"start1", "start2", "stop1", "stop2", "print"}

\* The clock only runs on while the interfaces are read.
LEMMA ReadTypes ==
  ASSUME MainTypes, NEW e \in 1 .. 2
  PROVE  /\ \A d \in Apart : d \in Nat
         /\ config.BANDWIDTH \in Int /\ config.DELAY \in Int
         /\ config.DELAY >= 1 => \A d \in Delay : d \in Nat
         /\ StopOrder[1] = 1 /\ StopOrder[2] = 2
<1>1. config.BANDWIDTH \in Int /\ config.DELAY \in Int
  BY DEF MainTypes, Settings
<1>2. config.DELAY >= 1 => config.DELAY * Freq \in Nat
  BY <1>1, DdrStatAssumption
<1>3. QED
  BY <1>1, <1>2, DdrStatAssumption DEF Apart, Delay, StopOrder

\* A monitor that runs has a delay of at least a second.
Delaying == mpc \in Measuring \cup {"usage"} => config.DELAY >= 1

LEMMA MainStep ==
  ASSUME MainTypes, Delaying, [DdrNext]_ddrVars
  PROVE  MainTypes' /\ Delaying'
<1>1. CASE ParseWord
  <2>1. /\ file' = file /\ UNCHANGED <<clk, start, end>> /\ w \in 1 .. Len(file) /\ Len(file) \in Nat
        /\ mpc' \notin Measuring \cup {"usage"}
    BY <1>1, LenProperties DEF ParseWord, MainTypes, Measuring
  <2>2. file[w].value \in Int
    <3>1. file[w] \in [text : STRING, value : Int, tokens : Nat]
      BY <2>1, ElementOfSeq DEF MainTypes
    <3>2. QED
      BY <3>1
  <2>3. config' \in [Settings -> Int]
    <3>1. config' = config \/ config' = [config EXCEPT ![key] = file[w].value]
      BY <1>1 DEF ParseWord, AddKeyValue
    <3>2. QED
      BY <2>2, <3>1 DEF MainTypes
  <2>4. w' \in {w, w + 1} /\ flag' \in {0, 1}
    BY <1>1 DEF ParseWord, MainTypes
  <2>5. QED
    BY <2>1, <2>3, <2>4 DEF MainTypes, Delaying
<1>2. CASE ParseEnd
  <2>1. /\ UNCHANGED <<file, w, flag, clk, start, end>>
        /\ config' = [config EXCEPT !["DELAY"] = IF config.BANDWIDTH = 1 /\ @ <= 0 THEN 1 ELSE @]
        /\ mpc' \in {"usage", "list", "return"} /\ (mpc' = "usage" => config.BANDWIDTH = 1)
    BY <1>2 DEF ParseEnd
  <2>2. config' \in [Settings -> Int] /\ (mpc' = "usage" => config'.DELAY >= 1)
    BY <2>1 DEF MainTypes, Settings
  <2>3. QED
    BY <2>1, <2>2 DEF MainTypes, Delaying, Measuring
<1>3. CASE ReadList \/ PerfInit
  BY <1>3 DEF ReadList, PerfInit, MainTypes, Delaying, Measuring
<1>4. CASE PerfStart \/ PerfStop
  <2>1. /\ UNCHANGED <<file, w, flag, config>>
        /\ \E d \in Apart \cup Delay \cup {0} : clk' = clk + d
        /\ \E e \in 1 .. 2 : \/ start' = [start EXCEPT ![e] = clk] /\ end' = end
                             \/ end' = [end EXCEPT ![e] = clk] /\ start' = start
        /\ mpc \in Measuring
    BY <1>4 DEF PerfStart, PerfStop, EmifRead, StopOrder, Measuring
  <2>2. clk' \in Nat
    BY <2>1, ReadTypes DEF MainTypes, Delaying
  <2>3. QED
    BY <2>1, <2>2 DEF MainTypes, Delaying
<1>5. CASE PerfPrint
  <2>1. clk' \in Nat
    BY <1>5, StatCollAssumption DEF PerfPrint, MainTypes
  <2>2. mpc \in Measuring
    BY <1>5 DEF PerfPrint, Measuring
  <2>3. QED
    BY <1>5, <2>1, <2>2 DEF PerfPrint, MainTypes, Delaying
<1>6. CASE TooManyTokens
  BY <1>6 DEF TooManyTokens, MainTypes, Delaying, Measuring
<1>7. CASE UNCHANGED mainVars
  BY <1>7 DEF mainVars, MainTypes, Delaying
<1>8. QED
  BY <1>1, <1>2, <1>3, <1>4, <1>5, <1>6, <1>7 DEF DdrNext, DdrProgram, DdrHardware, ddrVars

LEMMA MainInvariant == DdrSpec => [](MainTypes /\ Delaying)
<1>1. DdrInit => MainTypes /\ Delaying
  BY MainInit DEF DdrInit, Delaying, Measuring
<1>2. MainTypes /\ Delaying /\ [DdrNext]_ddrVars => MainTypes' /\ Delaying'
  BY MainStep
<1>3. QED
  BY <1>1, <1>2, PTL DEF DdrSpec

-----------------------------------------------------------------------------
(* The EMIF monitor: how far apart the reads of one period are. *)

LEMMA DivMod ==
  ASSUME NEW x \in Int, NEW b \in Nat \ {0}
  PROVE  /\ x \div b \in Int /\ x % b \in 0 .. b - 1
         /\ x = b * (x \div b) + (x % b)
OBVIOUS

LEMMA SmallMod ==
  ASSUME NEW z \in Int, NEW b \in Nat \ {0}
  PROVE  /\ z \in 0 .. b - 1 => z % b = z
         /\ -b <= z /\ z < 0 => z % b = z + b
OBVIOUS

LEMMA SmallMultiple ==
  ASSUME NEW m \in Int, NEW b \in Nat \ {0}, -b < b * m, b * m < b
  PROVE  m = 0
<1>1. ASSUME m >= 1 PROVE FALSE
  BY <1>1
<1>2. ASSUME m <= -1 PROVE FALSE
  BY <1>2
<1>3. QED
  BY <1>1, <1>2

\* The difference of two registers is the difference of the times, if that
\* fits into a register.
LEMMA ModDifference ==
  ASSUME NEW b \in Nat \ {0}, NEW x \in Nat, NEW y \in Nat, y <= x, x - y < b
  PROVE  ((x % b) - (y % b)) % b = x - y
<1> DEFINE r == x % b
           s == y % b
           m == (x \div b) - (y \div b)
<1>1. r \in 0 .. b - 1 /\ s \in 0 .. b - 1 /\ m \in Int
  BY DivMod
<1>2. x - y = b * m + (r - s)
  <2>1. x = b * (x \div b) + r /\ y = b * (y \div b) + s
    BY DivMod
  <2>2. b * (x \div b) - b * (y \div b) = b * m
    BY DivMod
  <2>3. x \div b \in Int /\ y \div b \in Int
    BY DivMod
  <2>4. QED
    BY <1>1, <2>1, <2>2, <2>3
<1> HIDE DEF r, s, m
<1>3. CASE r >= s
  <2>1. -b < b * m /\ b * m < b
    BY <1>1, <1>2, <1>3
  <2>2. m = 0
    BY <1>1, <2>1, SmallMultiple
  <2>3. r - s = x - y /\ r - s \in 0 .. b - 1
    BY <1>1, <1>2, <1>3, <2>2
  <2>4. (r - s) % b = r - s
    BY <1>1, <2>3, SmallMod
  <2>5. QED
    BY <2>3, <2>4 DEF r, s
<1>4. CASE r < s
  <2>1. b * (m - 1) = b * m - b
    BY <1>1
  <2>2. -b < b * (m - 1) /\ b * (m - 1) < b /\ m - 1 \in Int
    BY <1>1, <1>2, <1>4, <2>1
  <2>3. m - 1 = 0
    BY <2>2, SmallMultiple
  <2>4. r - s + b = x - y /\ -b <= r - s /\ r - s < 0
    BY <1>1, <1>2, <1>4, <2>3
  <2>5. (r - s) % b = r - s + b
    BY <1>1, <2>4, SmallMod
  <2>6. QED
    BY <2>4, <2>5 DEF r, s
<1>5. QED
  BY <1>1, <1>3, <1>4

\* asked is the delay in cycles: a read follows the one before it within
\* Jitter, but the one after the delay within asked to asked + Jitter.
Periods ==
  LET asked == config.DELAY * Freq
  IN /\ mpc = "start2" => clk - start[1] \in 0 .. Jitter
     /\ mpc \in {"stop1", "stop2", "print"} => start[2] - start[1] \in 0 .. Jitter
     /\ mpc = "stop1" => clk - start[2] \in asked .. asked + Jitter
     /\ mpc \in {"stop2", "print"} => end[1] - start[2] \in asked .. asked + Jitter
     /\ mpc = "stop2" => clk - end[1] \in 0 .. Jitter
     /\ mpc = "print" => end[2] - end[1] \in 0 .. Jitter

LEMMA PeriodsStep ==
  ASSUME MainTypes, Delaying, Periods, [DdrNext]_ddrVars
  PROVE  Periods'
<1>t. /\ clk \in Nat /\ Jitter \in Nat /\ StopOrder[1] = 1 /\ StopOrder[2] = 2
      /\ start \in [1 .. 2 -> Nat] /\ end \in [1 .. 2 -> Nat]
  BY ReadTypes, DdrStatAssumption DEF MainTypes
<1>1. CASE EmifRead("start1", "start2", 1, start, Apart) /\ UNCHANGED end
  <2>1. /\ mpc' = "start2" /\ config' = config /\ start'[1] = clk /\ \E d \in Apart : clk' = clk + d
    BY <1>1, <1>t DEF EmifRead
  <2>2. QED
    BY <1>t, <2>1 DEF Periods, Apart
<1>2. CASE EmifRead("start2", "stop1", 2, start, Delay) /\ UNCHANGED end
  <2>1. /\ mpc = "start2" /\ mpc' = "stop1" /\ config' = config /\ \E d \in Delay : clk' = clk + d
        /\ start'[2] = clk /\ start'[1] = start[1]
    BY <1>2, <1>t DEF EmifRead
  <2>2. config.DELAY * Freq \in Int
    BY ReadTypes, DdrStatAssumption
  <2>3. clk' - clk \in config.DELAY * Freq .. config.DELAY * Freq + Jitter
    BY <1>t, <2>1, <2>2 DEF Delay, Apart
  <2>4. QED
    BY <1>t, <2>1, <2>3 DEF Periods
<1>3. CASE EmifRead("stop1", "stop2", StopOrder[1], end, Apart) /\ UNCHANGED start
  <2>1. /\ mpc = "stop1" /\ mpc' = "stop2" /\ config' = config /\ start' = start
        /\ end'[1] = clk /\ \E d \in Apart : clk' = clk + d
    BY <1>3, <1>t DEF EmifRead
  <2>2. QED
    BY <1>t, <2>1 DEF Periods, Apart
<1>4. CASE EmifRead("stop2", "print", StopOrder[2], end, {0}) /\ UNCHANGED start
  <2>1. /\ mpc = "stop2" /\ mpc' = "print" /\ config' = config /\ start' = start
        /\ end'[2] = clk /\ end'[1] = end[1]
    BY <1>4, <1>t DEF EmifRead
  <2>2. QED
    BY <1>t, <2>1 DEF Periods
<1>5. CASE TooManyTokens \/ ParseWord \/ ParseEnd \/ ReadList \/ PerfInit \/ PerfPrint
  BY <1>5 DEF TooManyTokens, ParseWord, ParseEnd, ReadList, PerfInit, PerfPrint, Periods
<1>6. CASE UNCHANGED mainVars
  BY <1>6 DEF mainVars, Periods
<1>7. QED
  BY <1>1, <1>2, <1>3, <1>4, <1>5, <1>6 DEF DdrNext, DdrProgram, DdrHardware, PerfStart, PerfStop, ddrVars

\* Both interfaces are measured over the delay asked for and over periods as
\* long as each other's, up to the distance of two reads, for every width of
\* the registers that the delay fits into and whatever the registers show
\* when a period begins.
THEOREM DdrPeriodsAgree == DdrSpec => []PeriodsAgree
<1>1. DdrInit => Periods
  BY DEF DdrInit, Periods
<1>2. MainTypes /\ Delaying /\ Periods /\ [DdrNext]_ddrVars => Periods'
  BY PeriodsStep
<1>3. MainTypes /\ Delaying /\ Periods => PeriodsAgree
  <2> SUFFICES ASSUME MainTypes, Delaying, Periods, mpc = "print",
                      config.DELAY * Freq + 2 * Jitter < Word
               PROVE  /\ \A e \in 1 .. 2 : Cycles(e) - config.DELAY * Freq \in 0 .. 2 * Jitter
                      /\ Cycles(1) - Cycles(2) \in -Jitter .. Jitter
    BY DEF PeriodsAgree
  <2> DEFINE asked == config.DELAY * Freq
  <2>1. asked \in Nat /\ Jitter \in Nat /\ Word \in Nat \ {0}
    BY ReadTypes, DdrStatAssumption, StatCollAssumption DEF Delaying, Measuring
  <2>2. start[1] \in Nat /\ start[2] \in Nat /\ end[1] \in Nat /\ end[2] \in Nat
    BY DEF MainTypes
  <2>3. /\ start[2] - start[1] \in 0 .. Jitter
        /\ end[1] - start[2] \in asked .. asked + Jitter
        /\ end[2] - end[1] \in 0 .. Jitter
    BY DEF Periods
  <2>4. asked + 2 * Jitter < Word
    OBVIOUS
  <2> HIDE DEF asked
  <2>5. /\ end[1] - start[1] \in asked .. asked + 2 * Jitter
        /\ end[2] - start[2] \in asked .. asked + 2 * Jitter
        /\ (end[1] - start[1]) - (end[2] - start[2]) \in -Jitter .. Jitter
    BY <2>1, <2>2, <2>3
  <2>6. ASSUME NEW x \in Nat, NEW y \in Nat, x - y \in asked .. asked + 2 * Jitter
        PROVE  ((x % Word) - (y % Word)) % Word = x - y
    <3>1. y <= x /\ x - y < Word
      BY <2>1, <2>4, <2>6
    <3>2. QED
      BY <2>1, <3>1, ModDifference
  <2>a. Cycles(1) = end[1] - start[1]
    BY <2>2, <2>5, <2>6 DEF Cycles
  <2>b. Cycles(2) = end[2] - start[2]
    BY <2>2, <2>5, <2>6 DEF Cycles
  <2>7. /\ Cycles(1) - asked \in 0 .. 2 * Jitter /\ Cycles(2) - asked \in 0 .. 2 * Jitter
        /\ Cycles(1) - Cycles(2) \in -Jitter .. Jitter
    BY <2>1, <2>2, <2>5, <2>a, <2>b
  <2>8. \A e \in 1 .. 2 : e = 1 \/ e = 2
    OBVIOUS
  <2>9. QED
    BY <2>7, <2>8 DEF asked
<1>4. QED
  BY <1>1, <1>2, <1>3, MainInvariant, PTL DEF DdrSpec

-----------------------------------------------------------------------------
(* The config file. *)

\* The places before a place that are the turn of a value, behind k; and those whose
\* values are taken in.
ValuesTo(k, to) == {p \in ValuesOf(k) : p % 2 = 0 /\ p < to}
Accepted(k, to) ==
  {p \in ValuesTo(k, to) : k \in Modes \/ LastValue(ModeOf[k], ValuesTo(ModeOf[k], p)) = 1}

LEMMA AcceptedMode ==
  ASSUME NEW k \in Modes, NEW to
  PROVE  Accepted(k, to) = ValuesTo(k, to)
BY DEF Accepted

LEMMA LastOfNone ==
  ASSUME NEW k
  PROVE  LastValue(k, {}) = Default[k]
BY DEF LastValue

\* A value behind all the others is the last one.
LEMMA LastIsNewest ==
  ASSUME NEW k, NEW p \in Nat, NEW ps \in SUBSET Nat, \A q \in ps : q < p
  PROVE  LastValue(k, ps \cup {p}) = file[p].value
<1> DEFINE all == ps \cup {p}
           last == CHOOSE x \in all : \A q \in all : q <= x
<1>1. p \in all /\ \A q \in all : q <= p
  OBVIOUS
<1>2. last \in all /\ \A q \in all : q <= last
  BY <1>1
<1>4. all # {} /\ LastValue(k, all) = file[last].value
  BY <1>1 DEF LastValue
<1> HIDE DEF last
<1>3. last = p
  <2>1. last \in Nat /\ p <= last /\ (last = p \/ last < p)
    BY <1>1, <1>2
  <2>2. QED
    BY <2>1
<1>5. QED
  BY <1>3, <1>4

\* One more word: at the turn of a key nothing is taken in, at the turn of a value
\* it is taken in for its own key only, and only if the mode of the key is on.
LEMMA AcceptedNext ==
  ASSUME file \in Seq([text : STRING, value : Int, tokens : Nat]), NEW k \in Settings,
         NEW m \in 1 .. Len(file)
  PROVE  /\ m % 2 = 1 => Accepted(k, m + 1) = Accepted(k, m)
         /\ m % 2 = 0 => LastValue(k, Accepted(k, m + 1)) =
              IF /\ file[m - 1].text = k
                 /\ k \in Modes \/ LastValue(ModeOf[k], Accepted(ModeOf[k], m)) = 1
              THEN file[m].value ELSE LastValue(k, Accepted(k, m))
<1> DEFINE on(p) == k \in Modes \/ LastValue(ModeOf[k], ValuesTo(ModeOf[k], p)) = 1
<1>d. Len(file) \in Nat /\ DOMAIN file = 1 .. Len(file) /\ m \in Nat \ {0}
  BY LenProperties
<1>1. ASSUME NEW p PROVE p \in ValuesTo(k, m + 1) <=> \/ p \in ValuesTo(k, m)
                                                       \/ (p = m /\ m % 2 = 0 /\ file[m - 1].text = k)
  <2>1. p \in ValuesTo(k, m + 1) => p \in ValuesTo(k, m) \/ (p = m /\ m % 2 = 0 /\ file[m - 1].text = k)
    BY <1>d DEF ValuesTo, ValuesOf
  <2>2. p \in ValuesTo(k, m) => p \in ValuesTo(k, m + 1)
    BY <1>d DEF ValuesTo, ValuesOf
  <2>3. m % 2 = 0 => m - 1 \in 1 .. Len(file)
    BY <1>d
  <2>4. m % 2 = 0 /\ file[m - 1].text = k => m \in ValuesTo(k, m + 1)
    BY <1>d, <2>3 DEF ValuesTo, ValuesOf
  <2>5. QED
    BY <2>1, <2>2, <2>4
<1>2. Accepted(k, m + 1) = {p \in ValuesTo(k, m + 1) : on(p)} /\ Accepted(k, m) = {p \in ValuesTo(k, m) : on(p)}
  BY DEF Accepted
<1>3. on(m) <=> k \in Modes \/ LastValue(ModeOf[k], Accepted(ModeOf[k], m)) = 1
  <2>1. k \notin Modes => ModeOf[k] \in Modes
    BY SettingsFacts
  <2>2. QED
    BY <2>1, AcceptedMode
<1> HIDE DEF on
<1>4. CASE m % 2 = 0 /\ file[m - 1].text = k /\ on(m)
  <2>1. Accepted(k, m + 1) = Accepted(k, m) \cup {m}
    BY <1>1, <1>2, <1>4
  <2>2. Accepted(k, m) \in SUBSET Nat /\ \A q \in Accepted(k, m) : q < m
    BY <1>d DEF Accepted, ValuesTo, ValuesOf
  <2> DEFINE acc == Accepted(k, m)
  <2>3. LastValue(k, Accepted(k, m + 1)) = file[m].value
    <3>1. acc \in SUBSET Nat /\ \A q \in acc : q < m
      BY <2>2
    <3> HIDE DEF acc
    <3>2. LastValue(k, acc \cup {m}) = file[m].value
      BY <1>d, <3>1, LastIsNewest
    <3>3. QED
      BY <2>1, <3>2 DEF acc
  <2>4. m % 2 # 1
    BY <1>4
  <2>5. QED
    BY <1>3, <1>4, <2>3, <2>4
<1>5. CASE ~(m % 2 = 0 /\ file[m - 1].text = k /\ on(m))
  <2>1. Accepted(k, m + 1) = Accepted(k, m)
    BY <1>1, <1>2, <1>5
  <2>2. QED
    BY <1>3, <1>5, <2>1
<1>6. QED
  BY <1>4, <1>5

\* A setting has its default or the value of a word behind its key.
Said(k) == config[k] = Default[k] \/ \E p \in ValuesOf(k) : config[k] = file[p].value

\* While the file is read, its words have been keys and values by turns, the key
\* at hand is the word before, and every setting has the last value taken in
\* for it.
Reading ==
  mpc = "parse" =>
    /\ flag = (w - 1) % 2
    /\ flag = 1 => key = file[w - 1].text
    /\ \A p \in 1 .. w - 1 : p % 2 = 1 => KeyAt(p)
    /\ \A k \in Settings : config[k] = LastValue(k, Accepted(k, w)) /\ Said(k)

LEMMA ReadingInit ==
  ASSUME DdrInit
  PROVE  Reading
<1>1. w = 1 /\ flag = 0 /\ config = Default
  BY DEF DdrInit
<1>2. ASSUME NEW k \in Settings
      PROVE  config[k] = LastValue(k, Accepted(k, 1)) /\ Said(k)
  <2>1. file \in Seq([text : STRING, value : Int, tokens : Nat])
    BY FilesAssumption DEF DdrInit
  <2>2. DOMAIN file = 1 .. Len(file) /\ Len(file) \in Nat
    BY <2>1, LenProperties
  <2>3. Accepted(k, 1) = {}
    BY <2>2 DEF Accepted, ValuesTo, ValuesOf
  <2>4. QED
    BY <1>1, <2>3, LastOfNone DEF Said
<1>3. QED
  BY <1>1, <1>2 DEF Reading

\* In a file whose words are keys and values by turns, and which is one of pairs, the
\* words behind keys are those whose turn it is to be a value.
LEMMA PairsByTurns ==
  ASSUME file \in Seq([text : STRING, value : Int, tokens : Nat]), FileOfPairs,
         \A p \in 1 .. Len(file) : p % 2 = 1 => KeyAt(p), NEW k \in Settings
  PROVE  Accepted(k, Len(file) + 1) = {p \in ValuesOf(k) :
           k \in Modes \/ LastValue(ModeOf[k], {q \in ValuesOf(ModeOf[k]) : q < p}) = 1}
<1>d. Len(file) \in Nat /\ DOMAIN file = 1 .. Len(file)
  BY LenProperties
<1>1. ASSUME NEW j \in Settings, NEW to \in 1 .. Len(file) + 1
      PROVE  ValuesTo(j, to) = {q \in ValuesOf(j) : q < to}
  <2>1. ASSUME NEW q \in ValuesOf(j) PROVE q % 2 = 0
    <3>1. q \in 1 .. Len(file) /\ q - 1 \in 1 .. Len(file) /\ file[q - 1].text = j
      BY <1>d DEF ValuesOf
    <3>2. KeyAt(q - 1)
      BY <3>1, SettingsFacts DEF KeyAt
    <3>3. (q - 1) + 1 = q
      BY <1>d, <3>1
    <3>4. ~KeyAt(q)
      BY <1>d, <3>1, <3>2, <3>3 DEF FileOfPairs
    <3>5. q % 2 # 1
      BY <3>1, <3>4
    <3>6. QED
      BY <1>d, <3>1, <3>5
  <2>2. QED
    BY <2>1 DEF ValuesTo
<1>2. ValuesOf(k) \subseteq 1 .. Len(file) /\ \A p \in 1 .. Len(file) : p < Len(file) + 1 /\ p \in 1 .. Len(file) + 1
  BY <1>d DEF ValuesOf
<1>3. ValuesTo(k, Len(file) + 1) = ValuesOf(k)
  <2>1. Len(file) + 1 \in 1 .. Len(file) + 1
    BY <1>d
  <2>2. ValuesTo(k, Len(file) + 1) = {q \in ValuesOf(k) : q < Len(file) + 1}
    BY <1>1, <2>1
  <2>3. \A q \in ValuesOf(k) : q < Len(file) + 1
    BY <1>2
  <2>4. QED
    BY <2>2, <2>3
<1>4. k \in Modes \/ ModeOf[k] \in Settings
  BY SettingsFacts
<1>5. QED
  BY <1>1, <1>2, <1>3, <1>4 DEF Accepted

\* What the settings and the file hold once it has been read.
LEMMA ReadToEnd ==
  ASSUME MainTypes, Reading, mpc = "parse", w > Len(file)
  PROVE  /\ \A k \in Settings : FileOfPairs => config[k] = Asked(k)
         /\ \A k \in Settings : Said(k)
         /\ \A p \in DOMAIN file : KeyAt(p) \/ (p > 1 /\ KeyAt(p - 1))
<1>1. /\ file \in Seq([text : STRING, value : Int, tokens : Nat]) /\ Len(file) \in Nat /\ DOMAIN file = 1 .. Len(file)
      /\ w = Len(file) + 1 /\ w - 1 = Len(file)
  BY LenProperties DEF MainTypes
<1>2. \A p \in 1 .. Len(file) : p % 2 = 1 => KeyAt(p)
  BY <1>1 DEF Reading
<1>3. ASSUME NEW p \in 1 .. Len(file), ~KeyAt(p) PROVE p > 1 /\ KeyAt(p - 1)
  <2>1. p % 2 = 0 /\ p \in Nat \ {0}
    BY <1>1, <1>2, <1>3
  <2>2. p > 1 /\ p - 1 \in 1 .. Len(file) /\ (p - 1) % 2 = 1
    BY <1>1, <2>1
  <2>3. QED
    BY <1>2, <2>2
<1>4. ASSUME NEW k \in Settings, FileOfPairs PROVE config[k] = Asked(k)
  <2>1. config[k] = LastValue(k, Accepted(k, Len(file) + 1))
    BY <1>1 DEF Reading
  <2>2. QED
    BY <1>1, <1>2, <1>4, <2>1, PairsByTurns DEF Asked
<1>5. QED
  BY <1>1, <1>3, <1>4 DEF Reading

LEMMA SettingsStep ==
  ASSUME MainTypes, Reading, SettingsAsAsked, [DdrNext]_ddrVars
  PROVE  Reading' /\ SettingsAsAsked'
<1>l. /\ file \in Seq([text : STRING, value : Int, tokens : Nat])
      /\ Len(file) \in Nat /\ DOMAIN file = 1 .. Len(file) /\ DOMAIN Default = Settings
  BY LenProperties, SettingsFacts DEF MainTypes
<1>f. ASSUME file' = file
      PROVE  /\ \A k, m : Accepted(k, m)' = Accepted(k, m)
             /\ \A k, ps : LastValue(k, ps)' = LastValue(k, ps)
             /\ \A k : Asked(k)' = Asked(k) /\ ValuesOf(k)' = ValuesOf(k)
             /\ \A p : KeyAt(p)' = KeyAt(p)
             /\ FileOfPairs' = FileOfPairs
  BY <1>f DEF Accepted, Asked, ValuesTo, ValuesOf, LastValue, KeyAt, FileOfPairs
<1>1. CASE ParseWord
  <2>1. /\ file' = file /\ mpc = "parse" /\ mpc' \in {"parse", "exit"} /\ w \in 1 .. Len(file)
        /\ w \in Nat \ {0} /\ flag = (w - 1) % 2 /\ flag \in {0, 1}
    BY <1>1, <1>l DEF ParseWord, MainTypes, Reading
  <2>2. SUFFICES ASSUME mpc' = "parse" PROVE Reading'
    BY <2>1 DEF SettingsAsAsked, Reading
  <2>3. /\ flag = 1 => key = file[w - 1].text
        /\ \A p \in 1 .. w - 1 : p % 2 = 1 => KeyAt(p)
        /\ \A k \in Settings : config[k] = LastValue(k, Accepted(k, w)) /\ Said(k)
    BY <2>1 DEF Reading
  <2>4. CASE flag = 0
    <3>1. key' = file[w].text /\ flag' = 1 /\ w' = w + 1 /\ config' = config /\ file[w].text \in keylist
      BY <1>1, <2>2, <2>4 DEF ParseWord
    <3>2. w % 2 = 1 /\ w + 1 - 1 = w /\ 1 .. w = 1 .. w - 1 \cup {w}
      BY <2>1, <2>4
    <3>3. \A p \in 1 .. w' - 1 : p % 2 = 1 => KeyAt(p)
      BY <2>3, <3>1, <3>2 DEF KeyAt
    <3>4. ASSUME NEW k \in Settings PROVE config'[k] = LastValue(k, Accepted(k, w + 1)) /\ Said(k)'
      <4>1. Accepted(k, w + 1) = Accepted(k, w)
        BY <1>l, <2>1, <3>2, AcceptedNext
      <4>2. Said(k)'
        BY <1>f, <2>1, <2>3, <3>1 DEF Said
      <4>3. QED
        BY <2>3, <3>1, <4>1, <4>2
    <3>5. flag' = (w' - 1) % 2 /\ key' = file[w' - 1].text
      <4>1. w' - 1 = w
        BY <2>1, <3>1
      <4>2. QED
        BY <3>1, <3>2, <4>1
    <3>6. QED
      BY <1>f, <2>1, <3>1, <3>3, <3>4, <3>5 DEF Reading
  <2>5. CASE flag = 1
    <3>1. /\ flag' = 0 /\ w' = w + 1 /\ key = file[w - 1].text
          /\ config' = IF Adds(key) THEN [config EXCEPT ![key] = file[w].value] ELSE config
      BY <1>1, <2>3, <2>5 DEF ParseWord, AddKeyValue
    <3>2. w % 2 = 0 /\ w + 1 - 1 = w /\ 1 .. w = 1 .. w - 1 \cup {w} /\ w - 1 \in 1 .. Len(file)
      BY <1>l, <2>1, <2>5
    <3>3. \A p \in 1 .. w' - 1 : p % 2 = 1 => KeyAt(p)
      <4>1. w' - 1 = w /\ w % 2 # 1
        BY <2>1, <3>1, <3>2
      <4>2. \A p \in 1 .. w : p \in 1 .. w - 1 \/ p = w
        BY <3>2
      <4>3. QED
        BY <2>3, <4>1, <4>2
    <3>4. ASSUME NEW k \in Settings
          PROVE  config'[k] = LastValue(k, Accepted(k, w + 1)) /\ Said(k)'
      <4>1. k \notin Modes => k \in DOMAIN ModeOf /\ ModeOf[k] \in Settings
        BY SettingsFacts
      <4>2. k \in Modes => k \notin DOMAIN ModeOf
        BY SettingsFacts
      <4>3. Adds(k) <=> k \in Modes \/ LastValue(ModeOf[k], Accepted(ModeOf[k], w)) = 1
        BY <2>3, <4>1, <4>2 DEF Adds
      <4>4. config'[k] = IF key = k /\ Adds(k) THEN file[w].value ELSE config[k]
        BY <3>1 DEF MainTypes
      <4>5. LastValue(k, Accepted(k, w + 1)) =
              IF file[w - 1].text = k /\ Adds(k) THEN file[w].value ELSE LastValue(k, Accepted(k, w))
        BY <1>l, <2>1, <3>2, <4>3, AcceptedNext
      <4>6. key = k => w \in ValuesOf(k)
        BY <1>l, <2>1, <3>1, <3>2 DEF ValuesOf
      <4>7. Said(k)'
        BY <1>f, <2>1, <2>3, <4>4, <4>6 DEF Said
      <4>8. QED
        BY <2>3, <3>1, <4>4, <4>5, <4>7
    <3>5. flag' = (w' - 1) % 2
      BY <3>1, <3>2
    <3>6. QED
      BY <1>f, <2>1, <3>1, <3>3, <3>4, <3>5 DEF Reading
  <2>6. QED
    BY <2>1, <2>4, <2>5
<1>2. CASE ParseEnd
  <2>1. /\ file' = file /\ mpc = "parse" /\ mpc' # "parse" /\ w > Len(file)
        /\ config' = [config EXCEPT !["DELAY"] = IF config.BANDWIDTH = 1 /\ @ <= 0 THEN 1 ELSE @]
    BY <1>2 DEF ParseEnd
  <2>2. /\ \A k \in Settings : FileOfPairs => config[k] = Asked(k)
        /\ \A k \in Settings : Said(k)
        /\ \A p \in DOMAIN file : KeyAt(p) \/ (p > 1 /\ KeyAt(p - 1))
    BY <2>1, ReadToEnd
  <2>3. ASSUME NEW k \in Settings
        PROVE  \A v : config[k] = v => config'[k] = v \/ (k = "DELAY" /\ v <= 0 /\ config'[k] = 1)
    <3>1. CASE k = "DELAY"
      BY <2>1, <3>1 DEF MainTypes
    <3>2. CASE k # "DELAY"
      BY <2>1, <3>2 DEF MainTypes
    <3>3. QED
      BY <3>1, <3>2
  <2>4. ASSUME NEW k \in Settings
        PROVE  LET Has(v) == config'[k] = v \/ (k = "DELAY" /\ v <= 0 /\ config'[k] = 1)
               IN /\ FileOfPairs => Has(Asked(k))
                  /\ Has(Default[k]) \/ \E p \in ValuesOf(k) : Has(file[p].value)
    <3>1. FileOfPairs => config[k] = Asked(k)
      BY <2>2
    <3>2. config[k] = Default[k] \/ \E p \in ValuesOf(k) : config[k] = file[p].value
      BY <2>2 DEF Said
    <3>3. QED
      BY <2>3, <3>1, <3>2
  <2>5. SettingsAsAsked'
    BY <1>f, <1>l, <2>1, <2>2, <2>4 DEF SettingsAsAsked
  <2>6. QED
    BY <2>1, <2>5 DEF Reading
<1>3. CASE ReadList \/ PerfInit \/ PerfStart \/ PerfStop \/ PerfPrint
  <2>1. file' = file /\ config' = config /\ mpc \notin {"parse", "exit", "overrun"} /\ mpc' # "parse"
    BY <1>3 DEF ReadList, PerfInit, PerfStart, PerfStop, EmifRead, PerfPrint
  <2>2. QED
    BY <1>f, <2>1 DEF Reading, SettingsAsAsked
<1>4. CASE UNCHANGED mainVars
  <2>1. file' = file /\ UNCHANGED <<mpc, w, flag, key, config>>
    BY <1>4 DEF mainVars
  <2>2. QED
    BY <1>f, <2>1 DEF Reading, SettingsAsAsked, Said
<1>5. CASE TooManyTokens
  BY <1>5 DEF TooManyTokens, Reading, SettingsAsAsked
<1>6. QED
  BY <1>1, <1>2, <1>3, <1>4, <1>5 DEF DdrNext, DdrProgram, DdrHardware, ddrVars

\* For every config file: after a file of pairs every setting has the last value that
\* followed its mode's being switched on; after any file that is read to its end
\* every setting that has changed has the value of a word behind its key, and no
\* number stands but behind a key.  A line of more than six tokens overruns
\* the array, and nothing is said of what comes after.
THEOREM DdrSettingsAsAsked == DdrSpec => []SettingsAsAsked
<1>1. DdrInit => Reading /\ SettingsAsAsked
  BY ReadingInit DEF DdrInit, SettingsAsAsked
<1>2. MainTypes /\ Reading /\ SettingsAsAsked /\ [DdrNext]_ddrVars => Reading' /\ SettingsAsAsked'
  BY SettingsStep
<1>3. QED
  BY <1>1, <1>2, MainInvariant, PTL DEF DdrSpec

-----------------------------------------------------------------------------
(* The collection of statistics: sequences and types. *)

IsSeq(s) == s \in Seq({s[k] : k \in 1 .. Len(s)})

LEMMA OwnRange ==
  ASSUME NEW S, NEW s \in Seq(S)
  PROVE  IsSeq(s) /\ Len(s) \in Nat /\ DOMAIN s = 1 .. Len(s)
<1>1. Len(s) \in Nat /\ s \in [1 .. Len(s) -> S]
  BY LenProperties
<1>2. s \in [1 .. Len(s) -> {s[k] : k \in 1 .. Len(s)}]
  BY <1>1
<1>3. QED
  BY <1>1, <1>2 DEF IsSeq

LEMMA GrownSequence ==
  ASSUME NEW s, IsSeq(s), NEW x
  PROVE  /\ IsSeq(Append(s, x)) /\ Len(Append(s, x)) = Len(s) + 1 /\ Len(s) \in Nat
         /\ Append(s, x)[Len(s) + 1] = x
         /\ \A k \in 1 .. Len(s) : Append(s, x)[k] = s[k]
<1> DEFINE T == {s[k] : k \in 1 .. Len(s)} \cup {x}
<1>1. s \in Seq(T) /\ x \in T
  <2>1. s \in Seq({s[k] : k \in 1 .. Len(s)})
    BY DEF IsSeq
  <2>2. Len(s) \in Nat /\ s \in [1 .. Len(s) -> {s[k] : k \in 1 .. Len(s)}]
    BY <2>1, LenProperties
  <2>3. s \in [1 .. Len(s) -> T]
    BY <2>2
  <2>4. QED
    BY <2>2, <2>3
<1> HIDE DEF T
<1>2. /\ Append(s, x) \in Seq(T) /\ Len(Append(s, x)) = Len(s) + 1
      /\ \A k \in 1 .. Len(s) : Append(s, x)[k] = s[k]
      /\ Append(s, x)[Len(s) + 1] = x
  BY <1>1, AppendProperties
<1>3. QED
  BY <1>1, <1>2, OwnRange

LEMMA IntervalEnd ==
  ASSUME NEW a \in Nat, NEW b \in Nat, 1 .. a = 1 .. b
  PROVE  a = b
<1>1. ASSUME a < b PROVE FALSE
  <2>1. b \in 1 .. b /\ b \notin 1 .. a
    BY <1>1
  <2>2. QED
    BY <2>1
<1>2. ASSUME b < a PROVE FALSE
  <2>1. a \in 1 .. a /\ a \notin 1 .. b
    BY <1>2
  <2>2. QED
    BY <2>1
<1>3. QED
  BY <1>1, <1>2

LEMMA ChangedSequence ==
  ASSUME NEW s, IsSeq(s), NEW m \in 1 .. Len(s), NEW x
  PROVE  /\ IsSeq([s EXCEPT ![m] = x]) /\ Len([s EXCEPT ![m] = x]) = Len(s) /\ Len(s) \in Nat
         /\ [s EXCEPT ![m] = x][m] = x
         /\ \A k \in 1 .. Len(s) : k # m => [s EXCEPT ![m] = x][k] = s[k]
<1> DEFINE T == {s[k] : k \in 1 .. Len(s)} \cup {x}
           r == [s EXCEPT ![m] = x]
<1>1. s \in Seq({s[k] : k \in 1 .. Len(s)})
  BY DEF IsSeq
<1>2. Len(s) \in Nat /\ DOMAIN s = 1 .. Len(s)
  BY <1>1, OwnRange
<1>3. DOMAIN r = 1 .. Len(s) /\ r \in [1 .. Len(s) -> T]
  BY <1>2
<1>4. r \in Seq(T)
  BY <1>2, <1>3
<1>5. Len(r) = Len(s)
  <2>1. Len(r) \in Nat /\ DOMAIN r = 1 .. Len(r)
    BY <1>4, OwnRange
  <2>2. 1 .. Len(r) = 1 .. Len(s)
    BY <1>3, <2>1
  <2> HIDE DEF r
  <2>3. QED
    BY <1>2, <2>1, <2>2, IntervalEnd
<1>6. r[m] = x /\ \A k \in 1 .. Len(s) : k # m => r[k] = s[k]
  BY <1>2
<1>7. QED
  BY <1>2, <1>4, <1>5, <1>6, OwnRange

Sampling == {"sample", "stop", "read", "done", "nofile", "overrun"}
Listing == Sampling \cup {"control"}
Before == {"idle", "lookup", "map", "size", "clock", "init"}
Stopped == {"failed", "exit", "divzero", "wild", "nomemory"}
Entry == [group : Groups, counter : 0 .. 4, enabled : BOOLEAN]
Params == [name : STRING, id : STRING]
Registers == [on : BOOLEAN, held : Nat, sel : [1 .. 4 -> Int]]

StatTypes ==
  /\ spc \in Before \cup Stopped \cup Listing
  /\ time \in Nat /\ interval \in Nat /\ list \in Seq(STRING) /\ n \in Nat \ {0}
  /\ params \in Seq(Params)
  /\ filterCnt \in [Groups -> Nat]
  /\ DOMAIN object \subseteq Initiators /\ \A i \in DOMAIN object : object[i] \in Entry
  /\ TRACE_SZ \in Nat /\ alloc \in Nat /\ group \in Groups /\ now \in Nat
  /\ IsSeq(readings) /\ (spc \in {"stop", "read"} => Len(readings) >= 1)
  /\ hw \in [Groups -> Registers]

\* What glsdkstatcoll does is nothing to the collection, a step of it, or its
\* start with two numbers and a list of names.
LEMMA CollectionSteps ==
  ASSUME MainTypes, [DdrNext]_ddrVars
  PROVE  \/ UNCHANGED statVars \/ StatNext
         \/ \E t \in Nat, us \in Nat, names \in Seq(STRING) : StatcollStart(t, us, names)
<1>1. \A x \in Int : x % Word \in Nat
  BY StatCollAssumption
<1>2. config.TOTAL_TIME \in Int /\ config.INTERVAL_US \in Int
  BY DEF MainTypes, Settings
<1>3. CASE ReadList
  <2>1. CASE UNCHANGED statVars
    BY <2>1
  <2>2. CASE \E names \in Lists : StatcollStart(config.TOTAL_TIME % Word, config.INTERVAL_US % Word, names)
    <3>1. PICK names \in Lists : StatcollStart(config.TOTAL_TIME % Word, config.INTERVAL_US % Word, names)
      BY <2>2
    <3>2. names \in Seq(STRING) /\ config.TOTAL_TIME % Word \in Nat /\ config.INTERVAL_US % Word \in Nat
      BY <1>1, <1>2, ListsAssumption
    <3>3. QED
      BY <3>1, <3>2
  <2>3. QED
    BY <1>3, <2>1, <2>2 DEF ReadList
<1>4. CASE TooManyTokens \/ ParseWord \/ ParseEnd \/ PerfInit \/ PerfStart \/ PerfStop \/ PerfPrint
  BY <1>4 DEF TooManyTokens, ParseWord, ParseEnd, PerfInit, PerfStart, PerfStop, PerfPrint, EmifRead
<1>5. CASE StatProgram \/ StatHardware
  BY <1>5 DEF StatNext
<1>6. CASE UNCHANGED ddrVars
  BY <1>6 DEF ddrVars
<1>7. QED
  BY <1>3, <1>4, <1>5, <1>6 DEF DdrNext, DdrProgram, DdrHardware

LEMMA FreshObject == DOMAIN <<>> = {}
OBVIOUS

\* What giving out a filter changes.
LEMMA ControlFacts ==
  ASSUME StatTypes, NEW i \in Initiators, ControlInitialize(i)
  PROVE  LET g == GroupOf(i)  cnt == filterCnt[g] + 1
         IN /\ g \in Groups /\ cnt \in Nat \ {0}
            /\ filterCnt' = [filterCnt EXCEPT ![g] = cnt]
            /\ DOMAIN object' = DOMAIN object \cup {i}
            /\ \A j \in DOMAIN object : j # i => object'[j] = object[j]
            /\ object'[i] \in Entry /\ object'[i].group = g
            /\ cnt > 4 => /\ hw' = hw
                          /\ i \in DOMAIN object => object'[i].counter = object[i].counter
                          /\ object'[i].enabled <=> i \in DOMAIN object /\ object[i].enabled
            /\ cnt <= 4 => /\ object'[i].counter = cnt /\ object'[i].enabled
                           /\ hw' = [hw EXCEPT ![g] = [hw[g] EXCEPT !.on = TRUE,
                                                         !.sel = [hw[g].sel EXCEPT ![cnt] = MuxReq(i)]]]
<1> DEFINE g == GroupOf(i)
           cnt == filterCnt[g] + 1
           was == IF i \in DOMAIN object THEN object[i] ELSE [group |-> 255, counter |-> 0, enabled |-> FALSE]
<1>1. g \in Groups /\ cnt \in Nat \ {0} /\ filterCnt' = [filterCnt EXCEPT ![g] = cnt]
  BY InitiatorFacts DEF StatTypes, ControlInitialize, NextFilter
<1>2. CASE cnt > 4
  <2>1. object' = Entered(object, i, [was EXCEPT !.group = g]) /\ hw' = hw
    BY <1>2 DEF ControlInitialize, NextFilter
  <2>2. CASE i \in DOMAIN object
    <3>1. was = object[i] /\ was \in Entry
      BY <2>2 DEF StatTypes
    <3>2. /\ [was EXCEPT !.group = g] \in Entry /\ [was EXCEPT !.group = g].group = g
          /\ [was EXCEPT !.group = g].counter = was.counter /\ [was EXCEPT !.group = g].enabled = was.enabled
      BY <1>1, <3>1 DEF Entry
    <3> HIDE DEF was
    <3>3. /\ DOMAIN object' = DOMAIN object \cup {i} /\ object'[i] = [was EXCEPT !.group = g]
          /\ \A j \in DOMAIN object : j # i => object'[j] = object[j]
      BY <2>1 DEF Entered
    <3>4. /\ object'[i] \in Entry /\ object'[i].group = g
          /\ object'[i].counter = object[i].counter /\ object'[i].enabled = object[i].enabled
      BY <3>1, <3>2, <3>3
    <3>5. /\ DOMAIN object' = DOMAIN object \cup {i}
          /\ \A j \in DOMAIN object : j # i => object'[j] = object[j]
      BY <3>3
    <3>6. hw' = hw
      BY <2>1
    <3> HIDE DEF g, cnt
    <3>7. QED
      BY <1>1, <1>2, <2>2, <3>4, <3>5, <3>6 DEF g, cnt
  <2>3. CASE i \notin DOMAIN object
    <3>1. was \in [group : Nat, counter : 0 .. 4, enabled : BOOLEAN] /\ ~was.enabled
      BY <2>3
    <3> HIDE DEF was
    <3>2. /\ [was EXCEPT !.group = g] \in Entry /\ [was EXCEPT !.group = g].group = g
          /\ ~[was EXCEPT !.group = g].enabled
      BY <1>1, <3>1 DEF Entry
    <3>3. /\ DOMAIN object' = DOMAIN object \cup {i} /\ object'[i] = [was EXCEPT !.group = g]
          /\ \A j \in DOMAIN object : j # i => object'[j] = object[j]
      BY <2>1 DEF Entered
    <3>4. object'[i] \in Entry /\ object'[i].group = g /\ ~object'[i].enabled
      BY <3>2, <3>3
    <3>5. /\ DOMAIN object' = DOMAIN object \cup {i}
          /\ \A j \in DOMAIN object : j # i => object'[j] = object[j]
      BY <3>3
    <3>6. hw' = hw
      BY <2>1
    <3> HIDE DEF g, cnt
    <3>7. QED
      BY <1>1, <1>2, <2>3, <3>4, <3>5, <3>6 DEF g, cnt
  <2>4. QED
    BY <2>2, <2>3
<1>3. CASE ~(cnt > 4)
  <2>1. object' = Entered(object, i, [group |-> g, counter |-> cnt, enabled |-> TRUE])
    BY <1>1, <1>3 DEF ControlInitialize, NextFilter
  <2>a. hw' = [hw EXCEPT ![g] = [hw[g] EXCEPT !.on = TRUE, !.sel = [hw[g].sel EXCEPT ![cnt] = MuxReq(i)]]]
    <3>1. hw' = [hw EXCEPT ![g].on = TRUE, ![g].sel[cnt] = MuxReq(i)]
      BY <1>1, <1>3 DEF ControlInitialize, NextFilter
    <3>2. hw[g] \in Registers
      BY <1>1 DEF StatTypes
    <3>3. QED
      BY <1>1, <3>1, <3>2 DEF Registers, StatTypes
  <2>2. /\ DOMAIN object' = DOMAIN object \cup {i}
        /\ object'[i] = [group |-> g, counter |-> cnt, enabled |-> TRUE]
        /\ \A j \in DOMAIN object : j # i => object'[j] = object[j]
    BY <2>1 DEF Entered
  <2>3. cnt \in 0 .. 4
    BY <1>1, <1>3
  <2>4. object'[i] \in Entry
    BY <1>1, <2>2, <2>3 DEF Entry
  <2>5. QED
    BY <1>1, <1>3, <2>a, <2>2, <2>3, <2>4
<1>4. QED
  BY <1>2, <1>3

LEMMA StatTypesInit ==
  ASSUME StatInit
  PROVE  StatTypes
<1>1. IsSeq(<<>>) /\ <<>> \in Seq(STRING)
  BY EmptySeq, OwnRange
<1>2. 0 \in Groups /\ Idle \in Registers
  BY DEF Groups, Idle, Registers
<1>3. DOMAIN object = {}
  BY FreshObject DEF StatInit
<1>4. filterCnt \in [Groups -> Nat] /\ hw \in [Groups -> Registers]
  BY <1>2 DEF StatInit
<1>5. QED
  BY <1>1, <1>2, <1>3, <1>4 DEF StatInit, StatTypes, Before

LEMMA StatTypesStart ==
  ASSUME StatTypes, NEW t \in Nat, NEW us \in Nat, NEW names \in Seq(STRING),
         StatcollStart(t, us, names)
  PROVE  StatTypes'
<1>1. params' \in Seq(Params)
  <2>1. Stale \subseteq Seq(Params)
    BY StaleAssumption DEF Params
  <2>2. QED
    BY <2>1 DEF StatcollStart
<1>2. list' \in Seq(STRING) /\ n' \in Nat \ {0}
  BY DEF StatcollStart
<1>3. QED
  BY <1>1, <1>2 DEF StatcollStart, StatTypes, Before

\* What looking up a name changes.
LEMMA LookupGrows ==
  ASSUME params \in Seq(Params), list \in Seq(STRING), n \in Nat \ {0}, Lookup
  PROVE  \/ UNCHANGED <<params, n>> /\ params' \in Seq(Params)
            /\ \/ spc' = "map" /\ n > Len(list)
               \/ spc' \in {"exit", "wild"}
         \/ /\ n \in 1 .. Len(list) /\ n' = n + 1 /\ spc' = spc
            /\ params' \in Seq(Params) /\ Len(params) \in Nat /\ Len(params') = Len(params) + 1
            /\ params'[Len(params) + 1].name = list[n] /\ params'[Len(params) + 1].id = list[n]
            /\ \A k \in 1 .. Len(params) : params'[k] = params[k]
<1>1. CASE n > Len(list) \/ list[n] \notin Initiators \/ Len(params) >= STATCOL_MAX
  BY <1>1 DEF Lookup
<1>2. CASE ~(n > Len(list) \/ list[n] \notin Initiators \/ Len(params) >= STATCOL_MAX)
  <2> DEFINE e == [name |-> list[n], id |-> list[n]]
  <2>1. params' = Append(params, e) /\ n' = n + 1 /\ spc' = spc
    BY <1>2 DEF Lookup
  <2>2. n \in 1 .. Len(list) /\ Len(list) \in Nat
    BY <1>2, LenProperties
  <2>3. list[n] \in STRING
    BY <2>2, ElementOfSeq
  <2>4. e \in Params /\ e.name = list[n] /\ e.id = list[n]
    BY <2>3 DEF Params
  <2> HIDE DEF e
  <2>5. /\ Append(params, e) \in Seq(Params) /\ Len(Append(params, e)) = Len(params) + 1
        /\ Append(params, e)[Len(params) + 1] = e /\ Len(params) \in Nat
        /\ \A k \in 1 .. Len(params) : Append(params, e)[k] = params[k]
    BY <2>4, AppendProperties, LenProperties
  <2>6. QED
    BY <2>1, <2>2, <2>4, <2>5
<1>3. QED
  BY <1>1, <1>2

LEMMA StatTypesStep ==
  ASSUME StatTypes, StatNext
  PROVE  StatTypes'
<1>s. /\ n + 1 \in Nat \ {0} /\ 0 \in Groups
      /\ (group # 9 => group + 1 \in Groups)
  BY DEF StatTypes, Groups
<1>1. CASE Lookup
  <2>1. params' \in Seq(Params)
    BY <1>1, LookupGrows DEF Lookup, StatTypes
  <2>2. QED
    BY <1>1, <1>s, <2>1 DEF Lookup, settings, StatTypes, Before, Stopped
<1>2. CASE Map
  BY <1>2 DEF Map, settings, StatTypes, Before, Stopped
<1>c. CASE ClockReady
  BY <1>c DEF ClockReady, settings, StatTypes, Before
<1>3. CASE TraceSize
  <2>1. CASE interval = 0
    BY <1>3, <2>1 DEF TraceSize, settings, StatTypes, Before, Stopped
  <2>2. CASE interval # 0
    <3>1. (time * Second) % Word \in Nat
      <4>1. time * Second \in Nat
        BY StatCollAssumption DEF StatTypes
      <4>2. QED
        BY <4>1, StatCollAssumption
    <3>2. TRACE_SZ' \in Nat
      <4> DEFINE total == (time * Second) % Word
      <4>1. total \in Nat /\ interval \in Nat \ {0} /\ TRACE_SZ' = total \div interval
        BY <1>3, <2>2, <3>1 DEF TraceSize, StatTypes
      <4>2. \A x \in Nat, b \in Nat \ {0} : x \div b \in Nat
        OBVIOUS
      <4> HIDE DEF total
      <4>3. QED
        BY <4>1, <4>2
    <3>4. QED
      BY <1>3, <2>2, <3>2 DEF TraceSize, settings, StatTypes, Before
  <2>3. QED
    BY <2>1, <2>2
<1>i. CASE StatCollectorInit
  <2>1. alloc' \in Nat
    BY <1>i, StatCollAssumption DEF StatCollectorInit, Bytes, StatTypes
  <2>2. spc' \in {"control", "nomemory"}
    BY <1>i DEF StatCollectorInit
  <2>3. QED
    BY <1>i, <2>1, <2>2 DEF StatCollectorInit, settings, StatTypes, Listing, Stopped, Sampling
<1>4. CASE Control
  <2>1. CASE n > STATCOL_MAX \/ params[n].id \notin Initiators
    BY <1>4, <2>1 DEF Control, settings, StatTypes, Stopped
  <2>2. CASE ~(n > STATCOL_MAX) /\ params[n].id \in Initiators
    <3> DEFINE i == params[n].id
               g == GroupOf(i)
               cnt == filterCnt[g] + 1
    <3>1. ControlInitialize(i) /\ n' = n + 1 /\ spc' = spc
      BY <1>4, <2>2 DEF Control
    <3>2. /\ g \in Groups /\ cnt \in Nat \ {0}
          /\ filterCnt' = [filterCnt EXCEPT ![g] = cnt]
          /\ DOMAIN object' = DOMAIN object \cup {i}
          /\ \A j \in DOMAIN object : j # i => object'[j] = object[j]
          /\ object'[i] \in Entry
          /\ cnt > 4 => hw' = hw
          /\ cnt <= 4 => hw' = [hw EXCEPT ![g] = [hw[g] EXCEPT !.on = TRUE,
                                                    !.sel = [hw[g].sel EXCEPT ![cnt] = MuxReq(i)]]]
      BY <2>2, <3>1, ControlFacts
    <3>3. MuxReq(i) \in Nat
      BY <2>2, InitiatorFacts
    <3> HIDE DEF g, cnt, i
    <3>4. filterCnt' \in [Groups -> Nat]
      BY <3>2 DEF StatTypes
    <3>5. DOMAIN object' \subseteq Initiators /\ \A j \in DOMAIN object' : object'[j] \in Entry
      BY <2>2, <3>2 DEF StatTypes, i
    <3>6. hw' \in [Groups -> Registers]
      <4>1. hw[g] \in Registers
        BY <3>2 DEF StatTypes
      <4>2. [hw[g] EXCEPT !.on = TRUE, !.sel = [hw[g].sel EXCEPT ![cnt] = MuxReq(i)]] \in Registers
        <5> DEFINE sel == [hw[g].sel EXCEPT ![cnt] = MuxReq(i)]
        <5>1. sel \in [1 .. 4 -> Int]
          <6>1. hw[g].sel \in [1 .. 4 -> Int]
            BY <4>1 DEF Registers
          <6>2. \A f \in [1 .. 4 -> Int], x \in Int : [f EXCEPT ![cnt] = x] \in [1 .. 4 -> Int]
            OBVIOUS
          <6>3. MuxReq(i) \in Int
            BY <3>3
          <6>4. QED
            BY <6>1, <6>2, <6>3
        <5> HIDE DEF sel
        <5>2. [hw[g] EXCEPT !.on = TRUE, !.sel = sel] \in Registers
          BY <4>1, <5>1 DEF Registers
        <5>3. QED
          BY <5>2 DEF sel
      <4>3. cnt > 4 \/ cnt <= 4
        BY <3>2
      <4>4. QED
        BY <3>2, <4>2, <4>3 DEF StatTypes
    <3>7. UNCHANGED <<time, interval, list, params, TRACE_SZ, alloc, readings, group, now>>
      BY <1>4 DEF Control, settings
    <3>8. QED
      BY <1>s, <3>1, <3>4, <3>5, <3>6, <3>7 DEF StatTypes
  <2>3. QED
    BY <2>1, <2>2
<1>5. CASE NextSample
  <2>1. CASE Len(readings) = LastIdx
    BY <1>5, <2>1 DEF NextSample, settings, StatTypes, Before, Listing, Sampling
  <2>2. CASE Len(readings) # LastIdx
    <3>1. spc' = "stop" /\ group' = 0 /\ readings' = Append(readings, <<>>)
      BY <1>5, <2>2 DEF NextSample
    <3>2. IsSeq(readings') /\ Len(readings') >= 1
      BY <3>1, GrownSequence DEF StatTypes
    <3>3. UNCHANGED <<time, interval, list, params, n, filterCnt, object, TRACE_SZ, alloc, hw, now>>
      BY <1>5 DEF NextSample, settings
    <3>4. QED
      BY <1>s, <3>1, <3>2, <3>3 DEF StatTypes, Listing, Sampling
  <2>3. QED
    BY <2>1, <2>2
<1>6. CASE StopGroup
  <2>1. hw[group] \in Registers
    BY DEF StatTypes
  <2>2. hw' = [hw EXCEPT ![group] = [hw[group] EXCEPT !.on = FALSE,
                                       !.held = IF hw[group].on THEN now ELSE hw[group].held]]
    BY <1>6, <2>1 DEF StopGroup, SoftDisable, Registers, StatTypes
  <2>3. hw' \in [Groups -> Registers]
    BY <2>1, <2>2 DEF Registers, StatTypes
  <2>4. QED
    BY <1>6, <2>3 DEF StopGroup, settings, StatTypes, Listing, Sampling
<1>7. CASE StartGroup
  <2>1. hw[group] \in Registers
    BY DEF StatTypes
  <2>2. hw' = [hw EXCEPT ![group] = [hw[group] EXCEPT !.on = TRUE]]
    BY <1>7, <2>1 DEF StartGroup, Registers, StatTypes
  <2>3. hw' \in [Groups -> Registers]
    BY <2>1, <2>2 DEF Registers, StatTypes
  <2>4. QED
    BY <1>7, <1>s, <2>3 DEF StartGroup, settings, StatTypes, Listing, Sampling
<1>8. ASSUME NEW i \in DOMAIN object, ReadCounter(i)
      PROVE  StatTypes'
  <2>1. UNCHANGED <<time, interval, list, params, n, filterCnt, object, TRACE_SZ, alloc, group, hw, now>> /\ spc = "read"
    BY <1>8 DEF ReadCounter, settings
  <2>2. CASE 4 * statCountIdx < alloc
    <3>1. PICK x : readings' = [readings EXCEPT ![Len(readings)] = x]
      BY <1>8, <2>2 DEF ReadCounter
    <3>2. Len(readings) \in 1 .. Len(readings)
      BY <2>1, GrownSequence DEF StatTypes
    <3>3. IsSeq(readings') /\ Len(readings') = Len(readings)
      BY <3>1, <3>2, ChangedSequence DEF StatTypes
    <3>4. spc' = spc
      BY <1>8, <2>2 DEF ReadCounter
    <3>5. QED
      BY <2>1, <3>3, <3>4 DEF StatTypes
  <2>3. CASE ~(4 * statCountIdx < alloc)
    <3>1. spc' = "overrun" /\ readings' = readings
      BY <1>8, <2>3 DEF ReadCounter
    <3>2. QED
      BY <2>1, <3>1 DEF StatTypes, Listing, Sampling
  <2>4. QED
    BY <2>2, <2>3
<1>9. CASE Tick
  <2>1. now' \in Nat
    BY <1>9 DEF Tick, StatTypes
  <2>2. QED
    BY <1>9, <2>1 DEF Tick, settings, StatTypes
<1>10. QED
  BY <1>1, <1>2, <1>c, <1>3, <1>i, <1>4, <1>5, <1>6, <1>7, <1>8, <1>9 DEF StatNext, StatProgram, StatHardware

-----------------------------------------------------------------------------
(* The filters. *)

EarlierIn(g, m) == {e \in 1 .. m - 1 : GroupOf(params[e].id) = g}

\* The initiator's filter is set to it and was given to no other.
Given(i) ==
  /\ object[i].counter \in 1 .. filterCnt[GroupOf(i)]
  /\ hw[GroupOf(i)].sel[object[i].counter] = MuxReq(i)

\* The n - 1 entries of the list dealt with have been counted, and those
\* without a filter came when four entries had been counted for the collector.
Filters ==
  /\ \A e \in 1 .. n - 1 : params[e].id \in DOMAIN object
  /\ \A g \in Groups : filterCnt[g] = Cardinality(EarlierIn(g, n))
  /\ \A i \in DOMAIN object : object[i].group = GroupOf(i) /\ (object[i].enabled => Given(i))
  /\ \A e \in 1 .. n - 1 :
       ~object[params[e].id].enabled => Cardinality(EarlierIn(GroupOf(params[e].id), e)) >= 4

ListInv ==
  /\ spc \in Before => filterCnt = [g \in Groups |-> 0] /\ object = <<>>
  /\ spc \in Listing => n <= Len(params) + 1 /\ Filters
  /\ spc \in Sampling => n = Len(params) + 1

LEMMA EarlierFinite ==
  ASSUME NEW g, NEW m \in Nat
  PROVE  IsFiniteSet(EarlierIn(g, m)) /\ Cardinality(EarlierIn(g, m)) \in Nat
<1>1. IsFiniteSet(1 .. m - 1) /\ EarlierIn(g, m) \subseteq 1 .. m - 1
  BY FS_Interval DEF EarlierIn
<1>2. QED
  BY <1>1, FS_Subset, FS_CardinalityType

LEMMA OneMoreEarlier ==
  ASSUME NEW g, NEW m \in Nat \ {0}
  PROVE  Cardinality(EarlierIn(g, m + 1)) =
           IF GroupOf(params[m].id) = g THEN Cardinality(EarlierIn(g, m)) + 1 ELSE Cardinality(EarlierIn(g, m))
<1>1. 1 .. (m + 1) - 1 = (1 .. m - 1) \cup {m} /\ m \notin 1 .. m - 1
  OBVIOUS
<1>2. CASE GroupOf(params[m].id) = g
  <2>1. EarlierIn(g, m + 1) = EarlierIn(g, m) \cup {m} /\ m \notin EarlierIn(g, m)
    BY <1>1, <1>2 DEF EarlierIn
  <2>2. QED
    BY <1>2, <2>1, EarlierFinite, FS_AddElement
<1>3. CASE GroupOf(params[m].id) # g
  <2>1. EarlierIn(g, m + 1) = EarlierIn(g, m)
    BY <1>1, <1>3 DEF EarlierIn
  <2>2. QED
    BY <1>3, <2>1
<1>4. QED
  BY <1>2, <1>3

LEMMA FiltersFrozen ==
  ASSUME Filters, UNCHANGED <<params, n, object, filterCnt>>,
         DOMAIN object \subseteq Initiators, \A g \in Groups : hw'[g].sel = hw[g].sel
  PROVE  Filters'
<1>1. \A g, m : EarlierIn(g, m)' = EarlierIn(g, m)
  BY DEF EarlierIn
<1>2. \A i \in DOMAIN object : Given(i) => Given(i)'
  BY InitiatorFacts DEF Given
<1>3. QED
  BY <1>1, <1>2 DEF Filters

LEMMA FiltersStart ==
  ASSUME filterCnt = [g \in Groups |-> 0], object = <<>>, UNCHANGED <<object, filterCnt>>, n' = 1
  PROVE  Filters'
<1>1. \A g : EarlierIn(g, n)' = {}
  BY DEF EarlierIn
<1>2. DOMAIN object' = {} /\ 1 .. n' - 1 = {}
  BY FreshObject
<1>3. \A g \in Groups : filterCnt'[g] = Cardinality(EarlierIn(g, n))'
  BY <1>1, FS_EmptySet
<1>4. QED
  BY <1>2, <1>3 DEF Filters

LEMMA FiltersControl ==
  ASSUME StatTypes, Filters, n <= Len(params), params[n].id \in Initiators,
         ControlInitialize(params[n].id), n' = n + 1, params' = params
  PROVE  Filters'
<1> DEFINE i == params[n].id
           h == GroupOf(i)
           cnt == filterCnt[h] + 1
<1>1. /\ h \in Groups /\ cnt \in Nat \ {0}
      /\ filterCnt' = [filterCnt EXCEPT ![h] = cnt]
      /\ DOMAIN object' = DOMAIN object \cup {i}
      /\ \A j \in DOMAIN object : j # i => object'[j] = object[j]
      /\ object'[i].group = h
  BY ControlFacts
<1>2. cnt > 4 => /\ hw' = hw
                 /\ i \in DOMAIN object => object'[i].counter = object[i].counter
                 /\ object'[i].enabled <=> i \in DOMAIN object /\ object[i].enabled
  BY ControlFacts
<1>3. cnt <= 4 => /\ object'[i].counter = cnt /\ object'[i].enabled
                  /\ hw' = [hw EXCEPT ![h] = [hw[h] EXCEPT !.on = TRUE,
                                                !.sel = [hw[h].sel EXCEPT ![cnt] = MuxReq(i)]]]
  BY ControlFacts
<1>4. i \in Initiators /\ i = params[n].id /\ h = GroupOf(i) /\ cnt = filterCnt[h] + 1
  OBVIOUS
<1> HIDE DEF i, h, cnt
<1>b. cnt <= 4 => hw'[h].sel = [hw[h].sel EXCEPT ![cnt] = MuxReq(i)]
  <2> SUFFICES ASSUME cnt <= 4 PROVE hw'[h].sel = [hw[h].sel EXCEPT ![cnt] = MuxReq(i)]
    OBVIOUS
  <2> DEFINE sel == [hw[h].sel EXCEPT ![cnt] = MuxReq(i)]
             reg == [hw[h] EXCEPT !.on = TRUE, !.sel = sel]
  <2>1. hw[h] \in Registers /\ h \in DOMAIN hw
    BY <1>1 DEF StatTypes
  <2>2. hw' = [hw EXCEPT ![h] = reg]
    BY <1>3
  <2> HIDE DEF sel
  <2>3. reg.sel = sel
    BY <2>1 DEF Registers
  <2> HIDE DEF reg
  <2>4. hw'[h] = reg
    BY <2>1, <2>2
  <2>5. QED
    BY <2>3, <2>4 DEF sel
<1>5. \A g, m : EarlierIn(g, m)' = EarlierIn(g, m)
  BY DEF EarlierIn
<1>6. n \in Nat \ {0} /\ 1 .. n' - 1 = (1 .. n - 1) \cup {n}
  BY DEF StatTypes
<1>7. \A e \in 1 .. n' - 1 : params'[e].id \in DOMAIN object'
  BY <1>1, <1>4, <1>6 DEF Filters
<1>8. ASSUME NEW g \in Groups
      PROVE  filterCnt'[g] = Cardinality(EarlierIn(g, n))'
  <2>1. Cardinality(EarlierIn(g, n + 1)) = IF g = h THEN Cardinality(EarlierIn(g, n)) + 1 ELSE Cardinality(EarlierIn(g, n))
    BY <1>4, <1>6, OneMoreEarlier
  <2>2. filterCnt'[g] = IF g = h THEN filterCnt[g] + 1 ELSE filterCnt[g]
    BY <1>1, <1>4 DEF StatTypes
  <2>3. filterCnt[g] = Cardinality(EarlierIn(g, n))
    BY DEF Filters
  <2>4. EarlierIn(g, n)' = EarlierIn(g, n + 1)
    BY DEF EarlierIn
  <2>5. QED
    BY <2>1, <2>2, <2>3, <2>4
<1>9. ASSUME NEW j \in DOMAIN object'
      PROVE  object'[j].group = GroupOf(j) /\ (object'[j].enabled => Given(j)')
  <2>c. /\ \A g \in Groups : filterCnt[g] \in Nat /\ filterCnt'[g] \in Nat /\ filterCnt'[g] >= filterCnt[g]
        /\ filterCnt'[h] = cnt
    BY <1>1, <1>4 DEF StatTypes
  <2>1. CASE j # i
    <3>1. j \in DOMAIN object /\ object'[j] = object[j] /\ object[j].group = GroupOf(j)
      BY <1>1, <2>1 DEF Filters
    <3>2. SUFFICES ASSUME object[j].enabled PROVE Given(j)'
      BY <3>1
    <3>3. Given(j) /\ GroupOf(j) \in Groups
      BY <3>1, <3>2, InitiatorFacts DEF Filters, StatTypes
    <3>4. object[j].counter \in 1 .. filterCnt'[GroupOf(j)]
      BY <2>c, <3>3 DEF Given
    <3>5. hw'[GroupOf(j)].sel[object[j].counter] = hw[GroupOf(j)].sel[object[j].counter]
      <4>1. CASE cnt > 4
        BY <1>2, <4>1
      <4>2. CASE cnt <= 4
        <5>1. CASE GroupOf(j) = h
          <6>1. object[j].counter # cnt
            BY <1>1, <1>4, <2>c, <3>3, <5>1 DEF Given
          <6>2. hw[h] \in Registers
            BY <1>1 DEF StatTypes
          <6>3. hw'[h].sel = [hw[h].sel EXCEPT ![cnt] = MuxReq(i)]
            BY <1>b, <4>2
          <6>4. object[j].counter \in 1 .. 4 /\ hw[h].sel \in [1 .. 4 -> Int]
            <7>1. object[j].counter \in 0 .. 4 /\ object[j].counter >= 1
              BY <2>c, <3>1, <3>3 DEF StatTypes, Entry, Given
            <7>2. QED
              BY <6>2, <7>1 DEF Registers
          <6>5. QED
            BY <5>1, <6>1, <6>3, <6>4
        <5>2. CASE GroupOf(j) # h
          BY <1>3, <3>3, <4>2, <5>2 DEF StatTypes
        <5>3. QED
          BY <5>1, <5>2
      <4>3. QED
        BY <1>1, <4>1, <4>2
    <3>6. QED
      BY <3>1, <3>3, <3>4, <3>5 DEF Given
  <2>2. CASE j = i
    <3>1. object'[j].group = GroupOf(j)
      BY <1>1, <1>4, <2>2
    <3>2. CASE cnt > 4
      <4>1. SUFFICES ASSUME object'[j].enabled PROVE Given(j)'
        BY <3>1
      <4>2. j \in DOMAIN object /\ object[j].enabled /\ object'[j].counter = object[j].counter /\ hw' = hw
        BY <1>2, <2>2, <3>2, <4>1
      <4>3. Given(j) /\ GroupOf(j) = h
        BY <1>4, <2>2, <4>2 DEF Filters
      <4>4. object'[j].counter \in 1 .. filterCnt'[GroupOf(j)]
        BY <1>1, <1>4, <2>c, <4>2, <4>3 DEF Given
      <4>5. hw'[GroupOf(j)].sel[object'[j].counter] = MuxReq(j)
        BY <4>2, <4>3 DEF Given
      <4>6. QED
        BY <4>4, <4>5 DEF Given
    <3>3. CASE cnt <= 4
      <4>1. object'[i].counter = cnt /\ cnt \in 1 .. 4 /\ cnt \in 1 .. filterCnt'[h]
        BY <1>1, <1>3, <2>c, <3>3
      <4>2. hw[h] \in Registers /\ hw[h].sel \in [1 .. 4 -> Int]
        BY <1>1 DEF StatTypes, Registers
      <4>3. hw'[h].sel = [hw[h].sel EXCEPT ![cnt] = MuxReq(i)]
        BY <1>b, <3>3
      <4>4. hw'[h].sel[cnt] = MuxReq(i)
        BY <4>1, <4>2, <4>3
      <4>5. QED
        BY <1>4, <2>2, <3>1, <4>1, <4>4 DEF Given
    <3>4. QED
      BY <1>1, <3>2, <3>3
  <2>3. QED
    BY <2>1, <2>2
<1>10. ASSUME NEW e \in 1 .. n' - 1, ~object'[params[e].id].enabled
       PROVE  Cardinality(EarlierIn(GroupOf(params[e].id), e)) >= 4
  <2>1. cnt > 4 \/ cnt <= 4
    BY <1>1
  <2>2. CASE e = n
    <3>1. cnt > 4 /\ params[e].id = i
      BY <1>3, <1>4, <1>10, <2>1, <2>2
    <3>2. filterCnt[h] = Cardinality(EarlierIn(h, n)) /\ filterCnt[h] \in Nat
      BY <1>1 DEF Filters, StatTypes
    <3>3. QED
      BY <1>4, <2>2, <3>1, <3>2
  <2>3. CASE e # n
    <3>1. e \in 1 .. n - 1 /\ params[e].id \in DOMAIN object
      BY <1>6, <2>3 DEF Filters
    <3>2. ~object[params[e].id].enabled
      BY <1>1, <1>2, <1>3, <1>10, <2>1, <3>1
    <3>3. QED
      BY <3>1, <3>2 DEF Filters
  <2>4. QED
    BY <2>2, <2>3
<1>11. QED
  BY <1>5, <1>7, <1>8, <1>9, <1>10 DEF Filters

\* The steps that leave the list and the filters as they are.
LEMMA ListFrozen ==
  ASSUME StatTypes, ListInv, UNCHANGED <<params, n, object, filterCnt>>,
         \A g \in Groups : hw'[g].sel = hw[g].sel,
         spc' \in Before => spc \in Before,
         spc' \in Listing => spc \in Listing,
         spc' \in Sampling => n = Len(params) + 1
  PROVE  ListInv'
<1>1. spc \in Listing => Filters'
  BY FiltersFrozen DEF ListInv, StatTypes
<1>2. QED
  BY <1>1 DEF ListInv

LEMMA ListStep ==
  ASSUME StatTypes, ListInv,
         \/ UNCHANGED statVars \/ StatNext
         \/ \E t \in Nat, us \in Nat, names \in Seq(STRING) : StatcollStart(t, us, names)
  PROVE  ListInv'
<1>n. /\ "idle" \in Before /\ Before \cap Listing = {} /\ Before \cap Sampling = {}
      /\ Sampling \subseteq Listing /\ "control" \notin Sampling
  BY DEF Before, Listing, Sampling
<1>1. CASE UNCHANGED statVars
  BY <1>1, <1>n, ListFrozen DEF statVars, settings, ListInv
<1>2. CASE \E t \in Nat, us \in Nat, names \in Seq(STRING) : StatcollStart(t, us, names)
  <2>1. spc = "idle" /\ spc' = "lookup" /\ UNCHANGED <<object, filterCnt>>
    BY <1>2 DEF StatcollStart
  <2>2. QED
    BY <2>1 DEF ListInv, Before, Listing, Sampling
<1>3. CASE Lookup \/ Map \/ TraceSize \/ ClockReady
  <2>1. spc \in Before /\ UNCHANGED <<object, filterCnt>> /\ spc' \in Before \cup Stopped
    BY <1>3 DEF Lookup, Map, TraceSize, ClockReady, Before, Stopped
  <2>2. QED
    BY <2>1 DEF ListInv, Before, Listing, Sampling, Stopped
<1>4. CASE StatCollectorInit
  <2>1. spc \in Before /\ UNCHANGED <<object, filterCnt, params>> /\ (spc' = "nomemory" \/ spc' = "control") /\ n' = 1
    BY <1>4 DEF StatCollectorInit, settings, Before
  <2>2. CASE spc' = "nomemory"
    BY <2>2 DEF ListInv, Before, Listing, Sampling
  <2>3. CASE spc' = "control" /\ n' = 1
    <3>1. Filters'
      BY <2>1, <2>3, FiltersStart DEF ListInv
    <3>2. Len(params) \in Nat
      BY LenProperties DEF StatTypes
    <3>3. n' <= Len(params') + 1
      BY <2>1, <2>3, <3>2
    <3>4. QED
      BY <2>3, <3>1, <3>3, <1>n DEF ListInv, Before
  <2>4. QED
    BY <2>1, <2>2, <2>3
<1>5. CASE Control
  <2>1. spc = "control" /\ n <= Len(params) /\ params' = params
    BY <1>5 DEF Control, settings
  <2>2. CASE n > STATCOL_MAX \/ params[n].id \notin Initiators
    <3>1. spc' \in {"exit", "wild"}
      BY <1>5, <2>2 DEF Control
    <3>2. QED
      BY <3>1 DEF ListInv, Before, Listing, Sampling
  <2>3. CASE ~(n > STATCOL_MAX) /\ params[n].id \in Initiators
    <3>1. ControlInitialize(params[n].id) /\ n' = n + 1 /\ spc' = "control"
      BY <1>5, <2>1, <2>3 DEF Control
    <3>2. Filters'
      BY <2>1, <2>3, <3>1, FiltersControl DEF ListInv, Listing
    <3>3. n' <= Len(params') + 1
      <4>1. Len(params) \in Nat /\ n \in Nat
        BY LenProperties DEF StatTypes
      <4>2. QED
        BY <2>1, <3>1, <4>1
    <3>4. QED
      BY <3>1, <3>2, <3>3, <1>n DEF ListInv, Before, Sampling
  <2>4. QED
    BY <2>2, <2>3
<1>6. CASE NextSample
  <2>1. /\ UNCHANGED <<params, n, object, filterCnt, hw>>
        /\ spc \in {"control", "sample"} /\ (spc = "control" => n > Len(params)) /\ spc' \in {"done", "nofile", "stop"}
    BY <1>6 DEF NextSample, settings
  <2>2. n = Len(params) + 1
    <3>1. Len(params) \in Nat /\ n \in Nat
      BY LenProperties DEF StatTypes
    <3>2. CASE spc = "control"
      BY <2>1, <3>1, <3>2 DEF ListInv, Listing
    <3>3. CASE spc = "sample"
      BY <3>3 DEF ListInv, Sampling
    <3>4. QED
      BY <2>1, <3>2, <3>3
  <2>3. spc \in Listing /\ spc' \notin Before
    BY <2>1 DEF Listing, Sampling, Before
  <2>4. QED
    BY <2>1, <2>2, <2>3, ListFrozen
<1>7. CASE StopGroup \/ StartGroup
  <2>1. /\ UNCHANGED <<params, n, object, filterCnt>> /\ spc \in Sampling /\ spc' \in Sampling
    BY <1>7 DEF StopGroup, StartGroup, settings, Sampling
  <2>2. \A g \in Groups : hw[g] \in Registers /\ group \in Groups /\ hw \in [Groups -> Registers]
    BY DEF StatTypes
  <2>3. ASSUME NEW g \in Groups
        PROVE  hw'[g].sel = hw[g].sel
    <3>1. CASE StopGroup
      <4>1. hw' = [hw EXCEPT ![group].on = FALSE, ![group].held = IF hw[group].on THEN now ELSE @]
        BY <3>1 DEF StopGroup, SoftDisable
      <4>2. QED
        BY <2>2, <4>1 DEF Registers
    <3>2. CASE StartGroup
      <4>1. hw' = [hw EXCEPT ![group].on = TRUE]
        BY <3>2 DEF StartGroup
      <4>2. QED
        BY <2>2, <4>1 DEF Registers
    <3>3. QED
      BY <1>7, <3>1, <3>2
  <2>4. n = Len(params) + 1
    BY <2>1 DEF ListInv
  <2>5. QED
    BY <1>n, <2>1, <2>3, <2>4, ListFrozen
<1>8. ASSUME NEW i \in DOMAIN object, ReadCounter(i)
      PROVE  ListInv'
  <2>1. UNCHANGED <<params, n, object, filterCnt, hw>> /\ spc \in Sampling /\ spc' \in Sampling
    BY <1>8 DEF ReadCounter, settings, Sampling
  <2>2. n = Len(params) + 1
    BY <2>1 DEF ListInv
  <2>3. QED
    BY <1>n, <2>1, <2>2, ListFrozen
<1>9. CASE Tick
  <2>1. UNCHANGED <<params, n, object, filterCnt, hw, spc>>
    BY <1>9 DEF Tick, settings
  <2>2. QED
    BY <2>1, ListFrozen DEF ListInv
<1>10. QED
  BY <1>1, <1>2, <1>3, <1>4, <1>5, <1>6, <1>7, <1>8, <1>9 DEF StatNext, StatProgram, StatHardware

-----------------------------------------------------------------------------
(* The sizes. *)

SizeInv ==
  /\ spc \in {"clock", "init"} \cup Listing =>
       interval >= 1 /\ TRACE_SZ = ((time * Second) % Word) \div interval
  /\ spc \in Listing =>
    /\ alloc = (4 * TRACE_SZ) % Word
    /\ spc = "control" => readings = <<>>
    /\ Len(readings) <= LastIdx /\ (spc = "done" => Len(readings) = LastIdx)
    /\ spc = "overrun" => TRACE_SZ = 0 \/ 4 * TRACE_SZ >= Word

LEMMA LastIndex ==
  ASSUME NEW x \in Nat, NEW b \in Nat \ {0}, x < b
  PROVE  (x - 1) % b = IF x = 0 THEN b - 1 ELSE x - 1
<1>1. CASE x = 0
  BY <1>1, SmallMod
<1>2. CASE x # 0
  BY <1>2, SmallMod
<1>3. QED
  BY <1>1, <1>2

LEMMA DivSmaller ==
  ASSUME NEW x \in Nat, NEW b \in Nat \ {0}
  PROVE  x \div b \in Nat /\ x \div b <= x /\ x < b * (x \div b + 1)
OBVIOUS

LEMMA Collected ==
  ASSUME StatTypes
  PROVE  /\ time * Second \in Nat /\ (time * Second) % Word \in 0 .. Word - 1 /\ LastIdx \in Nat
         /\ Len(readings) \in Nat
<1>1. time * Second \in Nat
  BY StatCollAssumption DEF StatTypes
<1>2. (time * Second) % Word \in 0 .. Word - 1
  BY <1>1, StatCollAssumption
<1>3. LastIdx \in Nat
  BY StatCollAssumption DEF StatTypes, LastIdx
<1>4. QED
  BY <1>1, <1>2, <1>3, GrownSequence DEF StatTypes

\* Where nothing is cut off, the index of the last sample is the number asked
\* for less one; for no samples at all it is the highest there is.
LEMMA LastIdxFacts ==
  ASSUME StatTypes, SizeInv, spc \in Listing
  PROVE  TRACE_SZ < Word /\ LastIdx = IF TRACE_SZ = 0 THEN Word - 1 ELSE TRACE_SZ - 1
<1> DEFINE total == (time * Second) % Word
<1>1. total \in Nat /\ total < Word /\ interval \in Nat \ {0} /\ TRACE_SZ = total \div interval
  BY Collected, StatCollAssumption DEF SizeInv, StatTypes
<1> HIDE DEF total
<1>2. TRACE_SZ \in Nat /\ TRACE_SZ <= total
  BY <1>1, DivSmaller
<1>3. TRACE_SZ < Word
  BY <1>1, <1>2, StatCollAssumption
<1>4. QED
  BY <1>2, <1>3, LastIndex, StatCollAssumption DEF LastIdx

LEMMA SizeFrozen ==
  ASSUME StatTypes, SizeInv, UNCHANGED <<time, interval, TRACE_SZ, alloc>>,
         spc' \in {"clock", "init"} => spc \in {"clock", "init"} \cup Listing,
         spc' \in Listing => /\ spc \in Listing /\ (spc' = "control" => readings' = <<>>)
                             /\ Len(readings') <= LastIdx
                             /\ spc' = "done" => Len(readings') = LastIdx
                             /\ spc' = "overrun" => TRACE_SZ = 0 \/ 4 * TRACE_SZ >= Word
  PROVE  SizeInv'
BY DEF SizeInv, LastIdx

LEMMA SizeStep ==
  ASSUME StatTypes, SizeInv, (spc \notin Sampling => readings = <<>>),
         \/ UNCHANGED statVars \/ StatNext
         \/ \E t \in Nat, us \in Nat, names \in Seq(STRING) : StatcollStart(t, us, names)
  PROVE  SizeInv'
<1>n. Before \cap Listing = {} /\ Stopped \cap Listing = {} /\ Stopped \cap {"clock", "init"} = {}
  BY DEF Before, Stopped, Listing, Sampling
<1>l. Len(readings) \in Nat /\ LastIdx \in Nat
  BY Collected
<1>1. CASE UNCHANGED statVars
  BY <1>1, SizeFrozen DEF statVars, settings, SizeInv
<1>2. CASE Lookup \/ Map \/ \E t \in Nat, us \in Nat, names \in Seq(STRING) : StatcollStart(t, us, names)
  <2>1. spc' \in {"lookup", "map", "size"} \cup Stopped
    BY <1>2 DEF Lookup, Map, StatcollStart, Stopped
  <2>2. spc' \notin {"clock", "init"} \cup Listing
    BY <1>n, <2>1 DEF Listing, Sampling
  <2>3. QED
    BY <2>2 DEF SizeInv
<1>3. CASE TraceSize
  <2>1. CASE interval = 0
    <3>1. spc' \in Stopped
      BY <1>3, <2>1 DEF TraceSize, Stopped
    <3>2. QED
      BY <1>n, <3>1 DEF SizeInv
  <2>2. CASE interval # 0
    <3>1. /\ spc' = "clock" /\ TRACE_SZ' = ((time * Second) % Word) \div interval
          /\ UNCHANGED <<time, interval>> /\ interval >= 1
      BY <1>3, <2>2 DEF TraceSize, settings, StatTypes
    <3>2. "clock" \notin Listing
      BY DEF Listing, Sampling
    <3>3. QED
      BY <3>1, <3>2 DEF SizeInv
  <2>3. QED
    BY <2>1, <2>2
<1>c. CASE ClockReady
  <2>1. UNCHANGED <<time, interval, TRACE_SZ, alloc>> /\ spc = "clock" /\ spc' = "init" /\ "init" \notin Listing
    BY <1>c DEF ClockReady, settings, Listing, Sampling
  <2>2. QED
    BY <2>1, SizeFrozen
<1>i. CASE StatCollectorInit
  <2>1. /\ UNCHANGED <<time, interval, TRACE_SZ, readings>> /\ spc = "init" /\ alloc' = (4 * TRACE_SZ) % Word
        /\ spc' \in {"control", "nomemory"}
    BY <1>i DEF StatCollectorInit, Bytes, settings
  <2>2. readings = <<>> /\ Len(readings) = 0
    BY <2>1 DEF Sampling
  <2>3. LastIdx' = LastIdx
    BY <2>1 DEF LastIdx
  <2>4. QED
    BY <1>l, <2>1, <2>2, <2>3 DEF SizeInv
<1>4. CASE Control
  <2>1. /\ spc = "control" /\ spc' \in {"control"} \cup Stopped /\ UNCHANGED <<time, interval, TRACE_SZ, alloc, readings>>
    BY <1>4 DEF Control, settings, Stopped
  <2>2. QED
    BY <1>n, <2>1, SizeFrozen DEF SizeInv
<1>5. CASE NextSample
  <2>1. UNCHANGED <<time, interval, TRACE_SZ, alloc>> /\ spc \in Listing
    BY <1>5 DEF NextSample, settings, Listing, Sampling
  <2>2. CASE Len(readings) = LastIdx
    <3>1. spc' \in {"done", "nofile"} /\ readings' = readings
      BY <1>5, <2>2 DEF NextSample
    <3>2. QED
      BY <1>l, <2>1, <2>2, <3>1, SizeFrozen
  <2>3. CASE Len(readings) # LastIdx
    <3>1. spc' = "stop" /\ readings' = Append(readings, <<>>)
      BY <1>5, <2>3 DEF NextSample
    <3>2. Len(readings') = Len(readings) + 1
      BY <3>1, GrownSequence DEF StatTypes
    <3>3. Len(readings') <= LastIdx
      BY <1>l, <2>1, <2>3, <3>2 DEF SizeInv
    <3>4. QED
      BY <2>1, <3>1, <3>3, SizeFrozen
  <2>4. QED
    BY <2>2, <2>3
<1>6. CASE StopGroup \/ StartGroup \/ Tick
  <2>1. /\ UNCHANGED <<time, interval, TRACE_SZ, alloc, readings>> /\ spc \in {"stop", "read"}
        /\ spc' \in {"stop", "read", "sample"}
    BY <1>6 DEF StopGroup, StartGroup, Tick, settings
  <2>2. spc \in Listing
    BY <2>1 DEF Listing, Sampling
  <2>3. QED
    BY <2>1, <2>2, SizeFrozen DEF SizeInv
<1>7. ASSUME NEW i \in DOMAIN object, ReadCounter(i)
      PROVE  SizeInv'
  <2>1. UNCHANGED <<time, interval, TRACE_SZ, alloc>> /\ spc = "read" /\ spc \in Listing
    BY <1>7 DEF ReadCounter, settings, Listing, Sampling
  <2>2. CASE 4 * statCountIdx < alloc
    <3>1. spc' = spc /\ \E x : readings' = [readings EXCEPT ![Len(readings)] = x]
      BY <1>7, <2>2 DEF ReadCounter
    <3>2. Len(readings) \in 1 .. Len(readings)
      BY <1>l, <2>1 DEF StatTypes
    <3>3. Len(readings') = Len(readings)
      BY <3>1, <3>2, ChangedSequence DEF StatTypes
    <3>4. QED
      BY <2>1, <3>1, <3>3, SizeFrozen DEF SizeInv
  <2>3. CASE ~(4 * statCountIdx < alloc)
    <3>1. spc' = "overrun" /\ readings' = readings
      BY <1>7, <2>3 DEF ReadCounter
    <3>2. statCountIdx = Len(readings) - 1
      BY <2>1 DEF statCountIdx
    <3>3. Len(readings) <= LastIdx /\ alloc = (4 * TRACE_SZ) % Word
      BY <2>1 DEF SizeInv
    <3>4. TRACE_SZ = 0 \/ 4 * TRACE_SZ >= Word
      <4>1. SUFFICES ASSUME TRACE_SZ # 0, 4 * TRACE_SZ < Word PROVE FALSE
        BY StatCollAssumption DEF StatTypes
      <4>2. TRACE_SZ \in Nat /\ 4 * TRACE_SZ \in 0 .. Word - 1
        BY <4>1, StatCollAssumption DEF StatTypes
      <4>3. (4 * TRACE_SZ) % Word = 4 * TRACE_SZ
        <5>1. \A z \in 0 .. Word - 1 : z % Word = z
          BY SmallMod, StatCollAssumption
        <5>2. QED
          BY <4>2, <5>1
      <4>4. LastIdx = TRACE_SZ - 1
        BY <2>1, <4>1, LastIdxFacts
      <4>5. QED
        BY <1>l, <2>3, <3>2, <3>3, <4>2, <4>3, <4>4
    <3>5. QED
      BY <2>1, <3>1, <3>3, <3>4, SizeFrozen
  <2>4. QED
    BY <2>2, <2>3
<1>8. QED
  BY <1>1, <1>2, <1>3, <1>c, <1>i, <1>4, <1>5, <1>6, <1>7 DEF StatNext, StatProgram, StatHardware

-----------------------------------------------------------------------------
(* The samples. *)

Recorded(k) == DOMAIN readings[k]

\* The figures kept are those of initiators with a filter; samples behind the
\* loop are complete, and the one at work holds the collectors read so far,
\* with the counts at which the one being read was stopped.
SampInv ==
  /\ spc \notin Sampling => readings = <<>>
  /\ \A k \in 1 .. Len(readings) : \A i \in Recorded(k) :
       i \in DOMAIN object /\ object[i].enabled /\ readings[k][i].of = i
  /\ \A k \in 1 .. Len(readings) :
       k < Len(readings) \/ spc \notin {"stop", "read", "overrun"} =>
         \A i \in DOMAIN object : object[i].enabled => i \in Recorded(k)
  /\ spc \in {"stop", "read"} =>
       /\ \A i \in Recorded(Len(readings)) :
            \/ object[i].group < group
            \/ /\ spc = "read" /\ object[i].group = group
               /\ readings[Len(readings)][i].at = hw[group].held
       /\ \A i \in DOMAIN object :
            object[i].enabled /\ object[i].group < group => i \in Recorded(Len(readings))
  /\ spc = "read" => ~hw[group].on
  /\ SampleIsSnapshot

LEMMA SampInit ==
  ASSUME StatInit
  PROVE  SampInv
<1>1. readings = <<>> /\ Len(readings) = 0 /\ DOMAIN readings = {} /\ spc = "idle"
  BY FreshObject DEF StatInit
<1>2. QED
  BY <1>1 DEF SampInv, SampleIsSnapshot

\* No samples yet.
LEMMA NoSamples ==
  ASSUME SampInv, readings' = readings, spc \notin Sampling, spc' \notin Sampling
  PROVE  SampInv'
<1>1. readings' = <<>> /\ Len(readings') = 0 /\ DOMAIN readings' = {}
  BY FreshObject DEF SampInv
<1>2. spc' # "stop" /\ spc' # "read"
  BY DEF Sampling
<1>3. QED
  BY <1>1, <1>2 DEF SampInv, SampleIsSnapshot

LEMMA SampReadCounter ==
  ASSUME StatTypes, ListInv, SampInv, NEW i \in DOMAIN object, ReadCounter(i)
  PROVE  SampInv'
<1> DEFINE m == Len(readings)
<1>1. /\ UNCHANGED <<object, group, hw>> /\ spc = "read" /\ i \in Members(group) /\ i \notin Recorded(m)
  BY DEF ReadCounter, settings, Recorded
<1>2. m \in Nat /\ m \in 1 .. m /\ IsSeq(readings) /\ DOMAIN readings = 1 .. m
  BY <1>1, GrownSequence, OwnRange DEF StatTypes, IsSeq
<1>3. CASE 4 * statCountIdx < alloc
  <2> DEFINE x == Counter(group, object[i].counter)
             row == Entered(readings[m], i, x)
  <2>1. spc' = "read" /\ readings' = [readings EXCEPT ![m] = row]
    BY <1>1, <1>3 DEF ReadCounter
  <2> HIDE DEF row
  <2>2. /\ IsSeq(readings') /\ Len(readings') = m /\ readings'[m] = row
        /\ \A k \in 1 .. m : k # m => readings'[k] = readings[k]
    BY <1>2, <2>1, ChangedSequence
  <2>3. DOMAIN readings' = 1 .. m
    BY <2>2, OwnRange DEF IsSeq
  <2>4. object[i].enabled /\ object[i].group = group /\ group = GroupOf(i) /\ i \in Initiators
    BY <1>1 DEF Members, ListInv, Filters, StatTypes, Sampling, Listing
  <2>5. x.of = i /\ x.at = hw[group].held
    <3>1. Given(i) /\ object[i].counter \in 0 .. 4 /\ filterCnt[group] \in Nat
      BY <1>1, <2>4 DEF ListInv, Filters, StatTypes, Entry, Sampling, Listing
    <3>2. object[i].counter \in 1 .. 4 /\ hw[group].sel[object[i].counter] = MuxReq(i)
      BY <2>4, <3>1 DEF Given
    <3>3. MuxReq(i) \in Nat /\ Collector[group][MuxReq(i) \div 2 + 1] = i
      BY <2>4, InitiatorFacts
    <3>4. ~hw[group].on
      BY <1>1 DEF SampInv
    <3>5. QED
      BY <3>2, <3>3, <3>4 DEF Counter
  <2> HIDE DEF x
  <2>6. /\ DOMAIN row = Recorded(m) \cup {i} /\ row[i] = x
        /\ \A j \in Recorded(m) : row[j] = readings[m][j]
    BY <1>1 DEF Entered, Recorded, row
  <2> HIDE DEF m
  <2>7. /\ DOMAIN readings'[m] = Recorded(m) \cup {i} /\ readings'[m][i] = x
        /\ \A j \in Recorded(m) : readings'[m][j] = readings[m][j]
        /\ \A k \in 1 .. m : k # m => readings'[k] = readings[k] /\ DOMAIN readings'[k] = Recorded(k)
    BY <2>2, <2>6 DEF Recorded
  <2>8. \A k \in 1 .. Len(readings') : \A j \in DOMAIN readings'[k] :
          j \in DOMAIN object' /\ object'[j].enabled /\ readings'[k][j].of = j
    <3>1. \A k \in 1 .. m : \A j \in Recorded(k) :
            j \in DOMAIN object /\ object[j].enabled /\ readings[k][j].of = j
      BY DEF SampInv, m
    <3>2. ASSUME NEW k \in 1 .. m, NEW j \in DOMAIN readings'[k]
          PROVE  j \in DOMAIN object' /\ object'[j].enabled /\ readings'[k][j].of = j
      <4>1. CASE k # m
        BY <1>1, <2>7, <3>1, <4>1 DEF Recorded
      <4>2. CASE k = m
        BY <1>1, <2>4, <2>5, <2>7, <3>1, <4>2
      <4>3. QED
        BY <4>1, <4>2
    <3>3. QED
      BY <2>2, <3>2
  <2>9. ASSUME NEW k \in 1 .. Len(readings'), k < Len(readings') \/ spc' \notin {"stop", "read", "overrun"},
               NEW j \in DOMAIN object', object'[j].enabled
        PROVE  j \in DOMAIN readings'[k]
    <3>1. k # m /\ k < m /\ k \in 1 .. m
      BY <1>2, <2>1, <2>2, <2>9
    <3>2. j \in Recorded(k)
      BY <1>1, <2>9, <3>1 DEF SampInv, m
    <3>3. QED
      BY <2>7, <3>1, <3>2
  <2>10. \A j \in DOMAIN readings'[m] :
            object[j].group < group \/ (object[j].group = group /\ readings'[m][j].at = hw[group].held)
    <3>1. \A j \in Recorded(m) :
            object[j].group < group \/ (object[j].group = group /\ readings[m][j].at = hw[group].held)
      BY <1>1 DEF SampInv, m
    <3>2. QED
      BY <2>4, <2>5, <2>7, <3>1
  <2>11. \A j \in DOMAIN object : object[j].enabled /\ object[j].group < group => j \in DOMAIN readings'[m]
    BY <1>1, <2>7 DEF SampInv, m
  <2>12. SampleIsSnapshot'
    <3>1. ASSUME NEW k \in 1 .. m, NEW p \in DOMAIN readings'[k], NEW q \in DOMAIN readings'[k],
                 object[p].group = object[q].group
          PROVE  readings'[k][p].at = readings'[k][q].at
      <4>1. CASE k # m
        <5>1. p \in DOMAIN readings[k] /\ q \in DOMAIN readings[k] /\ readings'[k] = readings[k] /\ k \in DOMAIN readings
          BY <1>2, <2>7, <3>1, <4>1 DEF Recorded, m
        <5>2. QED
          BY <3>1, <5>1 DEF SampInv, SampleIsSnapshot
      <4>2. CASE k = m
        <5>1. CASE p \in Recorded(m) /\ q \in Recorded(m)
          <6>1. readings[m][p].at = readings[m][q].at
            BY <1>2, <3>1, <5>1 DEF SampInv, SampleIsSnapshot, Recorded, m
          <6>2. QED
            BY <2>7, <4>2, <5>1, <6>1
        <5>2. CASE p = i \/ q = i
          <6>1. object[p].group = group /\ object[q].group = group
            BY <2>4, <3>1, <5>2
          <6>2. group \in Int
            BY DEF StatTypes, Groups
          <6>3. readings'[m][p].at = hw[group].held /\ readings'[m][q].at = hw[group].held
            BY <2>10, <3>1, <4>2, <6>1, <6>2
          <6>4. QED
            BY <4>2, <6>3
        <5>3. QED
          BY <2>7, <3>1, <4>2, <5>1, <5>2
      <4>3. QED
        BY <4>1, <4>2
    <3>2. QED
      BY <1>1, <2>3, <3>1 DEF SampleIsSnapshot
  <2>13. spc' \in Sampling /\ Len(readings') = m
    BY <2>1, <2>2 DEF Sampling
  <2>14. ~hw[group].on
    BY <1>1 DEF SampInv
  <2>15. QED
    BY <1>1, <2>1, <2>8, <2>9, <2>10, <2>11, <2>12, <2>13, <2>14 DEF SampInv, Recorded
<1>4. CASE ~(4 * statCountIdx < alloc)
  <2>1. spc' = "overrun" /\ readings' = readings
    BY <1>4 DEF ReadCounter
  <2>2. SampleIsSnapshot'
    BY <1>1, <2>1 DEF SampInv, SampleIsSnapshot
  <2>3. QED
    BY <1>1, <2>1, <2>2 DEF SampInv, Recorded, Sampling
<1>5. QED
  BY <1>3, <1>4

LEMMA SampNextSample ==
  ASSUME StatTypes, SampInv, NextSample
  PROVE  SampInv'
<1>1. UNCHANGED <<object, hw>> /\ spc \in {"control", "sample"}
  BY DEF NextSample, settings
<1>2. Len(readings) \in Nat /\ DOMAIN readings = 1 .. Len(readings)
  BY GrownSequence, OwnRange DEF StatTypes, IsSeq
<1>3. CASE Len(readings) = LastIdx
  <2>1. spc' \in {"done", "nofile"} /\ readings' = readings
    BY <1>3 DEF NextSample
  <2>2. SampleIsSnapshot'
    BY <1>1, <2>1 DEF SampInv, SampleIsSnapshot
  <2>3. QED
    BY <1>1, <2>1, <2>2 DEF SampInv, Recorded, Sampling
<1>4. CASE Len(readings) # LastIdx
  <2> DEFINE m == Len(readings) + 1
  <2>1. spc' = "stop" /\ group' = 0 /\ readings' = Append(readings, <<>>)
    BY <1>4 DEF NextSample
  <2>2. /\ IsSeq(readings') /\ Len(readings') = m /\ readings'[m] = <<>>
        /\ \A k \in 1 .. Len(readings) : readings'[k] = readings[k]
    BY <2>1, GrownSequence DEF StatTypes
  <2>3. DOMAIN readings' = 1 .. m /\ DOMAIN readings'[m] = {}
    BY <2>2, OwnRange, FreshObject DEF IsSeq
  <2>4. \A k \in 1 .. m : k = m \/ k \in 1 .. Len(readings)
    BY <1>2
  <2>5. \A k \in 1 .. Len(readings) : k # m
    BY <1>2
  <2> HIDE DEF m
  <2>6. \A k \in 1 .. m : \A i \in DOMAIN readings'[k] :
          i \in DOMAIN object /\ object[i].enabled /\ readings'[k][i].of = i
    BY <2>2, <2>3, <2>4 DEF SampInv, Recorded
  <2>7. ASSUME NEW k \in 1 .. m, k < m, NEW i \in DOMAIN object, object[i].enabled
        PROVE  i \in DOMAIN readings'[k]
    <3>1. k \in 1 .. Len(readings)
      BY <2>4, <2>7
    <3>2. i \in Recorded(k)
      BY <1>1, <2>7, <3>1 DEF SampInv
    <3>3. QED
      BY <2>2, <3>1, <3>2 DEF Recorded
  <2>8. ASSUME NEW i \in DOMAIN object PROVE ~(object[i].group < 0)
    <3>1. object[i].group \in 0 .. 9
      BY DEF StatTypes, Entry, Groups
    <3>2. QED
      BY <3>1
  <2>9. SampleIsSnapshot'
    <3>1. ASSUME NEW k \in 1 .. m, NEW p \in DOMAIN readings'[k], NEW q \in DOMAIN readings'[k],
                 object[p].group = object[q].group
          PROVE  readings'[k][p].at = readings'[k][q].at
      <4>1. k \in 1 .. Len(readings) /\ readings'[k] = readings[k]
        BY <2>2, <2>3, <2>4, <3>1
      <4>2. QED
        BY <1>2, <3>1, <4>1 DEF SampInv, SampleIsSnapshot
    <3>2. QED
      BY <1>1, <2>3, <3>1 DEF SampleIsSnapshot
  <2>10. Len(readings') = m
    BY <2>2
  <2>11. QED
    BY <1>1, <2>1, <2>3, <2>6, <2>7, <2>8, <2>9, <2>10 DEF SampInv, Recorded, Sampling
<1>5. QED
  BY <1>3, <1>4

LEMMA SampStep ==
  ASSUME StatTypes, ListInv, SampInv,
         \/ UNCHANGED statVars \/ StatNext
         \/ \E t \in Nat, us \in Nat, names \in Seq(STRING) : StatcollStart(t, us, names)
  PROVE  SampInv'
<1>1. CASE UNCHANGED statVars
  <2>1. UNCHANGED <<spc, object, readings, group, hw>>
    BY <1>1 DEF statVars
  <2>2. SampleIsSnapshot'
    BY <2>1 DEF SampInv, SampleIsSnapshot
  <2>3. QED
    BY <2>1, <2>2 DEF SampInv, Recorded
<1>2. CASE \/ Lookup \/ Map \/ TraceSize \/ ClockReady \/ StatCollectorInit \/ Control
           \/ \E t \in Nat, us \in Nat, names \in Seq(STRING) : StatcollStart(t, us, names)
  <2>1. readings' = readings /\ spc \notin Sampling /\ spc' \notin Sampling
    BY <1>2 DEF Lookup, Map, TraceSize, ClockReady, StatCollectorInit, Control, StatcollStart, Sampling
  <2>2. QED
    BY <2>1, NoSamples
<1>3. CASE StopGroup
  <2>1. UNCHANGED <<object, readings, group>> /\ spc = "stop" /\ spc' = "read"
    BY <1>3 DEF StopGroup, settings
  <2>2. ~hw'[group].on
    <3>1. hw \in [Groups -> Registers] /\ group \in Groups /\ hw[group] \in Registers
      BY DEF StatTypes
    <3>2. hw' = [hw EXCEPT ![group].on = FALSE, ![group].held = IF hw[group].on THEN now ELSE @]
      BY <1>3 DEF StopGroup, SoftDisable
    <3>3. QED
      BY <3>1, <3>2 DEF Registers
  <2>3. SampleIsSnapshot'
    BY <2>1 DEF SampInv, SampleIsSnapshot
  <2>4. QED
    BY <2>1, <2>2, <2>3 DEF SampInv, Recorded, Sampling
<1>4. CASE StartGroup
  <2>1. /\ UNCHANGED <<object, readings>> /\ spc = "read" /\ Members(group) \subseteq Recorded(Len(readings))
        /\ IF group = 9 THEN spc' = "sample" ELSE spc' = "stop" /\ group' = group + 1
    BY <1>4 DEF StartGroup, settings, Recorded
  <2>2. /\ group \in 0 .. 9 /\ Len(readings) \in Nat
        /\ \A i \in DOMAIN object : object[i].group \in 0 .. 9
    BY GrownSequence DEF StatTypes, Groups, Entry
  <2>3. SampleIsSnapshot'
    BY <2>1 DEF SampInv, SampleIsSnapshot
  <2>4. ASSUME NEW i \in DOMAIN object, object[i].enabled, object[i].group <= group
        PROVE  i \in Recorded(Len(readings))
    <3>1. CASE object[i].group = group
      BY <2>1, <2>4, <3>1 DEF Members
    <3>2. CASE object[i].group < group
      BY <2>1, <2>4, <3>2 DEF SampInv
    <3>3. QED
      BY <2>2, <2>4, <3>1, <3>2
  <2>5. \A i \in Recorded(Len(readings)) : i \in DOMAIN object /\ object[i].group <= group
    <3>1. \A i \in Recorded(Len(readings)) : object[i].group < group \/ object[i].group = group
      BY <2>1 DEF SampInv
    <3>2. \A i \in Recorded(Len(readings)) : i \in DOMAIN object
      <4>1. CASE Len(readings) = 0
        BY <2>1, <4>1 DEF StatTypes
      <4>2. CASE Len(readings) # 0
        BY <2>2, <4>2 DEF SampInv
      <4>3. QED
        BY <4>1, <4>2
    <3>3. QED
      BY <2>2, <3>1, <3>2
  <2>6. ASSUME NEW k \in 1 .. Len(readings), k < Len(readings) \/ spc' # "stop",
               NEW i \in DOMAIN object, object[i].enabled
        PROVE  i \in Recorded(k)
    <3>1. CASE k < Len(readings)
      BY <2>6, <3>1 DEF SampInv
    <3>2. CASE ~(k < Len(readings))
      <4>1. k = Len(readings) /\ group = 9
        BY <2>1, <2>2, <2>6, <3>2
      <4>2. QED
        BY <2>2, <2>4, <2>6, <4>1
    <3>3. QED
      BY <3>1, <3>2
  <2>7. CASE group = 9
    BY <2>1, <2>3, <2>6, <2>7 DEF SampInv, Recorded, Sampling
  <2>8. CASE group # 9
    <3>1. spc' = "stop" /\ group' = group + 1
      BY <2>1, <2>8
    <3>2. \A i \in Recorded(Len(readings)) : object[i].group < group'
      BY <2>2, <2>5, <3>1
    <3>3. \A i \in DOMAIN object : object[i].enabled /\ object[i].group < group' => i \in Recorded(Len(readings))
      BY <2>2, <2>4, <3>1
    <3>4. QED
      BY <2>1, <2>3, <2>6, <3>1, <3>2, <3>3 DEF SampInv, Recorded, Sampling
  <2>9. QED
    BY <2>7, <2>8
<1>5. CASE Tick
  <2>1. UNCHANGED <<spc, object, readings, group, hw>>
    BY <1>5 DEF Tick
  <2>2. SampleIsSnapshot'
    BY <2>1 DEF SampInv, SampleIsSnapshot
  <2>3. QED
    BY <2>1, <2>2 DEF SampInv, Recorded
<1>6. QED
  BY <1>1, <1>2, <1>3, <1>4, <1>5, SampNextSample, SampReadCounter DEF StatNext, StatProgram, StatHardware

\* The first of the names of the list, as many as have been looked up, are the last of
\* the entries, each with its own id.
Looked(m) ==
  /\ m <= Len(params)
  /\ \A e \in 1 .. m : params[Len(params) - m + e].name = list[e] /\ params[Len(params) - m + e].id = list[e]

NamesInv ==
  /\ spc = "lookup" => n - 1 <= Len(list) /\ Looked(n - 1)
  /\ spc \in {"map", "size", "clock", "init"} \cup Listing => Looked(Len(list))

LEMMA NamesStep ==
  ASSUME StatTypes, NamesInv,
         \/ UNCHANGED statVars \/ StatNext
         \/ \E t \in Nat, us \in Nat, names \in Seq(STRING) : StatcollStart(t, us, names)
  PROVE  NamesInv'
<1>t. Len(list) \in Nat /\ Len(params) \in Nat /\ n \in Nat \ {0}
  BY LenProperties DEF StatTypes
<1>f. ASSUME UNCHANGED <<list, params>> PROVE \A m : Looked(m)' = Looked(m)
  BY <1>f DEF Looked
<1>k. ASSUME UNCHANGED settings, spc # "lookup", spc' # "lookup",
             spc' \in {"map", "size", "clock", "init"} \cup Listing => spc \in {"map", "size", "clock", "init"} \cup Listing
      PROVE  NamesInv'
  BY <1>f, <1>k DEF NamesInv, settings
<1>1. CASE UNCHANGED statVars
  <2>1. UNCHANGED <<list, params, n, spc>>
    BY <1>1 DEF statVars
  <2>2. QED
    BY <1>f, <2>1 DEF NamesInv
<1>2. CASE \E t \in Nat, us \in Nat, names \in Seq(STRING) : StatcollStart(t, us, names)
  <2>1. spc' = "lookup" /\ n' = 1 /\ list' \in Seq(STRING) /\ params' \in Seq(Params)
    <3>1. Stale \subseteq Seq(Params)
      BY StaleAssumption DEF Params
    <3>2. QED
      BY <1>2, <3>1 DEF StatcollStart
  <2>2. Len(list') \in Nat /\ Len(params') \in Nat /\ n' - 1 = 0 /\ 1 .. 0 = {}
    BY <2>1, LenProperties
  <2>3. Looked(n - 1)'
    BY <2>2 DEF Looked
  <2>4. QED
    BY <2>1, <2>2, <2>3 DEF NamesInv, Listing, Sampling
<1>3. CASE Lookup
  <2>1. spc = "lookup" /\ list' = list /\ Looked(n - 1) /\ n - 1 <= Len(list)
    BY <1>3 DEF Lookup, settings, NamesInv
  <2>2. CASE UNCHANGED <<params, n>> /\ spc' = "map" /\ n > Len(list)
    <3>1. n - 1 = Len(list)
      BY <1>t, <2>1, <2>2
    <3>2. QED
      BY <1>f, <2>1, <2>2, <3>1 DEF NamesInv
  <2>3. CASE spc' \in {"exit", "wild"}
    BY <2>3 DEF NamesInv, Listing, Sampling
  <2>4. CASE /\ n \in 1 .. Len(list) /\ n' = n + 1 /\ spc' = spc
             /\ Len(params') = Len(params) + 1
             /\ params'[Len(params) + 1].name = list[n] /\ params'[Len(params) + 1].id = list[n]
             /\ \A k \in 1 .. Len(params) : params'[k] = params[k]
    <3>1. n' - 1 = n /\ n <= Len(list) /\ n <= Len(params')
      BY <1>t, <2>1, <2>4 DEF Looked
    <3>2. ASSUME NEW e \in 1 .. n
          PROVE  params'[Len(params') - n + e].name = list[e] /\ params'[Len(params') - n + e].id = list[e]
      <4>1. CASE e = n
        <5>1. Len(params') - n + e = Len(params) + 1
          BY <1>t, <2>4, <4>1
        <5>2. QED
          BY <2>4, <4>1, <5>1
      <4>2. CASE e # n
        <5>1. /\ Len(params') - n + e = Len(params) - (n - 1) + e /\ e \in 1 .. n - 1
              /\ Len(params) - (n - 1) + e \in 1 .. Len(params)
          BY <1>t, <2>1, <2>4, <4>2 DEF Looked
        <5>2. QED
          BY <2>1, <2>4, <5>1 DEF Looked
      <4>3. QED
        BY <4>1, <4>2
    <3>3. Looked(n - 1)'
      BY <2>1, <3>1, <3>2 DEF Looked
    <3>4. QED
      BY <2>1, <2>4, <3>1, <3>3 DEF NamesInv, Listing, Sampling
  <2>5. QED
    BY <1>3, <1>t, <2>2, <2>3, <2>4, LookupGrows DEF StatTypes
<1>4. CASE Map \/ TraceSize \/ ClockReady \/ StatCollectorInit \/ Control \/ NextSample
  <2>1. UNCHANGED settings /\ spc \in {"map", "size", "clock", "init", "control", "sample"}
    BY <1>4 DEF Map, TraceSize, ClockReady, StatCollectorInit, Control, NextSample
  <2>2. spc' # "lookup"
    BY <1>4 DEF Map, TraceSize, ClockReady, StatCollectorInit, Control, NextSample
  <2>3. QED
    BY <1>k, <2>1, <2>2 DEF Listing, Sampling
<1>5. CASE StopGroup \/ StartGroup \/ Tick \/ \E i \in DOMAIN object : ReadCounter(i)
  <2>1. UNCHANGED settings /\ spc \in {"stop", "read"} /\ spc' # "lookup"
    BY <1>5 DEF StopGroup, StartGroup, Tick, ReadCounter
  <2>2. QED
    BY <1>k, <2>1 DEF Listing, Sampling
<1>6. QED
  BY <1>1, <1>2, <1>3, <1>4, <1>5 DEF StatNext, StatProgram, StatHardware

StatInv == StatTypes /\ ListInv /\ SizeInv /\ SampInv /\ NamesInv

LEMMA StatInvariant == DdrSpec => []StatInv
<1>1. ASSUME DdrInit PROVE StatInv
  <2>1. StatInit /\ spc = "idle" /\ filterCnt = [g \in Groups |-> 0] /\ object = <<>>
    BY <1>1 DEF DdrInit, StatInit
  <2>2. ListInv /\ SizeInv /\ NamesInv
    BY <2>1 DEF ListInv, SizeInv, NamesInv, Listing, Sampling
  <2>3. QED
    BY <2>1, <2>2, StatTypesInit, SampInit DEF StatInv
<1>2. ASSUME MainTypes, StatInv, [DdrNext]_ddrVars PROVE StatInv'
  <2>1. \/ UNCHANGED statVars \/ StatNext
        \/ \E t \in Nat, us \in Nat, names \in Seq(STRING) : StatcollStart(t, us, names)
    BY <1>2, CollectionSteps
  <2>2. StatTypes'
    <3>1. CASE UNCHANGED statVars
      BY <1>2, <3>1 DEF statVars, settings, StatInv, StatTypes
    <3>2. CASE ~(UNCHANGED statVars)
      BY <1>2, <2>1, <3>2, StatTypesStep, StatTypesStart DEF StatInv
    <3>3. QED
      BY <3>1, <3>2
  <2>3. ListInv'
    BY <1>2, <2>1, ListStep DEF StatInv
  <2>4. SizeInv'
    BY <1>2, <2>1, SizeStep DEF StatInv, SampInv
  <2>5. SampInv'
    BY <1>2, <2>1, SampStep DEF StatInv
  <2>6. NamesInv'
    BY <1>2, <2>1, NamesStep DEF StatInv
  <2>7. QED
    BY <2>2, <2>3, <2>4, <2>5, <2>6 DEF StatInv
<1>3. QED
  BY <1>1, <1>2, MainInvariant, PTL DEF DdrSpec

\* The figures of one collector in one sample are of the same moment, however
\* the hardware's counts advance between the reads and whichever initiators
\* share the collector.
THEOREM StatSampleIsSnapshot == DdrSpec => []SampleIsSnapshot
<1>1. StatInv => SampleIsSnapshot
  BY DEF StatInv, SampInv
<1>2. QED
  BY <1>1, StatInvariant, PTL

\* The loop leaves its arrays only where their size does not fit into a word
\* or there are no samples to take, and samples that end cover the time.
THEOREM StatSamplesCoverTime == DdrSpec => []SamplesCoverTime
<1>1. ASSUME StatInv PROVE SamplesCoverTime
  <2>1. spc = "overrun" => TRACE_SZ = 0 \/ 4 * TRACE_SZ >= Word
    BY <1>1 DEF StatInv, SizeInv, Listing, Sampling
  <2>2. ASSUME spc = "done", time * Second < Word
        PROVE  (statCountIdx + 2) * interval > time * Second
    <3> DEFINE T == time * Second
    <3>1. T \in Nat /\ T < Word /\ interval \in Nat \ {0} /\ Len(readings) \in Nat
      BY <1>1, <2>2, Collected DEF StatInv, StatTypes, SizeInv, Listing, Sampling
    <3>2. T % Word = T
      <4> HIDE DEF T
      <4>1. T \in 0 .. Word - 1 /\ Word \in Nat \ {0}
        BY <3>1, StatCollAssumption
      <4>2. QED
        BY <4>1, SmallMod
    <3>3. spc \in Listing /\ Len(readings) = LastIdx /\ TRACE_SZ = T \div interval
      BY <1>1, <2>2, <3>2 DEF StatInv, SizeInv, Listing, Sampling
    <3>4. statCountIdx = Len(readings)
      BY <2>2, <3>1 DEF statCountIdx
    <3>5. LastIdx = IF TRACE_SZ = 0 THEN Word - 1 ELSE TRACE_SZ - 1
      BY <1>1, <3>3, LastIdxFacts DEF StatInv
    <3> HIDE DEF T
    <3>6. TRACE_SZ \in Nat /\ T < interval * (TRACE_SZ + 1)
      BY <3>1, <3>3, DivSmaller
    <3>7. CASE TRACE_SZ # 0
      <4>1. statCountIdx + 2 = TRACE_SZ + 1
        BY <3>3, <3>4, <3>5, <3>6, <3>7
      <4>2. (TRACE_SZ + 1) * interval = interval * (TRACE_SZ + 1)
        BY <3>1, <3>6
      <4>3. QED
        BY <3>1, <3>6, <4>1, <4>2 DEF T
    <3>8. CASE TRACE_SZ = 0
      <4>1. T < interval
        BY <3>1, <3>6, <3>8
      <4>2. statCountIdx + 2 = Word + 1 /\ Word \in Nat
        BY <3>3, <3>4, <3>5, <3>8, StatCollAssumption
      <4>3. (Word + 1) * interval >= interval
        <5>1. \A a \in Nat, b \in Nat : (a + 1) * b >= b
          OBVIOUS
        <5>2. QED
          BY <3>1, <4>2, <5>1
      <4>4. (statCountIdx + 2) * interval \in Int
        BY <3>1, <4>2
      <4>5. QED
        BY <3>1, <4>1, <4>2, <4>3, <4>4 DEF T
    <3>9. QED
      BY <3>7, <3>8
  <2>3. QED
    BY <2>1, <2>2 DEF SamplesCoverTime
<1>2. QED
  BY <1>1, StatInvariant, PTL

\* Whatever the stack held, ids and names that do not go together included, and for
\* every list: a figure in a column asked for was counted for the initiator it
\* stands under, and a zero stands for one that came when its collector's
\* filters were gone.
THEOREM StatFiguresBelong == DdrSpec => []FiguresBelong
<1>1. ASSUME StatInv PROVE FiguresBelong
  <2> DEFINE base == Len(params) - Len(list)
  <2>1. SUFFICES ASSUME spc = "done", NEW k \in 1 .. statCountIdx - 1, NEW j \in Columns
                 PROVE  /\ params[j].name = list[j - base]
                        /\ Csv(k, params[j].id).of \in {params[j].name, "zero"}
                        /\ Csv(k, params[j].id).of = "zero" =>
                             Cardinality({e \in DOMAIN params : params[e].id \in Names(GroupOf(params[j].name)) /\ e < j}) >= 4
    BY DEF FiguresBelong
  <2>2. /\ Len(list) \in Nat /\ Len(params) \in Nat /\ DOMAIN params = 1 .. Len(params) /\ Len(readings) \in Nat
        /\ n = Len(params) + 1 /\ Filters /\ Looked(Len(list))
    BY <1>1, <2>1, OwnRange, Collected, LenProperties DEF StatInv, StatTypes, ListInv, NamesInv, Listing, Sampling
  <2>3. k + 1 \in 1 .. Len(readings)
    BY <2>1, <2>2 DEF statCountIdx
  <2>4. 1 .. n - 1 = 1 .. Len(params) /\ j \in 1 .. n - 1 /\ j > base
    BY <2>1, <2>2 DEF Columns
  <2> DEFINE i == params[j].id
             all == {e \in DOMAIN params : params[e].id \in Names(GroupOf(i)) /\ e < j}
  <2>a. params[j].name = list[j - base] /\ params[j].name = i
    <3>1. j - base \in 1 .. Len(list) /\ Len(params) - Len(list) + (j - base) = j
      BY <2>2, <2>4
    <3> HIDE DEF base
    <3>2. QED
      BY <2>2, <3>1 DEF Looked
  <2>5. i \in DOMAIN object /\ i \in Initiators /\ i # "zero"
    <3>1. i \in DOMAIN object
      BY <2>2, <2>4 DEF Filters
    <3>2. i \in Initiators
      BY <1>1, <3>1 DEF StatInv, StatTypes
    <3>3. QED
      BY <3>1, <3>2, InitiatorFacts
  <2>6. CASE i \in Recorded(k + 1)
    <3>1. readings[k + 1][i].of = i
      BY <1>1, <2>3, <2>6 DEF StatInv, SampInv
    <3>2. Csv(k, i).of = i
      BY <2>6, <3>1 DEF Csv, Recorded
    <3> HIDE DEF base
    <3>3. QED
      BY <2>5, <2>a, <3>2
  <2>7. CASE i \notin Recorded(k + 1)
    <3>1. ~object[i].enabled
      BY <1>1, <2>1, <2>3, <2>5, <2>7 DEF StatInv, SampInv
    <3>2. Cardinality(EarlierIn(GroupOf(i), j)) >= 4
      BY <2>2, <2>4, <3>1 DEF Filters
    <3>3. EarlierIn(GroupOf(i), j) \subseteq all
      <4>1. ASSUME NEW e \in EarlierIn(GroupOf(i), j) PROVE e \in all
        <5>1. e \in 1 .. j - 1 /\ GroupOf(params[e].id) = GroupOf(i)
          BY DEF EarlierIn
        <5>2. e \in 1 .. n - 1 /\ e < j
          BY <2>2, <2>4, <5>1
        <5>3. params[e].id \in Initiators
          BY <1>1, <2>2, <5>2 DEF Filters, StatInv, StatTypes
        <5>4. params[e].id \in Names(GroupOf(params[e].id))
          BY <5>3, InitiatorFacts
        <5>5. QED
          BY <2>2, <2>4, <5>1, <5>2, <5>4
      <4>2. QED
        BY <4>1
    <3>4. Cardinality(all) >= 4
      <4>1. IsFiniteSet(1 .. Len(params)) /\ all \subseteq 1 .. Len(params)
        BY <2>2, FS_Interval
      <4> HIDE DEF all
      <4>2. IsFiniteSet(all) /\ Cardinality(all) \in Nat
        BY <4>1, FS_Subset, FS_CardinalityType
      <4>3. Cardinality(EarlierIn(GroupOf(i), j)) <= Cardinality(all)
        BY <3>3, <4>2, FS_Subset
      <4>4. Cardinality(EarlierIn(GroupOf(i), j)) \in Nat
        BY <3>3, <4>2, FS_Subset, FS_CardinalityType
      <4>5. QED
        BY <3>2, <4>2, <4>3, <4>4
    <3>5. Csv(k, i).of = "zero"
      BY <2>7 DEF Csv, Recorded
    <3> HIDE DEF base
    <3>6. QED
      BY <2>a, <3>4, <3>5
  <2>8. QED
    BY <2>6, <2>7
<1>2. QED
  BY <1>1, StatInvariant, PTL

=============================================================================
