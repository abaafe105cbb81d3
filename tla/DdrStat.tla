------------------------------ MODULE DdrStat ------------------------------
(***************************************************************************)
(* Dra7xx_ddrstat_speed.c (glsdkstatcoll): main reads a config file word   *)
(* by word, then either monitors the two memory interfaces (EMIF) for ever *)
(* or calls statcoll_start.  A file is the sequence of the words on its    *)
(* lines, comments left out; a word is its text, the value atoi gives it,  *)
(* and the number of tokens that its line is split into.                   *)
(***************************************************************************)
EXTENDS StatColl

CONSTANTS
  Files,      \* the config files
  Lists,      \* what `list' may hold up to an empty entry
  ListSize,   \* the size of `list'
  Freq,       \* cycles of the EMIF's clock in a second
  Jitter      \* bound: cycles a delay may take longer, or two reads lie apart

ASSUME DdrStatAssumption == Freq \in Nat \ {0} /\ Jitter \in Nat /\ ListSize \in Nat
ASSUME FilesAssumption == Files \subseteq Seq([text : STRING, value : Int, tokens : Nat])
ASSUME ListsAssumption == Lists \subseteq Seq(STRING)

Modes == {"BANDWIDTH", "STATCOLL"}
ModeOf == [k \in {"DELAY", "EMIF_PERF_CFG1", "EMIF_PERF_CFG2", "TOTAL_TIME", "INTERVAL_US"} |->
             IF k \in {"TOTAL_TIME", "INTERVAL_US"} THEN "STATCOLL" ELSE "BANDWIDTH"]
keylist == Modes \cup DOMAIN ModeOf \cup {"INITIATORS"}
Default == [DELAY |-> 1, EMIF_PERF_CFG1 |-> 9, EMIF_PERF_CFG2 |-> 10, BANDWIDTH |-> 0,
            STATCOLL |-> 0, TOTAL_TIME |-> 0, INTERVAL_US |-> 0]

VARIABLES
  mpc,        \* where main is
  file, w,    \* the config file and the next word
  flag, key,  \* a key has been read, and which
  config,     \* the globals set from the file
  clk,        \* the EMIFs' clock; the registers show it modulo Word
  start, end  \* emif1_start, emif2_start, emif1_end, emif2_end: the clock

mainVars == <<mpc, file, w, flag, key, config, clk, start, end>>
ddrVars == <<mainVars, statVars>>

DdrInit ==
  /\ StatInit
  /\ mpc = "parse" /\ file \in Files /\ w = 1 /\ flag = 0 /\ key = "none"
  /\ config = Default /\ clk = 0
  /\ start = [e \in 1 .. 2 |-> 0] /\ end = [e \in 1 .. 2 |-> 0]

-----------------------------------------------------------------------------
(* The config file. *)

\* Faulty variant: each mode's parameters ask for the other mode.
AddsOther(k) == k \in Modes \/ (k \in DOMAIN ModeOf /\ \E m \in Modes \ {ModeOf[k]} : config[m] = 1)

\* add_key_value: the mode must have been set to 1 by an earlier word.
Adds(k) == k \in Modes \/ (k \in DOMAIN ModeOf /\ config[ModeOf[k]] = 1)
AddKeyValue(k, value) ==
  config' = IF Adds(k) THEN [config EXCEPT ![k] = value] ELSE config

\* A line's tokens are stored in an array of six, without a test.
TooManyTokens ==
  /\ mpc = "parse" /\ w <= Len(file) /\ file[w].tokens > 6
  /\ mpc' = "overrun"
  /\ UNCHANGED <<file, w, flag, key, config, clk, start, end, statVars>>

\* flag outlives words and lines: a word is a key or a value by its turn.
ParseWord ==
  /\ mpc = "parse" /\ w <= Len(file) /\ file[w].tokens <= 6
  /\ IF flag = 0
     THEN /\ IF file[w].text \in keylist
             THEN key' = file[w].text /\ flag' = 1 /\ w' = w + 1 /\ UNCHANGED mpc
             ELSE mpc' = "exit" /\ UNCHANGED <<key, flag, w>>
          /\ UNCHANGED config
     ELSE /\ AddKeyValue(key, file[w].value)
          /\ flag' = 0 /\ w' = w + 1
          /\ UNCHANGED <<key, mpc>>
  /\ UNCHANGED <<file, clk, start, end, statVars>>

\* The modes: BANDWIDTH is looked at first and never comes back to STATCOLL.
\* The header of the usage text reads /dev/mem as well (emif_freq).
ParseEnd ==
  /\ mpc = "parse" /\ w > Len(file)
  /\ mpc' = IF config.BANDWIDTH = 1 THEN "usage"
            ELSE IF config.STATCOLL = 1 THEN "list" ELSE "return"
  /\ config' = [config EXCEPT !.DELAY = IF config.BANDWIDTH = 1 /\ @ <= 0 THEN 1 ELSE @]
  /\ UNCHANGED <<file, w, flag, key, clk, start, end, statVars>>

\* initiators.cfg, if there is one, read into an array that is not cleared
\* (memset again) and whose end is not looked at.
ReadList ==
  /\ mpc = "list"
  /\ \/ mpc' = "return" /\ UNCHANGED statVars
     \/ \E names \in Lists :
          IF Len(names) > ListSize THEN mpc' = "overrun" /\ UNCHANGED statVars
          ELSE /\ mpc' = "statcoll"
               /\ StatcollStart(config.TOTAL_TIME % Word, config.INTERVAL_US % Word, names)
  /\ UNCHANGED <<file, w, flag, key, config, clk, start, end>>

-----------------------------------------------------------------------------
(* The EMIF monitor. *)

\* emif_freq may find no memory to map, perf_init may fail; a file that could
\* not be created is only reported and written to all the same.
PerfInit ==
  /\ mpc = "usage"
  /\ mpc' \in {"return", "start1", "nofile"}
  /\ UNCHANGED <<file, w, flag, key, config, clk, start, end, statVars>>

\* perf_start and perf_stop read one interface after the other.
EmifRead(from, to, e, which, st) ==
  /\ mpc = from
  /\ which' = [which EXCEPT ![e] = clk]
  /\ \E d \in st : clk' = clk + d
  /\ mpc' = to
  /\ UNCHANGED <<file, w, flag, key, config, statVars>>

Apart == 0 .. Jitter
Delay == {config.DELAY * Freq + d : d \in Apart}

\* Faulty variant: perf_stop reads the interfaces in the other order.
StopOrderSwapped == <<2, 1>>
StopOrder == <<1, 2>>

PerfStart ==
  \/ EmifRead("start1", "start2", 1, start, Apart) /\ UNCHANGED end
  \/ EmifRead("start2", "stop1", 2, start, Delay) /\ UNCHANGED end

PerfStop ==
  \/ EmifRead("stop1", "stop2", StopOrder[1], end, Apart) /\ UNCHANGED start
  \/ EmifRead("stop2", "print", StopOrder[2], end, {0}) /\ UNCHANGED start

\* emif_print: the difference of two 32-bit registers is a uint32_t, and divides.
Cycles(e) == ((end[e] % Word) - (start[e] % Word)) % Word

\* Only clk modulo Word is kept from one period to the next.  Names of events
\* are looked up in a table of eleven.
PerfPrint ==
  /\ mpc = "print"
  /\ mpc' = IF \E c \in {"EMIF_PERF_CFG1", "EMIF_PERF_CFG2"} : config[c] \notin 0 .. 10
            THEN "undefined"
            ELSE IF \E e \in 1 .. 2 : Cycles(e) = 0 THEN "divzero" ELSE "start1"
  /\ clk' = clk % Word
  /\ UNCHANGED <<file, w, flag, key, config, start, end, statVars>>

DdrProgram ==
  \/ TooManyTokens \/ ParseWord \/ ParseEnd \/ ReadList \/ PerfInit
  \/ PerfStart \/ PerfStop \/ PerfPrint
  \/ mpc = "statcoll" /\ StatProgram /\ UNCHANGED mainVars

DdrHardware == mpc = "statcoll" /\ StatHardware /\ UNCHANGED mainVars

DdrNext == DdrProgram \/ DdrHardware

DdrSpec == DdrInit /\ [][DdrNext]_ddrVars /\ WF_ddrVars(DdrProgram)

-----------------------------------------------------------------------------
(* Properties. *)

\* What the file says.  A file of pairs: behind every key comes a number, before
\* every number a key.
KeyAt(p) == file[p].text \in keylist
FileOfPairs ==
  \A p \in DOMAIN file :
    IF KeyAt(p) THEN p + 1 \in DOMAIN file /\ ~KeyAt(p + 1) ELSE p - 1 \in DOMAIN file /\ KeyAt(p - 1)

\* The places directly behind k, the last of some words, and what k asks for: the
\* last of its values that stands where its mode has been switched on.
ValuesOf(k) == {p \in DOMAIN file : p - 1 \in DOMAIN file /\ file[p - 1].text = k}
LastValue(k, ps) == IF ps = {} THEN Default[k] ELSE file[CHOOSE p \in ps : \A q \in ps : q <= p].value
Asked(k) == LastValue(k, {p \in ValuesOf(k) :
                            k \in Modes \/ LastValue(ModeOf[k], {q \in ValuesOf(ModeOf[k]) : q < p}) = 1})

\* After a file of pairs every setting has the last value that followed its mode's
\* being switched on.  After any file that is not refused, whatever it leaves
\* out, no number stands but behind a key, and a setting that has changed has the
\* value of a word behind its key.
SettingsAsAsked ==
  mpc \notin {"parse", "exit", "overrun"} =>
    /\ \A k \in DOMAIN Default :
         LET Has(v) == config[k] = v \/ (k = "DELAY" /\ v <= 0 /\ config[k] = 1)
         IN /\ FileOfPairs => Has(Asked(k))
            /\ Has(Default[k]) \/ \E p \in ValuesOf(k) : Has(file[p].value)
    /\ \A p \in DOMAIN file : KeyAt(p) \/ (p > 1 /\ KeyAt(p - 1))

\* Unless the delay outlasts the 32-bit counter, both interfaces are measured
\* over the delay asked for, and over periods as long as each other's up to
\* the distance of two reads; so nothing is divided by zero.
PeriodsAgree ==
  mpc = "print" /\ config.DELAY * Freq + 2 * Jitter < Word =>
    /\ \A e \in 1 .. 2 : Cycles(e) - config.DELAY * Freq \in 0 .. 2 * Jitter
    /\ Cycles(1) - Cycles(2) \in -Jitter .. Jitter

Sound ==
  LET t == config.TOTAL_TIME * Second  us == config.INTERVAL_US
  IN us >= 1 /\ us <= t /\ t < Word /\ 4 * (t \div us) < Word

\* A file that sets TOTAL_TIME and INTERVAL_US after STATCOLL, within what 32
\* bits hold and the time no shorter than the interval, is collected to the
\* end, unless the program waits for the clocks for ever, stops with an error or
\* for want of memory, or has left its array of initiators: the sampling
\* loop neither runs away nor divides by zero.
CollectionEnds ==
  mpc = "statcoll" /\ Sound ~>
    spc \in {"done", "nofile", "failed", "exit", "nomemory", "wild"} \/ [](spc = "clock")

=============================================================================
