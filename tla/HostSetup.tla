----------------------------- MODULE HostSetup -----------------------------
(***************************************************************************)
(* MessageQZCpy before and after the test: main reads the cfg file, sets   *)
(* up IPC, the remote procedure call (MmRpc) and two DRM buffers, and      *)
(* undoes all that at its labels `leave' and `exit'.  The test itself      *)
(* (modules Handshake, Streams, DataTransact) is one step here.            *)
(***************************************************************************)
EXTENDS Integers, Sequences, FiniteSetsExt

CONSTANTS
  CfgFiles,         \* cfg files: sequences of lines [comment, tokens, words]
  MAX_NUM_THREADS,  \* the size of xyz
  UIntSize          \* an unsigned int wraps here

ASSUME HostSetupAssumption == MAX_NUM_THREADS \in Nat \ {0} /\ UIntSize \in Nat \ {0}
ASSUME CfgFilesAssumption ==
  \A c \in CfgFiles :
    c \in Seq([comment : BOOLEAN, tokens : Nat, words : Seq([text : STRING, value : Int])])

VARIABLES
  hpc,        \* where main is
  cfg,        \* the cfg file
  at,         \* the next line and word of it
  hflag, hkey,     \* a key has been read, and which
  linecount, xyz,  \* the lines counted, and their entries
  held,       \* what has been set up and not yet undone
  stuck,      \* what could not be undone
  num,        \* buffers the remote processor was asked to keep
  contents    \* inBuf: "none", "seed" or "answer"

hostVars == <<hpc, cfg, at, hflag, hkey, linecount, xyz, held, stuck, num, contents>>
parsed == <<cfg, at, hflag, hkey, linecount, xyz>>

hostKeys == {"direction", "msgSize", "msgCount", "interval", "procID"}
NoEntry == [k \in hostKeys |-> 0]
Entries == 0 .. MAX_NUM_THREADS - 1

HostSetupInit ==
  /\ cfg \in CfgFiles
  /\ hpc = "parse" /\ at = <<1, 1>> /\ hflag = 0 /\ hkey = "none"
  /\ linecount = 0 /\ xyz = [i \in Entries |-> NoEntry]
  /\ held = {} /\ stuck = {} /\ num = 0 /\ contents = "none"

-----------------------------------------------------------------------------
(* The cfg file: each line is first split into tokens, then the tokens into *)
(* words.  hflag is not reset at the end of a word, a token or a line.      *)

ThisLine == cfg[at[1]]

\* A line's tokens are stored in an array of six, without a test.
TokensFit == ThisLine.comment \/ ThisLine.tokens <= 6
HostTooManyTokens ==
  /\ hpc = "parse" /\ at[1] <= Len(cfg) /\ ~TokensFit
  /\ hpc' = "overrun"
  /\ UNCHANGED <<parsed, held, stuck, num, contents>>

Words == IF ThisLine.comment THEN <<>> ELSE ThisLine.words
WordAt(p) == cfg[p[1]].words[p[2]]

\* Faulty variant: the line is counted when its first value is stored.
HostAddNext(k, value) == [xyz EXCEPT ![linecount + 1][k] = value]
HostAddKeyValue(k, value) == [xyz EXCEPT ![linecount][k] = value]

HostParseKey ==
  /\ hpc = "parse" /\ at[1] <= Len(cfg) /\ TokensFit /\ at[2] <= Len(Words) /\ hflag = 0
  /\ IF WordAt(at).text \in hostKeys
     THEN hkey' = WordAt(at).text /\ hflag' = 1 /\ at' = <<at[1], at[2] + 1>> /\ UNCHANGED hpc
     ELSE hpc' = "returned" /\ UNCHANGED <<hkey, hflag, at>>
  /\ UNCHANGED <<cfg, linecount, xyz, held, stuck, num, contents>>

\* One place of xyz is never used: add_key_value exits when it would be.
HostParseValue ==
  /\ hpc = "parse" /\ at[1] <= Len(cfg) /\ TokensFit /\ at[2] <= Len(Words) /\ hflag = 1
  /\ IF linecount + 1 < MAX_NUM_THREADS
     THEN xyz' = HostAddKeyValue(hkey, WordAt(at).value) /\ hflag' = 0 /\ at' = <<at[1], at[2] + 1>> /\ UNCHANGED hpc
     ELSE hpc' = "returned" /\ UNCHANGED <<xyz, hflag, at>>
  /\ UNCHANGED <<cfg, hkey, linecount, held, stuck, num, contents>>

\* A line is counted whether or not it stored anything, but for the limit; main
\* then copies as many entries, which may be more than xyz has.
HostParseLine ==
  /\ hpc = "parse" /\ at[1] <= Len(cfg) /\ TokensFit /\ at[2] > Len(Words)
  /\ linecount' = linecount + (IF ThisLine.comment THEN 0 ELSE 1)
  /\ at' = <<at[1] + 1, 1>>
  /\ UNCHANGED <<hpc, cfg, hflag, hkey, xyz, held, stuck, num, contents>>

pThrConfig == [i \in 0 .. linecount - 1 |-> xyz[i]]
HostParseEnd ==
  /\ hpc = "parse" /\ at[1] > Len(cfg)
  /\ hpc' = IF linecount > MAX_NUM_THREADS THEN "overrun" ELSE "Ipc_start"
  /\ UNCHANGED <<parsed, held, stuck, num, contents>>

SumOver(f, S) == FoldSet(LAMBDA i, s : s + f[i], 0, S)
payloadSize == [i \in DOMAIN pThrConfig |-> pThrConfig[i].msgSize % UIntSize]

\* An int and an unsigned int are added as unsigned.
totalReqPayloadSize == SumOver(payloadSize, DOMAIN pThrConfig) % UIntSize

\* compute->size is a number of 32-bit words, and so is the buffer's.
bufferPtrSize == 4 * (totalReqPayloadSize \div 4)

-----------------------------------------------------------------------------
(* Set-up: what each step adds, and where a failure leads. *)

Acquire(step, what, next, failure) ==
  /\ hpc = step
  /\ \/ hpc' = next /\ held' = held \cup what
     \/ hpc' = failure /\ UNCHANGED held
  /\ UNCHANGED <<parsed, stuck, num>>

\* A failed Mx_initialize leaves IPC running.
IpcStart == Acquire("Ipc_start", {"ipc"}, "Mx_initialize", "returned") /\ UNCHANGED contents
MxInitialize == Acquire("Mx_initialize", {"rpc"}, "drmOpen", "returned") /\ UNCHANGED contents
DrmOpen == Acquire("drmOpen", {"drmFd"}, "omap_device_new", "leave") /\ UNCHANGED contents
OmapDeviceNew == Acquire("omap_device_new", {"dev"}, "compute_bo", "leave") /\ UNCHANGED contents

\* Each buffer is allocated and then mapped; one that cannot be mapped is kept.
ComputeBo == Acquire("compute_bo", {"compute_bo"}, "compute_map", "leave") /\ UNCHANGED contents
ComputeMap == Acquire("compute_map", {}, "inBuf_bo", "leave") /\ UNCHANGED contents
InBufBo == Acquire("inBuf_bo", {"inBuf_bo"}, "inBuf_map", "leave") /\ UNCHANGED contents
InBufMap ==
  /\ Acquire("inBuf_map", {}, "MmRpc_use", "leave")
  /\ contents' = IF hpc' = "MmRpc_use" THEN "seed" ELSE "none"

\* Mx_compute_Linux: a failed MmRpc_use is forgotten by the call that follows.
MmRpcUse ==
  /\ hpc = "MmRpc_use" /\ hpc' = "MmRpc_call"
  /\ \/ num' = 1 /\ held' = held \cup {"use"}
     \/ num' = 0 /\ UNCHANGED held
  /\ UNCHANGED <<parsed, stuck, contents>>

\* The slave's MxServer_compute overwrites the buffer and puts its address in the
\* first word; a buffer that is not as expected is only reported.
MmRpcCall ==
  /\ hpc = "MmRpc_call"
  /\ \/ contents' = "answer" /\ hpc' = "test"
     \/ contents' \in {contents, "answer"} /\ hpc' = "leave"
  /\ UNCHANGED <<parsed, held, stuck, num>>

HostTest == hpc = "test" /\ hpc' = "leave" /\ UNCHANGED <<parsed, held, stuck, num, contents>>

-----------------------------------------------------------------------------
(* leave: each step undoes what there is of its kind. *)

\* Faulty variant: the buffers go before the remote processor has let go.
LeaveOrderBuffersFirst == <<"inBuf_bo", "use", "compute_bo", "dev", "drmFd", "rpc", "ipc">>
LeaveOrder == <<"use", "inBuf_bo", "compute_bo", "dev", "drmFd", "rpc", "ipc">>

\* A failing MmRpc_release is reported, the results of MmRpc_delete and Ipc_stop
\* are not looked at: main goes on in any case.
MayFail == {"use", "rpc", "ipc"}
Undo(r) ==
  \/ held' = held \ {r} /\ UNCHANGED stuck
  \/ r \in MayFail /\ stuck' = stuck \cup {r} /\ UNCHANGED held

\* MmRpc_release is called if MmRpc_use succeeded; close is called even with
\* the -1 of a failed drmOpen.
Leave ==
  /\ hpc = "leave"
  /\ LET left == {i \in DOMAIN LeaveOrder : LeaveOrder[i] \in held \ stuck}
     IN IF left = {} THEN hpc' = "returned" /\ UNCHANGED <<held, stuck>>
        ELSE Undo(LeaveOrder[Min(left)]) /\ UNCHANGED hpc
  /\ UNCHANGED <<parsed, num, contents>>

HostSetupNext ==
  \/ HostTooManyTokens \/ HostParseKey \/ HostParseValue \/ HostParseLine \/ HostParseEnd
  \/ IpcStart \/ MxInitialize \/ DrmOpen \/ OmapDeviceNew
  \/ ComputeBo \/ ComputeMap \/ InBufBo \/ InBufMap
  \/ MmRpcUse \/ MmRpcCall \/ HostTest \/ Leave

HostSetupSpec == HostSetupInit /\ [][HostSetupNext]_hostVars

-----------------------------------------------------------------------------
(* Properties. *)

\* What the file says.  A line of pairs: behind every key comes a number, before
\* every number a key.  A key asks for the last word directly behind it.
WordsOf(l) == IF cfg[l].comment THEN <<>> ELSE cfg[l].words
IsKey(word) == word.text \in hostKeys
Pairs(words) ==
  \A w \in DOMAIN words :
    IF IsKey(words[w]) THEN w + 1 \in DOMAIN words /\ ~IsKey(words[w + 1])
    ELSE w - 1 \in DOMAIN words /\ IsKey(words[w - 1])
Behind(words, k) == {w \in DOMAIN words : w - 1 \in DOMAIN words /\ words[w - 1].text = k}
AskedOf(words, k) == IF Behind(words, k) = {} THEN 0 ELSE words[Max(Behind(words, k))].value

HostLines == {l \in 1 .. Len(cfg) : ~cfg[l].comment}
LineOf(i) == CHOOSE l \in HostLines : Cardinality({m \in HostLines : m < l}) = i

\* The last word of the file before line l.
EndsBefore(l, k) ==
  \E m \in 1 .. l - 1 :
    /\ WordsOf(m) # <<>> /\ WordsOf(m)[Len(WordsOf(m))].text = k
    /\ \A n \in m + 1 .. l - 1 : WordsOf(n) = <<>>

\* v is the value of a word directly behind k, perhaps across the end of a line.
SaidOn(l, k, v) ==
  \/ \E w \in Behind(WordsOf(l), k) : WordsOf(l)[w].value = v
  \/ WordsOf(l) # <<>> /\ WordsOf(l)[1].value = v /\ EndsBefore(l, k)

\* Safety: the threads that the test is run with are the lines of the file, in order.
\* A line of pairs gets what it asks for, whatever other lines leave out and
\* wherever comments stand; on any line a value other than 0 is that of a word
\* directly behind its key.  And if the
\* sizes are multiples of 4, as the comment on msgSize asks, and their sum is
\* below 2^32, the parts of the buffer that main deals out fit into it.
PlanAsAsked ==
  hpc = "test" =>
    /\ linecount = Cardinality(HostLines)
    /\ \A i \in DOMAIN pThrConfig, k \in hostKeys :
         /\ Pairs(WordsOf(LineOf(i))) => pThrConfig[i][k] = AskedOf(WordsOf(LineOf(i)), k)
         /\ pThrConfig[i][k] # 0 => SaidOn(LineOf(i), k, pThrConfig[i][k])
    /\ LET parts == SumOver(payloadSize, DOMAIN pThrConfig)
       IN (\A i \in DOMAIN pThrConfig : payloadSize[i] % 4 = 0) /\ parts < UIntSize => parts <= bufferPtrSize

\* Which things are built on which.
Needs == [ipc |-> {}, rpc |-> {"ipc"}, drmFd |-> {}, dev |-> {"drmFd"}, compute_bo |-> {"dev"},
          inBuf_bo |-> {"dev"}, use |-> {"inBuf_bo", "rpc"}]

\* Safety: whichever step fails, nothing is undone while something that needs it is
\* left, other than what could not be undone; the test runs only with a buffer
\* that the slave has answered in; and in the end all is undone but what could
\* not be, or IPC when Mx_initialize failed.
SetupUndone ==
  /\ \A r \in held \ stuck : Needs[r] \subseteq held
  /\ hpc = "test" => {"ipc", "rpc", "compute_bo", "inBuf_bo"} \subseteq held /\ contents = "answer"
  /\ hpc = "returned" => held = stuck \/ held = {"ipc"}

=============================================================================
