# ti-example-applications: models, checks and proofs

TLA+ models of the programs in this repository, TLC configurations that check
them on small instances, and theorems checked by TLAPS.  Line numbers refer to
the sources at the commit the models were written from.  Short names used below:

| name | file |
|------|------|
| **H** | `src/messageq/messageq_ipc_linux/MessageQZCpy.c`, the host program |
| **S** | `src/messageq/messageq_ipc_bios/packages/ti/ipc/tests/messageq_zerocpy.c`, the slave program |
| **L** | `src/messageq/messageq_ipc_bios/packages/ti/ipc/tests/load_task.c`, the slave's load monitor |
| **V** | `src/v4l2-m2m/test-v4l2-m2m.c`, the V4L2 mem-to-mem test |
| **C** | `src/bandwidth-tool/statcoll.c`, the statistics collector |
| **D** | `src/bandwidth-tool/Dra7xx_ddrstat_speed.c`, the bandwidth monitor's `main` |
| **B** | `src/drm-tests/buffers.c`, the DRM tests' buffers and patterns |

## 1. Inventory

The repository is a collection of small programs for TI's Dra7xx boards.  They
do not talk to one another, with one exception: the zero-copy test, whose two
halves run on different processors.  It is the only distributed and the most
concurrent program of the collection, so it comes first.

| component | state it keeps | operations | interacts through | what is hard | what makes it correct |
|---|---|---|---|---|---|
| **Zero-copy test, host** (H) | thread configurations, shared buffer, one queue per receiving thread, loop counters | `main`, `callCompute_Linux`, `MessageQApp_handshake`, `pingThreadFxn_uni_send/_recv`, `dataTransactFxn` | MessageQ messages, shared buffer, MmRpc | threads against remote tasks; waits for ever; partial failure; 16-bit counters | stays in step with the slave; streams in order; buffer exclusive to the data transaction; everything released |
| **Zero-copy test, slave** (S) | `pTaskConfigs`, `numThreads`, `gFinishedCounter`, tasks | `tsk1Fxn`, `loopbackFxn_Send/_Recv`, `dataTransactFxn`, RPC server `MxServer_*` | the same | an unprotected counter on two cores; task priorities; state that outlives a run; abort of the core | table of the current run; counter exact; no running task deleted |
| **Load monitor** (L) | accumulated idle and task times, total time, auto-reset interval | update hook, printing, reset, load task | the Load module's hook in the idle loop, calls from `tsk1Fxn` | a reset between updates; division by a total that was just reset | total and per-task times belong to the same period |
| **Image configuration** (`*.cfg`, `*.bld`) | — | — | link time | SMP images | — |
| **V4L2 mem-to-mem test** (V) | two buffer queues of the driver, field order, frame count | set-up, frame loop for four interlace modes, read and write wrappers | V4L2 ioctls | buffers owned by program or driver; odd frame counts; short reads | every dequeue can be answered, transactions of several buffers included; field order alternates |
| **Statistics collector** (C) | per collector the filters in use, the initiators' settings, traces | allocation of filters, sampling loop with stop, read and start, CSV | memory-mapped registers | counters that run on while they are read; four filters per collector; sizes at the limit of 32 bits | figures stand under the right name; a sample is one moment; traces stay inside their arrays |
| **DDR monitor** (D) | the settings from the config file, start and end of two counters | parse, measure, or call the collector | memory-mapped registers, `statcoll_start` | the order of keys; a free-running counter that wraps; two interfaces read one after another | settings as in the file; comparable periods |
| **DRM display tests** (`drm_clone.c`, `drm_extended.c`, `drm_z_alpha.c`) | connectors, encoders, CRTCs, planes, the old picture | choose, set planes and CRTCs, restore, remove | DRM ioctls | two displays on one CRTC; order of undoing; any call failing | each display shows what it should; the LCD gets its picture back |
| **DRM test buffers** (B) | a mapped buffer, its planes | `create_test_buffer`, fill patterns | libkms, memory | offsets and subsampling of all formats spread over a table and seven functions | which writes fall outside the buffer; the picture whole and in the right colours |
| **GStreamer player** (`gsttestplayer.c`) | table of pipelines | script commands | GStreamer calls | commands in an order nobody tried | a slot's pipeline is stopped before it is replaced |
| **EGL read-pixels test** | display, surface, context | main loop, clean-up | EGL, signals | clean-up from a signal handler | cleaned up once |
| **Sensor configuration** | media device and format tables | choose format | V4L2 ioctls | index at the limit | index within the table |
| **CPU load plug-ins, thermal scripts, plotters, build files** | — | — | `/proc`, `/sys`, files | almost none | — |

How the parts of the zero-copy test interact.  The host tool is started with a
cfg file, one line per thread.  It gets a shared buffer, has the slave compute
on it by RPC, and runs a **handshake** (one message back and forth tells the
slave how many threads there are and the parameters of each).  Both sides then
start one thread or task per line: each pair is a one-way **stream** of messages
that point into the buffer.  The host joins its threads; the slave's `tsk1Fxn`
polls a counter which its tasks increment.  Then one message carries the
**data transaction**: the host fills the buffer, the slave checks and rewrites
it, the host checks it.  The host ends; the slave deletes its tasks and waits for the
next run, for ever.

The V4L2 test is concurrent in another way: one thread, but a driver that works on the
buffers it has been given while the program fills and empties others.  Program and driver share
two queues of buffers; the program blocks in a dequeue until the driver is done with one.

In the bandwidth tool the program reads while the initiators work, and the
collectors' counters never wait for it.  The DRM tests talk to the kernel only; what matters is what the kernel
takes away when a CRTC changes hands or a framebuffer goes.

`PROJECT.json` lists all components, and under `hazards` what in this code is
hard to test, each at its line.  Smaller hazards not listed there: a failed mmap in V unmaps one buffer too many (V:279);
a message count of 0 divides by zero on the slave (S:404, S:483); `pthread_join` is given an uninitialised id for a
line that got no thread (H:1010).

## 2. Modules

| module | stands for |
|---|---|
| `TestPlan` | the cfg file as a sequence of lines, the kinds of call that may fail |
| `MessageQ` | TI's MessageQ service, as the two programs use it (external) |
| `Handshake` | H `MessageQApp_handshake` and S `tsk1Fxn` up to `MessageQ_delete` |
| `HandshakeProofs` | proofs about `Handshake` |
| `Streams` | H `main`'s spawning and joining and both thread functions, S both task functions, `tsk1Fxn`'s creating and polling |
| `StreamsProofs` | proofs about `Streams`, its refinement of `OneWayStreams` among them |
| `OneWayStreams` | abstract: channels that deliver in order, once, and all |
| `DataTransact` | `dataTransactFxn` on both sides |
| `Session` | composes the three phases over several runs of the host tool |
| `SessionProofs` | proofs about `Session`, through those about `Handshake` and `Streams` |
| `Rounds` | abstract: the two programs go through the phases in step |
| `HostSetup` | H `main` before and after the test: cfg file, IPC, DRM buffers, MmRpc, release |
| `LoadMonitor` | L, and `tsk1Fxn`'s calls of it |
| `ToolsProofs` | proofs about `HostSetup` and `LoadMonitor` |
| `V4l2M2M` | V `main` from the queueing of the capture buffers to its end, `queueAllBuffers`, `queue`, `dequeue`; the driver (external) |
| `V4l2M2MProofs` | proofs about `V4l2M2M`, its refinement of `FrameConverter` among them |
| `FrameConverter` | abstract: frames are written once and in order |
| `Transfer` | V `do_read` and `do_write` |
| `TransferProofs` | proofs about `Transfer` |
| `StatColl` | C; the collectors' hardware (external) |
| `DdrStat` | D, with `StatColl` as what `statcoll_start` does |
| `DdrStatProofs` | proofs about `DdrStat` and `StatColl` |
| `TestBuffer` | B: `create_test_buffer`, the layout of planes, the patterns |
| `DrmDisplay` | the three DRM tests, which call `TestBuffer` step by step; the kernel's mode setting (external) |
| `DrmDisplayProofs` | proofs about `DrmDisplay` and `TestBuffer` |
| `MC*` | sets of plans, jobs, files, boards and sizes for TLC |

```
TestPlan <- MessageQ <- Handshake <- HandshakeProofs, MCHandshake
                     <- Streams   <- StreamsProofs, MCStreams   Streams implements OneWayStreams
                     <- DataTransact
                     <- Session (INSTANCE Handshake, Streams, DataTransact) <- MCSession
                     <- SessionProofs (INSTANCE HandshakeProofs, StreamsProofs)
                                                      Session implements Rounds
V4l2M2M  <- V4l2M2MProofs, MCV4l2M2M                  V4l2M2M implements FrameConverter
Transfer <- TransferProofs, MCTransfer                (MCTransfer: the run MCTransferShort)
StatColl <- DdrStat <- DdrStatProofs
TestBuffer <- DrmDisplay <- DrmDisplayProofs, MCDrmDisplay
HostSetup, LoadMonitor <- ToolsProofs
Transfer, DdrStat, HostSetup, LoadMonitor <- MCTools  (one program per behaviour)
```

### State and code

The zero-copy test:

- `hpc` and `spc` are the program counters of the host's `main` thread and of
  `tsk1Fxn`.  A value names the library call, or the loop, that comes next.  A
  step runs from one point where another processor can interfere to the next:
  a call of MessageQ, the creation or the joining of a thread, the start of a
  polling loop.  `hi` is `i` of the host loop that is running, `hoff` its
  `tempOffsetCtr`; both start again at 0 in `main` (H:962-967).
- `plan` is `pThrConfig`.  `table` is the part of `pTaskConfigs` filled in so far; it
  becomes empty when the slave frees it.  `numThreads`, `finished`
  (`gFinishedCounter`) are the slave's globals.
- `hth`/`hcnt`/`hptr` are each host thread's place, UInt16 counter and buffer
  address; `stk`/`scnt` each slave task's place and UInt32 counter; `reg` is the
  value a task has read in the middle of `gFinishedCounter++`.
- `exists`, `pending`, `live` are the registered queues, their contents
  and the number of messages allocated but not freed.  `fault` only
  records that some call has failed.
- `buf` is what the words of the shared buffer hold, `seedSeen` and `verdict`
  what the slave's check (S:303-312) and the host's check found.

The V4L2 test:

- `num_frames`, `frame_no`, `field`, `last`, `iter` are `main`'s variables, `cur` is `buf.index`;
  `job` holds what was asked for and the numbers of buffers the driver grants.
- `src` and `dst` say what the memory of each buffer holds: the number of the source buffer read
  from the file, and the field of the input that a frame was made from.  `out` is the output file.
- `srcQ` and `dstQ` are the buffers queued in the driver, `srcDone` and `dstDone` those that a
  dequeue may take, `held` the source buffers that the deinterlacer still uses, `half` the
  fields used up of the source buffer in work, `left` the frames that the transaction under way has still to make.
- Every call that another party can see (an ioctl, a read, a write) is an action; `Loop` is the test
  of the outer loop.  The driver is one action, `Driver`, which makes one frame; a transaction of `translen` frames begins
  (`TransactionReady`) when so many source and destination buffers are queued.
- In `Transfer`, `size`, `addr`, `ret`, `nbytes` are the variables of `do_read` and `do_write`;
  `addr` is an offset into the buffer.

Set-up and load monitor:

- In `HostSetup`, `cfg` is the cfg file as lines of words (a word is its text and `atoi`'s value of it), `at` the next
  word, `hflag` and `hkey` are `flag` and `key`, `xyz` and `linecount` the table.  `held` is what has been acquired and not
  released, `stuck` what could not be released; `num` is what the code keeps of `MmRpc_use`.
- In `LoadMonitor`, `acc` holds `gUtils_accPrfLoadObj` and the tasks' `totalTskThreadTime`, in windows.  `hook` is where the
  update is and what it has loaded; `resetAt` where each task's reset is.  `undisturbed` and `torn` are history: they
  record whether a reset met an update.

The bandwidth tool:

- `mpc`, `file`, `w`, `flag`, `key`, `config` are `main`'s place, the config file's words, the next of them, its variables
  and the globals it sets.  `clk` is the clock both EMIFs count; `start` and `end` the registers read.
- `spc`, `list`, `n`, `filterCnt`, `object`, `TRACE_SZ`, `readings` are `statcoll_start`'s place, the names, the entry at
  hand, `gStatColState`, `global_object`, and the arrays, sample by sample.  `alloc` is the arrays' size in bytes.
- `hw` is each collector's registers (running, what it holds when stopped, event of each filter), `now` the time counted
  by the initiators: a figure in the model is *whose* and *of when*, which is what the properties are about.

The DRM tests:

- `pc` names the function that comes next; `line` and `board` are the command line and what the resources report; `dev` is
  `struct device`; `kms` is what the kernel has routed where, what each CRTC shows, and the planes' properties.
- `buf` is the call of `create_test_buffer` in progress.  A fill is the set of its writes: the offset, the component, the pixel
  it is for and its colour, as a place in the pattern's tables.

Definitions marked *Faulty variant* are what plausible mistakes in the code would
look like.  No specification uses them; they show for every property that it
can be broken.

### Abstractions

- Fields that only feed delays and reports (`numWaitTime`, `procId`, the
  `interval` of a cfg line, time stamps, loads) are left out.  So is printing;
  `CHATTER` and `PRINT_DEBUG` are off in the sources.
- `MessageQ_get` is called with `MessageQ_FOREVER` and is taken to return a message
  (comments at S:288 and S:458 say the same).
- `msgCount` is at least 1 in the plans: both tasks divide by `numMessages` in
  their report (S:404, S:483).  A cfg file has at least one line.
- `IdRange` stands for the 2^16 values of a message id and of the host's
  counters.  It is scaled down to 4, with message counts below it, and to 2 in the
  run about wrapping.  The slave's counter is wider and does not wrap.
- Opening a queue polls with a sleep while the answer is NOTFOUND: the action
  waits for the queue to exist.  Another error ("open") is a fault.
- A line whose direction is neither send nor receive gets no host thread, and
  the slave's `thrDirection` keeps what the memory from `Memory_alloc` held
  (S:562-569): any direction.
- `pthread_join` on an uninitialised id (H:1010, for a line without a thread) either returns an error or
  kills the process ("crashed").
- After a failed open `loopbackFxn_Send` puts to a queue id that was never set (S:351, S:373).  The model takes it to name no
  queue, so that the put fails and the core is aborted; a value that happens to name a queue is left out.
- `System_abort` stops the core ("aborted"): nothing on the slave moves again.
- In `Session`, the host's set-up is one action, `HostStart`, without failures, and `HostLeave` its release; `HostSetup` has
  them in detail, with the test as one action.
- The clean-up labels of a function, run without a stop in between, are one step.
- A message that carries a region is a record of id, address and size; the
  buffer's words are all alike, so it is one value.  Word 0 after the first
  computation is ignored: the host overwrites it before anyone compares.
- Tasks of the slave run by priority.  On one core (`Smp = FALSE`) a task in the
  middle of the increment cannot be overtaken by an equal; on two (`Smp = TRUE`,
  from `BIOS.smpEnabled = true` in `IpuSmp.cfg`) it can.  Otherwise
  tasks sleep, poll or wait between steps, and any order can happen.

Of the V4L2 test:

- The driver makes one frame of every field, in order.  A comment says "De*interlacer keeps last two
  buffers in use" (V:690-691); accordingly it gives a source buffer back when two later ones
  have been used.  `translen`, "Number of buffers to process in one transaction" (V:606), is the number of source and of destination
  buffers that must be queued for it to start; a driver other than vpe is not told it and starts with one.
- Parsing of arguments, formats, cropping and the mapping of buffers (V:87-305, V:470-635) come before
  `Init`.  After it any call may fail (`Fail`): `pexit` and `exit` end the program.
- The Y and UV planes of a buffer are read and written together.
- `V4l2M2M` takes a read or a write as complete, and a read at the end of the file as one that leaves the buffer as
  it was and succeeds, as `do_read` does.  What happens inside is in `Transfer`: both wrappers have the same loop, so
  one module stands for them.  A call returns 0 only when nothing is left, or at least one byte; or it fails.

Of the set-up: the words of a line are what the two `strtok` loops deliver, in so many tokens, of which an array holds six; a comment is a line without words, and
`atoi` is part of the word.  A word is shorter than its array (`key[100]`), as lines are of 512 characters and keys are checked before they are copied.
The unchecked `malloc` of `pThrConfig` (H:917) is taken to succeed.  Of the buffers' contents only who wrote last is kept.

Of the load monitor: a window is one unit of time, spent in one part or in a task that is not registered.  The three
tasks are registered before `BIOS_start`, so the set is constant.  Priorities are left out: on an SMP image an update and a reset
run at the same time.

Of the bandwidth tool: a second is `Second` microseconds and a word holds `Word` values, both scaled down.  The
frequency estimate in the usage text, the sleep between two samples and printing are left out.  The clocks of the L3 module come on or do not (`ClockReady`); a `malloc` may
return nothing (`nomemory`).  `INITIATORS` is a key without a place; the names come from `initiators.cfg`, with what the array held before.
The stack's part of `params` is any sequence of entries in `Stale`, an id and a name each that need not go together; ids are shown by their names.
Lines of `initiators.cfg` of 50 characters and more, and blank ones, whose newline stays in the name, are left out.

Of the DRM tests: the build is one without cairo, in which `make_pwetty` does nothing (B:662-722, `configure.ac:44-47`); with it, a
text and a circle are drawn over RGB tiles.  Encoders are numbered in the order in which they are scanned.  Colours are places in a table; the three
depths of RGB are filled alike and are one function.  A mode is its size.  The sizes of z_alpha's planes are scaled down
from 320x240 and 160x120 to 16x12 and 8x6, tiles to a side of 2.  Handles and pitches that `create_test_buffer` leaves unset for planes
a format does not have reach `drmModeAddFB2`, which may then fail.

### Fairness

Weak fairness of the host's main thread, of `tsk1Fxn`, of every host thread and
of every slave task.  Linux schedules each thread that is able to run.  On the slave a
task that cannot go on is asleep in `Task_sleep` or blocked in `MessageQ_get`, so it
leaves the core to its equals and to `tsk1Fxn`, which has the lowest
priority.  Nothing is assumed of failures: they may happen or not.  The user
starts the tool again as long as `MaxRuns` allows.

In `V4l2M2M`, weak fairness of the program and of the driver: a
process that is not blocked runs, and a driver that has the buffers of a transaction gets on with them.  In `MCTools`, weak fairness of `DdrProgram`, the bandwidth tool's own steps:
a process that does not block runs.  None of the hardware.  `DrmDisplay`, `HostSetup`, `LoadMonitor` and `Transfer` are checked for safety only.

`CHECK_DEADLOCK FALSE` in all configurations: a specification that ends with both sides through
the phase, or with a slave waiting for a tool nobody starts, is meant to stop; and with
failures an aborted slave leaves the host waiting.  What must not get stuck is said by
the liveness properties instead.

## 3. Runs

| run | instance | question | properties |
|---|---|---|---|
| `MCHandshake` | all plans of one or two lines, 3 directions, 2 sizes, 2 counts; 4 plans of three lines; any create, open, alloc or put may fail | does the handshake establish what the threads rely on, and end? is the message ever in two hands, or a parameter misplaced? | `HandshakeComplete`, `OneMessage`, `HandshakeFrees`, `IInv`, `HandshakeEnds`, `HostLeaves` |
| `MCStreams` | two one-way lines, 1 or 3 messages, one core, no failures | are the streams the channels they should be, and do they end? | `RegionsAgree`, `AllFinishedCounted`, `StreamsAreOneWay`, `StreamsEnd` |
| `MCStreamsFaults` | two lines of any direction, two cores, every failure | what survives failures? | `IdsAlwaysExpected`, `CounterNeverAhead`, `StreamsAreSafe` |
| `MCSession` | two runs with different plans, one core | does the slave serve run after run with nothing left from the last? | `TableOfThisRun`, `NothingLeft`, `StaysInStep`, `AllRunsServed` |
| `MCSessionFaults` | one run, two cores, every failure | is the buffer exclusive and its contents right, is no live task deleted, and is all in step until a call fails although a count may be lost? | `TransactionExclusive`, `TasksFinishedBeforeDelete`, `DataIntegrity`, `StaysInStepSafely`, `TransactionAnswered` |
| `MCV4l2M2M` | 4 interlace types; up to 10 frames; 3, 4 or 6 source and 2 or 6 destination buffers; transactions of 1 to 3; any call may fail | are the frames asked for written once and in order, is a buffer ever with program and driver at once, and when does a dequeue wait for ever? | `BuffersOwnedOnce`, `FieldMatchesData`, `ConvertsInOrder`, `MainEnds` |
| `MCDrmDisplay` | boards with 2 or 3 connectors, 2 CRTCs, 2 planes, encoders assigned or not; 8 command lines; every format (RGB by the size of a pixel), 3 patterns, widths up to 14, heights 1 to 4, two pitches; any call may fail, noticed or not | what do the displays show when all is set up, at the end and after each exit? is every picture drawn whole, and what is written outside its buffer? | `FillInside`, `FillDrawsImage`, `DisplaysAsPromised`, `LcdRestored` |
| `MCTools`, transfer | buffers of 1 to 5 bytes, files of 0 to 8 | do the wrappers report success only when all was moved? | `WholeOrEnd` |
| `MCTools`, ddr | 31 config files in and out of order, 7 lists of names, 5 stale stacks; words of 4 bits | are the settings those of the file, the periods comparable, the figures the right initiators' and of one moment, the arrays large enough, and does the sampling end? | `SettingsAsAsked`, `PeriodsAgree`, `FiguresBelong`, `SampleIsSnapshot`, `SamplesCoverTime`, `CollectionEnds` |
| `MCTools`, host | 14 cfg files, well-formed, interrupted and wrong; any step of the set-up or the release failing | are the threads those of the file, and is everything undone that can be? | `PlanAsAsked`, `SetupUndone` |
| `MCTools`, load | 1 registered task, up to 2 windows between resets, 1 report between automatic resets | do the parts of the load stay within the whole? | `LoadsAddUp` |
| `MCStreamsLost` | two cores, no failures | finding 1 | `AllFinishedCounted` violated |
| `MCStreamsWrap` | more messages than ids | finding 2 | `IdsAlwaysExpected` violated |
| `MCV4l2M2MOdd` | 3 frames of a sequential type | finding 3 | `FramesAsAsked` violated |
| `MCTransferShort` | buffers of 1 to 5 bytes, files of 0 to 8 | finding 4 | `InsideBuffer` violated |

The deepest results.  `StreamsAreOneWay` says that a stream, whichever side sends, with queues that are created
late, found by polling and deleted at the end, is a channel
that delivers messages 0, 1, 2, ... in order, once and all; it includes liveness.  `StaysInStep` says that host and slave
never enter a phase before the other has done its part of the one before, and
that a run that was started is carried through.  `TransactionExclusive` says that the data transaction, which rewrites the buffer all streams
point into, never overlaps with a stream, although main and
`tsk1Fxn` find out by different means that the streams are over.  `ConvertsInOrder` says that the V4L2 test,
whose source and destination loops advance at different rates, loses, repeats and swaps no frame however far the
driver is ahead or behind; `FieldMatchesData` that two separate loops agree on which field comes next; `MainEnds` that
the program ends with all of them, provided every capture buffer was queued at the start (`AllQueued`) and the transactions fit
(`TransactionsFit`): `translen` buffers are left when those are taken off that the deinterlacer keeps and the program does not queue again.
Where even those primed or granted are fewer (`NoTransaction`) it says that no frame is written and the program does not end.  `queueAllBuffers`
reports success when it has queued only some (V:345-353); with one queued, a sequential type waits
for a source buffer while the driver waits for a capture buffer, for ever.

Of the single programs: `FiguresBelong` follows a figure from the config file's list, through a stack that was never cleared, the
count of filters and the event numbers, to the column it is written in.  `SampleIsSnapshot` needs the soft disable around the
reads, while the counters advance at any time.  `SamplesCoverTime` and `CollectionEnds` separate the settings that 32 bits can hold from
those with which the sampling loop runs past its arrays.  `FillDrawsImage` compares seven fill functions with what a
display makes of each format: every byte that is written is one the display looks at, for that pixel, and the other way
round.  `LcdRestored` holds because the old picture is put back before the test's framebuffer is
removed; where that mode set fails unnoticed, and on the exits behind the first one, it says that the LCD is left dark.  `DisplaysAsPromised` and `FillInside` likewise
name what the code does not manage (a shared CRTC, a property the kernel refused, chroma without room) and exclude everything else.
`SettingsAsAsked` and `PlanAsAsked` judge a file by where its keys and numbers stand, not by counting words as the parsers do: in a file of
pairs each key asks for the number behind it, and in any other file no value may come from anywhere but behind its key.
`SetupUndone` says that whatever step fails, of the set-up or of the release, nothing is released while something built on it is left.

### Bounds and why they are enough

- *Threads.*  Two, three in the handshake.  Threads of one side do not share anything but the
  counter and the buffer, whose regions and increments already interfere with
  two.  Three lines add a middle one to the region arithmetic; the
  theorems cover every number.
- *Messages per stream.*  Up to 3, more than it takes for two to wait in a queue while a third is sent.
- *`MaxPending`.*  4 exceeds every message count of the plans in the stream runs, so it never holds
  a sender back there; in the session runs it is 2 and so are the counts.
- *Runs.*  Two, with different plans in either order: what one run leaves behind
  shows in the next.  One when calls may fail: a host that gave up in the handshake leaves the slave
  in the middle of it, and the next run's first message would be taken for a thread's parameters
  (a hazard listed for later work).
- *V4L2 buffers.*  The program asks for 6 of each kind and takes what the driver grants: all, or few.  With 2 destination
  buffers the driver is often without one.  Of source buffers at least 4 with interlace 1:
  the program leaves three alone before the first dequeue and the deinterlacer keeps two, so with 3 granted the transactions do not fit and `MainEnds`
  promises nothing; V never looks at the number granted.  Transactions of 1, 2 and 3 buffers (3 is the default, V:522) fit or do not.  Frame counts are below, between and above the numbers of
  buffers, so that buffers are used again.  Sequential types have even counts in the passing runs (finding 3).
  The file is exactly as long as the frames need, so the last reads meet its end.
- *Transfers.*  Five bytes allow up to four short calls; files are shorter, as long as and longer than the buffer.
- *Words of 4 bits* (`Word = 16`, `Second = 4`, `Freq = 5`): products, array sizes and EMIF counters below, at and above what
  a word holds, among the files of `MCFiles`.  `MaxTime = 2` lets the counters advance between any two reads of a sample, and between samples.
- *Lists of initiators*: six of one collector (as in the repository's `initiators.cfg`, whose VIP3_P1 and VIP3_P2 are
  therefore zeros), names of several collectors, a name twice and thrice, one that is unknown, none.
- *Cfg files*: each error that the parser treats separately, a value or a key left out at each place of a line, lines of six and seven tokens; a table of 3 instead of 100 lets a file exceed it, and
  `UIntSize = 16` lets the sum of the sizes wrap.
- *Arrays of the bandwidth tool*: 7 entries (`STATCOL_MAX`, 74 in the code; `ListSize`, 100) lie between the lists and stacks that fit and those that do not.
- *Windows*: two suffice for a reset between two updates of one accumulator; `LoadsAddUp` compares sums.
- *Boards*: connectors in both orders, one that is dead, two of a kind, encoders assigned or not, sharing CRTCs or not.
- *Pictures*: widths 1 and 3 (odd), 6 (where bars divide by zero), 8 and 14 (a multiple of 7); heights 1 to 4, odd ones too; pitches
  with and without padding.
- *Sizes* differ between the lines of a plan, so that swapped regions show.

### Findings

1. **Lost count** (`MCStreamsLost`).  `gFinishedCounter++` (S:411, S:490) is not atomic and the
   IPU images are SMP.  Two tasks that end together may be counted once; `tsk1Fxn`
   then polls for ever (S:615) and the host waits for ever for the data transaction.
2. **Wrapped counter** (`MCStreamsWrap`).  The host counts messages in a `UInt16` (H:521, H:581), the cfg file's
   `msgCount` is an int and the slave's counter a `UInt32`.  From 65536 messages on
   the sides disagree on the next id; a receiving slave aborts (S:472-474).
3. **Odd number of frames** (`MCV4l2M2MOdd`).  With interlace 2 or 3 a pass writes two frames and takes two off
   `num_frames`, and the loop ends at exactly 0 (V:684, V:688, V:732): an odd count jumps over it.
4. **Short transfers** (`MCTransferShort`).  The rest of a transfer is computed from the last call's result
   instead of the sum (V:433, V:454): after a short call the wrapper asks for too much and runs over the end of the buffer.

Finding 1 does not reach integrity: `CounterNeverAhead` holds under SMP and failures, the counter is
only ever too small, so the test hangs rather than deletes a running task.

Seen while modelling, in the models, and without a run of their own because nothing in the repository states the contrary, or because one
run shows one thing:

- Comments say that the loopback tasks run "at priority lower than tsk1Fxn" (S:338, S:417), but they have priority 3 and
  `tsk1Fxn` 1 (S:596, S:656).  `Streams` follows the code.
- From the second requeued buffer on, source buffers of a sequential type are marked as single fields (V:704-707), though
  the first loop keeps `SEQ_TB` and `SEQ_BT` (V:667-670).
- The HDMI encoder may be given the LCD encoder's CRTC (`drm_clone.c:216`, likewise in `drm_extended.c`), against the description
  at `drm_clone.c:41-42`; the LCD then goes dark, as `DisplaysAsPromised` says of these runs (`~Apart`).  drm_z_alpha compares the end of its
  encoder scan with the number of *all* encoders (172) and may go on with one that it has freed.
- The picture that is restored is that of the first CRTC, whichever the LCD has; the HDMI display is never restored.  A failing restore goes
  unnoticed (`drm_clone.c:628`, `drm_extended.c:650`, `drm_z_alpha.c:596`), and the LCD is dark when the framebuffers go; so it is after the exits behind
  its first mode set (`drm_clone.c:440`).  A property that cannot be set goes unnoticed too, the result being unsigned (`drm_z_alpha.c:221`, 247, 274).
- The chroma of YUV420 and YVU420 lies wholly beyond the allocation: the default height is the luma's, and the first chroma plane begins where it ends.
  Tiles of an odd height in NV12 and NV21 write one line of chroma beyond it (B:752 against the halved height at B:1048); bars of an odd height leave the last
  line's chroma undrawn.  An SMPTE picture 4 to 6 pixels wide divides by zero.
- With the default `translen` of 3 the V4L2 test waits for ever when asked for one or two progressive frames (1, 2 or 4 alternating ones, one sequential
  pair), since the driver never has the buffers of a transaction: `MainEnds` states the cases in which it does.
- Lines of a config file of more than six tokens (H:831, H:877, D:251, D:475), stale or repeated initiators beyond the 74 entries (C:932), and more than 100 lines of
  `initiators.cfg` (D:559-565) overrun arrays on the stack (`overrun`, `wild`).  The sum of the threads' sizes is unsigned and wraps (H:936).
- Two `memset`s have value and length swapped and clear nothing (C:921, D:560).  An unknown initiator ends the program with status 0.
  `BANDWIDTH 1` keeps `STATCOLL 1` from ever running.  A `TRACE_SZ` of 0 makes the sampling loop run away; a `TOTAL_TIME` of
  4295 s or more wraps.  The 74 arrays of samples are cleared without a look at what `malloc` returned (C:191), and the wait for the clocks has no limit (C:985).
- A reset of the load monitor that overlaps with an update leaves parts larger than the whole until the next reset (`torn`), and
  the load task's own reset is followed at once by a report that divides by 0 (L:140, L:253).
- A failed `MmRpc_use` is forgotten (H:230-257); a failed `Mx_initialize` leaves IPC running (H:945-950).  A failing
  `MmRpc_release` is reported, and the buffers are given back all the same (H:1038-1051): the remote processor may still have them mapped.
- Messages are leaked on failures (H:563, H:612, H:687); `NothingLeft` speaks of the time until a call fails.

## 4. Proofs

Eight modules hold proofs.  All theorems are about the same modules, actions and properties that TLC checks, and
hold for every value of the constants that the named `ASSUME`s allow.

| theorem | of every | says |
|---|---|---|
| *HandshakeProofs* | set of plans, number of threads, set of calls that fail | |
| `HandshakeInvariant` | | `[]IInv`, also an invariant of the run `MCHandshake` |
| `HandshakeTyped`, `HandshakeTable`, `HandshakeRegions` | | `[]TypeOK`; the slave's table follows the plan; its regions tile the buffer |
| `HandshakeIsComplete`, `HandshakeIsFreed`, `HandshakeStopAndWait` | | `[]HandshakeComplete`, `[]HandshakeFrees`, `[]OneMessage` |
| *StreamsProofs* | the same, and every width of the counters | |
| `StreamsRegionsAgree` | | `[]RegionsAgree` |
| `StreamsCounterNeverAhead` | one core or two | `[]CounterNeverAhead` |
| `StreamsAllFinishedCounted` | one core (`~Smp`) | `[]AllFinishedCounted` |
| `StreamsIdsAlwaysExpected` | counts that fit (`CountsFit`) | `[]IdsAlwaysExpected` |
| `StreamsLoseNothing` | counts that fit | until a call fails, each message allocated waits in a queue, and the slave does not stop |
| `StreamsImplementOneWay` | counts that fit | `StreamsAreSafe`: each step is a step of `OneWayStreams` or a stutter |
| *SessionProofs* | set of plans, number of threads, one core or two | |
| `SessionInvariant` | number of runs, set of calls that fail | `[]SessionInv`: how the three phases fit together |
| `SessionTableOfThisRun` | the same | `[]TableOfThisRun` |
| `SessionTasksFinishedBeforeDelete`, `SessionTransactionExclusive`, `SessionDataIntegrity` | one run, or no library call that fails | `[]TasksFinishedBeforeDelete`, `[]TransactionExclusive`, `[]DataIntegrity` |
| `SessionUntilFailure` | number of runs, set of calls that fail | the last three, until a run is started after one with a failing call |
| `SessionNothingLeft` | number of runs, set of calls that fail; counts that fit | `[](~fault => NothingLeft)`: until a call fails |
| `SessionStaysInStep` | number of runs, set of calls that fail; `OneWayPlans` | `StaysInStepSafely`: until a call fails, each step is a step of `Rounds` or a stutter |
| *V4l2M2MProofs* | job, length of a transaction, number of buffers granted, length of the file, call that fails | |
| `V4l2BuffersApart` | | `BuffersOwnedOnce` without `TypeOK`, odd counts included |
| `V4l2BuffersOwnedOnce`, `V4l2FramesAsAsked` | even count of sequential types (`EvenCounts`) | `[]BuffersOwnedOnce`, `[]FramesAsAsked` |
| `V4l2FieldMatchesData` | | `[]FieldMatchesData` |
| `V4l2ConvertsInOrder` | even count, file with all the frames (`LongEnough`) | `ConvertsInOrder`: each step is a step of `FrameConverter` or a stutter |
| *TransferProofs* | size, sequence of short calls | |
| `TransferContiguous`, `TransferWholeOrEnd` | | `[]Contiguous`, `[]WholeOrEnd` |
| *DdrStatProofs* | config file, list of names, stale stack, size of the arrays, clock, width of a word, pace of the hardware | |
| `DdrSettingsAsAsked`, `DdrPeriodsAgree` | | `[]SettingsAsAsked`, `[]PeriodsAgree` |
| `StatFiguresBelong`, `StatSampleIsSnapshot`, `StatSamplesCoverTime` | | `[]FiguresBelong`, `[]SampleIsSnapshot`, `[]SamplesCoverTime` |
| *DrmDisplayProofs* | board, command line, call that fails | |
| `DrmDisplaysAsPromised`, `DrmLcdRestored` | | `[]DisplaysAsPromised`, `[]LcdRestored` |
| `DrmFillInside`, `DrmFillDrawsImage` | also format, size (odd or even), pitch, side of a tile | `[]FillInside`, `[]FillDrawsImage` |
| *ToolsProofs* | | |
| `LoadLoadsAddUp` | set of tasks, interval between resets | `[]LoadsAddUp` |
| `HostSetupUndone`, `HostPlanAsAsked` | cfg file, size of the table, width of the sum, step that fails | `[]SetupUndone`, `[]PlanAsAsked` |

### What they rest on

The named `ASSUME`s say what kind of thing a constant is: plans are non-empty sequences of at most `MaxThreads` lines;
files are sequences of words with an integer value (what `atoi` returns) and the number of tokens on their line, those of the host sequences of lines of such words; lists of names are sequences of strings; a
board has a first CRTC, which all three programs use unasked (`res->crtcs[0]`), and sizes are naturals (`strtoul`);
the load monitor's tasks fit in a table (`UTILS_PRF_MAX_HNDL`) and none has the name the model uses for another part.
TLC evaluates each of them on a run.

Some properties name cases that they do not promise anything of, since what follows is undefined or nothing in the repository excludes them, and the
theorems say no more than they: arrays overrun by long lines or by entries on the stack (`overrun`, `wild`: the model stops there), settings that 32 bits cannot hold, a reset that meets an update.

Some theorems have a hypothesis of their own.  Each is what a run violates where it fails, and where it
holds it is what the run that passes has:

- `~Smp` (one core).  On two, a count is lost: `MCStreamsLost`.  `CounterNeverAhead`, which safety needs, has no such hypothesis.
- `CountsFit`, `msgCount < IdRange` for every line.  Otherwise the host's counter wraps: `MCStreamsWrap`.
- `EvenCounts`, for sequential types only.  Otherwise a frame too many is written: `MCV4l2M2MOdd`.  `V4l2BuffersApart` and
  `V4l2FieldMatchesData` hold without it.
- `MaxRuns <= 1 \/ Faults = {}`, of three theorems about the session.  After a failed call one of the programs may be left in the
  middle of a phase; the code has no way to bring it back, and a host that is started again then meets a slave that waits for
  something else.  `SessionUntilFailure` says the same without the hypothesis, up to that point.  The runs `MCSession` (two
  runs, no failures) and `MCSessionFaults` (one run, all failures) are the two sides of it.
- `OneWayPlans`: every line moves at least one message, one way, and its count fits.  The plans of `MCSession` and `MCSessionFaults` are
  such.  A slave's task for a line without messages ends by itself, and the slave may be in the transaction while the host
  is in the handshake; for a two-way line `main` joins a thread that it has not created, and may crash.
- `LongEnough`: the file has the fields from which the frames are made.  Past its end the last buffers are shown again,
  which is what the program does and is not what a converter does.

### How they go

None of the properties is inductive.  Each module starts with the types, then adds one part of the invariant at a time, each
with a lemma per action that may disturb it; the later parts use the earlier ones.  TLC finds each of them to hold on the instances of the runs.

*Handshake.*  That the table follows the plan needs that
the message in the queue is the one for the *next* line; that needs the host's
`hi` to equal the length of the table, off by one while the reply is under way; that needs to know
that there is only one message, and where.  `IInv` therefore says, for each place
the host's main thread may be in, where the message is (`Nowhere`, `AtSlave`, `AtHost`), how much the slave has been
told (`NotTold`, `Told(k)`), and where the slave may be.

*Streams.*  `TypeInv` has the types, the regions of both sides and which queues exist when.  `CountInv` maps each increment that has
been finished to a task of its own, so the counter cannot be ahead; `ExactInv` adds that on one core only one task is
in the middle of the increment.  `IdsInv` says of each line that the messages under way are numbered from the receiver's
counter to the sender's, and that a sender has a queue to send to unless all has been received.  From it follows each step of the channel:
what the receiver takes is the oldest message sent and not received.  `CalmInv` counts: without failures as many
buffers of the heap are taken as messages wait, each action moving one of them or none (`ExactMoves`), and a queue is deleted only when it is empty.

*Session.*  The session is seen as a handshake (`HP`) and as streams (`SP`), by variables derived from its own: for the handshake a slave
in the streams is past its end, and a slave that has given up its queue of the transaction is before its next one; the streams have
all buffers but the handshake's, and only the counts of tasks that exist.  Every step of the session is then a step of
the one, of the other, or of neither (`HsHostSteps`, `StTaskStep`, ...), so their inductive invariants hold of the session
(`RunInv`).  `HsFresh` and `StEnter` show that they hold where a handshake and streams begin, whatever earlier runs have left.
What `RunInv` adds ties the phases to each other: which queue exists when (`OwnInv`), that the host's threads have ended
once it goes on (`ThreadsInv`) and the slave's tasks once it does (`SlaveInv`, from `CountInv` of the streams), that the one message of the
transaction and the buffer change hands together (`DataInv`), and how far the end of one run and the start of the next
overlap (`EndInv`): the host may already look for `SlaveProcQ` while the slave still deletes its tasks.
Until a call fails two more parts hold.  `QuietInv` accounts for the buffers: the streams have those of their waiting messages, the
transaction has its one message, and at the end of a run there is none.  `PaceInv` says that no task gets past opening its queue,
or ends, before the host has created the thread at the other end: a task that sends has opened a queue that only this thread creates,
and one that receives has got at least one message from it.  So all tasks have ended only when `main` is past its
handshake (`HostStreamsFirst`), and each step maps to one of `Rounds` (`NextInStep`).

*V4L2.*  The buffers with the driver, whatever it is doing with them, are one queue (`SrcWithDriver`, `DstWithDriver`): the program appends
to it and takes from its front, and the driver's own steps do not change it (`Owned`).  `Counted` relates the frames left to
those written, `SourcesFilled` and `Alternating` the buffers to the part of the file that they hold, `FramesMade` the frames in
the destination buffers to the fields that were used up.

*Transfer.*  Between two calls `addr` lags behind the bytes moved by exactly `ret`, and `ret` is at most what has been
moved; so a rest of 0 means that one call did everything.

*Bandwidth tool.*  `Reading` says that the settings are those of the words read so far.  `Delaying` bounds what each of
the four reads may be late by, which carries the periods over a wrap of the counter.  `ListInv` says of the initiators
handled so far that the events of a collector's filters are those of the first four of its initiators, and that an entry
of the table points at the filter with its event; `SampInv` that a collector which is being read stands still at the moment of
its stop.

*DRM.*  `DispInv` follows what the kernel shows through the steps of the set-up and of its undoing, in five parts (device, routes, LCD,
HDMI, planes).  The fills are arithmetic: a lemma per layout for the offsets (`FillStaysInside`) and for the pixels (`PackedDrawn`,
`RgbDrawn`, `SemiPlanarDrawn`), on integer division by 2, by the number of bars and by the side of a tile.

*Load monitor.*  `Balanced` says what the parts sum up to in the middle of an update and of a reset: what the hook has
loaded but not yet stored, and what the reset has not reached yet.  *Set-up.*  `SetupInv` says for each place of `main` what has been set up by then.
*Cfg file.*  `ParseInv` says where the parser is in terms of the number of words read, all lines together (`PosOf`): the flag is its parity,
the key is the word before, `linecount` the number of lines passed that are no comments (`RankIn`), and each entry of `xyz` has the
last values among the words read (`EntriesHold`).  The numbers are sums over lines and cardinalities, which the lemmas
`StartsAddUp`, `PlacesApart` and `RanksCount` make into steps of one word and one line.

What a recursive definition computes cannot be proved by induction here, as said below; but a definition by a recursive function,
or by a fold of the community modules, can be reasoned about first-order: it equals a function that exists (shown by taking the
least number, or the smallest subset, for which there is none: `LeastNumber`, `SmallestSubset`), and a least counterexample
contradicts the equation.  So `RegionStart` is shown to add up the sizes of the lines before, and `FoldSet` to change by what one summand changes.

`TypeOK`, `TableFollowsPlan`, `RegionsTile` and `Contiguous` are conjuncts or consequences of these invariants, proved for all
constants; `TableFollowsPlan` and `RegionsTile` are checked within `IInv`.

### Only model-checked

- All liveness, which is beyond the prover: `HandshakeEnds`, `HostLeaves`, `StreamsEnd`, `AllRunsServed`, `TransactionAnswered`,
  `MainEnds`, `CollectionEnds`, and what `StreamsAreOneWay` and `StaysInStep` say beyond safety.

Every safety property and every action property of the passing runs is proved, with the hypotheses above.

## 5. Plan

What is left are models: the GStreamer player's table of pipelines; the EGL test's clean-up; allocating and mapping buffers in V (V:252-305).

## 6. Not modelled

- *GStreamer player, EGL test*: a table of pipelines, and a clean-up reached from two places.  Two hazards are listed for them;
  the rest of both programs is calls of libraries whose behaviour the source does not show.
- *Sensor configuration*: ioctls in a row, without state between them.
- *V*: arguments, formats and the mapping of buffers.
- *CPU load plug-ins, thermal scripts, plotters, build files*: I/O and formatting; no state that a model would say anything about.
- *Restart of the host during a run*: the code handles none.
- *External*: MessageQ, MmRpc, the V4L2 driver, the kernel's mode setting, libkms, the collectors' and EMIFs' hardware.  Their modules state
  only what these programs rely on.
