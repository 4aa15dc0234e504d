# Verification of stream-data-pipeline

TLA+ specifications, TLC configurations and TLAPS proofs for the C applets of
stream-data-pipeline. Paths below are relative to the repository root.

## The system

An *ingestor* (here the demo server `scripts/udp_stream_data_server.sh`) writes
one directory per session: the payload `{sid}.bin`, one metadata line per chunk
in `{sid}.meta.jsonl`, and at the end the sentinel `.pipeline_end`. For each
session it starts `pipeline_dispatcher`, which forks three applets connected by
pipes:

    stream_merge sid dir | log_parse --filter type=clip | clip_store --db db --ttl n

| part | state it keeps | operations | talks to |
|---|---|---|---|
| `stream_merge/sm_fsm.c` | the open clip, the expected number and offset, the time of the last chunk | process_record, check_idle, flush_final | called by stream_merge |
| `stream_merge/stream_merge.c` | two inotify descriptors, the read position, `meta_buf`, `saw_sentinel` | start-up, drain_meta, main loop, final drain and flush | the session directory; stdout |
| `stream_merge/sm_reader.c`, `sm_events.c` | none; a bounded set of tags (unused at this commit) | parse_line; add_tag, add_all | called by stream_merge |
| session directory | three files | created, appended to and closed by the ingestor | inotify (`lib/libpipeline.c`) |
| `clip_store/` | an append-only file of tab-separated rows with tombstones and times to live; an in-memory row index | append from stdin, `--get`, `--prefix`, `--list`, `--set`, `--delete`, `--compact` | other clip_store processes, by flock and rename |
| `log_parse/` | a filter expression, a compiled regex, one line | select, rewrite or skip a line | stdin, stdout |
| `pipeline_dispatcher/` | child pids, the process group, the interrupted flag | build the stages, spawn, forward signals, wait | its children, by fork, pipe and kill |
| `lib/dynamic_buffer.c`, `jsonl_codec.c`, `base64.c` | a growable buffer; none; none | append, reserve; read and write scalars; encode, decode | called by every applet |

What is hard to get right, and where a unit test hardly reaches:

* **Two processes, no lock.** The ingestor writes while stream_merge reads; a
  line can be read half written, a file can appear between two looks, and the
  only wake-up is an inotify event that must not be consumed too early.
* **Ordering of gaps, windows and timeouts** in the clip state machine, over
  sequences of records far longer than a test writes down.
* **Several clip_store processes on one database file**, one of them replacing
  the file under the others; crashes between write, sync and rename.
* **Signals and process lifetimes** in the dispatcher: a signal between a test
  and a wait, between fork and exec, a stage that fails to start.
* **Widths**: numbers from the network in 64-bit sums, capacities near the top
  of `size_t`, JSON numbers beyond 2^53.

## What is modelled

| module | models | kind |
|---|---|---|
| `SmFsm` | the struct, the tests and the state changes of `sm_fsm.c`, as operators | pure |
| `Segmentation` | what a clip cutter promises, with none of its bookkeeping | abstract specification |
| `ClipFsm` | `sm_fsm.c` driven by any caller; one action per branch of an exported function | state machine |
| `SessionDir` | the session directory, the ingestor, the two inotify queues | component |
| `StreamMerge` | the process `stream_merge.c`; composes `ClipFsm` and `SessionDir` | composition |
| `ClipIndex` | what clip_store promises: an index of keys shared by any number of invocations | abstract specification |
| `ClipStore` | `clip_store.c`, `db_format.c`, `db_compact.c` and the result of `db_query.c`: any number of processes on one database path | component |
| `RowMap` | what the row index promises: a map into which rows are put in order | abstract specification |
| `RowIndex` | the hash table of `db_query.c` and the load of a file into it | component |
| `DbFormat` | the value field of a database line: `base64.c` and its use in `db_format.c` | pure |
| `PdConfig` | the option checks of `pd_config.c` | pure |
| `Dispatcher` | `pipeline_dispatcher.c`, `pd_pipeline.c`, `pd_spawn.c`, `pd_signal.c`, with the three stages as far as they matter to it | composition |
| `JsonlCodec` | the getters of `jsonl_codec.c`, numbers as doubles | pure |
| `LogFilter` | `log_filter_expr.c` | pure |
| `DynamicBuffer` | `dynamic_buffer.c` | pure |
| `LogParse` | `log_parse.c`, `log_regex.c`, `log_output_format.c` | component |
| `ClipFsmProofs`, `StreamMergeProofs`, `ClipStoreProofs`, `RowIndexProofs`, `DbFormatProofs`, `DispatcherProofs`, `LogParseProofs` | theorems about the module in the name | proofs |
| `RecursionProofs` | lemmas about recursive functions and concatenations, for `LogParseProofs` | proofs |
| `MCClipFsm`, `MCStreamMerge`, `MCClipStore`, `MCRowIndex`, `MCDispatcher`, `MCLogParse` | the sets TLC uses | instances |

**ClipFsm.** `fsm` is `sm_fsm_t` without the event set (the reader never fills
it) and without the wall-clock stamp, of which only the age `quiet` matters;
`clips` are the snapshots handed to `handle_action`. `taken` and `cuts` are
history: the records accepted, and for each clip how many of them it closed and
why. `Begin`, `RejectLate`, `CutAtGap`, `CutAtWindow` and `Extend` are the five
returns of `sm_fsm_process_record`, with the guards in the order of its tests;
`FlushIdle` and `FlushFinal` are the other two functions. A caller may send any
record at any time until the final flush.

**SessionDir.** The sidecar is measured in half lines, so that a reader meets a
line without its newline. An inotify queue is the set of names it holds: nothing
else of an event is used. The directory watch reports a file when its writer
closes it (`IN_CLOSE_WRITE`), the file watch each write. The ingestor is wider
than the demo server: it may start after the reader, leave lines that are not
data, and close the sidecar before or after the sentinel or never. What it
keeps of `write_chunk` is the order: payload first, then the line, with the
offset equal to the size of `.bin`.

**StreamMerge.** One action is one system call and the code up to the next one;
the ingestor and the clock move in between. `pc` names the next call, `got` and
`fed` are the read position and the part of it that has left `meta_buf`,
`phase` is which of the three calls of `drain_meta` runs. A clip may fail to be
printed, and any system call may fail; both end with status 1. `read` in the
loop of `drain_meta` is one step: it takes what the file holds at the call that
returns 0. `poll` that returns with `EINTR` repeats and is left out.

**ClipStore.** A process runs one invocation after another: `Open`, `Lock`, the
command, `Flush` and `Close`. What the path names (`db`), what `.tmp` names and
what a descriptor refers to are inodes, so a rename changes the first and not
the last; `owner` is the flock, taken on the inode. A row printed by
`append_db_row` stays in `buf` until the next `fseek` or `fclose` writes it at
`pos`, the end of the file at its own `fseek`; `WriteFails` writes nothing, or
the start of a line, and the first row after that shares its line and does not
parse. Compaction is `Load`, `OpenTmp`, `FlushTmp`, `Rename`, each of which may
fail. `Die` is a kill at any point; the buffer goes, `.tmp` stays. The clock
moves freely; `t` is the time read after the lock and `NewRow` says which of
the two times an expiry counts from. A row is its key, expiry and whether it is
a tombstone; lines have equal length; a row is written by one `write`. History:
`id` numbers the rows, `acked` are the rows callers were told are stored.
`GcAlone` and `DiskMayFill` are assumptions on the surroundings that runs switch.

**ClipIndex.** A row takes effect at one moment between its submission and the
end of its invocation; success means that all have; an answer is the live rows
of the keys asked for at one moment; a row leaves without a successor only when
no query could return it. Under the refinement mapping the index is the latest
parsed row of each key in the file the path names.

**RowIndex.** One action is one iteration of a loop of `row_index_grow`, or the
code between two loops. `hash` is chosen in the initial state, so that every
way of colliding occurs; `index` is the table in use and `grown` the one being
filled. `find_slot` is the first probe that meets the key or an empty slot; that
there is one is a property (`ProbeEnds`), not an assumption. A line of the file
is a row that was appended, and the row put is what `DbFormat` reads back from
what it wrote: a base64 character is its index in the table, the compressor an
arbitrary injective map from values to bytes. When memory runs out in a put the
load fails; when it runs out while a value is unpacked, the code takes the line
for one that does not parse and goes on (`ParseFails`).

**RowMap.** A row is submitted and then taken, or given up; the map changes in no
other way until it is dropped whole. Under the refinement mapping the map is what
`row_index_get` answers for each key, in the middle of a growth too, and the row
submitted is the one that was appended, not the one that was parsed.

**Dispatcher.** One action is one system call of the dispatcher or of a child
between fork and exec. `raw` are the pipe ends a process holds as the numbers it
inherited; a child that has done its `dup2` holds its standard input and output
besides. The kernel's part is in `Open` (an end is open while any process holds
it), `Exits` (a process that ends gives up its ends and stays a zombie) and
`Signal`: to the dispatcher alone or to the whole group, which kills stages that
run their applet, while a child before its `exec` has the inherited handler and
survives. `waitpid` is `Wait`, then `WaitReturns` or `WaitInterrupted`; only a
signal that arrives in between (`woken`) interrupts it. The stages are kept to
lines: stream_merge prints and flushes one, log_parse gathers several in the
buffer of its stdout, clip_store takes them; any of them may fail at any time.
`PdConfig` enumerates classes of option strings ("-5" is accepted, as by strtoul).

**LogParse.** `opt` is what `getopt_long` delivers; `Options` makes the tests that
follow it. In JSONL mode a line is an object, or malformed, and passes through
`HandleObject` in one step, since nothing of it is kept. In regex mode a line
comes with what the expression captures: `Capture` copies the groups, and
`HandleFields` filters; an output line is then built in a `DynamicBuffer` one
append at a time (`AppendPiece`), each of which may fail, and printed whole. A
text is a sequence of tokens: the characters the code treats specially, and
words. A number is counted in halves, in a literal, a capture and an aggregate
alike, and a double is exact up to `Precision`, so that fractions and rounding
occur; the getter of JSONL mode tests what it reads for range and fraction,
while `atof` of regex mode takes the double nearest to what is written. Sizes are bounded by `SizeMax`, and one
word is longer than the others, so that a buffer doubles, is asked for exactly
what is needed, and overflows.

## Runs

| run | question | bounds |
|---|---|---|
| `clip_fsm` | do the cuts partition the accepted records into contiguous, window-bounded clips that carry the right range, reason and flag; does the machine implement `Segmentation`? | 3 accepted records (any number rejected), numbers and offsets 0..2, lengths 0 and 1, timestamps -1, 0, 1, window 2, idle timeout 1 |
| `clip_fsm_late` | are late records always rejected? (violated) | the same |
| `stream_merge` | are wake-ups lost, lines fed twice or not at all, clips printed before their bytes; does a sentinel end the run, does an idle clip leave? | sessions of up to 3 lines, each data or not, window 2, idle timeout 1, poll 2 and sidecar wait 1 time units |
| `stream_merge_loss` | does status 0 mean every record was processed? (violated) | the same |
| `clip_store` | do interleaved invocations, deaths and failing commands leave one index, in which no acknowledged row is lost, with compactions that drop what is dead? | 2 processes, 2 keys, 3 invocations, ttl 0 or 1, a clock of 2 values, stdin delivers while fewer than 2 rows exist; compaction runs alone, the disk does not fill |
| `clip_store_faults` | does an old row ever come back; does every invocation end? | 1 key, 4 invocations, no expiry; the disk may fill at any write |
| `clip_store_race` | is an acknowledged row kept when compaction may overlap other invocations? (violated) | those of `clip_store` |
| `clip_store_full` | is a row acknowledged with status 0 stored when the disk may fill? (violated) | those of `clip_store` |
| `row_index` | does the table in which clip_store loads its rows behave as a map, whatever the keys hash to, while it grows and when memory runs out; do rows read back as they were written? | 4 keys, 4 values (a tombstone, and values packed in 1, 2 and 3 bytes), hash values 1, 3, 7, 2 buckets at first |
| `dispatcher` | is a child ever left behind, does the status tell the truth, does the end of a stage or a signal end the run? | 3 lines printed by stream_merge, pipes of 1 line, a stdio buffer of 2 lines, 2 signals |
| `dispatcher_signal` | does a signal end the run whenever it comes? (violated) | the same with 1 line and 1 signal |
| `log_parse` | are exactly the selected lines printed, counted or aggregated, each whole and unambiguous? | 432 command lines; every 2 lines of 12 objects or 11 captures; doubles exact up to 16, sizes to 34, first capacity 3 |

Three records are the least that reach every pair of causes: a clip closed by a
gap or a boundary whose successor is closed by another cause, with an idle flush
between. Timestamps two apart stand at the boundary of a window of 2, and go
backwards and below zero. Three lines let a read end in the first half of a
line while another is complete and the sentinel appears. The two timers are as
short as they can be and still differ from zero, so that every order of timeout
and event occurs.

Three invocations let one store, one compact and one query or store again, each
dying anywhere; a fourth, with one key, lets a compaction die over its `.tmp`, a
delete follow, and another compaction meet the leftover. Two processes are
enough for one holder of the lock and one waiting on what may be a stale inode.

Two buckets grow to 4 and 8 for 2 and 3 keys; the fourth key, or a row of a known
one, is then put without growing. Hash values 1, 3 and 7 are equal modulo 2,
two of them modulo 4, and none modulo 8, so growth separates some keys that
collided, and a probe wraps around the end of the table. One, two and three
bytes are the three lengths base64 tells apart.

Three lines, pipes of one line and a buffer of two are the least with which a
writer blocks, a line waits in every place, and one is left in the buffer at the
end. Two signals are one that is missed and one that is not.

With a precision of 16 the largest safe integer is 15; 17 rounds to its neighbour
16. Objects and captures hold 2.5 too, which a double can hold, and captures
-0.5 and texts that are no number; -8.5 in an object is a fraction it cannot hold.
Sizes up to 34 and a word of 25 make the capacity go 3, 6, 12, 24 and then to the
exact need, and two such words overflow. Two lines are the first and the next: a
value kept from one, or an extreme that starts wrongly, shows in the other.

**Fairness.** `FairMSpec` assumes weak fairness of the process (the operating
system schedules it; its calls other than `poll` do not block) and of the clock
(time passes). Nothing is assumed of the ingestor: it may stop for ever in the
middle of a line. Failing system calls are allowed, never required.

`FairSpec` of `ClipStore` assumes weak fairness of each process: its system calls
return once the lock is free, and its stdin ends (it is the end of a pipeline,
or `/dev/null`). A process that holds the lock while stdin stays open blocks all
others for as long, which is why the second half is stated as an assumption.

`FairSpec` of `Dispatcher` assumes that every process is scheduled: the
dispatcher, each child until its `exec`, writes to a pipe that has room or no
reader, and log_parse and clip_store while they have input or its end. Nothing
is assumed of stream_merge but that it finishes a write: a session may be silent
for ever. Nothing has to fail, and no signal has to come.

Deadlock is not checked: the machine stops after its final flush, and the
process and the ingestor stop when they have ended; no more invocations need come;
the dispatcher, a load and log_parse end.

### Properties

`ClipFsm`: `CutsPartition` (no record lost or in two clips), `ClipsDescribeRecords`
(a clip is the range and the span of its records), `NoHoleInsideClip`,
`InsideWindow`, `CutsJustified` (each cut has its cause in the neighbouring
records, and the complete flag names it), `SequenceAdvances`, `NoOverflow`,
`ImplementsSegmentation`.

`StreamMerge`: `NoLostWakeup` (the process never polls with something unread
and no event pending), `EveryRecordTakenOnce`, `CleanExitIsComplete`,
`ClipBytesOnDisk`, `DrivesFsm` (the process uses the state machine only as
`ClipFsm` allows: refinement), and, under fairness, `SentinelEndsRun`,
`IdleClipLeaves` and `WrittenLinesAreFed`.

`ClipStore`: `NoAckedRowLost` (after status 0 a key holds that row or a later
one), `ImplementsIndex`, `CompactionDropsDead`, `RowsOnlyAdvance` (no stale
temporary file, torn line or lost buffer brings an older row back), and, under
fairness, `RunsEnd`.

`RowIndex`: `ProbeEnds` (a free slot within every probe sequence, in both
tables), `EveryRowFindable` (no row behind an empty slot of its sequence, no key
twice), `ImplementsRowMap`.

`Dispatcher`: `ExitCodeIsTruthful`, `NoChildLeft`, `OkMeansDelivered` (status 0
means that each line printed by stream_merge was filtered out or taken by
clip_store), and, under fairness, `EndOfInputEndsAll`, `BrokenPipelineEnds` (a
stage that dies is noticed through SIGPIPE, since the children are awaited in
order; no process but the reader may hold a read end) and `SignalInWaitEndsRun`.

`LogParse`: `OutputIsOfSelectedLines`, `SummaryIsOfSelectedLines` (counts and
aggregates are of the numbers as they were written: those of a regex line with
their fractions, and 0 for a text that is no number; those of a JSON line
without its fractions and without integers that a double cannot tell apart),
`OutputUnambiguous` (two records never give one output line),
`BufferHoldsPieces`. What the expression asks for is defined apart from the code
(`Asked`, `Passes`): an expression whose key and value are free of operator
characters means what the manual says of it. Both properties speak of input whose numbers a
double can hold (`Exactly`): in regex mode every number that is aggregated, in
JSONL mode every fraction, while its integers may be of any size. The sum is
exact as long as a double holds every partial sum.

### Disagreements with the documentation

* `clip_fsm_late`: an idle flush zeroes `expected_seq` (`sm_fsm.c:87`), so a
  duplicate of a flushed chunk starts a new clip over the same bytes, while
  `sm_fsm.h:68` and `.docs/applets/stream-merge.md:89` say late records are
  rejected. `SequenceAdvances` states what does hold.
* `stream_merge_loss`: when the sidecar is missing at start-up and one wake-up
  reports the sentinel, the sidecar is not opened any more (`stream_merge.c:268`)
  and the process ends with status 0, with every record of the session unread;
  `man/stream_merge.1:65` and `15-17` promise otherwise. `CleanExitIsComplete`
  states what holds for a process that had opened the sidecar.
* `clip_store_race`: a writer opens the database, a compaction that holds the
  lock renames a new file over it, the writer gets the lock of the old inode,
  appends there and ends with status 0 (`clip_store.c:198`); the row is in no
  file a path names. `man/clip_store.1:38-39` promises concurrent writers
  without corruption.
* `clip_store_full`: the last row is written by `fclose`, whose result is not
  looked at (`clip_store.c:285`); `man/clip_store.1:70-74` reserves status 0 for
  success and gives 1 to I/O errors.
* `dispatcher_signal`: a signal between the test of the flag
  (`pd_pipeline.c:111`) and `waitpid` (`pd_spawn.c:49`) only sets the flag, which
  is not read again: with a silent session the dispatcher waits for ever.
  `man/pipeline_dispatcher.1:61-62` and `.docs/applets/pipeline-dispatcher.md:37`
  say that SIGINT and SIGTERM end it. `SignalInWaitEndsRun` states what does hold.

Seen while modelling, with no run of their own: an expired latest row hides an
older live one, where `man/clip_store.1:57-62` speaks of the latest non-expired
record; the last clip of a session is marked complete even when it is cut short
(`sm_fsm.c:98`, `man/stream_merge.1:59-61`); two clips of a session with equal
`ts` share a key. A row whose value cannot be unpacked for want of memory is
passed over (`db_format.c:64`), and a compaction then drops it for good with
status 0. A SIGTERM that a child receives before its `exec` is lost, so the
dispatcher's cleanup waits until that child's input ends. `pd_config.c` accepts
negative numbers for every option. log_parse exits with status 2 after an error
of its input or for want of memory, and takes `--filter` together with
`--regex`; in JSONL mode its aggregates leave out numbers that are no integers or are
beyond 2^53 - 1, while in regex mode `atof` (`log_parse.c:234`) keeps fractions,
takes a text that is no number for 0 and rounds integers beyond 2^53 without
notice; an operator of higher precedence in a value splits the expression there.
A JSON fraction above 2^52 is rounded to an integer by the parser, before
`jsonl_get_int64` tests it for one, and is then taken for that integer, where
the comments at `jsonl_codec.c:9-12` and `80` speak of refusing fractions and
rounded values; `Exactly` leaves such input out of the two properties.

## Proofs

`ClipFsmProofs` proves, for every `ClipMs` and `IdleMs` (negative ones included:
they come from `atof`), every `MaxSafe`, every set of records within the codec's
range and every number of records:

* `TypeCorrect`: the type invariant.
* `Invariance`: the inductive invariant `Inv`, the conjunction of all of the
  safety invariants of `ClipFsm` but `NoOverflow`. They lean on each other: the
  description of the open window needs the partition to know which records are
  in it; that neighbours in a clip are contiguous needs `expectedSeq` and
  `expectedOffset` to be those of the last accepted record, which is part of
  `ClipsDescribeRecords`; the window bound needs `fsm.start` to be the first
  record's; that numbers go up across a cut needs that an inactive machine was
  left by a flush; and the justification of a cut speaks of the record after
  it, so it needs that the histories only grow.
* `PartitionTheorem`, `DescribeTheorem`, `NoHoleTheorem`, `WindowTheorem`,
  `JustifiedTheorem`, `SequenceTheorem`: its parts as theorems of `Spec`.
* `NoOverflowTheorem`: a consequence of the invariant. The running total of a
  clip is a difference of two offsets, so it stays within twice the safe range
  however many records are added.
* `Implementation`: `Spec` implements `Segmentation`. A step of the machine has
  one of four shapes (`Opening`, `Growing`, `Turning`, `Closing`) or changes
  nothing; the invariant turns the test of `sm_fsm.c` for a gap and for the
  window into the abstract `Fits`.

The assumptions are `SmFsmAssumption` (types of the constants; the records lie
within the range `jsonl_codec` accepts) and `ClipFsmAssumption`.

`DispatcherProofs` proves, for pipes and stdio buffers of every size and any
number of lines and signals (`DispatcherAssumption`), that `NoChildLeft`,
`ExitCodeIsTruthful`, `OkMeansDelivered` and `DispatcherTypeOK` hold, from the
inductive invariant `Inv` (`DispatcherInvariant`). Its parts, and why each is
needed:

* `Children`: how far each loop has come. `spawn` has started the stages below
  `at` and no other, `wait` and `reap` have collected those below `at`. At the
  end of the last loop this is `NoChildLeft`. `kill` needs no such part: a child
  it could not kill is waited for.
* `Statuses`: what `rc` rests on. A stage has a verdict exactly when it is ending
  or has ended; while `rc` is 0 in the wait loop every stage below `at` ended
  well; the wait is only interrupted after a signal.
* `Descriptors`: the dispatcher holds pipe ends only while it spawns and closes,
  a child only until it has closed what it inherited. Hence an end that nobody
  holds stays closed (`StaysClosed`).
* `Hands` and `Conserved`: each line is dropped, stored, in a pipe or in hand,
  and none is missing unless a stage failed or was killed.
* `Eof`: a stage that ended well left its pipe empty and without a writer, and
  that is final (`EmptyStaysEmpty`, `StaysClosed`). With `Conserved` and a
  status of 0 it gives `OkMeansDelivered`.

Steps of the stages and signals are split off once (`Frame`): they never start
or reap a child and never open an end, so the lemmas about the loops look only
at the dispatcher's own steps.

`StreamMergeProofs` proves `NoLostWakeup`, `EveryRecordTakenOnce`,
`CleanExitIsComplete`, `ClipBytesOnDisk`, `MTypeOK` and the refinement `DrivesFsm`
for all timeouts, any number of lines and every interleaving with the ingestor
and the clock (`StreamMergeInvariance`, the invariant `MInv`):

* `Wakeups`: what has happened and is not known yet has an event in a queue,
  wherever the process stands; only between the emptying of a queue and the look
  that follows is nothing claimed. At `poll` this is `NoLostWakeup`.
* `SentinelIsLast`: once the sentinel is seen no line is added, so the final drain
  reads to the end of the session and not only to the end of what there is.
* `FinalDrain`: in the last phase everything is read and then fed before the
  flush; this is what `CleanExitIsComplete` needs of the steps before the exit.
* `Output`, `Fed`: a clip is printed in the step that cuts it; the machine took
  lines that have left the buffer, whose bytes were written before them.
* `Inv` of `ClipFsmProofs`: the process shares its variables with the state machine.

`DrivesFsm` shows each step to be a step of `ClipFsm` or a stutter, so that
`ProcessSegments` carries all of `ClipFsmProofs`, the refinement of
`Segmentation` included, over to the clips the process prints.

`DbFormatProofs` proves that base64 of any nonempty text of bytes decodes to that
text (`RoundTrip`), for every length modulo three, and that a row reads back as
it was written (`ReadsWhatWasWritten`), given a compressor that is injective and
never returns nothing (`DbFormatAssumption`).

`RowIndexProofs` proves `ProbeEnds`, `EveryRowFindable` and the refinement of
`RowMap`, for any keys, any hash function, any file and any first capacity of at
least two. `RInv` adds to these properties:

* `Putting`: the row in hand is the one appended to the file (by
  `ReadsWhatWasWritten`), and when it is inserted the table has room for it. That
  the load limit leaves a free slot, and a probe meets every slot, makes a search
  end (`SearchEnds`).
* `Growing`: during a growth the new table has exactly the rows of the slots
  below the cursor, so at its end it answers every key as the old one did. The
  moved rows are counted against those slots, which keeps room in the new table.

That a table stays findable when a row is put is the lemma `StoreFindable`:
filling the slot where the search for a key ends leaves every other row where
its own search ends.

`ClipStoreProofs` proves, for any number of processes, keys, invocations and
rows, with invocations failing and dying anywhere, under the assumption that a
compaction runs alone (`GcAlone`): `StoreTypeOK`, `CompactionDropsDead` and, on a
disk that may fill up at any write, `RowsOnlyAdvance`. If the disk does not fill
up besides, it proves `NoAckedRowLost` and the refinement `ImplementsIndex`. Both
assumptions are needed: the runs `clip_store_race` and `clip_store_full` show what
happens without them. The invariant `CInv` has the parts

* `Locks`: who is past the flock holds it, of the inode it has open, and no lock
  is held otherwise.
* `Opened`, `Names`: a running process has the inode open that the path names,
  save a compaction past its rename. With `Locks`, at most one process is past
  the lock (`Sole`), so a step of one leaves nothing of another at stake.
* `Rewriting`: what a compaction has loaded is what is live in the file, and what
  is in its temporary file is that; a leftover `.tmp` is truncated before use.
* `Ids`, `Pending`: rows of the file are numbered up to `serial`, and a buffered
  row has a higher number than those and goes to the end of the file. This is
  what makes a flush an advance, in the middle of a torn line too.
* `Whole`, `Stored`, `Acked`: without a full disk no line is torn, what a process
  that has not failed has printed is the latest row of its key but for the one
  in its buffer, and so is what was acknowledged, until it expires.

In the refinement, `Open`, `Lock` and a read start, enter and answer an abstract
invocation; `AppendRow` submits a row, the flush that writes it commits it; a
rename of the compacted file forgets what is dead; failures and deaths fail the
invocation; all else is a stutter. A row takes effect when it is written, not
when it is printed, which is why the abstract index has pending rows.

`LogParseProofs` proves the five properties of `LogParse` for any options, lines,
precision and sizes, from `LogParseAssumption` (a line that matches has a place
for each field asked for, with one text or none), `CodecAssumption` (the
precision is even) and `BufferAssumption`. The invariant of the steps is `LInv`:

* `Phased`: which phase holds what. The line worked on is the last one read, the
  values are its own from the copy to the end of the line, and the filter is the
  parsed expression once the options are through.
* `Emitting`: the text of the buffer is the first `at - 1` pieces of the line, and
  `Holds` of the buffer, which an append keeps (`AppendHolds`), a doubling that
  stops at the exact need included (`GrownCapIs`).

Two more invariants speak of the lines read so far. `Delivered` relates `out` to
the lines the expression selects, `Tallied` the aggregate and the count to their
numbers. Both rest on lemmas about the operators:

* `ParsesWhatWasAsked`: the parser finds in a plain expression the key, operator
  and value it was put together from, and nothing else; it does not matter that
  it tries the operators in a fixed order.
* `GetsWhatWasWritten`: the codec gives back an integer below the precision and
  refuses one beyond it, since a double never rounds across the bound
  (`RoundExact`, `RoundLarge`), and it refuses a fraction that a double can hold.
  `HeldExact`: such a number is not rounded, which gives the numbers `atof` reads
  and, for the partial sums, the sum. Both invariants have `Sound`, the
  precondition of the two properties, and once it fails for the lines read it
  fails for good (`SoundBefore`).
* `LinesReadBack` rests on `SameWords`: texts made of words are equal word by word
  if any two words of which neither differs from the start of the other are
  equal. It is used twice. An escaped character is such a word
  (`EscapedWords`), which gives `JsonStringsDiffer` and `CsvTextsDiffer`; and a
  line is made of such words, once a comma is counted to the field before it
  (`CsvWordsAre`).

Such operators are recursive functions, and the library's induction theorems take
an operator as a parameter. `RecursionProofs` does without: a set of numbers that
holds 0 and the successor of each of its members is `Nat` (`Inductive`, from the
well-foundedness of `<`), so a property is stated as a set; `RecursionExists`
says that a recursive definition over a measured domain has a value that
satisfies its equation, and `Flatten...` what the concatenation of the community
modules does.

The liveness properties are model-checked only: fairness and ENABLED are out of
the prover's reach. They are `SentinelEndsRun`, `IdleClipLeaves`,
`WrittenLinesAreFed`, `RunsEnd`, `EndOfInputEndsAll`, `BrokenPipelineEnds` and
`SignalInWaitEndsRun`. Every other property of a passing run is a theorem.

## Not modelled, and why

* Durability against power loss: `fsync` of the temporary file is one step with
  its flush, and no step makes the disk forget. The code never syncs a normal
  append or the directory.
* Text: JSON parsing (cJSON), the compressor, regular expressions, the layout of
  output lines and option parsing. What they let through is an input of the
  models (a line is a record, or not; a row parses, or not; a line captures
  these groups). cJSON and miniz are submodules that are not in the tree, so what
  `db_format.c:79` makes of a decompressor that reports a full buffer is left out.
  Keys are free of tabs and line breaks, which the database format does not quote.
* `sm_events.c` keeps a set of tags that nothing fills: `sm_reader.c:21-24` puts
  the field off.
* `main.c` looks up an applet by name; `stream_logger.c` formats diagnostics.
* Failing writes to the stdout of log_parse, whose result the code ignores, and
  `--help` of log_parse, clip_store and stream_merge.
* A `waitpid` of the dispatcher that fails otherwise than with `EINTR`
  (`pd_spawn.c:56-58`): the children are its own and each is awaited once.
* An `open` of the database that fails (`clip_store.c:192-196`): the invocation
  ends with status 1 before it has touched anything.
* The rows of a compaction are written to `.tmp` in one step: what is left by a
  process that dies between two rows is emptied before it is used. After a
  failed emission stream_merge leaves the line in its buffer (`stream_merge.c:125-128`)
  and ends with status 1; the model counts the line as handed over.
* Memory exhaustion appears as a failing step, never as a state; `ClipStore`
  assumes that it does not happen while the lines of a database are parsed.

## Plan

1. `SessionDir` with a session id used twice: the ingestor appends to the old
   `.bin` while offsets restart, and the old sentinel is still there.
2. The composition of `Dispatcher` with `StreamMerge` and `ClipStore` in place of
   its three simple stages.
