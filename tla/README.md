# A TLA+ verification of bigcp

bigcp copies a directory tree on Windows. Its promise is not that a run cannot
be interrupted but that an interruption never costs more than a rerun: whatever
a crash, a failed call, a cancellation or another program leaves behind, the
next run finds it, does not mistake it for finished work, and repairs it. This
directory models the parts of the program that carry that promise, checks them
with TLC on small instances, and proves the central ones with TLAPS for every
value of the constants.

The reference is the source under `crates/`; every definition names the lines it
translates in `PROJECT.json` (`map`).

## 1. The system

| Component | State it keeps | Operations | Talks to |
|---|---|---|---|
| File engine, direct path (`engine.rs`, `win/file.rs`) | open source, whole file in memory, final file | read with sentinel, create or checked reopen, truncate, stamp, write, recheck, restamp, flush, poison | coordinator or worker calls it |
| File engine, streamed path | source, temporary, digest, delete-on-close flag | resume, create, transfer, checkpoint, persist, precommit checks, rename, stamp, flush | journal; a transfer |
| Transfers (`transport.rs`, `engine.rs`) | buffers, channels, flags | pipelined at two or three buffers, same-spindle burst, segmented, plain | called by the streamed path |
| Resume journal (`journal.rs`, `artifact.rs`) | one file of CRC-framed lines; hints, harvest and job signature in memory | open, begin job, append, take, compact | engine appends checkpoints, coordinator retires and reclaims |
| Coordinator (`copy.rs`, `model.rs`) | task deque, counters, outstanding jobs, breaker, cancellation | enter, entry, submit, receive, hand-back, exit, account, finish | everything |
| Worker pool (`worker.rs`) | bounded queues, result channel | take, gather a batch, execute, post, quit | coordinator, engine without journal |
| Classification and filesystem policy | none | compare size, time and attributes as a filesystem can hold them | coordinator, verification |
| Audit log (`audit.rs`), report (`report.rs`) | current file, degraded flag | emit, reopen, fail over, finish; publish, fall back | coordinator |
| Verification, reparse points, directory streams | temporary of a link, digests | compare trees; copy a link through a temporary | coordinator |
| Lock, console cancellation, device profiles, statistics, options, errors, command line, dashboard | a mutex, a latched flag, tables | | |

What is hard here, and hard to test:

* **Interruption.** A kill or a power failure between any two system calls, over
  any number of runs: between truncating and writing, between renaming and
  stamping, between a journal record and the flag it describes.
* **Staleness.** What was enumerated is acted on much later; source, destination
  and temporaries can all be changed in between by other programs.
* **Threads.** One coordinator and many workers over bounded queues in both
  directions, files handed back in the middle of draining for others, three
  threads inside one transfer, and two flags that say "stop".
* **Partial failure.** A rollback that fails, a flush that fails after the stamp,
  one directory of many that cannot be finished; the counters and the exit code
  must still be right.

`PROJECT.json` lists each hazard at its line with the properties that cover it,
or the reason none does.

## 2. The modules

| Module | Models | Checked by |
|---|---|---|
| `FileCopy` | one file over any number of runs: both strategies of the engine, resume, reclamation, the environment | `MCFileCopy`, three configurations |
| `Publication` | what the streamed strategy promises of the final name | as a property of `FileCopy` |
| `Coordinator` | the walk of one run and its worker pool | `MCCoordinator`, two configurations |
| `Journal` | the journal file, its loader, its writers and the temporaries it proves, over several runs | `MCJournal`, one configuration |
| `Pipeline` | one call of `transfer_pipelined` | itself, two configurations |
| `Streams` | how one large, sparse or many-streamed file is moved into its temporary: boundaries, holes, segments, named streams, resume | `MCStreams`, one configuration |
| `AuditedRun` | a process from its prompt to its exit code: gates, mutex, audit log, reports, dashboard; several processes one after the other | itself, two configurations |
| `Verify` | both kinds of verification and the filesystem policy they compare under | `MCVerify`, one configuration |
| `FileCopyProofs`, `CoordinatorProofs`, `JournalProofs`, `PipelineProofs`, `StreamsProofs`, `AuditedRunProofs`, `VerifyProofs` | the inductive invariant of each module and what follows from it, section 5 | TLAPS |
| `Induction` | induction over the naturals for sets, which the proofs about recursive functions cite | TLAPS |

They meet at their interfaces. `FileCopy` has the journal of one file as one
record that may be there or not; `Journal` shows what a reader of the real file
finds after appends that were cut short, which is that record or an
unacknowledged later one. `FileCopy` transfers a chunk in one step and takes a
checkpoint after it; `Pipeline` shows that a transfer that returns Ok has written
and hashed exactly what the checkpoint then attests. `Streams` opens up what
`FileCopy` calls the streamed transfer, with every stream and every strategy, and
leaves the destination's own races to `FileCopy`. `Coordinator` runs a copy as
one step with any outcome; `FileCopy` shows what each outcome means. `AuditedRun`
takes the whole walk as one step with an exit code, which `Coordinator` earns.
`Verify` starts from a tree as a copy leaves it on a given file system.

### FileCopy

A chunk is `<<v, i>>`, the i-th chunk of version v of the source, and a digest is
the sequence digested. Every version has its own last-write time, so a version
stands for the identity, size and time the code compares. `store` maps file
identities to objects (data, last-write time, whether flushed, whether bigcp's
own, whether changed behind its back), `final` and `part` are names, `ckpt` is
the journal's record, `pc` is the place in `copy_file`. Actions follow the calls:
`CreateNew`, `OpenExisting`, `Truncate`, `Stamp`, `WriteChunk`, `RecheckSource`,
`Finish` for the direct path; `ResumeVerified`, `MakeTemp`, `ArmDelete`,
`TransferChunk`, `AppendCheckpoint`, `PersistForResume`, `Precommit`,
`ClearDelete`, `Rename`, `SetBasic` for the streamed one; `StartRun`, `Reclaim`,
`EndRun` for what `copy.rs` does around the file. Every system call has a fault
action. `SourceRewritten`, `SourceReplaced`, `ForeignFinal`, `ForeignPart`,
`Crash` and `PowerLoss` are the environment; `MaxFaults` bounds them. `Modes`
ranges over the endpoint and option combinations that change the order of the
calls (stamp at creation or at the end, `--flush`, the deferred check of a
same-spindle batch).

Left out: EFS and protected DACLs; several streams, extended attributes, sparse
and segmented transfers are `Streams`'. Re-arming delete-on-close after a failed rename is taken to
succeed.

### Coordinator

One pc for the coordinator thread, one queue, batch and liveness flag for each
worker, the result channel, and the counters the code waits on. A directory task
is entered, its entries are handled one by one (`EntryStopped`, `EntryFails`,
`EntryExcluded`, `FileSkipped`, `FileDispatched`, `FileInline`,
`ChildDirectory`), its children are created, and its exit is pushed, put back
while jobs are in flight, or run. `SubmitFileJob`, `ReceiveFileJob`,
`BeginInline` and `EndInline` are the places where the coordinator meets the
workers; `Awaiting` is every place that blocks. `RequestCancel`, a tripped
breaker and `Abort` stop a run at any moment.

Left out: reparse points, dry runs, extras of directories that are not in the
source. The order of entries and the worker a directory is assigned to are
arbitrary. A worker's copy is one step.

### Journal

A line is a record or junk, and the last one may lack its newline. `Written`,
`Healed` and `Stopped` give what a write can leave: nothing, only the healing
newline, a fragment, a whole record without its newline, the record. `Replay`
applies the loader to one line after the other. `may` records for every path what a reader is
allowed to find: the value of the last acknowledged record, or of an
unacknowledged later one. `parts` are the temporaries kept on the destination;
`forgotten` and `dropped` remember which of them lost their proof and why.

Left out: damage to lines already written, power loss, records of other versions
of the program, oversized records, and more than one stream for each path.

### Pipeline

Reader, hash stage and writer with their own pc; the channels are sequences of
packets, free buffers are counted. The source is the sequence 1, 2, ..., `Length`,
so that `dest` and `digest` can be compared with it. `depth` is chosen at the
start, two (the reader hashes) or three (a thread does). A wait that polls a flag
is enabled when the channel is ready or the flag is set; the one send that does
not poll is enabled only when there is room.

Left out: failure to allocate the buffers, and the sends that set up the free
channel.

### Streams

A unit stands for a stretch of bytes without a boundary in it; its value is the
source's time when it was written, 0 in a hole, so data, digests and versions can
be compared. `st` is the place in `copy_file` and `call` holds its locals: the
strategy, the listed sizes, the allocated ranges, the segment plan, the stream
being moved with its position, its boundary and its hasher. `ListStreams` and
`OpenSource` come in the order of the two callers, then `Route` decides what the
destination can hold, whether a journal is used and whether the file is ordered,
sparse or segmented. `LoopTurn`, `MoveChunk`, `Advance`, `AppendCheckpoint` and
`Persist` are the loop with its cursor, shared by the unnamed and the named
streams; `ReadEnds` to `Commit` is the tail. A segment thread is a record of `th`
with `SegmentOpen`, `SegmentMove` and `SegmentDone`; `HashSource` is the
coordinator's digest meanwhile, and `Join` takes the first error. `Word` is the
largest u64: the boundary arithmetic saturates there. `temps` are the temporaries
on disk with their delete-on-close flag, which `OpenNamed` and `OpenWriter` clear
for a moment and `Rearm` sets again.

Left out: the bytes of extended attributes (reading and writing them is part of
`Validate`, and may fail), the buffers of the listings, short reads in the ordered
loop (`Pipeline` has them).

### AuditedRun

`pc` follows one process through `confirm_preflight_warnings`, the mutex,
`preflight`, `run_copy` and `main`. `file` holds the lines of the primary and of
the fallback log; `em` is a call of `emit` in progress with what follows it, so
that each of its calls (`EmitFirst`, `EmitReopen`, `EmitFailover`, `EmitNotice`,
`EmitAfterNotice`) can fail, tear a line or fail to roll it back. `report` is the
report in memory, `art` the artifact being published, `disk` what readers find.
`LoopTakes`, `LoopReturns`, `LoopFails` and `BrokenReceives` are the thread that
displays; `PlainReturns` is its absence. `Kill` is the second Ctrl+C or any other
end of the process; `Rerun` starts the next one with the same `--log` and
`--report` (a torn tail of the primary log is then followed by the new run's
lines).

Left out: the contents of events and of the report beyond exit code, audit status,
log path and integrity; the copying itself; parsing of arguments; drawing.

### Verify

`policy` is a destination file system with the source's capabilities; `tree` has
both sides by path. The destination is what a copy leaves there, every time
rounded either way, with one `damage` done to it or none. `VerifyRoot`,
`Enumerate`, `MatchEntry` and `Extras` are the walk; `DigestOpens`, `DigestReads`,
`DigestChecks`, `DigestAux`, `DigestEnds` are one file's digest with its open
handle (`held` is the object it keeps when its name is taken), `Compare` the
verdict; `NextTarget` is `--verify`. `WriteFile`, `SwapFile` and `RemoveFile` are
other programs: a write moves the last-write time, a swap brings an object with a
new id. `versions` remembers what either side has been since the pair was
matched.

Left out: last-access times, which are only counted; the sample of messages; a
name that is swapped away and back between two looks (no check of the code could
see it); failing name comparison; nested or equal roots.

## 3. What the runs check

All bounds are constants of the configurations.

| Run | Instance | Shows |
|---|---|---|
| `file_safety` | three versions (small and large), six identities, two temporary names, all modes, up to three faults or environment steps | `NoFalseSame`: what the skip test takes for a version has its bytes. `HintIsOfItsSource`, `HintIsBacked`: a checkpoint is trusted only for what it covers. `OnlyClassifiedReplaced`, `NeverDeletesOthers`: nothing that was not classified is replaced, nothing foreign is deleted. `CopiedIsComplete`. |
| `file_atomic` | all versions large | the streamed strategy refines `Publication`: no partial version under the final name |
| `file_converges` | fair runs, up to two faults | once faults stop, reruns make the destination match and keep it so |
| `coord_redirector` | root with two directories, three files of different sizes, one with a hidden large stream, two workers with one-slot queues, redirector routing, breaker after two | every discovered object is settled exactly once; the exit code is earned (`ExitIsEarned`: 0 covers the whole tree, 3 needs a user); a directory's stamp is never disturbed; a file that may need the journal is never copied without it; the counts waited on are exact |
| `coord_spindle` | nested directories, one gathering worker with a two-slot queue, hidden streams | own copies and worker phases do not overlap; every run ends |
| `journal_safety` | two paths, three temporaries, two signatures, six appends over three runs, an append cut short anywhere | what a reader finds is the last acknowledged value or a later one; the running program's hints agree; no kill or torn record costs a kept temporary its proof |
| `pipe_safety` | five units, requests of two, both depths, short reads, partial writes, errors, panics, cancellation at any moment | destination and digest are exact prefixes; Ok means complete; a failure names its cause; the call returns, with the two exceptions named in `Returns` |
| `streams_safety` | nine files of up to five units: ordered with a checkpointed named stream, tiny with a large one, streams the destination cannot hold, same-spindle bursts, sparse with holes at either end, WSL source and destination in segments; one change of the source, two failures or a cancellation, a kill or power loss, two runs | `PublishedIsEnumerated`: what is published is the enumerated version of every stream, and its digests. `KeptIsClaimed`: a temporary that outlives a run has a journal record. `BoundedLoss`: no boundary is passed without a checkpoint, in holes too. `NeverInternal`: the errors the code calls its own bugs do not occur. `Returns` |
| `run_safety` | two processes on the same log and report, plain and dashboard, two notes, three failed calls, a kill anywhere | `LogIsLossless`: acknowledged events are in the logs once and in order, and nothing follows a torn line of the same run. `EndIsTerminal`: run_end is last and agrees with the published report. `ReportsAreWhole`, `ExitIsTrue`, `ChangesOnlyWithLeave`, `Ends` |
| `verify_safety` | five destination file systems, three times on and off the FAT grid, both roundings, fifteen damages, both modes, two failed reads or changes by other programs | `VerdictIsRight`: left alone, verification passes exactly the undamaged copies. `PassIsWhole`: a file that passes was a whole version of both sides while it was compared, not a mixture |
| `pipe_cancel`, `run_dashboard` | | findings, section 4 |

The bounds are small but reach the cases that matter. Three versions allow a
source that changes twice around a checkpoint; three faults allow a crash during
the repair of a crash. Two directories and three files allow an exit that waits
while another directory's job trips the breaker; queue depth one makes every
channel full. Six appends are enough for a torn record, its healing and a
compaction in three runs. Five units in requests of two give more requests than
buffers at two buffers and a last request that is short. Intervals of two units
in files of five, with a largest word of five, put a boundary in the middle of a
hole, at the end of a stream and where the next one saturates; a segment minimum
of two gives two or three threads. Two processes and three failed calls are enough
for a torn line, its failed rollback and a failed reopen, and for a report and a
failover that both fail. FAT's quantum of four and exFAT's of two with times 4, 5
and 7 give a time on the grid, one after it and one before it. `file_safety` and
`file_atomic` use a VIEW that ignores the bytes of file objects nothing refers to,
and `file_safety` a symmetry on temporary names; `journal_safety` has a
symmetry on temporaries and on signatures, of which nothing depends on the
identity.

A deadlock is checked in the runs of `FileCopy`, `Coordinator`, `Streams` and
`Verify`, which can always take a step until they stop by design. `Journal` stops
at its bounds, `Pipeline` when the call has returned and `AuditedRun` when its
last process is gone (or hangs, `run_dashboard`), so their configurations switch
it off; `Returns`, `AlwaysReturns`, `Ends` and `AlwaysEnds` say when they must end.

### Fairness

`FileCopy` is checked for `Converges` under weak fairness of the process steps:
the operating system runs the process, and a user who wants the copy reruns it.
No environment step is fair and their number is bounded, which is what "once
faults stop" means. `Coordinator` assumes weak fairness of the coordinator and of
each worker, threads the system schedules and whose file operations return;
cancellations, breaker trips and aborts are never forced. `Pipeline` assumes the
same of its three threads, and `Streams` of the thread that runs `copy_file`, of
its digest loop and of each segment thread; nothing from `World` (another program,
the user, a kill) is fair. `AuditedRun` assumes that the process is scheduled and
its calls return; a failed draw, a kill and a rerun are never forced.

## 4. Findings

Two configurations state what a document of the repository says and are violated
by the code:

* `pipe_cancel` (`AlwaysReturns`): the reader announces the end of the data with
  the only send that has no timeout (`transport.rs:315`). At two buffers, if both
  are queued and the writer sees the cancellation before it receives again, the
  writer joins a reader that waits for ever. `README.md` promises that a
  cancelled file "stops promptly and safely".
* `run_dashboard` (`AlwaysEnds`): `dashboard_loop` takes the run's result out of
  the channel and then draws once more. If that draw fails, the fallback in
  `run_dashboard_with_color` waits for a result on a channel that is empty and
  whose sender lives in the same frame, so it never disconnects: the copy is
  finished, the process is not. `docs/adr/0049` promises that every output mode
  ends with the final summary.

Deviations that a passing property has to name:

* `FailureHasItsCause` allows a panic to be reported where there was only a
  cancellation: the writer takes a closed channel for a panic, and the reader also
  closes it when it sees the cancellation first.
* `Returns` of `Pipeline` excepts a hash stage that panics with every buffer queued
  before it, which strands the reader as in `pipe_cancel`.
* `EndIsTerminal` allows the report's audit status and log path to be out of date
  when run_end itself moves the log to the fallback: the report was published
  before it.
* `LogIsLossless` allows a torn line of an earlier, killed process in front of this
  run's first line: `open_log` appends without looking, so the two form one
  unreadable line in the file.
* `ReportsAreWhole` allows a report at both paths: publication may fail after the
  rename, and the fallback is then written as well.
* `KeptIsClaimed` excepts a temporary that could not be opened for a resume, and
  one whose delete-on-close flag could not be armed again.

Divergences met while modelling that no run states: `--fresh` empties the journal
and keeps the proofs of leftover temporaries only in memory, and compaction writes
none of them, so that a kill, or an end before the extras scan, leaves a temporary
that no later run reclaims (`README.md:312`; `ProofsOutliveCrashes` excepts these
two); a process killed between stamp and flush leaves a file that a `--flush` rerun
skips unflushed (ADR 0050); a temporary is kept as live although the file itself is
already the same and nothing will consume it (`copy.rs:1107`); jobs gathered by the
same-spindle worker count against the pool's capacity, so that the coordinator
stops refilling (comment at `worker.rs:404`). The tolerance of `timestamp_equal`
accepts both representable neighbours of a source time that is off the grid, as it
must; its comment speaks of the next bucket being refused, which holds for the
buckets of a time on the grid.

## 5. What is proved

Eight modules hold the theorems; `PROJECT.json` lists those a reader should know
of. Each proof of an invariant has the same shape: `IInv`, an inductive
strengthening that TLC has checked on the instance of the run, a lemma for each
action with a step for each part the action can disturb, `Invariance`
(`Spec => []IInv`), and the properties as its consequences. What is assumed of the
constants is in the `ASSUME`s of the modules and nowhere else, and TLC evaluates
them in every run.

| Module | Theorems | For every |
|---|---|---|
| `FileCopyProofs` | `TypeCorrect`, `SkipTestSound` (`NoFalseSame`), `ResumeSourceSound` (`HintIsOfItsSource`), `ResumePrefixSound` (`HintIsBacked`), `CopiedSound` (`CopiedIsComplete`), `OthersKept` (`NeverDeletesOthers`), `ReplacedAsClassified` (`OnlyClassifiedReplaced`), `PublishedAtomically` (`AtomicPublication`) | number of versions and faults, sizes, thresholds, checkpoint interval, modes, identities and names |
| `CoordinatorProofs` | `TypeCorrect`, `Accounted` (`AccountedOnce`), `ExitEarned` (`ExitIsEarned`), `StampLast` (`StampIsLast`), `NoJournalNeeded` (`WorkersNeedNoJournal`), `CountsExact` (`CountsAreExact`), `Apart` (`PhasesApart`) | finite tree, sizes, transport, number of workers, queue and batch length, breaker threshold |
| `JournalProofs` | `TypeCorrect`, `ReplayFaithful` (`ReplayIsFaithful`), `MemoryFaithful` (`MemoryIsFaithful`), `ProofsOutlive` (`ProofsOutliveCrashes`) | finite set of paths, temporaries, signatures, number of appends and runs |
| `PipelineProofs` | `TypeCorrect`, `PrefixesOrdered` (`OrderedPrefixes`), `OkExact` (`OkIsExact`), `FailureCaused` (`FailureHasItsCause`) | length, request size, stages that may panic |
| `StreamsProofs` | `PublishedSafe` (`PublishedIsEnumerated`), `KeptSafe` (`KeptIsClaimed`), `LossBounded` (`BoundedLoss`), `BugsUnreachable` (`NeverInternal`), `NextFacts`, `SegmentsPartition` | files, chunk, burst, thresholds, intervals, largest u64, number of changes, failures and runs |
| `AuditedRunProofs` | `TypeCorrect`, `LogLossless` (`LogIsLossless`), `EndTerminal` (`EndIsTerminal`), `ReportsWhole` (`ReportsAreWhole`), `ExitTrue` (`ExitIsTrue`), `LeaveGiven` (`ChangesOnlyWithLeave`) | number of events, failed calls and processes |
| `VerifyProofs` | `PassedWhole` (`PassIsWhole`), `VerdictRight` (`VerdictIsRight`), `ToleranceIsExact` | set of policies and times, number of changes and failed reads |
| `Induction` | `LeastNatural`, `Induct` | set of naturals |

### Why the properties are not inductive, and what is

**FileCopy.** `NoFalseSame` speaks of the object under the final name when it
already has the time of a version; that it has the bytes then depends on what was
in memory before the stamp, which depends on the handle having shown the
enumerated version until the last check, and on no temporary carrying a version's
time when it is renamed. `IInv` says so in parts: `SourceInv` (enumerated, opened
and current version are ordered), `BufInv` (what the buffer holds while the handle
still shows the enumerated version), `DirectInv` (the final file holds what was
written of the buffer), `StreamedInv` (the temporary holds exactly what was
digested, under one name), `PublishedInv` (whole, then stamped, then flushed),
`PartInv` (no temporary has a version's time), `CkptInv` (a record taken from the
current source holds only its chunks). The action properties follow from the same
invariant. `PublishedAtomically` is the refinement: under `AllLarge` (every version
is streamed, other programs write at least one chunk) the initial states map to
initial states of `Publication` and every step to one of its steps or a stutter. The
hypothesis is needed because the direct path truncates in place and promises
less; `file_atomic` checks an instance of it.

**Coordinator.** That every object is settled exactly once needs to know where an
object is between discovery and outcome: `Books` places each in one of the
entries, children, tasks or jobs still open; `OneTask` and `OneJob` say that no
directory is on the deque and no file in the pool twice; `Counts` ties the counters
to queues, batches and results by cardinality; `Stops` and `Outcomes` say what each
reason to stop has left behind; `Stamps` that a stamped directory has no job, no
task and no child to come; `Journalled` that a queued file was small enough by what
was enumerated and a large one is handed back. `ExitEarned` also needs that every
object descends from the root, the part of `TreeAssumption` about sets closed under
`Parent`: a tree that is walked is connected. `Abort` models the unwinding of the
walk, so it empties the stack of inline frames as well.

**Journal.** `ReplayIsFaithful` is preserved by an append only because the fragment
that may precede it is healed first, so the invariant says which files can exist
(whole records and junk; only the last line unterminated) and `HealedLog`,
`WrittenHealed` and `TruncatedLog` say that no repair changes what the earlier lines
replay to. `CompactedLog` proves by induction over the number of paths that the
compacted file replays to the memory it was written from. `ProofsOutliveCrashes`
needs `Owned`: a kept temporary is forgiven, or in the file's reclaimable set, or,
during a run, hinted under the same path by memory and file alike.

**Pipeline.** The stages' counters say nothing of the packets between them. `IInv`
describes each channel as a stream: consecutive packets continue each other
(`Flows`), together they reach the next stage's position (`Reaches`), a mark is the
last packet, every buffer is counted once (`BufferInv`), and a stage that has left
had a cause (`CauseInv`).

**Streams.** What is published or kept was read in many calls, with the source
changing in between and runs ending anywhere. The source's time only grows and every
change moves it, so while the time is the enumerated one (`Fresh`) the source is
what was enumerated. `IInv` says what that means for each place a byte can be:
`CallInv` (the call's locals: sizes, ranges, plan), `DiskInv` (a record on disk is of
the version whose time it carries), `KeepInv` (a kept temporary is claimed by the
record that names it), `CursorInv` (the last boundary is at most an interval behind
the position), `DataInv` (if the source is still fresh, then what is written is what
was enumerated, up to the holes and streams still pending), `SegmentInv` (the plan
partitions the file, and each thread stays in its segment). The revalidation before
a commit turns "if still fresh" into a fact. `NextFacts` is about `Checkpoints` alone:
a boundary is past the position, at most an interval past it or at the size, and never
past the size, also where the sum would overflow u64. `SegmentsPartition` says that
every unit of the file belongs to one thread, and needs no range to be aligned.
`GeometryAssumption` and `FilesAssumption` say that sizes fit a word and that `None`
is no file, chunk or record.

**AuditedRun.** Which events are in the two files is a recursive function of their
lines; lemmas by `Induct` give its value for a line appended, a file truncated and
two files in succession. `EmitInv` relates the call in progress to what its failed
parts left, `TornInv` says when a line may be torn, `ReportInv`, `EndInv` and
`ResultInv` follow the report from memory to the exit code.

**Verify.** A comparison is made of several opens with other programs in between.
The object's id and its time only grow and every change moves one of them
(`Grown`), so while the name shows what it showed before the digest, nothing has
changed and what was read so far is what is there (`Faithful`); every version since
the pair was matched is in `versions` (`Remembered`). `ToleranceIsExact` is about
`timestamp_equal` alone: of the times a coarse file system can hold it accepts the
two neighbours of the source's time and no other.

`VerdictIsRight` says nothing after the first change or failed read, and neither
does its invariant `VInv`, which stands beside `IInv` and uses it. Until then the
trees keep their `Shape`: which names they may have, and that a pair of objects
differs only in what the reference looks at. `EntryInv` says of the directory being
matched that a source entry is still in `entries`, or has given its key to `keys`
and taken it from the map; `StackInv` which directories are still to come; `PairInv`
that the pair being digested is what was matched, and is `Quiet`. `SumInv` reads the
verdict from this, in both directions: if the destination is `Right`, nothing has
failed and `passed` is the number of objects `Settled`; if nothing has failed,
everything settled is `Sound` and every destination name in the directories
`Compared` is a source name. The second direction alone is not inductive: of two
names with one key (`Aliased`) the first to be matched may be the one that was not
copied, and it passes against the other's copy. So the invariant adds that as long
as nothing has failed such names, which no `Right` copy has, are still to be met
(`NotYetMet`); meeting the second one fails. That comparison and reference agree on
one pair (`Agree`) rests on `ToleranceIsExact` and on the destination's time being
one its file system can hold, as every copy and every damage to one leaves it
(`StartShape`). The shape of the trees and the list of damages are the model's; the
theorem is for every policy, time, rounding, damage and order of entries.

Some definitions are written the way the provers can use them: `Replay`, `EventsOf`
and `TornOf` are recursive functions over the length, the trees of `Verify` are
functions over an explicit set of paths.

### What is only model-checked

Liveness under fairness: `Converges`, `Terminates`, `Returns`, `Ends`, and the two
findings. The prover has no rule for ENABLED or fairness.

Induction over data is available for sets of naturals (`Induct`), and so for
recursive functions over a length; the library's theorems with an operator as
parameter and RECURSIVE operators remain out of reach, and no proof depends on one.

## 6. What is not modelled

Listed with reasons in `PROJECT.json` (`components`). Device profiles choose sizes
and a transport from query results; the choice is a constant of `Coordinator` and
`Streams`. Statistics, options, error tables and the test kit carry no protocol.
Argument parsing and drawing are left out of `AuditedRun`, the encodings of
extended attributes, allocated ranges and stream listings out of `Streams`. The
Windows wrappers are single calls of the operating system, modelled by what their
callers rely on.

Reparse points do carry a protocol: a link is built as a temporary object and
renamed like a file. `Verify` compares a link; its copy, the temporary and
its rename are not modelled. Directory streams and the
repair of directory attributes are not either.

## 7. Plan

Done: `FileCopy`, `Publication` and their proofs; `Coordinator`; `Journal`;
`Pipeline`; `Streams` (checkpoint boundaries, segment plan and threads, sparse and
named streams); `AuditedRun` (audit log, report, final record, exit);
`Verify` (verification and timestamp equality).

Proved: the safety properties, action properties and the refinement of
`FileCopy`; all safety properties of `Coordinator`, `Journal`, `Pipeline`, `Streams`,
`AuditedRun` and `Verify`; the tolerance of times.

Left: reparse points as a second implementation of `Publication`.
