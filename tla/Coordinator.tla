---------------------------- MODULE Coordinator ----------------------------
(***************************************************************************)
(* The directory walk of one copy run and its pool of file workers         *)
(* (crates/core/src/copy.rs, crates/core/src/worker.rs).                   *)
(*                                                                         *)
(* One coordinator thread pops directory tasks, joins and classifies the   *)
(* entries of a directory, sends files that need no journal to bounded     *)
(* worker queues, copies the others itself, receives completions whenever  *)
(* it would otherwise have to wait, and stamps a directory once its own    *)
(* file jobs have completed.  Worker threads take jobs, run the engine     *)
(* without a journal and post a completion, or hand a file back            *)
(* (PROMOTED_TO_COORDINATOR) before writing anything.  A user may request  *)
(* a graceful stop at any moment, repeated device failures trip the        *)
(* breaker, and an audit log that can no longer be written aborts the run. *)
(*                                                                         *)
(* What the engine does with one file is the subject of FileCopy; here a   *)
(* copy is one step with a nondeterministic outcome.  Reparse points and   *)
(* the dry run are left out.                                               *)
(***************************************************************************)
EXTENDS Naturals, Sequences, FiniteSets, FiniteSetsExt

CONSTANTS Dirs, Files, Root,   \* the source tree
          Parent,              \* the directory of every file and directory but Root
          Unnamed,             \* the size of a file's unnamed stream, known from enumeration
          Largest,             \* its largest representable stream, known only once opened
          Sparse,              \* files whose sparse layout is preserved
          LargeThreshold, CheckpointThreshold, SegmentThreshold,
          Transport,           \* "standard", "same_spindle", "redirector" or "wsl"
          Workers, PerWorkerQueue, BatchFiles,
          BreakerThreshold,
          None

Objects == Dirs \cup Files
SameSpindle == Transport = "same_spindle"
Redirector == Transport \in {"redirector", "wsl"}
Capacity == Cardinality(Workers) * PerWorkerQueue

ASSUME TreeAssumption ==
    /\ IsFiniteSet(Dirs) /\ IsFiniteSet(Files) /\ Dirs \cap Files = {}
    /\ Root \in Dirs /\ None \notin Objects
    /\ Parent \in [Objects \ {Root} -> Dirs]
    \* Every object is found by descending from Root.
    /\ \A S \in SUBSET Objects :
         Root \in S /\ (\A o \in Objects \ {Root} : Parent[o] \in S => o \in S) => S = Objects
ASSUME SizeAssumption ==
    /\ Unnamed \in [Files -> Nat] /\ Largest \in [Files -> Nat]
    /\ \A f \in Files : Largest[f] >= Unnamed[f]
    /\ Sparse \subseteq Files
    /\ {LargeThreshold, CheckpointThreshold, SegmentThreshold} \subseteq Nat

\* A file on its way to a worker; from limit bytes on the worker hands it back.
Jobs == [file : Files, worker : Workers, limit : Nat \cup {None}]
ASSUME PoolAssumption ==
    /\ Transport \in {"standard", "same_spindle", "redirector", "wsl"}
    /\ IsFiniteSet(Workers) /\ Workers # {} /\ None \notin Workers \cup Nat /\ None \notin Jobs
    /\ PerWorkerQueue \in Nat \ {0} /\ BatchFiles \in Nat \ {0}
    /\ BreakerThreshold \in Nat \ {0}
    /\ SameSpindle => Cardinality(Workers) = 1

VARIABLES
    tasks,          \* the deque of directory tasks, popped at the end
    pc,             \* where the coordinator is in its code
    cur,            \* the directory it works on
    todo, kids,     \* entries not yet handled; child directories not yet created
    job,            \* the job being submitted
    inline, busy,   \* files the coordinator copies itself, innermost last; the last is open
    queue, batch, gathering, alive,     \* each worker's queue, jobs in hand, state
    results,        \* the completion channel
    outstanding, dir_outstanding,
    requested, canceled, worker_cancel, \* the user's request and its two mirrors
    breaker, breaker_streak,
    journal,        \* the run still has a usable journal
    seen, settled,  \* how often each object was discovered; the outcomes recorded for it
    stamp,          \* a directory's timestamps: not set, as stamped, or disturbed since
    by,             \* who copied a file
    aborted, exit

walkVars == <<tasks, cur, todo, kids, job>>
poolVars == <<queue, batch, gathering, alive, results>>
countVars == <<outstanding, dir_outstanding>>
stopVars == <<canceled, worker_cancel, breaker, breaker_streak>>
endVars == <<aborted, exit>>
vars == <<walkVars, pc, inline, busy, poolVars, countVars, requested, stopVars, journal,
          seen, settled, stamp, by, endVars>>

Task(op, d) == [op |-> op, dir |-> d]
Entries(d) == {o \in Objects \ {Root} : Parent[o] = d}

\* The directories above an object, and everything below a directory.
Above[o \in Objects] == IF o = Root THEN {} ELSE {Parent[o]} \cup Above[Parent[o]]
Below(d) == {o \in Objects : d \in Above[o]}

---------------------------------------------------------------------------
(* Routing: which files go to a worker, and the net that brings them back. *)

CheckpointEligible(f) == journal /\ Unnamed[f] >= CheckpointThreshold
RedirectorStream(f) ==
    /\ Redirector
    /\ ~(Transport = "wsl" /\ Unnamed[f] >= SegmentThreshold)
    /\ ~CheckpointEligible(f)
WorkerDispatch(f) ==
    /\ f \notin Sparse
    /\ ~CheckpointEligible(f)
    /\ Unnamed[f] < LargeThreshold \/ RedirectorStream(f)

PromoteThreshold_PastTheEdge ==
    CASE Redirector -> IF journal THEN CheckpointThreshold + 1 ELSE None
      [] OTHER      -> LargeThreshold

\* None: the worker never hands the file back.
PromoteThreshold ==
    CASE Redirector -> IF journal THEN CheckpointThreshold ELSE None
      [] OTHER      -> IF journal THEN Min({LargeThreshold, CheckpointThreshold})
                                  ELSE LargeThreshold
Promotes(j) == j.limit # None /\ Largest[j.file] >= j.limit

\* The engine's streaming strategies poll the stop flag; the small one runs to its end.
Streams(f) == Largest[f] >= LargeThreshold \/ Largest[f] > Unnamed[f]

---------------------------------------------------------------------------
(* Accounting. *)

Failures == {"failed", "device"}          \* "device": device-gone or out of space
FileSuccess == {"copied", "skipped"}      \* what resets the breaker's streak
Terminal == Failures \cup FileSuccess \cup {"done", "excluded", "not_attempted", "canceled"}

Discover(S) == seen' = [o \in Objects |-> IF o \in S THEN seen[o] + 1 ELSE seen[o]]
Settle(new) == settled' = [o \in Objects |-> IF o \in DOMAIN new
                                             THEN Append(settled[o], new[o]) ELSE settled[o]]
Only(o, out) == [x \in {o} |-> out]

\* aggregate_error, record_file's reset, and observe_cancellation when the step polls it.
Trips(out) == out = "device" /\ breaker_streak + 1 >= BreakerThreshold
Tally(out, stop) ==
    /\ breaker_streak' = CASE out \in FileSuccess -> 0
                           [] out = "device"      -> breaker_streak + 1
                           [] OTHER               -> breaker_streak
    /\ breaker' = (breaker \/ Trips(out))
    /\ canceled' = (canceled \/ stop \/ out = "canceled")
    /\ worker_cancel' = (worker_cancel \/ stop \/ out = "canceled" \/ Trips(out))
Observe == Tally("none", requested)

\* Everything found below a directory that will not be walked, given the
\* directories that turn out to be unreadable.
Unwalked(d, unreadable) ==
    {o \in Below(d) : (Above[o] \cap (Below(d) \cup {d})) \cap unreadable = {}}
NotAttempted(S) == [o \in S |-> IF o \in Dirs THEN "failed" ELSE "not_attempted"]

Touch(d) == stamp' = [stamp EXCEPT ![d] = IF @ = "unset" THEN @ ELSE "dirty"]

---------------------------------------------------------------------------
(* The task loop. *)

Pop == tasks' = SubSeq(tasks, 1, Len(tasks) - 1)
NextTask == tasks[Len(tasks)]
AtLoop(op) == pc = "loop" /\ tasks # <<>> /\ NextTask.op = op

\* A directory reached after a stop: discovered, counted as failed, not entered.
EnterStopped ==
    /\ AtLoop("Enter")
    /\ canceled \/ requested \/ breaker
    /\ Pop /\ Observe
    /\ Discover({NextTask.dir}) /\ Settle(Only(NextTask.dir, "failed"))
    /\ UNCHANGED <<pc, cur, todo, kids, job, inline, busy, poolVars, countVars, requested,
                   journal, stamp, by, endVars>>

\* The source directory, or its destination, cannot be enumerated.
EnterFails ==
    /\ AtLoop("Enter")
    /\ ~(canceled \/ requested \/ breaker)
    /\ \E out \in Failures, unreadable \in SUBSET Dirs :
         LET d == NextTask.dir
             S == IF d \in unreadable THEN {} ELSE Unwalked(d, unreadable)
         IN  /\ Discover(S \cup {d})
             /\ Settle([o \in S \cup {d} |-> IF o = d THEN out ELSE NotAttempted(S)[o]])
             /\ Tally(out, FALSE)
    /\ Pop
    /\ UNCHANGED <<pc, cur, todo, kids, job, inline, busy, poolVars, countVars, requested,
                   journal, stamp, by, endVars>>

EnterDirectory ==
    /\ AtLoop("Enter")
    /\ ~(canceled \/ requested \/ breaker)
    /\ Pop
    /\ Discover({NextTask.dir})
    /\ pc' = "entries" /\ cur' = NextTask.dir /\ todo' = Entries(NextTask.dir) /\ kids' = {}
    /\ UNCHANGED <<job, inline, busy, poolVars, countVars, requested, stopVars, journal,
                   settled, stamp, by, endVars>>

\* The entry loop: AtEntry(o) is the head of every branch for entry o.
AtEntry(o) ==
    /\ pc = "entries" /\ inline = <<>>
    /\ o \in todo
    /\ todo' = todo \ {o}
    /\ UNCHANGED <<tasks, cur, busy, poolVars, countVars, requested, journal, stamp, by, endVars>>

EntryStopped_Forgets(o) ==
    /\ AtEntry(o) /\ breaker
    /\ Discover({o})
    /\ UNCHANGED <<pc, kids, job, inline, settled, stopVars>>

\* With the breaker tripped the rest of the directory is only accounted for.
EntryStopped(o) ==
    /\ AtEntry(o) /\ breaker
    /\ Discover({o}) /\ Settle(Only(o, IF o \in Dirs THEN "failed" ELSE "not_attempted"))
    /\ UNCHANGED <<pc, kids, job, inline, stopVars>>

\* A name collision, a size limit, a type conflict or a failed metadata repair.
EntryFails(o) ==
    /\ AtEntry(o) /\ ~breaker
    /\ \E out \in Failures, unreadable \in SUBSET Dirs :
         LET S == IF o \in Files \cup unreadable THEN {} ELSE Unwalked(o, unreadable)
         IN  /\ Discover(S \cup {o})
             /\ Settle([x \in S \cup {o} |-> IF x = o THEN out ELSE NotAttempted(S)[x]])
             /\ Tally(out, FALSE)
    /\ UNCHANGED <<pc, kids, job, inline>>

EntryExcluded(o) ==
    /\ AtEntry(o) /\ ~breaker
    /\ Discover({o}) /\ Settle(Only(o, "excluded"))
    /\ UNCHANGED <<pc, kids, job, inline, stopVars>>

\* Same, different but not to be replaced, or repaired in its metadata only.
FileSkipped(f) ==
    /\ AtEntry(f) /\ ~breaker /\ f \in Files
    /\ Discover({f}) /\ Settle(Only(f, "skipped"))
    /\ Tally("skipped", FALSE)
    /\ UNCHANGED <<pc, kids, job, inline>>

FileDispatched(f) ==
    /\ AtEntry(f) /\ ~breaker /\ f \in Files /\ WorkerDispatch(f)
    /\ Discover({f})
    /\ \E w \in Workers : job' = [file |-> f, worker |-> w, limit |-> PromoteThreshold]
    /\ pc' = "submit"
    /\ UNCHANGED <<kids, inline, settled, stopVars>>

FileInline(f) ==
    /\ AtEntry(f) /\ ~breaker /\ f \in Files /\ ~WorkerDispatch(f)
    /\ Discover({f})
    /\ inline' = Append(inline, f)
    /\ UNCHANGED <<pc, kids, job, settled, stopVars>>

ChildDirectory(d) ==
    /\ AtEntry(d) /\ ~breaker /\ d \in Dirs
    /\ kids' = kids \cup {d}
    /\ UNCHANGED <<pc, job, inline, seen, settled, stopVars>>

\* The Exit task goes below the child directories on the deque.
EntriesDone ==
    /\ pc = "entries" /\ inline = <<>> /\ todo = {}
    /\ tasks' = Append(tasks, Task("Exit", cur))
    /\ pc' = "children"
    /\ UNCHANGED <<cur, todo, kids, job, inline, busy, poolVars, countVars, requested, stopVars,
                   journal, seen, settled, stamp, by, endVars>>

\* create_directory disturbs the parent; a directory already there does not.
ChildReady(k) ==
    /\ pc = "children" /\ k \in kids
    /\ kids' = kids \ {k}
    /\ tasks' = Append(tasks, Task("Enter", k))
    /\ Touch(cur) \/ UNCHANGED stamp
    /\ UNCHANGED <<pc, cur, todo, job, inline, busy, poolVars, countVars, requested, stopVars,
                   journal, seen, settled, by, endVars>>

ChildFails(k) ==
    /\ pc = "children" /\ k \in kids
    /\ kids' = kids \ {k}
    /\ \E out \in Failures, unreadable \in SUBSET Dirs :
         LET S == IF k \in unreadable THEN {} ELSE Unwalked(k, unreadable)
         IN  /\ Discover(S \cup {k})
             /\ Settle([x \in S \cup {k} |-> IF x = k THEN out ELSE NotAttempted(S)[x]])
             /\ Tally(out, FALSE)
    /\ UNCHANGED <<tasks, pc, cur, todo, job, inline, busy, poolVars, countVars, requested,
                   journal, stamp, by, endVars>>

ChildrenDone ==
    /\ pc = "children" /\ kids = {}
    /\ pc' = "loop"
    /\ UNCHANGED <<walkVars, inline, busy, poolVars, countVars, requested, stopVars, journal,
                   seen, settled, stamp, by, endVars>>

\* A directory whose files are still in flight yields to the other tasks.
ExitBusy(d) == dir_outstanding[d] > 0 /\ Len(tasks) > 1
ExitTask ==
    /\ AtLoop("Exit")
    /\ Pop /\ Observe
    /\ cur' = NextTask.dir
    /\ pc' = IF ExitBusy(NextTask.dir) THEN "yield" ELSE "exit"
    /\ UNCHANGED <<todo, kids, job, inline, busy, poolVars, countVars, requested, journal,
                   seen, settled, stamp, by, endVars>>

Requeue ==
    /\ pc = "requeue" /\ inline = <<>>
    /\ tasks' = <<Task("Exit", cur)>> \o tasks
    /\ pc' = "loop"
    /\ UNCHANGED <<cur, todo, kids, job, inline, busy, poolVars, countVars, requested, stopVars,
                   journal, seen, settled, stamp, by, endVars>>

MayFinalize_AtOnce == TRUE

MayFinalize == dir_outstanding[cur] = 0
ExitDirectory ==
    /\ pc = "exit" /\ inline = <<>> /\ MayFinalize
    /\ \/ /\ Settle(Only(cur, "done"))
          /\ stamp' = [stamp EXCEPT ![cur] = "clean"]
          /\ UNCHANGED stopVars
       \/ /\ \E out \in Failures : Settle(Only(cur, out)) /\ Tally(out, FALSE)
          /\ UNCHANGED stamp
    /\ pc' = "loop"
    /\ UNCHANGED <<walkVars, inline, busy, poolVars, countVars, requested, journal, seen, by,
                   endVars>>

---------------------------------------------------------------------------
(* Submission, completions and files the coordinator copies itself. *)

Full(w) == Len(queue[w]) >= PerWorkerQueue
MustReceiveFirst == pc = "submit" /\ outstanding >= Capacity
SubmitFileJob ==
    /\ inline = <<>>
    /\ pc \in {"submit", "offer"} /\ ~MustReceiveFirst
    /\ ~Full(job.worker)
    /\ queue' = [queue EXCEPT ![job.worker] = Append(@, job)]
    /\ outstanding' = outstanding + 1
    /\ dir_outstanding' = [dir_outstanding EXCEPT ![Parent[job.file]] = @ + 1]
    /\ job' = None
    /\ pc' = "entries"
    /\ UNCHANGED <<tasks, cur, todo, kids, inline, busy, batch, gathering, alive, results,
                   requested, stopVars, journal, seen, settled, stamp, by, endVars>>

MustDrainFirst_Never == FALSE

\* The same-spindle policy: the worker's jobs drain before the coordinator copies.
MustDrainFirst == SameSpindle /\ outstanding > 0
Awaiting ==
    \/ inline # <<>> /\ ~busy /\ MustDrainFirst
    \/ /\ inline = <<>>
       /\ \/ MustReceiveFirst
          \/ pc \in {"submit", "offer"} /\ ~MustReceiveFirst /\ Full(job.worker)
          \/ pc = "yield"
          \/ pc = "exit" /\ ~MayFinalize
          \/ pc = "drain" /\ outstanding > 0
AfterReceive ==
    IF inline # <<>> THEN pc
    ELSE CASE pc = "submit" -> "offer" [] pc = "yield" -> "requeue" [] OTHER -> pc

ReceiveFileJob_HandBackKept ==
    /\ Awaiting /\ results # <<>>
    /\ LET c == Head(results)
           d == Parent[c.file]
       IN  /\ results' = Tail(results)
           /\ IF c.out = "promoted"
              THEN inline' = Append(inline, c.file) /\ Observe /\ UNCHANGED <<settled, countVars>>
              ELSE /\ outstanding' = outstanding - 1
                   /\ dir_outstanding' = [dir_outstanding EXCEPT ![d] = @ - 1]
                   /\ Settle(Only(c.file, c.out)) /\ Tally(c.out, requested) /\ UNCHANGED inline
    /\ pc' = AfterReceive
    /\ UNCHANGED <<walkVars, busy, queue, batch, gathering, alive, requested, journal, seen,
                   stamp, by, endVars>>
ReceiveFileJob_RecordsHandBack ==
    /\ Awaiting /\ results # <<>>
    /\ LET c == Head(results)
           d == Parent[c.file]
       IN  /\ results' = Tail(results)
           /\ outstanding' = outstanding - 1
           /\ dir_outstanding' = [dir_outstanding EXCEPT ![d] = @ - 1]
           /\ Settle(Only(c.file, c.out)) /\ Tally(c.out, requested)
           /\ inline' = IF c.out = "promoted" THEN Append(inline, c.file) ELSE inline
    /\ pc' = AfterReceive
    /\ UNCHANGED <<walkVars, busy, queue, batch, gathering, alive, requested, journal, seen,
                   stamp, by, endVars>>

ReceiveFileJob ==
    /\ Awaiting /\ results # <<>>
    /\ LET c == Head(results)
           d == Parent[c.file]
       IN  /\ results' = Tail(results)
           /\ outstanding' = IF outstanding = 0 THEN 0 ELSE outstanding - 1
           /\ dir_outstanding' = [dir_outstanding EXCEPT ![d] = IF @ = 0 THEN 0 ELSE @ - 1]
           /\ IF c.out = "promoted"
              THEN inline' = Append(inline, c.file) /\ Observe /\ UNCHANGED settled
              ELSE Settle(Only(c.file, c.out)) /\ Tally(c.out, requested) /\ UNCHANGED inline
    /\ pc' = AfterReceive
    /\ UNCHANGED <<walkVars, busy, queue, batch, gathering, alive, requested, journal, seen,
                   stamp, by, endVars>>

\* receive_timeout returns nothing: only the stop request is polled.
PollCancellation ==
    /\ Awaiting /\ results = <<>>
    /\ requested /\ ~canceled
    /\ Observe
    /\ UNCHANGED <<walkVars, pc, inline, busy, poolVars, countVars, requested, journal, seen,
                   settled, stamp, by, endVars>>

BeginInline ==
    /\ inline # <<>> /\ ~busy /\ ~MustDrainFirst
    /\ busy' = TRUE
    /\ UNCHANGED <<walkVars, pc, inline, poolVars, countVars, requested, stopVars, journal, seen,
                   settled, stamp, by, endVars>>

\* Only a successful copy can report that the journal stopped accepting records.
EndInline ==
    /\ inline # <<>> /\ busy
    /\ LET f == inline[Len(inline)]
       IN  \E out \in {"copied", "failed", "device"} \cup (IF requested THEN {"canceled"} ELSE {}) :
             /\ Settle(Only(f, out)) /\ Tally(out, FALSE)
             /\ journal' \in (IF out = "copied" /\ journal /\ Largest[f] >= CheckpointThreshold
                              THEN {TRUE, FALSE} ELSE {journal})
             /\ by' = [by EXCEPT ![f] = IF out = "copied" THEN "coordinator" ELSE @]
             /\ Touch(Parent[f])
    /\ busy' = FALSE
    /\ inline' = SubSeq(inline, 1, Len(inline) - 1)
    /\ UNCHANGED <<walkVars, pc, poolVars, countVars, requested, seen, endVars>>

---------------------------------------------------------------------------
(* Workers: one job at a time, or a gathered batch on one spindle. *)

BatchLimit == IF SameSpindle THEN BatchFiles ELSE 1
Take(w) ==
    /\ alive[w] /\ queue[w] # <<>>
    /\ batch[w] = {} \/ (gathering[w] /\ Cardinality(batch[w]) < BatchLimit)
    /\ batch' = [batch EXCEPT ![w] = @ \cup {Head(queue[w])}]
    /\ queue' = [queue EXCEPT ![w] = Tail(@)]
    /\ gathering' = [gathering EXCEPT ![w] = SameSpindle]
    /\ UNCHANGED <<walkVars, pc, inline, busy, alive, results, countVars, requested, stopVars,
                   journal, seen, settled, stamp, by, endVars>>

\* The batch is full, its byte budget is spent, or no further job came in time.
StartBatch(w) ==
    /\ alive[w] /\ gathering[w]
    /\ gathering' = [gathering EXCEPT ![w] = FALSE]
    /\ UNCHANGED <<walkVars, pc, inline, busy, queue, batch, alive, results, countVars,
                   requested, stopVars, journal, seen, settled, stamp, by, endVars>>

WorkerOutcomes(j) ==
    Failures \cup (IF Promotes(j) THEN {"promoted"}
                   ELSE {"copied"} \cup (IF worker_cancel /\ Streams(j.file) THEN {"canceled"}
                                         ELSE {}))
Executed(j, out) ==
    /\ by' = [by EXCEPT ![j.file] = IF out = "copied" THEN "worker" ELSE @]
    /\ IF out = "promoted" THEN UNCHANGED stamp ELSE Touch(Parent[j.file])

Complete_PanicLost(w) ==
    /\ alive[w] /\ ~gathering[w] /\ pc \notin {"joining", "ended"}
    /\ Len(results) < Capacity
    /\ \E j \in batch[w] : \E out \in WorkerOutcomes(j) :
         /\ results' = IF out = "failed" THEN results
                       ELSE Append(results, [file |-> j.file, out |-> out])
         /\ batch' = [batch EXCEPT ![w] = @ \ {j}]
         /\ Executed(j, out)
    /\ UNCHANGED <<walkVars, pc, inline, busy, queue, gathering, alive, countVars, requested,
                   stopVars, journal, seen, settled, endVars>>

Complete(w) ==
    /\ alive[w] /\ ~gathering[w] /\ pc \notin {"joining", "ended"}
    /\ Len(results) < Capacity
    /\ \E j \in batch[w] : \E out \in WorkerOutcomes(j) :
         /\ results' = Append(results, [file |-> j.file, out |-> out])
         /\ batch' = [batch EXCEPT ![w] = @ \ {j}]
         /\ Executed(j, out)
    /\ UNCHANGED <<walkVars, pc, inline, busy, queue, gathering, alive, countVars, requested,
                   stopVars, journal, seen, settled, endVars>>

\* After the pool is dropped the first completion cannot be sent: the worker ends.
CompleteUnheard(w) ==
    /\ alive[w] /\ ~gathering[w] /\ pc = "joining"
    /\ \E j \in batch[w] : \E out \in WorkerOutcomes(j) : Executed(j, out)
    /\ batch' = [batch EXCEPT ![w] = {}]
    /\ alive' = [alive EXCEPT ![w] = FALSE]
    /\ UNCHANGED <<walkVars, pc, inline, busy, queue, gathering, results, countVars, requested,
                   stopVars, journal, seen, settled, endVars>>

WorkerQuits(w) ==
    /\ alive[w] /\ pc = "joining" /\ queue[w] = <<>> /\ batch[w] = {}
    /\ alive' = [alive EXCEPT ![w] = FALSE]
    /\ UNCHANGED <<walkVars, pc, inline, busy, queue, batch, gathering, results, countVars,
                   requested, stopVars, journal, seen, settled, stamp, by, endVars>>

---------------------------------------------------------------------------
(* The end of the run. *)

WalkDone ==
    /\ pc = "loop" /\ tasks = <<>>
    /\ pc' = "drain"
    /\ UNCHANGED <<walkVars, inline, busy, poolVars, countVars, requested, stopVars, journal,
                   seen, settled, stamp, by, endVars>>

\* The counters only know totals.
Reconciles ==
    \A S \in {Files, Dirs} : MapThenSumSet(LAMBDA o : seen[o], S)
                             = MapThenSumSet(LAMBDA o : Len(settled[o]), S)
AnyFailed == \E o \in Objects : \E i \in DOMAIN settled[o] : settled[o][i] \in Failures
CompletedExit_FilesOnly ==
    CASE breaker   -> 4
      [] canceled /\ ~breaker -> 3
      [] OTHER     -> IF \E f \in Files : settled[f] \in {<<"failed">>, <<"device">>} THEN 2 ELSE 0

CompletedExit ==
    CASE breaker   -> 4
      [] canceled /\ ~breaker -> 3
      [] OTHER     -> IF AnyFailed THEN 2 ELSE 0

Finalize ==
    /\ pc = "drain" /\ inline = <<>> /\ outstanding = 0
    /\ exit' = IF Reconciles THEN CompletedExit ELSE 6
    /\ pc' = "joining"
    /\ UNCHANGED <<walkVars, inline, busy, poolVars, countVars, requested, stopVars, journal,
                   seen, settled, stamp, by, aborted>>

\* An audit event that neither the log nor its fallback accepts ends the run; the
\* files handed back are dropped with the frames that were to copy them.
Abort ==
    /\ pc \notin {"joining", "ended"} /\ ~busy
    /\ pc' = "joining" /\ aborted' = TRUE /\ inline' = <<>>
    /\ UNCHANGED <<walkVars, busy, poolVars, countVars, requested, stopVars, journal,
                   seen, settled, stamp, by, exit>>

JoinWorkers ==
    /\ pc = "joining" /\ \A w \in Workers : ~alive[w]
    /\ pc' = "ended"
    /\ UNCHANGED <<walkVars, inline, busy, poolVars, countVars, requested, stopVars, journal,
                   seen, settled, stamp, by, endVars>>

RequestCancel ==
    /\ ~requested /\ pc \notin {"joining", "ended"}
    /\ requested' = TRUE
    /\ UNCHANGED <<walkVars, pc, inline, busy, poolVars, countVars, stopVars, journal, seen,
                   settled, stamp, by, endVars>>

Init ==
    /\ tasks = <<Task("Enter", Root)>>
    /\ pc = "loop" /\ cur = Root /\ todo = {} /\ kids = {} /\ job = None
    /\ inline = <<>> /\ busy = FALSE
    /\ queue = [w \in Workers |-> <<>>] /\ batch = [w \in Workers |-> {}]
    /\ gathering = [w \in Workers |-> FALSE] /\ alive = [w \in Workers |-> TRUE]
    /\ results = <<>>
    /\ outstanding = 0 /\ dir_outstanding = [d \in Dirs |-> 0]
    /\ requested = FALSE /\ canceled = FALSE /\ worker_cancel = FALSE
    /\ breaker = FALSE /\ breaker_streak = 0
    /\ journal \in BOOLEAN
    /\ seen = [o \in Objects |-> 0] /\ settled = [o \in Objects |-> <<>>]
    /\ stamp = [d \in Dirs |-> "unset"]
    /\ by = [f \in Files |-> "nobody"]
    /\ aborted = FALSE /\ exit = 7

Walk ==
    \/ EnterStopped \/ EnterFails \/ EnterDirectory
    \/ \E o \in Objects : \/ EntryStopped(o) \/ EntryFails(o) \/ EntryExcluded(o)
                          \/ FileSkipped(o) \/ FileDispatched(o) \/ FileInline(o)
                          \/ ChildDirectory(o)
                          \/ ChildReady(o) \/ ChildFails(o)
    \/ EntriesDone \/ ChildrenDone
    \/ ExitTask \/ Requeue \/ ExitDirectory
    \/ SubmitFileJob \/ ReceiveFileJob \/ PollCancellation
    \/ BeginInline \/ EndInline
    \/ WalkDone \/ Finalize \/ JoinWorkers

Work(w) == Take(w) \/ StartBatch(w) \/ Complete(w) \/ CompleteUnheard(w) \/ WorkerQuits(w)

Ended == pc = "ended" /\ UNCHANGED vars

Next == Walk \/ (\E w \in Workers : Work(w)) \/ Abort \/ RequestCancel \/ Ended

Spec == Init /\ [][Next]_vars /\ WF_vars(Walk) /\ \A w \in Workers : WF_vars(Work(w))

---------------------------------------------------------------------------
(* Properties. *)

Completions == [file : Files, out : Failures \cup {"copied", "canceled", "promoted"}]
Pcs == {"loop", "entries", "children", "submit", "offer", "yield", "requeue", "exit", "drain",
        "joining", "ended"}

\* The shape of the coordinator's and the workers' state.
TypeOK ==
    /\ tasks \in Seq([op : {"Enter", "Exit"}, dir : Dirs])
    /\ pc \in Pcs /\ cur \in Dirs /\ todo \subseteq Objects /\ kids \subseteq Dirs
    /\ job \in Jobs \cup {None} /\ (pc \in {"submit", "offer"} => job # None)
    /\ inline \in Seq(Files) /\ busy \in BOOLEAN
    /\ queue \in [Workers -> Seq(Jobs)] /\ batch \in [Workers -> SUBSET Jobs]
    /\ gathering \in [Workers -> BOOLEAN] /\ alive \in [Workers -> BOOLEAN]
    /\ results \in Seq(Completions)
    /\ outstanding \in Nat /\ dir_outstanding \in [Dirs -> Nat]
    /\ {requested, canceled, worker_cancel, breaker, journal, aborted} \subseteq BOOLEAN
    /\ breaker_streak \in Nat /\ exit \in Nat
    /\ seen \in [Objects -> Nat] /\ settled \in [Objects -> Seq(Terminal)]
    /\ stamp \in [Dirs -> {"unset", "clean", "dirty"}]
    /\ by \in [Files -> {"nobody", "worker", "coordinator"}]

\* No object is discovered or settled twice, whatever was in flight when the
\* run was stopped, and a run that ends settles everything it discovered:
\* the counters can only reconcile (invariant I6) because each object does.
AccountedOnce ==
    \A o \in Objects :
      /\ seen[o] <= 1 /\ Len(settled[o]) <= seen[o]
      /\ pc = "ended" /\ ~aborted => Len(settled[o]) = seen[o]

\* The exit code is earned. 0 covers the whole tree: every object, or a directory
\* above it, was excluded by choice, and everything else was copied, skipped or
\* finalized. 3 means the user asked for the stop: the flag a tripped breaker shares
\* with the streaming workers never turns into a cancellation of its own.
ExitIsEarned ==
    /\ exit = 0 => \A o \in Objects :
         \/ settled[o] \in {<<"copied">>, <<"skipped">>, <<"done">>}
         \/ \E a \in Above[o] \cup {o} : settled[a] = <<"excluded">>
    /\ exit = 3 => requested

\* A directory's timestamps are final: no job of the directory, and no child
\* creation, disturbs them after exit_directory has stamped it, although exits
\* do not run in post-order.
StampIsLast == \A d \in Dirs : stamp[d] # "dirty"

\* A file that a journalled run could need to checkpoint is never copied by a
\* worker, which has no journal, not even when only a hidden named stream is large.
WorkersNeedNoJournal ==
    \A f \in Files : by[f] = "worker" /\ journal => Largest[f] < CheckpointThreshold

InFlight(f) ==
    \/ \E w \in Workers : \/ \E j \in batch[w] : j.file = f
                         \/ \E i \in DOMAIN queue[w] : queue[w][i].file = f
    \/ \E i \in DOMAIN results : results[i].file = f

\* The two counts the coordinator waits on are those of the jobs really in
\* flight; with one too high it would wait for a completion that never comes,
\* with one too low it would stamp a directory or end the run too early.
CountsAreExact ==
    pc \notin {"joining", "ended"} =>
      /\ outstanding = Cardinality({f \in Files : InFlight(f)})
      /\ \A d \in Dirs : dir_outstanding[d]
                          = Cardinality({f \in Files : InFlight(f) /\ Parent[f] = d})

\* On one spindle the coordinator's own copy never overlaps worker I/O.
PhasesApart == SameSpindle /\ busy => \A w \in Workers : queue[w] = <<>> /\ batch[w] = {}

\* Every run ends, its workers joined, however jobs, completions, yields,
\* hand-backs, stops and failures interleave.
Terminates == <>(pc = "ended")
=============================================================================
