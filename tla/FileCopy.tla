------------------------------ MODULE FileCopy ------------------------------
(***************************************************************************)
(* One regular file, copied again and again by the engine of bigcp until    *)
(* the destination is what the source is: crates/core/src/engine.rs and     *)
(* crates/win/src/file.rs, with the decisions crates/core/src/copy.rs takes *)
(* around them for that file.                                               *)
(*                                                                          *)
(* A small file is written directly under its final name; a large one goes  *)
(* through an opaque sibling temporary (".part") that is deleted when its   *)
(* handle closes until a checkpoint in the journal makes it resumable, and  *)
(* is renamed over the final name when complete.  Around the process: the   *)
(* source may be rewritten or replaced, another program may touch the       *)
(* destination, any system call may fail, the user may cancel, the process  *)
(* may be killed and the power may fail.                                    *)
(*                                                                          *)
(* A chunk of data is <<v, i>>: the i-th chunk of version v of the source.  *)
(* Every version has its own last-write time, so a version also stands for  *)
(* the (identity, size, last-write time) triple the code compares.  A       *)
(* digest is the sequence it digests (no collisions).                       *)
(***************************************************************************)
EXTENDS Integers, Sequences

CONSTANTS
    MaxVersion,     \* versions of the source: 1..MaxVersion
    Size,           \* Size[v]: chunks in version v
    Ids,            \* file identities
    NoObj,          \* "no object"
    Parts,          \* opaque temporary names
    LargeThreshold, \* options.large_threshold(): at least this is streamed
    CkptThreshold,  \* checkpoint_threshold(): at least this is checkpointed
    CkptEvery,      \* checkpoint_interval()
    Modes,          \* endpoint and option combinations to cover, see Mode
    PoisonFails,    \* the restamp after a failed flush may fail as well
    ForeignLen,     \* length of what other programs write
    MaxFaults       \* bound on environment steps

Versions == 1..MaxVersion

\* stampAtCreate: ~destination_requires_post_write_stamp(), local NTFS/ReFS;
\* flush: --flush; deferred: the same-spindle batch, which checks the source
\* only after the destination is finished.
Mode == [stampAtCreate: BOOLEAN, flush: BOOLEAN, deferred: BOOLEAN]

ASSUME ConstantAssumption ==
    /\ MaxVersion \in Nat \ {0}
    /\ Size \in [Versions -> Nat]
    /\ Ids # {}
    /\ NoObj \notin Ids
    /\ LargeThreshold \in Nat
    /\ CkptThreshold \in Nat
    /\ CkptEvery \in Nat \ {0}
    /\ Modes \subseteq Mode
    /\ PoisonFails \in BOOLEAN
    /\ ForeignLen \in Nat
    /\ MaxFaults \in Nat

\* Last-write times that no version of the source has.
Now     == 0     \* the time of the write itself
Poison  == -1    \* poison_stamp(): 1980-01-02
Foreign == -2    \* stamped by another program
Stamps  == Versions \cup {Now, Poison, Foreign}

\* A chunk that is not the source's: lost by the device or written by others.
Rot   == -1
Alien == -2
Chunks == (Versions \cup {Rot, Alien}) \X (Nat \ {0})

Objects == [data: Seq(Chunks), mtime: Stamps, flushed: BOOLEAN,
            own: BOOLEAN, touched: BOOLEAN]

VARIABLES
    mode,     \* the combination in force
    src,      \* version at the source path
    hsrc,     \* version seen through the open source handle, 0 when closed
    store,    \* the objects of the destination volume
    final,    \* object under the final name
    part,     \* objects under the temporary names
    ckpt,     \* the journal's Checkpoint record for this path
    pc,       \* where the process is
    snap,     \* source_snapshot, taken at enumeration
    dsnap,    \* replacement_snapshot, taken at enumeration
    orphan,   \* classify_resume_temps says Orphan
    journal,  \* the run has a journal
    h,        \* object held by the destination handle
    hpart,    \* its temporary name
    armed,    \* delete-on-close is set on it
    persistent, \* it outlives its handle: is_persistent()
    buf,      \* small: the bytes read; large: the in-flight digest
    outcome,  \* what the last attempt reported
    raced,    \* ghost: another program acted after the last check
    faults    \* bound: environment steps left

source == <<mode, src, hsrc>>
dest   == <<store, final, part>>
run    == <<snap, dsnap, orphan>>
handle == <<h, hpart, armed, persistent>>
ghost  == <<raced, faults>>
vars   == <<source, dest, ckpt, pc, run, journal, handle, buf, outcome, ghost>>

NoCkpt == [part |-> NoObj, id |-> NoObj, version |-> 0, prefix |-> << >>]
NoSnap == [id |-> NoObj, size |-> 0, mtime |-> 0]

Pcs == {"idle", "open", "read", "create", "truncate", "stamp", "write",
        "recheck", "finish", "resume", "mktemp", "arm", "transfer", "ckpt",
        "persist", "precommit", "unhide", "rename", "setbasic", "flush",
        "close", "deferred", "retire", "extras"}

\* The chunks of version v, in order, as far as d goes.
ChunksOf(d, v) == \A i \in 1..Len(d) : d[i] = <<v, i>>

\* d is exactly version v.
Complete(d, v) == Len(d) = Size[v] /\ ChunksOf(d, v)

\* d begins with p.
Begins(d, p) == Len(d) >= Len(p) /\ \A i \in 1..Len(p) : d[i] = p[i]

\* The facts enumeration records of a destination object.
Snapshot(o) ==
    IF o = NoObj THEN NoSnap
    ELSE [id |-> o, size |-> Len(store[o].data), mtime |-> store[o].mtime]

\* classify(): size and last-write time decide; the other differences of a
\* plain file do not reach the engine.
Same(v, s) == s.id # NoObj /\ s.size = Size[v] /\ s.mtime = v

\* An identity no name, handle or record refers to.
Fresh(i) ==
    /\ i \notin {final, h, ckpt.id, dsnap.id}
    /\ \A n \in Parts : part[n] # i

\* The identity the volume gives a new file; which one does not matter.
FreshId == CHOOSE i \in Ids : Fresh(i)
HasFreshId == \E i \in Ids : Fresh(i)

NewObject == [data |-> << >>, mtime |-> Now, flushed |-> FALSE,
              own |-> TRUE, touched |-> FALSE]

\* A system call of the process fails.
Fault == faults > 0 /\ faults' = faults - 1 /\ UNCHANGED raced

-----------------------------------------------------------------------------
(* Ends of an attempt.                                                       *)

\* Every handle closes; delete-on-close removes the temporary's name.
CloseHandles ==
    /\ hsrc' = 0
    /\ h' = NoObj
    /\ hpart' = NoObj
    /\ armed' = FALSE
    /\ persistent' = FALSE
    /\ buf' = << >>

\* The run is over: what it remembered of this file is gone.
DropPlan ==
    /\ snap' = 0
    /\ dsnap' = NoSnap
    /\ orphan' = FALSE
    /\ journal' = FALSE
    /\ raced' = FALSE

Unlinked(p) == [part EXCEPT ![p] = NoObj]

\* An Err from the engine: nothing else of the destination changes.
Abandon(o) ==
    /\ outcome' = o
    /\ pc' = "extras"
    /\ CloseHandles
    /\ part' = IF armed THEN Unlinked(hpart) ELSE part
    /\ UNCHANGED <<mode, src, store, final, ckpt, run, journal>>

-----------------------------------------------------------------------------
(* A run: enumeration, classification, extras.                               *)

\* A record the engine will not consume: its source facts no longer hold and
\* the file is too small for the streamed engine, which would discard it.
OrphanRecord ==
    /\ ckpt.id # NoObj
    /\ part[ckpt.part] # NoObj
    /\ ckpt.version # src
    /\ Size[src] < LargeThreshold

\* A rerun whose journal opened: enumerate, classify, start or skip.
StartRun ==
    /\ pc = "idle"
    /\ snap' = src
    /\ dsnap' = Snapshot(final)
    /\ raced' = FALSE
    /\ \/ /\ journal' = TRUE
          /\ orphan' = OrphanRecord
          /\ UNCHANGED faults
       \/ /\ faults > 0
          /\ faults' = faults - 1
          /\ journal' = FALSE
          /\ orphan' = FALSE
    /\ IF Same(src, Snapshot(final))
       THEN outcome' = "skipped" /\ pc' = "extras"
       ELSE outcome' = "none" /\ pc' = "open"
    /\ UNCHANGED <<source, dest, ckpt, handle, buf>>

\* reclaim_orphaned_temp: after the directory's files, identity-verified.
Reclaim ==
    /\ pc = "extras"
    /\ orphan
    /\ \/ /\ part[ckpt.part] = ckpt.id
          /\ part' = Unlinked(ckpt.part)
          /\ \/ ckpt' = NoCkpt /\ UNCHANGED <<journal, ghost>>
             \/ Fault /\ journal' = FALSE /\ UNCHANGED ckpt
       \/ /\ part[ckpt.part] # ckpt.id
          /\ UNCHANGED <<part, ckpt, journal, ghost>>
       \/ /\ Fault
          /\ UNCHANGED <<part, ckpt, journal>>
    /\ orphan' = FALSE
    /\ UNCHANGED <<source, store, final, pc, snap, dsnap, handle, buf, outcome>>

EndRun ==
    /\ pc = "extras"
    /\ ~orphan
    /\ pc' = "idle"
    /\ DropPlan
    /\ UNCHANGED <<source, dest, ckpt, handle, buf, outcome, faults>>

\* Variant: a file exactly at the threshold is taken for small.
OpenSource_AtThreshold ==
    /\ pc = "open"
    /\ src = snap
    /\ hsrc' = src
    /\ pc' = IF Size[snap] <= LargeThreshold THEN "read" ELSE "resume"
    /\ UNCHANGED <<mode, src, dest, ckpt, run, journal, handle, buf, outcome, ghost>>

\* SourceFile::open, ensure_source_unchanged and the choice of strategy.
OpenSource ==
    /\ pc = "open"
    /\ \/ /\ src = snap
          /\ hsrc' = src
          /\ pc' = IF Size[snap] < LargeThreshold THEN "read" ELSE "resume"
          /\ UNCHANGED <<mode, src, dest, ckpt, run, journal, handle, buf, outcome, ghost>>
       \/ src # snap /\ Abandon("failed") /\ UNCHANGED ghost
       \/ Fault /\ Abandon("failed")

-----------------------------------------------------------------------------
(* Plain small files: directly under the final name.                         *)

\* Variant: chunks counted from zero.
ReadChunk_OffByOne ==
    /\ pc = "read"
    /\ Len(buf) < Size[hsrc]
    /\ Len(buf) <= Size[snap]
    /\ buf' = Append(buf, <<hsrc, Len(buf)>>)
    /\ UNCHANGED <<source, dest, ckpt, pc, run, journal, handle, outcome, ghost>>

\* take(size + 1).read_to_end: one sentinel chunk past the expected size.
ReadChunk ==
    /\ pc = "read"
    /\ Len(buf) < Size[hsrc]
    /\ Len(buf) <= Size[snap]
    /\ buf' = Append(buf, <<hsrc, Len(buf) + 1>>)
    /\ UNCHANGED <<source, dest, ckpt, pc, run, journal, handle, outcome, ghost>>

\* End of the read: expected length and post_read_validate.
ReadDone ==
    /\ pc = "read"
    /\ ~(Len(buf) < Size[hsrc] /\ Len(buf) <= Size[snap])
    /\ IF Len(buf) = Size[snap] /\ hsrc = snap
       THEN /\ pc' = "create"
            /\ UNCHANGED <<source, dest, ckpt, run, journal, handle, buf, outcome>>
       ELSE Abandon("failed")
    /\ UNCHANGED ghost

\* DestinationFinal::create without a snapshot: CREATE_NEW.
CreateNew ==
    /\ pc = "create"
    /\ dsnap.id = NoObj
    /\ final = NoObj
    /\ HasFreshId
    /\ final' = FreshId
    /\ h' = FreshId
    /\ store' = [store EXCEPT ![FreshId] = NewObject]
    /\ pc' = "stamp"
    /\ UNCHANGED <<source, part, ckpt, run, journal, hpart, armed, persistent, buf, outcome, ghost>>

\* DestinationFinal::create with a snapshot: checked on the opened handle.
OpenExisting ==
    /\ pc = "create"
    /\ dsnap.id # NoObj
    /\ Snapshot(final) = dsnap
    /\ h' = final
    /\ pc' = "truncate"
    /\ UNCHANGED <<source, dest, ckpt, run, journal, hpart, armed, persistent, buf, outcome, ghost>>

\* AlreadyExists, NotFound or a changed object: destination_changed.
CreateRefused ==
    /\ pc = "create"
    /\ \/ Snapshot(final) # dsnap /\ Abandon("failed") /\ UNCHANGED ghost
       \/ Fault /\ Abandon("failed")

\* set_len(0) on the same handle.
Truncate ==
    /\ pc = "truncate"
    /\ store' = [store EXCEPT ![h] = [@ EXCEPT !.data = << >>, !.mtime = Now,
                              !.flushed = FALSE, !.touched = FALSE]]
    /\ pc' = "stamp"
    /\ UNCHANGED <<source, final, part, ckpt, run, journal, handle, buf, outcome, ghost>>

\* initial_small_file_stamp: local NTFS/ReFS stamp before the data.
Stamp ==
    /\ pc = "stamp"
    /\ store' = IF mode.stampAtCreate THEN [store EXCEPT ![h].mtime = snap] ELSE store
    /\ pc' = "write"
    /\ UNCHANGED <<source, final, part, ckpt, run, journal, handle, buf, outcome, ghost>>

\* write_all: the explicit stamp freezes the time on this handle.
WriteChunk ==
    /\ pc = "write"
    /\ Len(store[h].data) < Len(buf)
    /\ LET o == store[h]
           m == IF mode.stampAtCreate THEN o.mtime ELSE Now
       IN  store' = [store EXCEPT ![h] = [o EXCEPT
                        !.data = Append(o.data, buf[Len(o.data) + 1]), !.mtime = m]]
    /\ UNCHANGED <<source, final, part, ckpt, pc, run, journal, handle, buf, outcome, ghost>>

WriteDone ==
    /\ pc = "write"
    /\ Len(store[h].data) = Len(buf)
    /\ pc' = IF mode.deferred THEN "finish" ELSE "recheck"
    /\ UNCHANGED <<source, dest, ckpt, run, journal, handle, buf, outcome, ghost>>

\* post_read_validate before the finish (standard workers).
RecheckSource ==
    /\ pc = "recheck"
    /\ IF hsrc = snap
       THEN /\ pc' = "finish"
            /\ UNCHANGED <<source, dest, ckpt, run, journal, handle, buf, outcome>>
       ELSE Abandon("failed")
    /\ UNCHANGED ghost

\* Variant: no destination is stamped after the data.
Finish_NoRestamp ==
    /\ pc = "finish"
    /\ pc' = "flush"
    /\ UNCHANGED <<source, dest, ckpt, run, journal, handle, buf, outcome, ghost>>

\* DestinationFinal::finish: the restamp, where the provider needs one.
Finish ==
    /\ pc = "finish"
    /\ store' = IF mode.stampAtCreate THEN store ELSE [store EXCEPT ![h].mtime = snap]
    /\ pc' = "flush"
    /\ UNCHANGED <<source, final, part, ckpt, run, journal, handle, buf, outcome, ghost>>

\* finish_plain_small: the check the batch deferred, after the handle closed.
DeferredCheck ==
    /\ pc = "deferred"
    /\ outcome' = IF hsrc = snap THEN "copied" ELSE "failed"
    /\ pc' = "extras"
    /\ CloseHandles
    /\ UNCHANGED <<mode, src, dest, ckpt, run, journal, ghost>>

-----------------------------------------------------------------------------
(* Large files: an opaque temporary, checkpoints, one rename.                *)

\* Variant: the source facts of the record are not compared.
PrefixVerified_AnySource == Begins(store[ckpt.id].data, ckpt.prefix)

\* The record's temporary still holds the prefix the record vouches for.
PrefixVerified ==
    /\ ckpt.version = snap
    /\ Begins(store[ckpt.id].data, ckpt.prefix)

\* No journal, no record, no such name, or another object under it: the hint
\* misses, and without identity proof nothing is touched.
ResumeMiss ==
    /\ pc = "resume"
    /\ \/ ~journal \/ ckpt.id = NoObj
       \/ journal /\ ckpt.id # NoObj /\ part[ckpt.part] # ckpt.id
    /\ pc' = "mktemp"
    /\ UNCHANGED <<source, dest, ckpt, run, journal, handle, buf, outcome, ghost>>

\* The temporary's opening fails (a miss), or a later call on it does (Err).
ResumeFault ==
    /\ pc = "resume"
    /\ journal
    /\ ckpt.id # NoObj
    /\ Fault
    /\ \/ /\ pc' = "mktemp"
          /\ UNCHANGED <<source, dest, ckpt, run, journal, handle, buf, outcome>>
       \/ Abandon("failed")

\* Variant: the name alone proves ownership.
ResumeDiscard_ByName ==
    /\ pc = "resume"
    /\ journal
    /\ ckpt.id # NoObj
    /\ part[ckpt.part] # NoObj
    /\ ~PrefixVerified
    /\ part' = Unlinked(ckpt.part)
    /\ pc' = "mktemp"
    /\ UNCHANGED <<source, store, final, ckpt, run, journal, handle, buf, outcome, ghost>>

\* Variant: a hint that fails validation fails the file.
ResumeDiscard_Fatal ==
    /\ pc = "resume"
    /\ journal
    /\ ckpt.id # NoObj
    /\ part[ckpt.part] = ckpt.id
    /\ ~PrefixVerified
    /\ Abandon("failed")
    /\ UNCHANGED ghost

\* The record's own object, but of another source or with other bytes.
ResumeDiscard ==
    /\ pc = "resume"
    /\ journal
    /\ ckpt.id # NoObj
    /\ part[ckpt.part] = ckpt.id
    /\ ~PrefixVerified
    /\ part' = Unlinked(ckpt.part)
    /\ pc' = "mktemp"
    /\ UNCHANGED <<source, store, final, ckpt, run, journal, handle, buf, outcome, ghost>>

\* The prefix reread equals the recorded digest: continue after it.
ResumeVerified ==
    /\ pc = "resume"
    /\ journal
    /\ ckpt.id # NoObj
    /\ part[ckpt.part] = ckpt.id
    /\ PrefixVerified
    /\ h' = ckpt.id
    /\ hpart' = ckpt.part
    /\ persistent' = TRUE
    /\ LET o == store[ckpt.id]
       IN  store' = [store EXCEPT ![ckpt.id] = [o EXCEPT
                        !.data = SubSeq(o.data, 1, Len(ckpt.prefix)), !.mtime = Now,
                        !.flushed = FALSE, !.touched = FALSE]]
    /\ buf' = ckpt.prefix
    /\ pc' = "transfer"
    /\ UNCHANGED <<source, final, part, ckpt, run, journal, armed, outcome, ghost>>

\* DestinationTemp::create: CREATE_NEW of an opaque sibling ...
MakeTemp ==
    /\ pc = "mktemp"
    /\ \/ /\ HasFreshId
          /\ \E n \in Parts :
              /\ part[n] = NoObj
              /\ part' = [part EXCEPT ![n] = FreshId]
              /\ hpart' = n
          /\ store' = [store EXCEPT ![FreshId] = NewObject]
          /\ h' = FreshId
          /\ pc' = "arm"
          /\ UNCHANGED <<source, final, ckpt, run, journal, armed, persistent, buf, outcome, ghost>>
       \/ /\ \A n \in Parts : part[n] # NoObj    \* every candidate collides
          /\ Abandon("failed")
          /\ UNCHANGED ghost
       \/ Fault /\ Abandon("failed")

\* ... then delete-on-close; a failure leaves a harmless orphan.
ArmDelete ==
    /\ pc = "arm"
    /\ \/ /\ armed' = TRUE
          /\ pc' = "transfer"
          /\ UNCHANGED <<source, dest, ckpt, run, journal, h, hpart, persistent, buf, outcome, ghost>>
       \/ Fault /\ Abandon("failed")

\* CheckpointCursor: the next boundary is a multiple of the interval or the end.
AtBoundary(n) == n % CkptEvery = 0 \/ n = Size[snap]

\* transfer_segment: one chunk read, digested and written.
TransferChunk ==
    /\ pc = "transfer"
    /\ Len(buf) < Size[snap]
    /\ \/ /\ Len(buf) < Size[hsrc]
          /\ buf' = Append(buf, <<hsrc, Len(buf) + 1>>)
          /\ store' = [store EXCEPT ![h].data = Append(@, <<hsrc, Len(buf) + 1>>)]
          /\ pc' = IF journal /\ Size[snap] >= CkptThreshold /\ AtBoundary(Len(buf) + 1)
                   THEN "ckpt" ELSE "transfer"
          /\ UNCHANGED <<source, final, part, ckpt, run, journal, handle, outcome, ghost>>
       \/ Len(buf) >= Size[hsrc] /\ Abandon("failed") /\ UNCHANGED ghost
       \/ Fault /\ Abandon("failed")

\* The cancel probe between chunks: CANCELED_MID_FILE.
CancelMidFile ==
    /\ pc = "transfer"
    /\ Len(buf) < Size[snap]
    /\ Fault
    /\ Abandon("canceled")

\* Variant: the source's facts are queried again at the checkpoint.
AppendCheckpoint_Requery ==
    /\ pc = "ckpt"
    /\ ckpt' = [part |-> hpart, id |-> h, version |-> hsrc, prefix |-> buf]
    /\ pc' = "persist"
    /\ UNCHANGED <<source, dest, run, journal, handle, buf, outcome, ghost>>

\* Variant: the digest of a chunk still in flight is recorded.
AppendCheckpoint_Ahead ==
    /\ pc = "ckpt"
    /\ ckpt' = [part |-> hpart, id |-> h, version |-> snap,
                prefix |-> Append(buf, <<hsrc, Len(buf) + 1>>)]
    /\ pc' = "persist"
    /\ UNCHANGED <<source, dest, run, journal, handle, buf, outcome, ghost>>

\* append_checkpoint: the record first ...
AppendCheckpoint ==
    /\ pc = "ckpt"
    /\ \/ /\ ckpt' = [part |-> hpart, id |-> h, version |-> snap, prefix |-> buf]
          /\ pc' = "persist"
          /\ UNCHANGED <<journal, ghost>>
       \/ /\ Fault
          /\ journal' = FALSE
          /\ pc' = "transfer"
          /\ UNCHANGED ckpt
    /\ UNCHANGED <<source, dest, run, handle, buf, outcome>>

\* ... then persist_for_resume clears delete-on-close.
PersistForResume ==
    /\ pc = "persist"
    /\ \/ armed' = FALSE /\ persistent' = TRUE /\ UNCHANGED <<journal, ghost>>
       \/ ~persistent /\ Fault /\ journal' = FALSE /\ UNCHANGED <<armed, persistent>>
    /\ pc' = "transfer"
    /\ UNCHANGED <<source, dest, ckpt, run, h, hpart, buf, outcome>>

\* finish_streamed: post_read_validate once everything was read.
EndTransfer ==
    /\ pc = "transfer"
    /\ Len(buf) = Size[snap]
    /\ IF hsrc = snap
       THEN /\ pc' = "precommit"
            /\ UNCHANGED <<source, dest, ckpt, run, journal, handle, buf, outcome>>
       ELSE Abandon("failed")
    /\ UNCHANGED ghost

\* Variant: the replaced object is not revalidated.
Precommit_Blind ==
    /\ pc = "precommit"
    /\ IF hsrc = snap
       THEN /\ pc' = "unhide"
            /\ UNCHANGED <<source, dest, ckpt, run, journal, handle, buf, outcome>>
       ELSE Abandon("failed")
    /\ UNCHANGED ghost

\* Second post_read_validate, then precommit_validate for a replacement.
Precommit ==
    /\ pc = "precommit"
    /\ IF hsrc = snap /\ (dsnap.id # NoObj => Snapshot(final) = dsnap)
       THEN /\ pc' = "unhide"
            /\ UNCHANGED <<source, dest, ckpt, run, journal, handle, buf, outcome>>
       ELSE Abandon("failed")
    /\ UNCHANGED ghost

\* commit: the temporary must outlive its handle from here on.
ClearDelete ==
    /\ pc = "unhide"
    /\ \/ /\ armed' = FALSE
          /\ pc' = "rename"
          /\ UNCHANGED <<source, dest, ckpt, run, journal, h, hpart, persistent, buf, outcome, ghost>>
       \/ Fault /\ Abandon("failed")

\* rename_by_handle: replacing exactly when there is a snapshot.
Rename ==
    /\ pc = "rename"
    /\ \/ /\ dsnap.id # NoObj \/ final = NoObj
          /\ final' = h
          /\ part' = Unlinked(hpart)
          /\ pc' = "setbasic"
          /\ UNCHANGED <<source, store, ckpt, run, journal, handle, buf, outcome, ghost>>
       \/ /\ \/ dsnap.id = NoObj /\ final # NoObj /\ UNCHANGED ghost
             \/ Fault
          /\ outcome' = "failed"
          /\ pc' = "extras"
          /\ CloseHandles
          /\ part' = IF persistent THEN part ELSE Unlinked(hpart)
          /\ UNCHANGED <<mode, src, store, final, ckpt, run, journal>>

\* commit: the source's times, after the rename.
SetBasic ==
    /\ pc = "setbasic"
    /\ \/ /\ store' = [store EXCEPT ![h].mtime = snap]
          /\ pc' = "flush"
          /\ UNCHANGED <<source, final, part, ckpt, run, journal, handle, buf, outcome, ghost>>
       \/ Fault /\ Abandon("failed")

-----------------------------------------------------------------------------
(* Common tail: flush, poison, close.                                        *)

FlushOrSkip ==
    /\ pc = "flush"
    /\ store' = IF mode.flush THEN [store EXCEPT ![h].flushed = TRUE] ELSE store
    /\ pc' = "close"
    /\ UNCHANGED <<source, final, part, ckpt, run, journal, handle, buf, outcome, ghost>>

\* A failed flush: the stamp is poisoned if the device still answers.
FlushFailed ==
    /\ pc = "flush"
    /\ mode.flush
    /\ Fault
    /\ \E m \in {Poison} \cup (IF PoisonFails THEN {snap} ELSE {}) : store' = [store EXCEPT ![h].mtime = m]
    /\ outcome' = "failed"
    /\ pc' = "extras"
    /\ CloseHandles
    /\ UNCHANGED <<mode, src, final, part, ckpt, run, journal>>

\* close_file, then success; a resumable temporary is retired afterwards.
Close ==
    /\ pc = "close"
    /\ IF mode.deferred /\ Size[snap] < LargeThreshold
       THEN /\ pc' = "deferred"
            /\ h' = NoObj
            /\ UNCHANGED <<hsrc, hpart, armed, persistent, buf, outcome>>
       ELSE /\ pc' = IF journal /\ persistent THEN "retire" ELSE "extras"
            /\ outcome' = "copied"
            /\ CloseHandles
    /\ UNCHANGED <<mode, src, dest, ckpt, run, journal, ghost>>

\* finish_copy: PartDone.
RetirePart ==
    /\ pc = "retire"
    /\ \/ ckpt' = NoCkpt /\ UNCHANGED <<journal, ghost>>
       \/ Fault /\ journal' = FALSE /\ UNCHANGED ckpt
    /\ pc' = "extras"
    /\ UNCHANGED <<source, dest, run, handle, buf, outcome>>

\* A read, write or metadata call on the direct path fails.
SmallFault ==
    /\ pc \in {"read", "truncate", "stamp", "write", "recheck", "finish"}
    /\ Fault
    /\ Abandon("failed")

-----------------------------------------------------------------------------
(* The environment.                                                          *)

Env == faults > 0 /\ faults' = faults - 1

\* A writer changes the source in place: an open handle sees it.
SourceRewritten ==
    /\ Env
    /\ src < MaxVersion
    /\ src' = src + 1
    /\ hsrc' = IF hsrc = src THEN src + 1 ELSE hsrc
    /\ UNCHANGED <<mode, dest, ckpt, pc, run, journal, handle, buf, outcome, raced>>

\* The source is replaced by another file: an open handle keeps the old one.
SourceReplaced ==
    /\ Env
    /\ src < MaxVersion
    /\ src' = src + 1
    /\ UNCHANGED <<mode, hsrc, dest, ckpt, pc, run, journal, handle, buf, outcome, raced>>

AlienData == [i \in 1..ForeignLen |-> <<Alien, i>>]
AlienObject == [data |-> AlienData, mtime |-> Foreign, flushed |-> TRUE,
                own |-> FALSE, touched |-> TRUE]

\* After the last check of the destination nothing notices another program.
Unchecked == pc \in {"unhide", "rename", "deferred"}

\* Our handles share no delete access: a held object cannot be displaced.
ForeignFinal ==
    /\ Env
    /\ h # final \/ h = NoObj
    /\ \/ HasFreshId /\ final' = FreshId /\ store' = [store EXCEPT ![FreshId] = AlienObject]
       \/ final # NoObj /\ final' = NoObj /\ UNCHANGED store
       \/ /\ final # NoObj
          /\ store' = [store EXCEPT ![final] = [AlienObject EXCEPT !.own = store[final].own]]
          /\ UNCHANGED final
    /\ raced' = (raced \/ Unchecked)
    /\ UNCHANGED <<source, part, ckpt, pc, run, journal, handle, buf, outcome>>

\* Another program deletes or displaces a temporary, or changes its bytes.
ForeignPart ==
    /\ Env
    /\ \E n \in Parts :
        /\ part[n] # h \/ h = NoObj
        /\ \/ part[n] # NoObj /\ part' = Unlinked(n) /\ UNCHANGED store
           \/ /\ HasFreshId
              /\ part' = [part EXCEPT ![n] = FreshId]
              /\ store' = [store EXCEPT ![FreshId] = AlienObject]
           \/ /\ part[n] # NoObj
              /\ store' = [store EXCEPT ![part[n]] = [AlienObject EXCEPT !.own = store[part[n]].own]]
              /\ UNCHANGED part
    /\ UNCHANGED <<source, final, ckpt, pc, run, journal, handle, buf, outcome, raced>>

\* The process is killed: the system closes its handles.
Crash ==
    /\ Env
    /\ pc # "idle"
    /\ pc' = "idle"
    /\ outcome' = "none"
    /\ CloseHandles
    /\ DropPlan
    /\ part' = IF armed THEN Unlinked(hpart) ELSE part
    /\ UNCHANGED <<mode, src, store, final, ckpt>>

\* What is left of data the device had not written out.
Rotten(d) == {[d EXCEPT ![k] = <<Rot, k>>] : k \in 1..Len(d)}

\* Power fails: a chunk of an unflushed object, the tail of the journal and a
\* pending deletion may be lost.
PowerLoss ==
    /\ Env
    /\ pc' = "idle"
    /\ outcome' = "none"
    /\ CloseHandles
    /\ DropPlan
    /\ part' \in {part, IF armed THEN Unlinked(hpart) ELSE part}
    /\ \/ UNCHANGED store
       \/ \E i \in Ids :
            /\ ~store[i].flushed
            /\ \E d \in Rotten(store[i].data) :
                store' = [store EXCEPT ![i] = [@ EXCEPT !.data = d, !.touched = TRUE]]
    /\ \/ UNCHANGED ckpt
       \/ ckpt' = NoCkpt
       \/ /\ Len(ckpt.prefix) > CkptEvery
          /\ ckpt' = [ckpt EXCEPT !.prefix = SubSeq(@, 1, CkptEvery)]
    /\ UNCHANGED <<mode, src, final>>

-----------------------------------------------------------------------------
Init ==
    /\ mode \in Modes
    /\ src = 1
    /\ hsrc = 0
    /\ store = [i \in Ids |-> AlienObject]
    /\ final \in {NoObj, CHOOSE i \in Ids : TRUE}
    /\ part = [n \in Parts |-> NoObj]
    /\ ckpt = NoCkpt
    /\ pc = "idle"
    /\ snap = 0
    /\ dsnap = NoSnap
    /\ orphan = FALSE
    /\ journal = FALSE
    /\ h = NoObj
    /\ hpart = NoObj
    /\ armed = FALSE
    /\ persistent = FALSE
    /\ buf = << >>
    /\ outcome = "none"
    /\ raced = FALSE
    /\ faults = MaxFaults

Small == \/ ReadChunk \/ ReadDone \/ CreateNew \/ OpenExisting \/ CreateRefused
         \/ Truncate \/ Stamp \/ WriteChunk \/ WriteDone \/ RecheckSource
         \/ Finish \/ DeferredCheck \/ SmallFault

Large == \/ ResumeMiss \/ ResumeFault \/ ResumeDiscard \/ ResumeVerified
         \/ MakeTemp \/ ArmDelete \/ TransferChunk \/ CancelMidFile
         \/ AppendCheckpoint \/ PersistForResume \/ EndTransfer \/ Precommit
         \/ ClearDelete \/ Rename \/ SetBasic \/ RetirePart

Process == \/ StartRun \/ OpenSource \/ Small \/ Large
           \/ FlushOrSkip \/ FlushFailed \/ Close \/ Reclaim \/ EndRun

Environment == \/ SourceRewritten \/ SourceReplaced
               \/ ForeignFinal \/ ForeignPart \/ Crash \/ PowerLoss

Next == Process \/ Environment

Spec == Init /\ [][Next]_vars

\* The scheduler runs the process and the user reruns an unfinished copy.
FairSpec == Spec /\ WF_vars(Process)

-----------------------------------------------------------------------------
(* Properties.                                                               *)

Outcomes == {"none", "skipped", "copied", "failed", "canceled"}
SomeId   == Ids \cup {NoObj}
SomePart == Parts \cup {NoObj}
Ckpts    == [part: SomePart, id: SomeId, version: 0..MaxVersion, prefix: Seq(Chunks)]
Snaps    == [id: SomeId, size: Nat, mtime: Stamps]

SourceType  == mode \in Modes /\ src \in Versions /\ hsrc \in 0..MaxVersion
DestType    == store \in [Ids -> Objects] /\ final \in SomeId /\ part \in [Parts -> SomeId]
JournalType == ckpt \in Ckpts /\ journal \in BOOLEAN
PlanType    == snap \in 0..MaxVersion /\ dsnap \in Snaps /\ orphan \in BOOLEAN
HandleType  == /\ h \in SomeId /\ hpart \in SomePart
               /\ armed \in BOOLEAN /\ persistent \in BOOLEAN
BufType     == buf \in Seq(Chunks)
ControlType == pc \in Pcs /\ outcome \in Outcomes
GhostType   == raced \in BOOLEAN /\ faults \in 0..MaxFaults

\* Every variable has its type.
TypeOK == /\ SourceType /\ DestType /\ JournalType /\ PlanType
          /\ HandleType /\ BufType /\ ControlType /\ GhostType

\* Whatever was interrupted, whenever: an object the skip test (size and
\* last-write time) takes for a version of the source has that version's
\* bytes, unless the device or another program changed them behind the
\* process's back.  This is what makes a rerun a repair.
NoFalseSame ==
    \A v \in Versions :
        Same(v, Snapshot(final)) /\ ~store[final].touched
            => Complete(store[final].data, v)

\* A hint the current source would be resumed from holds only that source's
\* chunks: a prefix read while the source was changing is never continued.
HintIsOfItsSource ==
    ckpt.id # NoObj /\ ckpt.version = src => ChunksOf(ckpt.prefix, src)

\* The journal never vouches for more than the temporary holds: the record is
\* appended after the write it covers, and later writes only extend it.
HintIsBacked ==
    /\ ckpt.id # NoObj
    /\ \E n \in Parts : part[n] = ckpt.id
    /\ ~store[ckpt.id].touched
    => Begins(store[ckpt.id].data, ckpt.prefix)

\* The final name loses its object, or the object there loses bytes.
Displaces ==
    /\ final # NoObj
    /\ final' # final \/ Len(store'[final].data) < Len(store[final].data)

\* An object is displaced from the final name, or truncated there, only if it
\* is the very object classification saw, unless another program acted after
\* the last check (the window ADR 0013 accepts).
OnlyClassifiedReplaced ==
    [][Displaces => ForeignFinal \/ raced \/ Snapshot(final) = dsnap]_vars

\* An object under a temporary name that bigcp did not create is never
\* deleted by it, whatever the journal says of that name.
NeverDeletesOthers ==
    [][\A n \in Parts :
        part[n] # NoObj /\ ~store[part[n]].own /\ part'[n] # part[n] => ForeignPart]_vars

\* "copied" is reported only with the enumerated version, complete and
\* stamped, under the final name (or another program took it away between
\* the close and the deferred check).
CopiedIsComplete ==
    [][outcome' = "copied" /\ outcome # "copied" /\ ~raced =>
        /\ final # NoObj
        /\ Complete(store[final].data, snap)
        /\ store[final].mtime = snap
        /\ mode.flush => store[final].flushed]_vars

\* After finitely many faults, interruptions and interferences, reruns make
\* the destination match the source for good.
Converges == <>[]Same(src, Snapshot(final))

-----------------------------------------------------------------------------
(* The streamed strategy implements atomic publication.                      *)

\* What the final name shows.
Shown == IF final = NoObj THEN NoObj ELSE store[final].data

Abstract == INSTANCE Publication WITH shown <- Shown, NoFile <- NoObj

\* Where every version is large, the final name goes from what it was to a
\* whole version of the source in one step: no crash, fault or cancellation
\* exposes a partial copy.
AtomicPublication == Abstract!Spec

=============================================================================
