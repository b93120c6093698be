------------------------------ MODULE Streams ------------------------------
(***************************************************************************)
(* How copy_file fills the temporary of one large, sparse or many-streamed *)
(* file (engine.rs): the ordered loop with its checkpoint boundaries, the  *)
(* sparse loop over allocated ranges, the parallel segments of a file that *)
(* crosses WSL's provider once, then the named streams, their own          *)
(* checkpoints and their resume, and the publication.                      *)
(*                                                                         *)
(* A unit stands for the bytes of a boundary-free stretch; its value is    *)
(* the source's last-write time at which it was written, 0 in a hole.  A   *)
(* digest is the sequence of units hashed.  The overlap inside one         *)
(* transfer is Pipeline's, the destination's own races are FileCopy's.     *)
(***************************************************************************)
EXTENDS Naturals, Sequences, FiniteSets, FiniteSetsExt, SequencesExt, Functions

CONSTANTS None,
          Files,          \* the files to choose from
          Chunk, Burst,   \* units of one request, of the same-spindle staging buffer
          LargeThreshold, CkptThreshold, SegThreshold,
          SegMin, SegMax, \* SEGMENT_MIN and SEGMENT_MAX
          Interval,       \* distance of checkpoints
          TierSize,       \* size from which that distance doubles
          Word,           \* the largest u64
          MaxChanges,     \* bound: changes of the source
          MaxFaults,      \* bound: failed calls of the operating system
          MaxRuns         \* bound: runs of the program

ASSUME GeometryAssumption ==
    /\ {Chunk, Burst, Interval, SegMin, SegMax, SegThreshold} \subseteq Nat \ {0}
    /\ SegMin <= SegMax
    /\ Word \in Nat

\* A record of the journal for one stream.
Checkpoints == [temp : Nat, id : Nat, mtime : Nat, size : Nat, mark : Nat, digest : Seq(Nat)]

\* A file has an unnamed stream, and no stream is longer than a u64 can say.
ASSUME FilesAssumption ==
    /\ \A f \in Files :
        /\ "" \in DOMAIN f.data /\ f.journal \in BOOLEAN /\ f.data \in [DOMAIN f.data -> Seq(Nat)]
        /\ \A n \in DOMAIN f.data : Len(f.data[n]) <= Word
    /\ None \notin Nat \cup Seq(Nat) \cup Checkpoints

VARIABLES
    file,       \* the chosen file's fixed facts: transport, sparse or not...
    src,        \* the object the run's source handle names: identity, time, data
    swapped,    \* another object took the source's name
    snap,       \* enumeration's snapshot of it
    enumd,      \* ghost: its data at that moment
    st,         \* where copy_file stands
    call,       \* its locals
    th,         \* the segment threads
    stop,       \* their stop flag
    firstErr,   \* a segment error is recorded
    temps,      \* the temporaries on disk
    ckpt,       \* the journal's live checkpoint of each stream
    canceled,   \* the user canceled
    dest,       \* the published file, its digests and dropped streams
    excused,    \* ghost: temporaries no journal record has to claim
    runs, faults, changes

srcVars  == <<file, src, swapped, changes>>
segVars  == <<th, stop, firstErr>>
diskVars == <<temps, ckpt, dest, excused>>
vars == <<srcVars, snap, enumd, st, call, segVars, diskVars, canceled, runs, faults>>

Fault == faults < MaxFaults /\ faults' = faults + 1

Names == UNION {DOMAIN f.data : f \in Files}
Size(n) == IF n = "" THEN snap.size ELSE call.sizes[n]
Temp == temps[call.temp]

\* A function with one more value.
With(f, x, v) == [y \in DOMAIN f \union {x} |-> IF y = x THEN v ELSE f[y]]

\* The first n units of a sequence, and n zero units.
Prefix(s, n) == SubSeq(s, 1, n)
Zeros(n) == [i \in 1 .. n |-> 0]

\* Writing the units v at position p; a write past the end leaves zeros before it.
Put(s, p, v) ==
    [i \in 1 .. Max({Len(s), p + Len(v)}) |->
        IF i \in p + 1 .. p + Len(v) THEN v[i - p]
        ELSE IF i <= Len(s) THEN s[i] ELSE 0]

Unchanged == /\ ~swapped
             /\ src.mtime = snap.mtime
             /\ Len(src.data[""]) = snap.size

\* Closing the temporary's last handle deletes it while its disposition is armed.
Closed(ts, t) == IF t # None /\ ts[t].armed THEN Restrict(ts, DOMAIN ts \ {t}) ELSE ts

\* copy_file returns: an error drops the temporary.
Fail(why) ==
    /\ st' = why
    /\ temps' = Closed(temps, call.temp)

\* The tests a step makes first: the user's cancellation ends the copy.
Canceled == canceled /\ Fail("failed")

-----------------------------------------------------------------------------
(* Enumeration, the source handle, routing. *)

NoCall == [strat |-> None, sizes |-> << >>, temp |-> None, jr |-> FALSE, fork |-> "",
           pos |-> 0, seg |-> 0, next |-> None, hash |-> << >>, ranges |-> {},
           todo |-> {}, plan |-> << >>, opened |-> 0, hp |-> 0]

\* The coordinator takes the snapshot copy_file is given.  A file it copies itself,
\* with the journal, has its streams listed before it is opened; a worker lists
\* them afterwards.
Enumerate ==
    /\ st = "start"
    /\ snap' = [id |-> src.id, mtime |-> src.mtime, size |-> Len(src.data[""])]
    /\ enumd' = src.data
    /\ call' = [NoCall EXCEPT !.jr = file.journal]
    /\ st' = IF file.journal THEN "list" ELSE "open"
    /\ UNCHANGED <<srcVars, segVars, diskVars, canceled, runs, faults>>

\* open_file: the handle must show the snapshot's identity, size and time, as must
\* the path on both sides of the coordinator's listing (revalidate_source).
OpenSource ==
    /\ st = "open"
    /\ \/ Unchanged /\ st' = (IF file.journal THEN "route" ELSE "list") /\ UNCHANGED <<temps, faults>>
       \/ ~Unchanged /\ Fail("failed") /\ UNCHANGED faults
       \/ Fault /\ Fail("failed")
    /\ UNCHANGED <<srcVars, snap, enumd, call, segVars, ckpt, dest, excused, canceled, runs>>

\* route_streams counts only the streams the destination can represent.
Representable(sizes) == IF file.dstStreams THEN DOMAIN sizes ELSE {""}
Largest(sizes) == Max({sizes[n] : n \in Representable(sizes)})
CheckpointEligible(sizes) ==
    file.journal /\ \E n \in Representable(sizes) : sizes[n] >= CkptThreshold

ShouldHash(sizes) ==
    file.verify \/ Largest(sizes) >= LargeThreshold \/ CheckpointEligible(sizes)

\* segment_plan: ranges <<offset, length>> for a file with one WSL side and a
\* local peer, or no plan.
SegmentPlan(size, sizes) ==
    LET count == Max({SegMin, Min({SegMax, size \div SegThreshold})})
        base  == ((size \div count) \div Chunk) * Chunk
    IN  IF \/ file.transport \notin {"wsl_src", "wsl_dst"}
           \/ file.peerRemote
           \/ DOMAIN sizes # {""}
           \/ size < SegThreshold
           \/ CheckpointEligible(sizes)
           \/ call.jr /\ ckpt[""] # None
           \/ base = 0
        THEN << >>
        ELSE [k \in 1 .. count |->
                <<(k - 1) * base, IF k = count THEN size - (k - 1) * base ELSE base>>]

\* copy_file's choice; a plain small file is FileCopy's.
Strategy(sizes, plan) ==
    IF file.sparse THEN "sparse"
    ELSE IF /\ Largest(sizes) < LargeThreshold
            /\ ~CheckpointEligible(sizes)
            /\ Representable(sizes) = {""}
    THEN "small"
    ELSE IF plan # << >> THEN "segmented" ELSE "ordered"

\* The maximal runs of written units, as <<first, last>>: source.allocated_ranges.
AllocatedRanges(s) ==
    {r \in (1 .. Len(s)) \X (1 .. Len(s)) :
        /\ r[1] <= r[2]
        /\ \A i \in r[1] .. r[2] : s[i] # 0
        /\ r[1] = 1 \/ s[r[1] - 1] = 0
        /\ r[2] = Len(s) \/ s[r[2] + 1] = 0}

\* list_streams, by path.
StreamSizes == [n \in DOMAIN src.data |-> Len(src.data[n])]

ListStreams ==
    /\ st = "list"
    /\ \/ /\ call' = [call EXCEPT !.sizes = StreamSizes]
          /\ st' = IF file.journal THEN "open" ELSE "route"
          /\ UNCHANGED <<temps, faults>>
       \/ Fault /\ Fail("failed") /\ UNCHANGED call
    /\ UNCHANGED <<srcVars, snap, enumd, segVars, ckpt, dest, excused, canceled, runs>>

\* The strategy follows the listed sizes; a sparse copy queries the allocated ranges.
Route ==
    /\ st = "route"
    /\ LET sizes == call.sizes
           plan  == SegmentPlan(snap.size, sizes)
           strat == Strategy(sizes, plan)
       IN  \/ /\ call' = [call EXCEPT
                    !.plan = plan, !.strat = strat,
                    !.todo = IF file.dstStreams THEN DOMAIN sizes \ {""} ELSE {},
                    !.hash = [n \in DOMAIN sizes |->
                                IF n = "" /\ ShouldHash(sizes) THEN << >> ELSE None],
                    !.ranges = IF strat = "sparse" THEN AllocatedRanges(src.data[""]) ELSE {}]
              /\ st' = CASE strat = "small" -> "small"
                         [] strat = "segmented" -> "create"
                         [] OTHER -> "resume"
              /\ UNCHANGED <<temps, faults>>
           \/ file.sparse /\ Fault /\ Fail("failed") /\ UNCHANGED call
    /\ UNCHANGED <<srcVars, snap, enumd, segVars, ckpt, dest, excused, canceled, runs>>

-----------------------------------------------------------------------------
(* CheckpointCursor. *)

\* checkpoint_interval grows with the size.
CheckpointInterval(size) == IF size >= TierSize THEN 2 * Interval ELSE Interval

\* Mutant: the product wraps.
NextCheckpointAfter_Wraps(pos, size) ==
    LET i == CheckpointInterval(size)
    IN  Min({size, ((pos \div i + 1) * i) % (Word + 1)})

\* Mutant: the boundary at the position itself.
NextCheckpointAfter_Same(pos, size) ==
    LET i == CheckpointInterval(size)
    IN  Min({size, Min({Word, (pos \div i) * i})})

\* next_checkpoint_after saturates, and stops at the end of the stream.
NextCheckpointAfter(pos, size) ==
    LET i == CheckpointInterval(size)
    IN  Min({size, Min({Word, (pos \div i + 1) * i})})

Eligible(n) == call.jr /\ Size(n) >= CkptThreshold

\* A cursor for stream n at position p, and the loop that uses it.
StartStream(c, n, p, h) ==
    [c EXCEPT !.fork = n, !.pos = p, !.seg = p, !.hash[n] = h,
              !.next = IF c.jr /\ Size(n) >= CkptThreshold
                       THEN NextCheckpointAfter(p, Size(n)) ELSE None]

\* Where the allocated range, or the hole, that holds the next unit ends.
InRange == call.strat # "sparse" \/ call.fork # ""
           \/ \E r \in call.ranges : call.pos + 1 \in r[1] .. r[2]
RegionEnd ==
    IF call.strat # "sparse" \/ call.fork # "" THEN Size(call.fork)
    ELSE IF InRange
         THEN (CHOOSE r \in call.ranges : call.pos + 1 \in r[1] .. r[2])[2]
         ELSE Min({Size("")} \union {r[1] - 1 : r \in {q \in call.ranges : q[1] > call.pos}})

\* StreamBuffers: a same-spindle burst ends with its staging buffer.
Staged(end) == IF file.transport = "same_spindle" THEN Min({end, call.pos + Burst}) ELSE end

\* Mutant: a hole is hashed to its end, past any boundary in it.
Bound_HolesUnbounded ==
    LET reach == Min({RegionEnd} \union IF call.next = None THEN {} ELSE {call.next})
    IN  IF InRange THEN Staged(reach) ELSE Min({RegionEnd, call.pos + Chunk})

\* CheckpointCursor::bound, capped by the staging buffer or, in a hole, by the
\* chunk of its zeros.
Bound ==
    LET reach == Min({RegionEnd} \union IF call.next = None THEN {} ELSE {call.next})
    IN  IF InRange THEN Staged(reach) ELSE Min({reach, call.pos + Chunk})

-----------------------------------------------------------------------------
(* The temporary: resumed or created. *)

SourceMatches(c, n) ==
    /\ c.id = snap.id /\ c.mtime = snap.mtime
    /\ c.size = Size(n) /\ c.mark <= c.size

\* The journal names a temporary that is still there.
Candidate == call.jr /\ ckpt[""] # None /\ ckpt[""].temp \in DOMAIN temps

\* resume_unnamed: the journal's temporary, if it can be opened, is long enough
\* and its prefix has the checkpoint's digest; otherwise it is discarded.
\* A sparse copy sets the end of file again.
ResumeUnnamed ==
    /\ st = "resume"
    /\ LET c == ckpt[""]
           old == temps[c.temp].data[""]
           kept == Prefix(old, c.mark)
       IN  \/ /\ ~Candidate
              /\ st' = "create"
              /\ UNCHANGED <<call, temps, excused, faults>>
           \/ /\ Candidate
              /\ Fault
              /\ st' = "create"
              /\ excused' = excused \union {c.temp}
              /\ UNCHANGED <<call, temps>>
           \/ /\ Candidate
              /\ SourceMatches(c, "") /\ Len(old) >= c.mark /\ kept = c.digest
              /\ temps' = [temps EXCEPT ![c.temp].data[""] =
                    IF call.strat = "sparse"
                    THEN kept \o Zeros(snap.size - c.mark) ELSE kept]
              /\ call' = StartStream([call EXCEPT !.temp = c.temp], "", c.mark, c.digest)
              /\ st' = "loop"
              /\ UNCHANGED <<excused, faults>>
           \/ /\ Candidate
              /\ ~(SourceMatches(c, "") /\ Len(old) >= c.mark /\ kept = c.digest)
              /\ \/ st' = "create" /\ temps' = Restrict(temps, DOMAIN temps \ {c.temp})
                    /\ UNCHANGED faults
                 \/ Fault /\ st' = "failed" /\ UNCHANGED temps
              /\ UNCHANGED <<call, excused>>
    /\ UNCHANGED <<srcVars, snap, enumd, segVars, ckpt, dest, canceled, runs>>

\* DestinationTemp::create, armed; a sparse copy and a WSL destination pin the
\* end of file at once.
Pinned == \/ call.strat = "sparse"
          \/ call.strat = "segmented" /\ file.transport = "wsl_dst"

CreateTemp ==
    /\ st = "create"
    /\ \/ /\ temps' = With(temps, runs, [armed |-> TRUE, data |-> [n \in {""} |->
                            IF Pinned THEN Zeros(snap.size) ELSE << >>]])
          /\ call' = StartStream([call EXCEPT !.temp = runs], "", 0, call.hash[""])
          /\ st' = IF call.strat = "segmented" THEN "writers" ELSE "loop"
          /\ UNCHANGED faults
       \/ Fault /\ st' = "failed" /\ UNCHANGED <<temps, call>>
    /\ UNCHANGED <<srcVars, snap, enumd, segVars, ckpt, dest, excused, canceled, runs>>

-----------------------------------------------------------------------------
(* The ordered and the sparse loop, and the loop of a named stream. *)

\* One turn of the loop: a transfer up to the bound, or the stream is done.
\* Cancellation is tested before each request and each allocated range, not in
\* the hole at the end.  The boundary lies behind the position only if its
\* arithmetic is wrong.
LoopTurn ==
    /\ st = "loop"
    /\ \/ call.pos < Size(call.fork) /\ (~canceled \/ ~InRange)
          /\ IF call.next # None /\ call.next < call.pos
             THEN Fail("internal") /\ UNCHANGED call
             ELSE /\ call' = [call EXCEPT !.seg = Bound]
                  /\ st' = "move"
                  /\ UNCHANGED temps
       \/ /\ call.pos < Size(call.fork)
          /\ InRange \/ RegionEnd < Size("")
          /\ Canceled
          /\ UNCHANGED call
       \/ call.pos = Size(call.fork)
          /\ st' = (IF call.fork = "" THEN "read" ELSE "flushed")
          /\ UNCHANGED <<call, temps>>
    /\ UNCHANGED <<srcVars, snap, enumd, segVars, ckpt, dest, excused, canceled, runs, faults>>

Hashed(h, v) == IF h = None THEN None ELSE h \o v

\* The length of the next request.
Requested == Min({Chunk, call.seg - call.pos})

\* One request: read, hash, write.
MoveData ==
    LET n == call.fork
        v == SubSeq(src.data[n], call.pos + 1, call.pos + Requested)
    IN  /\ ~canceled /\ InRange /\ Len(src.data[n]) >= call.pos + Requested
        /\ temps' = [temps EXCEPT ![call.temp].data[n] = Put(@, call.pos, v)]
        /\ call' = [call EXCEPT !.pos = @ + Requested, !.hash[n] = Hashed(@, v)]
        /\ UNCHANGED <<st, faults>>

\* A hole is only hashed.
MoveHole ==
    /\ ~InRange
    /\ call' = [call EXCEPT !.pos = @ + Requested, !.hash[""] = Hashed(@, Zeros(Requested))]
    /\ UNCHANGED <<st, temps, faults>>

\* A cancellation, an error, and a source that ends early (SourceChanged).
MoveStops ==
    /\ InRange
    /\ \/ canceled /\ UNCHANGED faults
       \/ Len(src.data[call.fork]) < call.pos + Requested /\ UNCHANGED faults
       \/ Fault
    /\ Fail("failed")
    /\ UNCHANGED call

\* transfer_segment, request by request, and the zeros of a hole.
MoveChunk ==
    /\ st = "move" /\ call.pos < call.seg
    /\ MoveData \/ MoveHole \/ MoveStops
    /\ UNCHANGED <<srcVars, snap, enumd, segVars, ckpt, dest, excused, canceled, runs>>

\* CheckpointCursor::advance: only exactly on the boundary.
Advance ==
    /\ st = "move" /\ call.pos = call.seg
    /\ st' = IF call.next = call.pos THEN "append" ELSE "loop"
    /\ UNCHANGED <<srcVars, snap, enumd, call, segVars, diskVars, canceled, runs, faults>>

\* append_checkpoint's record for stream n at its position.
Record(n, mark) ==
    [temp |-> call.temp, id |-> snap.id, mtime |-> snap.mtime, size |-> Size(n),
     mark |-> mark, digest |-> call.hash[n]]

\* append_checkpoint, first half: the durable journal record.  Without a live
\* hasher it is an internal error; a failed append disables the journal.
AppendRecord(n, then) ==
    \/ /\ call.hash[n] # None
       /\ ckpt' = [ckpt EXCEPT ![n] = Record(n, Len(call.hash[n]))]
       /\ st' = then
       /\ UNCHANGED <<call, temps, faults>>
    \/ /\ call.hash[n] = None
       /\ Fail("internal")
       /\ UNCHANGED <<call, ckpt, faults>>

Disable == call' = [call EXCEPT !.jr = FALSE, !.next = None]

\* Mutant: the disposition is cleared before the record is durable.
AppendCheckpoint_PersistFirst ==
    /\ st = "append"
    /\ \/ /\ Temp.armed
          /\ temps' = [temps EXCEPT ![call.temp].armed = FALSE]
          /\ UNCHANGED <<st, call, ckpt, faults>>
       \/ ~Temp.armed /\ AppendRecord(call.fork, "persist")
       \/ Fault /\ Disable /\ st' = "loop" /\ UNCHANGED <<ckpt, temps>>
    /\ UNCHANGED <<srcVars, snap, enumd, segVars, dest, excused, canceled, runs>>

AppendCheckpoint ==
    /\ st = "append"
    /\ \/ AppendRecord(call.fork, "persist")
       \/ Fault /\ Disable /\ st' = "loop" /\ UNCHANGED <<ckpt, temps>>
    /\ UNCHANGED <<srcVars, snap, enumd, segVars, dest, excused, canceled, runs>>

\* Its second half: persist_for_resume clears the disposition, and the cursor
\* schedules the next boundary.
Persist ==
    /\ st = "persist"
    /\ \/ /\ temps' = [temps EXCEPT ![call.temp].armed = FALSE]
          /\ call' = [call EXCEPT !.next =
                IF call.pos < Size(call.fork)
                THEN NextCheckpointAfter(call.pos, Size(call.fork)) ELSE None]
          /\ UNCHANGED faults
       \/ Temp.armed /\ Fault /\ Disable /\ UNCHANGED temps
    /\ st' = "loop"
    /\ UNCHANGED <<srcVars, snap, enumd, segVars, ckpt, dest, excused, canceled, runs>>

-----------------------------------------------------------------------------
(* The tail: the named streams, the second validation, the rename. *)

\* post_read_validate on the source handle: size and time, whatever the name
\* now leads to.
HandleUnchanged == src.mtime = snap.mtime /\ Len(src.data[""]) = snap.size

\* The first post_read_validate, then ensure_base_checkpoint_for_named: a large
\* named stream needs a journal record for the base file first.
ReadEnds ==
    /\ st = "read"
    /\ LET base == /\ file.dstStreams /\ call.jr /\ Temp.armed
                   /\ \E n \in call.todo : Size(n) >= CkptThreshold
       IN  \/ HandleUnchanged /\ st' = (IF base THEN "base" ELSE "named")
              /\ UNCHANGED <<temps, faults>>
           \/ ~HandleUnchanged /\ Fail("failed") /\ UNCHANGED faults
           \/ Fault /\ Fail("failed")
    /\ UNCHANGED <<srcVars, snap, enumd, call, segVars, ckpt, dest, excused, canceled, runs>>

BaseCheckpoint ==
    /\ st = "base"
    /\ \/ AppendRecord("", "basepersist")
       \/ Fault /\ Disable /\ st' = "named" /\ UNCHANGED <<ckpt, temps>>
    /\ UNCHANGED <<srcVars, snap, enumd, segVars, dest, excused, canceled, runs>>

BasePersist ==
    /\ st = "basepersist"
    /\ \/ temps' = [temps EXCEPT ![call.temp].armed = FALSE] /\ UNCHANGED <<call, faults>>
       \/ Fault /\ Disable /\ UNCHANGED temps
    /\ st' = "named"
    /\ UNCHANGED <<srcVars, snap, enumd, segVars, ckpt, dest, excused, canceled, runs>>

NamedHash(n) ==
    IF file.verify \/ Size(n) >= LargeThreshold \/ Eligible(n) THEN << >> ELSE None

\* Mutant: the digest of the resumed prefix is not compared.
NamedResumes_NoDigest(n) ==
    LET c == ckpt[n] IN
    /\ call.jr /\ c # None /\ c.temp = call.temp
    /\ SourceMatches(c, n)
    /\ n \in DOMAIN Temp.data
    /\ Len(Temp.data[n]) >= c.mark

\* resume_named: the checkpoint must name this temporary and this source, and the
\* stream must be long enough and have the digest.
NamedResumes(n) ==
    LET c == ckpt[n] IN
    /\ call.jr /\ c # None /\ c.temp = call.temp
    /\ SourceMatches(c, n)
    /\ n \in DOMAIN Temp.data
    /\ Len(Temp.data[n]) >= c.mark
    /\ Prefix(Temp.data[n], c.mark) = c.digest

\* copy_named_streams opens the next stream by name and proves the object; the
\* destination stream is resumed, or created with the disposition cleared for
\* the time of the open.
OpenNamed(n) ==
    /\ st = "named" /\ n \in call.todo
    /\ LET c == ckpt[n]
       IN  \/ /\ ~swapped /\ NamedResumes(n)
              /\ temps' = [temps EXCEPT ![call.temp].data[n] = Prefix(@, c.mark)]
              /\ call' = StartStream([call EXCEPT !.todo = @ \ {n}], n, c.mark, c.digest)
              /\ st' = "loop"
              /\ UNCHANGED faults
           \/ /\ ~swapped /\ ~NamedResumes(n)
              /\ temps' = [temps EXCEPT ![call.temp] =
                            [armed |-> FALSE, data |-> With(@.data, n, << >>)]]
              /\ call' = StartStream([call EXCEPT !.todo = @ \ {n}], n, 0, NamedHash(n))
              /\ st' = IF Temp.armed THEN "rearm" ELSE "loop"
              /\ UNCHANGED faults
           \/ swapped /\ Fail("failed") /\ UNCHANGED <<call, faults>>
           \/ Fault /\ Fail("failed") /\ UNCHANGED call
    /\ UNCHANGED <<srcVars, snap, enumd, segVars, ckpt, dest, excused, canceled, runs>>

\* create_stream and open_segment_writer arm the disposition again; when that
\* fails the temporary is left behind.
Rearm(then) ==
    \/ /\ temps' = [temps EXCEPT ![call.temp].armed = TRUE]
       /\ st' = then
       /\ UNCHANGED <<excused, faults>>
    \/ /\ Fault
       /\ st' = "failed"
       /\ excused' = excused \union {call.temp}
       /\ UNCHANGED temps

RearmNamed ==
    /\ st = "rearm" /\ Rearm("loop")
    /\ UNCHANGED <<srcVars, snap, enumd, call, segVars, ckpt, dest, canceled, runs>>

FlushNamed ==
    /\ st = "flushed"
    /\ \/ st' = "named" /\ UNCHANGED <<temps, faults>>
       \/ Fault /\ Fail("failed")
    /\ UNCHANGED <<srcVars, snap, enumd, call, segVars, ckpt, dest, excused, canceled, runs>>

\* copy_eas, then the second post_read_validate.
Validate ==
    /\ st = "named" /\ call.todo = {}
    /\ \/ HandleUnchanged /\ st' = "commit" /\ UNCHANGED <<temps, faults>>
       \/ ~HandleUnchanged /\ Fail("failed") /\ UNCHANGED faults
       \/ Fault /\ Fail("failed")
    /\ UNCHANGED <<srcVars, snap, enumd, call, segVars, ckpt, dest, excused, canceled, runs>>

\* commit: the rename publishes the temporary; a failed one leaves it as it was.
Commit ==
    /\ st = "commit"
    /\ \/ /\ dest' = [data |-> Temp.data, hash |-> call.hash,
                      dropped |-> DOMAIN call.sizes \ Representable(call.sizes)]
          /\ temps' = Restrict(temps, DOMAIN temps \ {call.temp})
          /\ st' = "ok"
          /\ UNCHANGED faults
       \/ Fault /\ Fail("failed") /\ UNCHANGED dest
    /\ UNCHANGED <<srcVars, snap, enumd, call, segVars, ckpt, excused, canceled, runs>>

-----------------------------------------------------------------------------
(* Parallel segments. *)

Threads == DOMAIN call.plan

\* open_segment_writer, for each range in turn and before any thread starts: the
\* disposition is cleared for the open and armed again.
OpenWriter ==
    /\ st = "writers"
    /\ \/ /\ call.opened < Len(call.plan)
          /\ temps' = [temps EXCEPT ![call.temp].armed = FALSE]
          /\ call' = [call EXCEPT !.opened = @ + 1]
          /\ st' = "writer"
          /\ UNCHANGED <<segVars, faults>>
       \/ /\ call.opened = Len(call.plan)
          /\ th' = [k \in Threads |-> [at |-> "open", pos |-> call.plan[k][1]]]
          /\ stop' = FALSE /\ firstErr' = FALSE
          /\ st' = "segments"
          /\ UNCHANGED <<temps, call, faults>>
       \/ /\ call.opened < Len(call.plan)
          /\ Fault /\ Fail("failed") /\ UNCHANGED <<call, segVars>>
    /\ UNCHANGED <<srcVars, snap, enumd, ckpt, dest, excused, canceled, runs>>

RearmWriter ==
    /\ st = "writer" /\ Rearm("writers")
    /\ UNCHANGED <<srcVars, snap, enumd, call, segVars, ckpt, dest, canceled, runs>>

\* record_segment_error keeps the first error and stops the siblings.
RecordSegmentError == firstErr' = TRUE /\ stop' = TRUE

\* copy_segment_range: a source handle of its own, proven against the snapshot.
SegmentOpen(k) ==
    /\ st = "segments" /\ th[k].at = "open"
    /\ \/ /\ Unchanged
          /\ th' = [th EXCEPT ![k].at = "copy"]
          /\ UNCHANGED <<stop, firstErr, faults>>
       \/ /\ ~Unchanged
          /\ th' = [th EXCEPT ![k].at = "done"] /\ RecordSegmentError
          /\ UNCHANGED faults
       \/ Fault /\ th' = [th EXCEPT ![k].at = "done"] /\ RecordSegmentError
    /\ UNCHANGED <<srcVars, snap, enumd, st, call, diskVars, canceled, runs>>

SegmentEnd(k) == call.plan[k][1] + call.plan[k][2]

\* One chunk of a segment; a read may return fewer units than asked for.
SegmentMove(k) ==
    /\ st = "segments" /\ th[k].at = "copy" /\ ~stop
    /\ th[k].pos < SegmentEnd(k)
    /\ LET p == th[k].pos
           asked == Min({Chunk, SegmentEnd(k) - p})
           there == Len(src.data[""]) - p
       IN  \/ /\ ~canceled /\ there > 0
              /\ \E c \in 1 .. Min({asked, there}) :
                    /\ temps' = [temps EXCEPT ![call.temp].data[""] =
                            Put(@, p, SubSeq(src.data[""], p + 1, p + c))]
                    /\ th' = [th EXCEPT ![k].pos = p + c]
              /\ UNCHANGED <<stop, firstErr, faults>>
           \/ /\ canceled \/ Len(src.data[""]) <= p
              /\ th' = [th EXCEPT ![k].at = "done"] /\ RecordSegmentError
              /\ UNCHANGED <<temps, faults>>
           \/ Fault /\ th' = [th EXCEPT ![k].at = "done"] /\ RecordSegmentError
              /\ UNCHANGED temps
    /\ UNCHANGED <<srcVars, snap, enumd, st, call, ckpt, dest, excused, canceled, runs>>

\* A segment ends with its range written and flushed, or at the stop flag.
SegmentDone(k) ==
    /\ st = "segments" /\ th[k].at = "copy"
    /\ \/ stop /\ th[k].pos < SegmentEnd(k) /\ UNCHANGED <<stop, firstErr, faults>>
       \/ th[k].pos = SegmentEnd(k) /\ UNCHANGED <<stop, firstErr, faults>>
       \/ th[k].pos = SegmentEnd(k) /\ Fault /\ RecordSegmentError
    /\ th' = [th EXCEPT ![k].at = "done"]
    /\ UNCHANGED <<srcVars, snap, enumd, st, call, diskVars, canceled, runs>>

HashesSource == file.transport = "wsl_dst" /\ call.hash[""] # None

\* hash_local_source: the coordinator reads the whole file through its own
\* handle while the segments run.
HashSource ==
    /\ st = "segments" /\ HashesSource /\ ~stop /\ call.hp < snap.size
    /\ LET k == Min({Chunk, snap.size - call.hp})
       IN  \/ /\ ~canceled /\ Len(src.data[""]) >= call.hp + k
              /\ call' = [call EXCEPT !.hp = @ + k,
                    !.hash[""] = @ \o SubSeq(src.data[""], call.hp + 1, call.hp + k)]
              /\ UNCHANGED <<stop, firstErr, faults>>
           \/ /\ canceled \/ Len(src.data[""]) < call.hp + k
              /\ RecordSegmentError
              /\ UNCHANGED <<call, faults>>
           \/ Fault /\ RecordSegmentError /\ UNCHANGED call
    /\ UNCHANGED <<srcVars, snap, enumd, st, th, diskVars, canceled, runs>>

\* The join: the recorded error is the result; otherwise a local temporary is
\* hashed (hash_local_temp) and the shared tail follows.
Join ==
    /\ st = "segments"
    /\ \A k \in Threads : th[k].at = "done"
    /\ HashesSource => stop \/ call.hp = snap.size
    /\ \/ firstErr /\ Fail("failed") /\ UNCHANGED <<call, faults>>
       \/ /\ ~firstErr
          /\ file.transport = "wsl_dst" \/ call.hash[""] = None
          /\ st' = "read" /\ UNCHANGED <<temps, call, faults>>
       \/ /\ ~firstErr /\ file.transport = "wsl_src" /\ call.hash[""] # None
          /\ \/ canceled /\ Fail("failed") /\ UNCHANGED <<call, faults>>
             \/ Fault /\ Fail("failed") /\ UNCHANGED call
             \/ Len(Temp.data[""]) < snap.size /\ Fail("internal") /\ UNCHANGED <<call, faults>>
             \/ /\ ~canceled /\ Len(Temp.data[""]) >= snap.size
                /\ call' = [call EXCEPT !.hash[""] = Prefix(Temp.data[""], snap.size)]
                /\ st' = "read" /\ UNCHANGED <<temps, faults>>
    /\ UNCHANGED <<srcVars, snap, enumd, segVars, ckpt, dest, excused, canceled, runs>>

-----------------------------------------------------------------------------
(* The world around: other programs, the user, the end of the process. *)

Running == st \notin {"start", "ok", "failed", "internal", "killed", "small"}

\* Another program writes a unit, or cuts a stream short: the time moves.
ChangeSource ==
    /\ Running /\ changes < MaxChanges
    /\ changes' = changes + 1
    /\ \/ \E n \in DOMAIN src.data : \E i \in DOMAIN src.data[n] :
            src' = [src EXCEPT !.mtime = @ + 1, !.data[n][i] = src.mtime + 1]
       \/ \E n \in DOMAIN src.data :
            /\ src.data[n] # << >>
            /\ src' = [src EXCEPT !.mtime = @ + 1, !.data[n] = Front(@)]
    /\ UNCHANGED <<file, swapped, snap, enumd, st, call, segVars, diskVars, canceled, runs, faults>>

\* Another object takes the source's name; open handles keep theirs.
SwapSource ==
    /\ Running /\ changes < MaxChanges /\ ~swapped
    /\ changes' = changes + 1
    /\ swapped' = TRUE
    /\ UNCHANGED <<file, src, snap, enumd, st, call, segVars, diskVars, canceled, runs, faults>>

\* The user cancels; the bound counts it as a failure.
CancelRun ==
    /\ Running /\ ~canceled /\ Fault
    /\ canceled' = TRUE
    /\ UNCHANGED <<srcVars, snap, enumd, st, call, segVars, diskVars, runs>>

\* The process ends: the system closes its handles.
Kill ==
    /\ Running /\ runs < MaxRuns
    /\ st' = "killed"
    /\ temps' = Closed(temps, call.temp)
    /\ excused' = IF st \in {"rearm", "writer"} THEN excused \union {call.temp} ELSE excused
    /\ UNCHANGED <<srcVars, snap, enumd, call, segVars, ckpt, dest, canceled, runs, faults>>

\* Power is lost: the disposition of the claimed temporary is not carried out,
\* and a unit that was not synchronized, or the end of a stream, is gone.
\* (An unclaimed temporary is an orphan, which FileCopy's next run reclaims.)
PowerLoss ==
    /\ Running /\ runs < MaxRuns /\ Candidate /\ ckpt[""].temp = call.temp
    /\ st' = "killed"
    /\ \E n \in DOMAIN Temp.data : \E i \in DOMAIN Temp.data[n] :
        \E s \in {[Temp.data[n] EXCEPT ![i] = 0], Prefix(Temp.data[n], i - 1)} :
            temps' = [temps EXCEPT ![call.temp].data[n] = s, ![call.temp].armed = FALSE]
    /\ UNCHANGED <<srcVars, snap, enumd, call, segVars, ckpt, dest, excused, canceled, runs, faults>>

\* The next run enumerates whatever has the name now.
Rerun ==
    /\ st \in {"killed", "failed"} /\ runs < MaxRuns
    /\ runs' = runs + 1
    /\ st' = "start"
    /\ canceled' = FALSE
    /\ swapped' = FALSE
    /\ src' = IF swapped
              THEN [id |-> src.id + 1, mtime |-> src.mtime + 1,
                    data |-> [n \in DOMAIN src.data |->
                                [i \in DOMAIN src.data[n] |-> src.mtime + 1]]]
              ELSE src
    /\ call' = NoCall /\ th' = << >> /\ stop' = FALSE /\ firstErr' = FALSE
    /\ snap' = None /\ enumd' = None
    /\ UNCHANGED <<file, changes, diskVars, faults>>

Init ==
    /\ file \in Files
    /\ src = [id |-> 1, mtime |-> 1, data |-> file.data]
    /\ swapped = FALSE
    /\ snap = None /\ enumd = None
    /\ st = "start"
    /\ call = NoCall
    /\ th = << >> /\ stop = FALSE /\ firstErr = FALSE
    /\ temps = << >>
    /\ ckpt = [n \in Names |-> None]
    /\ canceled = FALSE
    /\ dest = None
    /\ excused = {}
    /\ runs = 1 /\ faults = 0 /\ changes = 0

Transfer ==
    \/ Enumerate \/ OpenSource \/ ListStreams \/ Route \/ ResumeUnnamed \/ CreateTemp
    \/ LoopTurn \/ MoveChunk \/ Advance \/ AppendCheckpoint \/ Persist
    \/ ReadEnds \/ BaseCheckpoint \/ BasePersist
    \/ (\E n \in Names : OpenNamed(n)) \/ RearmNamed \/ FlushNamed
    \/ Validate \/ Commit \/ OpenWriter \/ RearmWriter \/ Join

World == ChangeSource \/ SwapSource \/ CancelRun \/ Kill \/ PowerLoss \/ Rerun

Ended == st \in {"ok", "small", "internal", "failed", "killed"} /\ UNCHANGED vars

Next == \/ Transfer \/ HashSource \/ World \/ Ended
        \/ \E k \in DOMAIN th : SegmentOpen(k) \/ SegmentMove(k) \/ SegmentDone(k)

Spec == Init /\ [][Next]_vars

\* The thread that runs copy_file and each segment thread are scheduled.
FairSpec ==
    /\ Spec
    /\ WF_vars(Transfer)
    /\ WF_vars(HashSource)
    /\ \A k \in 1 .. SegMax : WF_vars(k \in DOMAIN th
            /\ (SegmentOpen(k) \/ SegmentMove(k) \/ SegmentDone(k)))

-----------------------------------------------------------------------------
(* Properties. *)

\* What copy_file publishes is the enumerated version of every stream the
\* destination can hold, no other stream, and the digests it reports are of
\* exactly that, whichever strategy, resume, race or failure came before
\* (finish_streamed, copy_sparse, copy_streamed_segmented).
PublishedIsEnumerated ==
    dest # None =>
        /\ DOMAIN dest.data = Representable(call.sizes)
        /\ dest.dropped = DOMAIN enumd \ DOMAIN dest.data
        /\ \A n \in DOMAIN dest.data :
            /\ dest.data[n] = enumd[n]
            /\ dest.hash[n] \in {None, enumd[n]}

\* A temporary that outlives its run is claimed by a journal record, so that the
\* next run resumes or reclaims it; the exceptions are one that could not be
\* opened, armed again or deleted (append_checkpoint writes the record before
\* persist_for_resume).
KeptIsClaimed ==
    \A t \in DOMAIN temps \ excused :
        ~temps[t].armed =>
            \/ ckpt[""] # None /\ ckpt[""].temp = t
            \/ st \in {"rearm", "writer"} /\ t = call.temp

\* In the loop of a stream with checkpoints no boundary lies between the last
\* checkpoint and the position, holes included: a kill costs less than an
\* interval (CheckpointCursor).
BoundedLoss ==
    st = "loop" /\ call.next # None =>
        LET c == ckpt[call.fork]
            mark == IF c # None /\ c.temp = call.temp THEN c.mark ELSE 0
        IN  call.pos - mark < CheckpointInterval(Size(call.fork))

\* The errors the code calls its own bugs never occur: a checkpoint without a
\* digest, a boundary behind the position, a short temporary after every segment
\* succeeded (append_checkpoint, CheckpointCursor::bound, hash_local_temp).
NeverInternal == st # "internal"

\* copy_file returns, unless the process ends first: no loop stands still at a
\* boundary and no join waits for a thread that stopped.
Returns == Running ~> ~Running
=============================================================================
