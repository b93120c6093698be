------------------------------ MODULE Journal ------------------------------
(***************************************************************************)
(* The resume journal of one destination (crates/core/src/journal.rs) over *)
(* several runs of the program: one append-only file of CRC-framed lines,  *)
(* its tolerant loader, appends that may stop part way, the compaction at  *)
(* the end of a run, and the temporaries on the destination that only the  *)
(* journal can prove to be the program's own.                              *)
(*                                                                         *)
(* A line is a whole record or junk (a record cut short, or two records    *)
(* run together), and only the last line can lack its newline.  A process  *)
(* may be killed at any moment, inside an append too.  Records of older    *)
(* and newer builds, damage to lines already written, and power loss are   *)
(* left out.                                                               *)
(***************************************************************************)
EXTENDS Naturals, Sequences, FiniteSets, SequencesExt

CONSTANTS Paths,        \* files large enough to be checkpointed
          Temps,        \* names of temporaries; never used twice
          Sigs,         \* job signatures
          MaxMark,      \* bound: checkpoints of one temporary
          MaxAppends,   \* bound: appends over all runs
          MaxRuns,      \* bound: runs
          None

Ckpts == [path : Paths, temp : Temps, mark : 1 .. MaxMark]

ASSUME JournalAssumption ==
    /\ IsFiniteSet(Paths)
    /\ None \notin Paths \cup Temps \cup Sigs \cup Ckpts
    /\ {MaxMark, MaxAppends, MaxRuns} \subseteq Nat

Events == [ev : {"job"}, sig : Sigs] \cup [ev : {"checkpoint"}, ckpt : Ckpts]
          \cup [ev : {"part_done"}, path : Paths] \cup [ev : {"end"}]
Junk == [ev |-> "junk"]

VARIABLES
    disk,           \* the lines of the journal file
    phase,          \* "closed", "opened" (loaded, no job yet) or "running"
    resumable, reclaimable, active_job,     \* the loaded state kept in memory
    parts,          \* temporaries kept on the destination under a checkpoint
    used, appends, runs,
    may,            \* for each path, what a reader of the journal may find
    forgotten,      \* kept temporaries that could not be opened, or whose journal could not be read
    dropped         \* kept temporaries whose proof was truncated or compacted away

memVars == <<resumable, reclaimable, active_job>>
lossVars == <<forgotten, dropped>>
vars == <<disk, phase, memVars, parts, used, appends, runs, may, lossVars>>

Job(sig) == [ev |-> "job", sig |-> sig]
Check(c) == [ev |-> "checkpoint", ckpt |-> c]
PartDone(p) == [ev |-> "part_done", path |-> p]
End == [ev |-> "end"]
Line(event, nl) == [event |-> event, nl |-> nl]

NoHints == [p \in Paths |-> None]
TempsOf(hints) == {hints[p].temp : p \in {q \in Paths : hints[q] # None}}

---------------------------------------------------------------------------
(* Loading. *)

Empty == [resumable |-> NoHints, reclaimable |-> {}, active_job |-> None]

Applied_NoHarvest(state, event) ==
    CASE event.ev = "job" ->
           IF state.active_job \in {None, event.sig} THEN [state EXCEPT !.active_job = event.sig]
           ELSE [state EXCEPT !.active_job = event.sig, !.resumable = NoHints]
      [] event.ev = "checkpoint" -> [state EXCEPT !.resumable[event.ckpt.path] = event.ckpt]
      [] event.ev = "part_done"  -> [state EXCEPT !.resumable[event.path] = None]
      [] OTHER -> state

\* A changed signature keeps the proof of what the cleared hints named.
Applied(state, event) ==
    CASE event.ev = "job" ->
           IF state.active_job \in {None, event.sig} THEN [state EXCEPT !.active_job = event.sig]
           ELSE [state EXCEPT !.active_job = event.sig, !.resumable = NoHints,
                              !.reclaimable = @ \cup TempsOf(state.resumable)]
      [] event.ev = "checkpoint" -> [state EXCEPT !.resumable[event.ckpt.path] = event.ckpt]
      [] event.ev = "part_done"  -> [state EXCEPT !.resumable[event.path] = None]
      [] OTHER -> state

\* Junk is skipped inside the file and cut off at its end; neither is trusted.
Replay(lines) ==
    LET state[i \in 0 .. Len(lines)] ==
            IF i = 0 THEN Empty ELSE Applied(state[i - 1], lines[i].event)
    IN  state[Len(lines)]
TornTail(lines) == lines # <<>> /\ Last(lines).event = Junk
Truncated(lines) == IF TornTail(lines) THEN Front(lines) ELSE lines

Load(state) == /\ resumable' = state.resumable
               /\ reclaimable' = state.reclaimable
               /\ active_job' = state.active_job

---------------------------------------------------------------------------
(* Appending. *)

Healed_Not(lines) == lines
\* A missing newline is supplied before the next record.
Healed(lines) == IF lines = <<>> THEN lines
                 ELSE [lines EXCEPT ![Len(lines)].nl = TRUE]

\* What a write that puts part or all of a record on the file leaves there: on an
\* unterminated line it runs into the record before it.
Written(lines, event, nl) ==
    IF lines # <<>> /\ ~Last(lines).nl
    THEN Append(Front(lines), Line(Junk, nl))
    ELSE Append(lines, Line(event, nl))

\* A write that fails or is killed: nothing or only the newline of the record
\* before reached the file, or a fragment, or all but the newline.
Stopped(event) == {disk, Healed(disk), Written(Healed(disk), Junk, FALSE),
                   Written(Healed(disk), event, FALSE)}

Count == appends < MaxAppends /\ appends' = appends + 1

\* What readers may find afterwards: exactly the new value, or also the new value.
Value(event) == CASE event.ev = "checkpoint" -> event.ckpt [] OTHER -> None
Touched(event) == CASE event.ev = "checkpoint" -> {event.ckpt.path}
                    [] event.ev = "part_done"  -> {event.path}
                    [] event.ev = "job" /\ event.sig # Replay(disk).active_job
                                               -> {p \in Paths : Replay(disk).active_job # None}
                    [] OTHER -> {}
Becomes(event) == may' = [p \in Paths |-> IF p \in Touched(event) THEN {Value(event)} ELSE may[p]]
MayBecome(event) == may' = [p \in Paths |-> IF p \in Touched(event)
                                            THEN may[p] \cup {Value(event)} ELSE may[p]]

AppendOk(event) ==
    /\ Count
    /\ disk' = Written(Healed(disk), event, TRUE)
    /\ Becomes(event)
AppendFails(event) ==
    /\ Count
    /\ disk' \in Stopped(event)
    /\ MayBecome(event)

\* The journal is closed: the process is gone, or the rest of the run has no journal.
Closed ==
    /\ phase' = "closed"
    /\ Load(Empty)

\* A kill inside or just after an append, or a failed append that ends journaling.
Interrupted(event) ==
    /\ Count
    /\ disk' \in Stopped(event) \cup {Written(Healed(disk), event, TRUE)}
    /\ MayBecome(event)
    /\ Closed

---------------------------------------------------------------------------
(* A run. *)

Open ==
    /\ phase = "closed"
    /\ runs < MaxRuns
    /\ runs' = runs + 1
    /\ Load(Replay(disk))
    /\ disk' = Truncated(disk)
    /\ phase' = "opened"
    /\ UNCHANGED <<parts, used, appends, may, lossVars>>

ProofsOf(state) == state.reclaimable \cup TempsOf(state.resumable)

\* --fresh: the proofs are read into memory, then the file is emptied.  A file that
\* cannot be read yields no proofs and is emptied all the same.
OpenFresh ==
    /\ phase = "closed"
    /\ runs < MaxRuns
    /\ runs' = runs + 1
    /\ LET proofs == ProofsOf(Replay(disk))
       IN  \/ /\ Load([Empty EXCEPT !.reclaimable = proofs])
              /\ dropped' = dropped \cup proofs
              /\ UNCHANGED forgotten
           \/ /\ Load(Empty)
              /\ forgotten' = forgotten \cup proofs
              /\ UNCHANGED dropped
    /\ disk' = <<>>
    /\ phase' = "opened"
    /\ may' = [p \in Paths |-> {None}]
    /\ UNCHANGED <<parts, used, appends>>

Memory == [resumable |-> resumable, reclaimable |-> reclaimable, active_job |-> active_job]
Begun_KeepsHints(sig) == [Memory EXCEPT !.active_job = sig]
\* begin_job mirrors the loader's treatment of a changed signature.
Begun(sig) ==
    IF active_job \in {None, sig} THEN [Memory EXCEPT !.active_job = sig]
    ELSE [resumable |-> NoHints, reclaimable |-> ProofsOf(Memory), active_job |-> sig]

BeginJob(sig) ==
    /\ phase = "opened"
    /\ \/ /\ AppendOk(Job(sig))
          /\ Load(Begun(sig))
          /\ phase' = "running"
       \/ Interrupted(Job(sig))
    /\ UNCHANGED <<parts, used, runs, lossVars>>

\* The next boundary of the temporary the path already has, or the first one of a new
\* temporary.
NextCkpts(p) ==
    {c \in Ckpts : /\ c.path = p
                   /\ \/ c.temp \notin used /\ c.mark = 1
                      \/ /\ resumable[p] # None
                         /\ c.temp = resumable[p].temp /\ c.temp \in parts
                         /\ c.mark = resumable[p].mark + 1}
Superseded(c) == {t \in parts : resumable[c.path] # None /\ t = resumable[c.path].temp} \ {c.temp}

\* append_checkpoint, then persist_for_resume, which may fail for a temporary that is
\* still to be deleted on close.  A new temporary means that the old one was discarded
\* or could not be opened.
Checkpoint(p) ==
    /\ phase = "running"
    /\ \E c \in NextCkpts(p) : \E left \in SUBSET Superseded(c) :
         LET remaining == (parts \ Superseded(c)) \cup left
         IN  /\ used' = used \cup {c.temp}
             /\ forgotten' = forgotten \cup left
             /\ \/ /\ AppendOk(Check(c))
                   /\ resumable' = [resumable EXCEPT ![p] = c]
                   /\ parts' \in {remaining, remaining \cup {c.temp}}
                   /\ UNCHANGED <<phase, reclaimable, active_job>>
                \/ /\ AppendFails(Check(c))
                   /\ parts' = remaining
                   /\ UNCHANGED <<phase, memVars>>
                \/ /\ Interrupted(Check(c))
                   /\ parts' = remaining
    /\ UNCHANGED <<runs, dropped>>

\* The file is complete and its temporary renamed away, or the source is gone and its
\* temporary reclaimed, before the record is appended.
Retire(p) ==
    /\ phase = "running"
    /\ resumable[p] # None
    /\ parts' = parts \ {resumable[p].temp}
    /\ \/ /\ AppendOk(PartDone(p))
          /\ resumable' = [resumable EXCEPT ![p] = None]
          /\ UNCHANGED <<phase, reclaimable, active_job>>
       \/ Interrupted(PartDone(p))
    /\ UNCHANGED <<used, runs, lossVars>>

\* The extras scan meets a temporary the harvest proves: the proof leaves the memory,
\* and the temporary is deleted unless a call on it fails.
TakeReclaimable(t) ==
    /\ phase = "running"
    /\ t \in reclaimable
    /\ reclaimable' = reclaimable \ {t}
    /\ parts' \in {parts, parts \ {t}}
    /\ UNCHANGED <<disk, phase, resumable, active_job, used, appends, runs, may, lossVars>>

Compacted_Unterminated ==
    LET live == SetToSeq({p \in Paths : resumable[p] # None})
    IN  <<Line(Job(active_job), FALSE)>>
        \o [i \in DOMAIN live |-> Line(Check(resumable[live[i]]), FALSE)]

\* The current job header and the live checkpoints.
Compacted ==
    LET live == SetToSeq({p \in Paths : resumable[p] # None})
    IN  <<Line(Job(active_job), TRUE)>>
        \o [i \in DOMAIN live |-> Line(Check(resumable[live[i]]), TRUE)]

\* The End record, then the compacted file replaces the journal or does not.
EndRun ==
    /\ phase = "running"
    /\ \/ Interrupted(End) /\ UNCHANGED dropped
       \/ /\ Count
          /\ disk' = Compacted
          /\ may' = [p \in Paths |-> {resumable[p]}]
          /\ dropped' = dropped \cup ((ProofsOf(Replay(disk)) \cup reclaimable) \ TempsOf(resumable))
          /\ Closed
    /\ UNCHANGED <<parts, used, runs, forgotten>>

Crash ==
    /\ phase # "closed"
    /\ Closed
    /\ UNCHANGED <<disk, parts, used, appends, runs, may, lossVars>>

Init ==
    /\ disk = <<>> /\ phase = "closed"
    /\ resumable = NoHints /\ reclaimable = {} /\ active_job = None
    /\ parts = {} /\ used = {} /\ appends = 0 /\ runs = 0
    /\ may = [p \in Paths |-> {None}] /\ forgotten = {} /\ dropped = {}

Next ==
    \/ Open \/ OpenFresh \/ EndRun \/ Crash
    \/ \E sig \in Sigs : BeginJob(sig)
    \/ \E p \in Paths : Checkpoint(p) \/ Retire(p)
    \/ \E t \in Temps : TakeReclaimable(t)

Spec == Init /\ [][Next]_vars

---------------------------------------------------------------------------
(* Properties. *)

Hints == [Paths -> Ckpts \cup {None}]

\* The shape of the file and of the loaded state; only the last line can lack its newline.
TypeOK ==
    /\ disk \in Seq([event : Events \cup {Junk}, nl : BOOLEAN])
    /\ \A i \in DOMAIN disk : disk[i].nl \/ i = Len(disk)
    /\ phase \in {"closed", "opened", "running"}
    /\ resumable \in Hints /\ reclaimable \subseteq Temps /\ active_job \in Sigs \cup {None}
    /\ parts \subseteq used /\ used \subseteq Temps
    /\ may \in [Paths -> SUBSET (Ckpts \cup {None})] /\ forgotten \cup dropped \subseteq Temps

\* Reading the file at any moment, after any kill or failed append, yields for every
\* path the value of its last acknowledged record, or of a later unacknowledged one:
\* no acknowledged checkpoint or retirement is lost to a torn neighbour, a healed
\* line, a truncated tail or a compaction, and none comes back.
ReplayIsFaithful == \A p \in Paths : Replay(disk).resumable[p] \in may[p]

\* A running program works from hints that its own file can still yield.
MemoryIsFaithful == phase = "running" => \A p \in Paths : resumable[p] \in may[p]

\* What the file, or the memory of the current run, can prove to be the program's own.
Proven == ProofsOf(Replay(disk)) \cup ProofsOf(Memory)

\* A kept temporary stays provably the program's own across kills, torn records and
\* changed signatures; only a temporary that could not be opened, --fresh and the
\* compaction of a finished run give a proof up.
ProofsOutliveCrashes == parts \subseteq Proven \cup forgotten \cup dropped
=============================================================================
