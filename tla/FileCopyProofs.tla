--------------------------- MODULE FileCopyProofs ---------------------------
(***************************************************************************)
(* The safety properties of FileCopy, proved for every number of versions,  *)
(* sizes, identities, thresholds and faults.  None of them is inductive:    *)
(* IInv says what the process knows at each of its steps about the source   *)
(* handle, its buffer, the object it holds and the journal's record.        *)
(***************************************************************************)
EXTENDS FileCopy, SequenceTheorems, TLAPS

\* The process does not hold the source open.
Closed == {"idle", "open", "extras", "retire"}

\* It writes the object under the final name.
Direct == {"truncate", "stamp", "write", "recheck", "finish"}

\* It writes an object under a temporary name.
Streamed == {"arm", "transfer", "ckpt", "persist", "precommit", "unhide", "rename"}

\* The complete object is under the final name.
Published == {"setbasic", "flush", "close"}

\* The source moves forward only, and an open handle lags it at most.
SourceInv ==
    /\ pc # "idle" => snap \in Versions /\ snap <= src
    /\ pc \notin Closed => hsrc \in Versions /\ snap <= hsrc /\ hsrc <= src

\* While the handle still shows the enumerated version, so does the buffer;
\* a passed check of length and version means it is complete.
BufInv ==
    /\ pc \in {"idle", "open", "resume", "mktemp", "extras", "retire"} => buf = << >>
    /\ pc \in {"read", "arm", "transfer", "ckpt", "persist"} /\ hsrc = snap
         => ChunksOf(buf, snap)
    /\ pc \in Direct \cup {"create", "precommit", "unhide", "rename", "setbasic"}
         => Complete(buf, snap)

\* The object written in place is the one under the final name, and holds as
\* much of the buffer as was written.
DirectInv ==
    /\ pc \in Direct \cup Published => h = final /\ h \in Ids
    /\ pc = "truncate" => Snapshot(final) = dsnap
    /\ pc = "stamp" => store[h].data = << >> /\ store[h].mtime = Now
    /\ pc \in {"write", "recheck", "finish"} =>
         /\ Len(store[h].data) <= Len(buf)
         /\ \A i \in 1..Len(store[h].data) : store[h].data[i] = buf[i]
         /\ store[h].mtime = IF mode.stampAtCreate THEN snap ELSE Now
    /\ pc \in {"recheck", "finish"} => Len(store[h].data) = Len(buf)

\* The object written through a temporary name is under that name only, is
\* bigcp's, and holds exactly what was digested.
StreamedInv ==
    /\ pc \in Streamed =>
         /\ h \in Ids
         /\ hpart \in Parts
         /\ part[hpart] = h
         /\ store[h].data = buf
         /\ store[h].own
    /\ armed => pc \in Streamed \ {"rename"}
    /\ pc \in {"unhide", "rename"} /\ dsnap.id # NoObj /\ ~raced
         => Snapshot(final) = dsnap

\* Once published, the object is the whole enumerated version; the stamp and
\* the flush follow in that order.
PublishedInv ==
    /\ pc = "setbasic" => store[h].mtime \notin Versions /\ store[h].data = buf
    /\ pc \in {"flush", "close"} => Complete(store[h].data, snap) /\ store[h].mtime = snap
    /\ pc = "close" /\ mode.flush => store[h].flushed
    /\ pc = "deferred" /\ ~raced =>
         /\ final \in Ids
         /\ Complete(store[final].data, snap)
         /\ store[final].mtime = snap
         /\ mode.flush => store[final].flushed

\* An object has one name, and under a temporary one it never has the
\* last-write time of a version.
PartInv ==
    \A n \in Parts : part[n] # NoObj =>
        /\ part[n] # final
        /\ store[part[n]].mtime \notin Versions
        /\ \A m \in Parts : part[m] = part[n] => m = n

\* The record names an object bigcp made; if it was taken from the version at
\* the source path it holds only that version's chunks, and so it does for the
\* attempt that enumerated that version and is about to resume.
CkptInv ==
    /\ ckpt.version <= src
    /\ ckpt.id # NoObj => ckpt.part \in Parts /\ store[ckpt.id].own
    /\ ckpt.version = src => ChunksOf(ckpt.prefix, src)
    /\ pc \in {"open", "resume"} /\ ckpt.version = snap => ChunksOf(ckpt.prefix, snap)

IInv == /\ TypeOK /\ SourceInv /\ BufInv /\ DirectInv /\ StreamedInv
        /\ PublishedInv /\ PartInv /\ CkptInv /\ HintIsBacked /\ NoFalseSame

USE DEF IInv, TypeOK, Closed, Direct, Streamed, Published, SomeId, SomePart,
        source, dest, run, handle, ghost

-----------------------------------------------------------------------------
(* Types of the values the actions build.                                    *)

\* A snapshot of the final name is a snapshot.
LEMMA SnapshotType == ASSUME DestType PROVE Snapshot(final) \in Snaps
<1>1. NoSnap \in Snaps
  BY DEF NoSnap, Snaps, Stamps, Now
<1>2. ASSUME final # NoObj PROVE Snapshot(final) \in Snaps
  <2>1. store[final] \in Objects /\ final \in SomeId
    BY <1>2 DEF DestType
  <2>2. Len(store[final].data) \in Nat /\ store[final].mtime \in Stamps
    BY <2>1 DEF Objects
  <2> QED
    BY <1>2, <2>1, <2>2 DEF Snapshot, Snaps
<1> QED
  BY <1>1, <1>2 DEF Snapshot

\* The empty snapshot and the empty record have their types.
LEMMA EmptyTypes == NoSnap \in Snaps /\ NoCkpt \in Ckpts /\ 0 \in 0..MaxVersion
  BY ConstantAssumption DEF NoSnap, Snaps, NoCkpt, Ckpts, Stamps, Now

\* What the process and other programs create is an object.
LEMMA NewTypes == NewObject \in Objects /\ AlienObject \in Objects
<1>1. AlienData \in Seq(Chunks)
  <2>1. \A i \in 1..ForeignLen : <<Alien, i>> \in Chunks
    BY ConstantAssumption DEF Chunks, Alien
  <2> QED
    BY <2>1, ConstantAssumption DEF AlienData
<1>2. NewObject \in Objects
  BY DEF NewObject, Objects, Stamps, Now
<1>3. AlienObject \in Objects
  BY <1>1 DEF AlienObject, Objects, Stamps, Foreign
<1> QED
  BY <1>2, <1>3

\* A chosen fresh identity is one.
LEMMA FreshChosen == ASSUME HasFreshId PROVE FreshId \in Ids /\ Fresh(FreshId)
  BY DEF HasFreshId, FreshId

\* A fault leaves the ghosts typed.
LEMMA FaultType == ASSUME GhostType, Fault PROVE GhostType'
  BY ConstantAssumption DEF GhostType, Fault

\* So does a step of the environment.
LEMMA EnvType == ASSUME GhostType, Env PROVE faults' \in 0..MaxFaults
  BY ConstantAssumption DEF GhostType, Env

\* The object under the final name is as it was.
LEMMA FinalKept ==
  ASSUME NoFalseSame, final' = final, final # NoObj => store'[final] = store[final]
  PROVE  NoFalseSame'
  BY DEF NoFalseSame, Same, Snapshot, NoSnap

\* Nothing at the destination or in the journal changed.
LEMMA DestKept ==
  ASSUME PartInv, HintIsBacked, NoFalseSame, UNCHANGED <<store, final, part, ckpt>>
  PROVE  PartInv' /\ HintIsBacked' /\ NoFalseSame'
<1>1. NoFalseSame'
  BY FinalKept
<1>2. PartInv' /\ HintIsBacked'
  BY DEF PartInv, HintIsBacked
<1> QED
  BY <1>1, <1>2

\* A name other than the process's own refers to no object it holds, and the
\* final name to none under a temporary one.
LEMMA StreamedApart ==
  ASSUME IInv, pc \in Streamed
  PROVE  h # final /\ \A m \in Parts : m # hpart => part[m] # h
  BY ConstantAssumption DEF StreamedInv, PartInv

\* Replacing one object changes that object only.
LEMMA Update ==
  ASSUME NEW s \in [Ids -> Objects], NEW i \in Ids, NEW o \in Objects
  PROVE  /\ [s EXCEPT ![i] = o] \in [Ids -> Objects]
         /\ [s EXCEPT ![i] = o][i] = o
         /\ \A j \in Ids : j # i => [s EXCEPT ![i] = o][j] = s[j]
  OBVIOUS

\* The fields of an object.
LEMMA Fields ==
  ASSUME NEW o \in Objects
  PROVE  /\ o.data \in Seq(Chunks) /\ o.mtime \in Stamps
         /\ o.flushed \in BOOLEAN /\ o.own \in BOOLEAN /\ o.touched \in BOOLEAN
  BY DEF Objects

\* Stamping an object.
LEMMA Stamped ==
  ASSUME NEW o \in Objects, NEW m \in Stamps
  PROVE  LET n == [o EXCEPT !.mtime = m]
         IN  /\ n \in Objects /\ n.mtime = m /\ n.data = o.data
             /\ n.flushed = o.flushed /\ n.own = o.own /\ n.touched = o.touched
  BY DEF Objects

\* Truncating an object.
LEMMA Truncated ==
  ASSUME NEW o \in Objects, NEW d \in Seq(Chunks)
  PROVE  LET n == [o EXCEPT !.data = d, !.mtime = Now, !.flushed = FALSE, !.touched = FALSE]
         IN  /\ n \in Objects /\ n.mtime = Now /\ n.data = d /\ n.own = o.own
<1>1. Now \in Stamps
  BY DEF Stamps
<1> QED
  BY <1>1 DEF Objects

-----------------------------------------------------------------------------
(* Every action keeps IInv.                                                  *)

\* Giving up keeps IInv: the handles close and nothing else changes.
LEMMA AbandonStep ==
  ASSUME IInv, NEW o \in Outcomes, pc # "idle", Abandon(o), GhostType'
  PROVE  IInv'
<1> USE ConstantAssumption
<1>1. SourceType'
  BY DEF Abandon, CloseHandles, Unlinked, SourceType, SourceInv, PlanType, Versions
<1>2. DestType'
  BY DEF Abandon, CloseHandles, Unlinked, DestType, HandleType
<1>3. JournalType'
  BY DEF Abandon, CloseHandles, Unlinked, JournalType, Ckpts, HandleType, BufType,
        PlanType
<1>4. PlanType'
  BY DEF Abandon, CloseHandles, Unlinked, PlanType, SourceType, Versions, Snaps
<1>5. HandleType'
  BY DEF Abandon, CloseHandles, Unlinked, HandleType, DestType, JournalType, Ckpts
<1>6. BufType'
  BY DEF Abandon, CloseHandles, Unlinked, BufType, JournalType, Ckpts
<1>7. ControlType'
  BY DEF Abandon, CloseHandles, Unlinked, ControlType, Pcs, Outcomes
<1>8. GhostType'
  BY DEF Abandon, CloseHandles, Unlinked, GhostType
<1>9. SourceInv'
  BY DEF Abandon, CloseHandles, Unlinked, SourceInv, SourceType, PlanType, Versions
<1>10. BufInv'
  BY DEF Abandon, CloseHandles, Unlinked, BufInv, SourceInv, SourceType, PlanType,
        BufType, ChunksOf, Complete, Versions
<1>11. DirectInv'
  BY DEF Abandon, CloseHandles, Unlinked, DirectInv, BufInv, DestType, HandleType,
        BufType, Snapshot, PartInv
<1>12. StreamedInv'
  BY DEF Abandon, CloseHandles, Unlinked, StreamedInv, DestType, HandleType,
        PartInv, Snapshot
<1>13. PublishedInv'
  BY DEF Abandon, CloseHandles, Unlinked, PublishedInv, DirectInv, BufInv,
        StreamedInv, DestType, HandleType, PartInv, Complete, ChunksOf
<1>14. PartInv'
  BY DEF Abandon, CloseHandles, Unlinked, PartInv, StreamedInv, DirectInv, DestType,
        HandleType
<1>15. CkptInv'
  BY DEF Abandon, CloseHandles, Unlinked, CkptInv, SourceInv, BufInv, StreamedInv,
        JournalType, Ckpts, SourceType, Versions, DestType, ChunksOf
<1>16. HintIsBacked'
  BY DEF Abandon, CloseHandles, Unlinked, HintIsBacked, StreamedInv, DirectInv,
        PartInv, JournalType, Ckpts, DestType, CkptInv
<1>17. NoFalseSame'
  BY DEF Abandon, CloseHandles, Unlinked, NoFalseSame, DirectInv, PublishedInv,
        PartInv, BufInv, Same, Snapshot, Complete, ChunksOf, DestType, Versions,
        Now, Poison, Foreign
<1> QED
  BY <1>1, <1>2, <1>3, <1>4, <1>5, <1>6, <1>7, <1>8, <1>9, <1>10, <1>11, <1>12, <1>13, <1>14, <1>15, <1>16, <1>17

\* StartRun keeps IInv.
LEMMA StartRunStep == ASSUME IInv, StartRun PROVE IInv'
<1> USE ConstantAssumption
<1>1. SourceType' /\ DestType' /\ HandleType' /\ BufType'
  BY DEF StartRun, OrphanRecord, Snapshot, NoSnap, Same, SourceType, SourceInv,
        PlanType, Versions, DestType, HandleType, JournalType, Ckpts, BufType
<1>2. JournalType'
  BY DEF StartRun, OrphanRecord, Snapshot, NoSnap, Same, JournalType, Ckpts,
        HandleType, BufType, PlanType
<1>3. PlanType'
  <2>1. snap' \in 0..MaxVersion
    BY DEF StartRun, SourceType, Versions
  <2>2. dsnap' \in Snaps
    BY SnapshotType DEF StartRun
  <2>3. orphan' \in BOOLEAN
    BY DEF StartRun, OrphanRecord
  <2> QED
    BY <2>1, <2>2, <2>3 DEF PlanType
<1>4. ControlType'
  BY DEF StartRun, OrphanRecord, Snapshot, NoSnap, Same, ControlType, Pcs, Outcomes
<1>5. GhostType'
  <2>1. raced' \in BOOLEAN
    BY DEF StartRun
  <2>2. faults' \in 0..MaxFaults
    BY DEF StartRun, GhostType
  <2> QED
    BY <2>1, <2>2 DEF GhostType
<1>6. SourceInv' /\ BufInv'
  BY DEF StartRun, OrphanRecord, Snapshot, NoSnap, Same, SourceInv, SourceType,
        PlanType, Versions, BufInv, BufType, ChunksOf, Complete
<1>7. DirectInv' /\ StreamedInv' /\ PublishedInv'
  BY DEF StartRun, OrphanRecord, Snapshot, NoSnap, Same, DirectInv, BufInv,
        DestType, HandleType, BufType, PartInv, StreamedInv, PublishedInv, Complete,
        ChunksOf
<1>8. CkptInv'
  BY DEF StartRun, OrphanRecord, Snapshot, NoSnap, Same, CkptInv, SourceInv, BufInv,
        StreamedInv, JournalType, Ckpts, SourceType, Versions, DestType, ChunksOf
<1>9. PartInv' /\ HintIsBacked' /\ NoFalseSame'
  BY DestKept DEF StartRun
<1> QED
  BY <1>1, <1>2, <1>3, <1>4, <1>5, <1>6, <1>7, <1>8, <1>9

\* OpenSource keeps IInv.
LEMMA OpenSourceStep == ASSUME IInv, OpenSource PROVE IInv'
<1> USE ConstantAssumption
<1>1. "failed" \in Outcomes
  BY DEF Outcomes
<1>2. GhostType'
  BY FaultType DEF OpenSource, GhostType
<1>3. pc # "idle"
  BY DEF OpenSource
<1>4. CASE Abandon("failed")
  BY <1>1, <1>2, <1>3, <1>4, AbandonStep
<1>5. CASE ~Abandon("failed")
  <2>1. SourceType' /\ DestType' /\ HandleType' /\ BufType'
    BY <1>5 DEF OpenSource, Fault, SourceType, SourceInv, PlanType, Versions,
          DestType, HandleType, JournalType, Ckpts, BufType
  <2>2. JournalType' /\ PlanType'
    BY <1>5 DEF OpenSource, Fault, JournalType, Ckpts, HandleType, BufType,
          PlanType, SourceType, Versions, Snaps
  <2>3. ControlType'
    BY <1>5 DEF OpenSource, Fault, ControlType, Pcs, Outcomes
  <2>4. GhostType'
    BY <1>5 DEF OpenSource, Fault, GhostType
  <2>5. SourceInv' /\ BufInv'
    BY <1>5 DEF OpenSource, Fault, SourceInv, SourceType, PlanType, Versions,
          BufInv, BufType, ChunksOf, Complete
  <2>6. DirectInv' /\ StreamedInv' /\ PublishedInv'
    BY <1>5 DEF OpenSource, Fault, DirectInv, BufInv, DestType, HandleType, BufType,
          Snapshot, PartInv, StreamedInv, PublishedInv, Complete, ChunksOf
  <2>7. CkptInv'
    BY <1>5 DEF OpenSource, Fault, CkptInv, SourceInv, BufInv, StreamedInv,
          JournalType, Ckpts, SourceType, Versions, DestType, ChunksOf
  <2>8. PartInv' /\ HintIsBacked' /\ NoFalseSame'
    BY <1>5, DestKept DEF OpenSource
  <2> QED
    BY <2>1, <2>2, <2>3, <2>4, <2>5, <2>6, <2>7, <2>8
<1> QED
  BY <1>4, <1>5

\* ReadChunk keeps IInv.
LEMMA ReadChunkStep == ASSUME IInv, ReadChunk PROVE IInv'
<1> USE ConstantAssumption
<1>1. SourceType' /\ DestType' /\ HandleType'
  BY DEF ReadChunk, SourceType, SourceInv, PlanType, Versions, DestType, HandleType,
        JournalType, Ckpts
<1>2. BufType'
  <2>1. <<hsrc, Len(buf) + 1>> \in Chunks /\ buf \in Seq(Chunks)
    BY DEF ReadChunk, BufType, SourceInv, Chunks
  <2> QED
    BY <2>1 DEF ReadChunk, BufType
<1>3. JournalType' /\ PlanType'
  BY DEF ReadChunk, JournalType, Ckpts, HandleType, BufType, PlanType, SourceType,
        Versions, Snaps
<1>4. ControlType'
  BY DEF ReadChunk, ControlType, Pcs, Outcomes
<1>5. GhostType'
  BY DEF ReadChunk, GhostType
<1>6. SourceInv' /\ BufInv'
  BY DEF ReadChunk, SourceInv, SourceType, PlanType, Versions, BufInv, BufType,
        ChunksOf, Complete
<1>7. DirectInv' /\ StreamedInv' /\ PublishedInv'
  BY DEF ReadChunk, DirectInv, BufInv, DestType, HandleType, BufType, Snapshot,
        PartInv, StreamedInv, PublishedInv, Complete, ChunksOf
<1>8. CkptInv'
  BY DEF ReadChunk, CkptInv, SourceInv, BufInv, StreamedInv, JournalType, Ckpts,
        SourceType, Versions, DestType, ChunksOf
<1>9. PartInv' /\ HintIsBacked' /\ NoFalseSame'
  BY DestKept DEF ReadChunk
<1> QED
  BY <1>1, <1>2, <1>3, <1>4, <1>5, <1>6, <1>7, <1>8, <1>9

\* ReadDone keeps IInv.
LEMMA ReadDoneStep == ASSUME IInv, ReadDone PROVE IInv'
<1> USE ConstantAssumption
<1>1. "failed" \in Outcomes
  BY DEF Outcomes
<1>2. GhostType'
  BY FaultType DEF ReadDone, GhostType
<1>3. pc # "idle"
  BY DEF ReadDone
<1>4. CASE Abandon("failed")
  BY <1>1, <1>2, <1>3, <1>4, AbandonStep
<1>5. CASE ~Abandon("failed")
  <2>1. SourceType' /\ DestType' /\ HandleType' /\ BufType'
    BY <1>5 DEF ReadDone, SourceType, SourceInv, PlanType, Versions, DestType,
          HandleType, JournalType, Ckpts, BufType
  <2>2. JournalType' /\ PlanType'
    BY <1>5 DEF ReadDone, JournalType, Ckpts, HandleType, BufType, PlanType,
          SourceType, Versions, Snaps
  <2>3. ControlType'
    BY <1>5 DEF ReadDone, ControlType, Pcs, Outcomes
  <2>4. GhostType'
    BY <1>5 DEF ReadDone, GhostType
  <2>5. SourceInv' /\ BufInv'
    BY <1>5 DEF ReadDone, SourceInv, SourceType, PlanType, Versions, BufInv,
          BufType, ChunksOf, Complete
  <2>6. DirectInv' /\ StreamedInv' /\ PublishedInv'
    BY <1>5 DEF ReadDone, DirectInv, BufInv, DestType, HandleType, BufType,
          Snapshot, PartInv, StreamedInv, PublishedInv, Complete, ChunksOf
  <2>7. CkptInv'
    BY <1>5 DEF ReadDone, CkptInv, SourceInv, BufInv, StreamedInv, JournalType,
          Ckpts, SourceType, Versions, DestType, ChunksOf
  <2>8. PartInv' /\ HintIsBacked' /\ NoFalseSame'
    BY <1>5, DestKept DEF ReadDone
  <2> QED
    BY <2>1, <2>2, <2>3, <2>4, <2>5, <2>6, <2>7, <2>8
<1> QED
  BY <1>4, <1>5

\* CreateNew keeps IInv.
LEMMA CreateNewStep == ASSUME IInv, CreateNew PROVE IInv'
<1> USE ConstantAssumption
<1>1. FreshId \in Ids /\ Fresh(FreshId)
  BY FreshChosen DEF CreateNew
<1>2. NewObject \in Objects /\ NewObject.data = << >> /\ NewObject.mtime = Now /\ NewObject.own
  BY NewTypes DEF NewObject
<1>3. store \in [Ids -> Objects]
  BY DEF DestType
<1>4. /\ store' \in [Ids -> Objects] /\ store'[FreshId] = NewObject
      /\ \A j \in Ids : j # FreshId => store'[j] = store[j]
  BY <1>1, <1>2, <1>3, Update DEF CreateNew
<1>5. /\ pc = "create" /\ pc' = "stamp" /\ final' = FreshId /\ h' = FreshId
      /\ UNCHANGED <<source, part, ckpt, run, journal, hpart, armed, persistent, buf, outcome, ghost>>
  BY DEF CreateNew
<1>20. SourceType' /\ HandleType' /\ BufType' /\ ControlType'
  BY <1>1, <1>2, <1>4, <1>5 DEF SourceType, SourceInv, PlanType, Pcs, Versions,
        Fresh, HandleType, DestType, JournalType, Ckpts, BufType, ControlType,
        Outcomes
<1>21. DestType'
  BY <1>1, <1>2, <1>4, <1>5 DEF DestType, HandleType, Fresh
<1>22. JournalType' /\ PlanType' /\ GhostType'
  BY <1>1, <1>2, <1>4, <1>5 DEF JournalType, Ckpts, HandleType, BufType, PlanType,
        Fresh, SourceType, Versions, Snaps, GhostType
<1>23. SourceInv' /\ BufInv'
  BY <1>1, <1>2, <1>4, <1>5 DEF SourceInv, SourceType, PlanType, Versions, Fresh,
        BufInv, BufType, ChunksOf, Complete
<1>24. DirectInv' /\ PublishedInv'
  BY <1>1, <1>2, <1>4, <1>5 DEF DirectInv, BufInv, DestType, HandleType, BufType,
        Snapshot, PartInv, Fresh, PublishedInv, StreamedInv, Complete, ChunksOf
<1>25. StreamedInv'
  BY <1>1, <1>2, <1>4, <1>5 DEF StreamedInv, DestType, HandleType, PartInv,
        Snapshot, Fresh
<1>26. PartInv'
  BY <1>1, <1>2, <1>4, <1>5 DEF PartInv, StreamedInv, DirectInv, DestType,
        HandleType, Fresh
<1>27. CkptInv'
  BY <1>1, <1>2, <1>4, <1>5 DEF CkptInv, SourceInv, BufInv, StreamedInv,
        JournalType, Ckpts, SourceType, Versions, DestType, ChunksOf, Fresh
<1>28. HintIsBacked'
  BY <1>1, <1>2, <1>4, <1>5 DEF HintIsBacked, StreamedInv, DirectInv, PartInv,
        JournalType, Ckpts, DestType, CkptInv, Begins, Fresh
<1>29. NoFalseSame'
  BY <1>1, <1>2, <1>4, <1>5 DEF NoFalseSame, DirectInv, PublishedInv, PartInv,
        BufInv, Same, Snapshot, Complete, ChunksOf, DestType, Versions, Now, Poison,
        Foreign, Fresh
<1> QED
  BY <1>20, <1>21, <1>22, <1>23, <1>24, <1>25, <1>26, <1>27, <1>28, <1>29

\* OpenExisting keeps IInv.
LEMMA OpenExistingStep == ASSUME IInv, OpenExisting PROVE IInv'
<1> USE ConstantAssumption
<1>1. SourceType' /\ DestType' /\ HandleType' /\ BufType'
  BY DEF OpenExisting, Snapshot, NoSnap, SourceType, SourceInv, PlanType, Versions,
        DestType, HandleType, JournalType, Ckpts, BufType
<1>2. JournalType' /\ PlanType'
  BY DEF OpenExisting, Snapshot, NoSnap, JournalType, Ckpts, HandleType, BufType,
        PlanType, SourceType, Versions, Snaps
<1>3. ControlType'
  BY DEF OpenExisting, Snapshot, NoSnap, ControlType, Pcs, Outcomes
<1>4. GhostType'
  BY DEF OpenExisting, Snapshot, NoSnap, GhostType
<1>5. SourceInv' /\ BufInv'
  BY DEF OpenExisting, Snapshot, NoSnap, SourceInv, SourceType, PlanType, Versions,
        BufInv, BufType, ChunksOf, Complete
<1>6. DirectInv' /\ StreamedInv' /\ PublishedInv'
  BY DEF OpenExisting, Snapshot, NoSnap, DirectInv, BufInv, DestType, HandleType,
        BufType, PartInv, StreamedInv, PublishedInv, Complete, ChunksOf
<1>7. CkptInv'
  BY DEF OpenExisting, Snapshot, NoSnap, CkptInv, SourceInv, BufInv, StreamedInv,
        JournalType, Ckpts, SourceType, Versions, DestType, ChunksOf
<1>8. PartInv' /\ HintIsBacked' /\ NoFalseSame'
  BY DestKept DEF OpenExisting
<1> QED
  BY <1>1, <1>2, <1>3, <1>4, <1>5, <1>6, <1>7, <1>8

\* CreateRefused keeps IInv.
LEMMA CreateRefusedStep == ASSUME IInv, CreateRefused PROVE IInv'
<1> USE ConstantAssumption
<1>1. "failed" \in Outcomes
  BY DEF Outcomes
<1>2. GhostType'
  BY FaultType DEF CreateRefused, GhostType
<1>3. pc # "idle"
  BY DEF CreateRefused
<1>4. CASE Abandon("failed")
  BY <1>1, <1>2, <1>3, <1>4, AbandonStep
<1>5. CASE ~Abandon("failed")
  <2>1. SourceType' /\ DestType' /\ HandleType' /\ BufType'
    BY <1>5 DEF CreateRefused, Fault, Snapshot, NoSnap, SourceType, SourceInv,
          PlanType, Versions, DestType, HandleType, JournalType, Ckpts, BufType
  <2>2. JournalType' /\ PlanType'
    BY <1>5 DEF CreateRefused, Fault, Snapshot, NoSnap, JournalType, Ckpts,
          HandleType, BufType, PlanType, SourceType, Versions, Snaps
  <2>3. ControlType'
    BY <1>5 DEF CreateRefused, Fault, Snapshot, NoSnap, ControlType, Pcs, Outcomes
  <2>4. GhostType'
    BY <1>5 DEF CreateRefused, Fault, Snapshot, NoSnap, GhostType
  <2>5. SourceInv' /\ BufInv'
    BY <1>5 DEF CreateRefused, Fault, Snapshot, NoSnap, SourceInv, SourceType,
          PlanType, Versions, BufInv, BufType, ChunksOf, Complete
  <2>6. DirectInv' /\ StreamedInv' /\ PublishedInv'
    BY <1>5 DEF CreateRefused, Fault, Snapshot, NoSnap, DirectInv, BufInv, DestType,
          HandleType, BufType, PartInv, StreamedInv, PublishedInv, Complete,
          ChunksOf
  <2>7. CkptInv'
    BY <1>5 DEF CreateRefused, Fault, Snapshot, NoSnap, CkptInv, SourceInv, BufInv,
          StreamedInv, JournalType, Ckpts, SourceType, Versions, DestType, ChunksOf
  <2>8. PartInv' /\ HintIsBacked' /\ NoFalseSame'
    BY <1>5, DestKept DEF CreateRefused
  <2> QED
    BY <2>1, <2>2, <2>3, <2>4, <2>5, <2>6, <2>7, <2>8
<1> QED
  BY <1>4, <1>5

\* Truncate keeps IInv.
LEMMA TruncateStep == ASSUME IInv, Truncate PROVE IInv'
<1> USE ConstantAssumption
<1>1. /\ store \in [Ids -> Objects] /\ h \in Ids /\ h = final /\ store[h] \in Objects
      /\ snap \in Stamps /\ snap \in Versions
  BY DEF DestType, DirectInv, SourceInv, Truncate, Stamps
<1> DEFINE o == [store[h] EXCEPT !.data = << >>, !.mtime = Now, !.flushed = FALSE, !.touched = FALSE]
<1>2. o \in Objects /\ o.data = << >> /\ o.mtime = Now /\ o.own = store[h].own
  <2>1. << >> \in Seq(Chunks)
    OBVIOUS
  <2> QED
    BY <1>1, <2>1, Truncated
<1>3. store' = [store EXCEPT ![h] = o]
  BY DEF Truncate
<1> HIDE DEF o
<1>4. /\ store' \in [Ids -> Objects] /\ store'[h] = o
      /\ \A j \in Ids : j # h => store'[j] = store[j]
  BY <1>1, <1>2, <1>3, Update
<1>5. /\ pc = "truncate" /\ pc' = "stamp"
      /\ UNCHANGED <<source, final, part, ckpt, run, journal, handle, buf, outcome, ghost>>
  BY DEF Truncate
<1>20. SourceType' /\ HandleType' /\ BufType' /\ ControlType'
  BY <1>1, <1>2, <1>4, <1>5 DEF SourceType, SourceInv, PlanType, Pcs, Versions,
        HandleType, DestType, JournalType, Ckpts, BufType, ControlType, Outcomes
<1>21. DestType'
  BY <1>1, <1>2, <1>4, <1>5 DEF DestType, HandleType
<1>22. JournalType' /\ PlanType' /\ GhostType'
  BY <1>1, <1>2, <1>4, <1>5 DEF JournalType, Ckpts, HandleType, BufType, PlanType,
        SourceType, Versions, Snaps, GhostType
<1>23. SourceInv' /\ BufInv'
  BY <1>1, <1>2, <1>4, <1>5 DEF SourceInv, SourceType, PlanType, Versions, BufInv,
        BufType, ChunksOf, Complete
<1>24. DirectInv' /\ PublishedInv'
  BY <1>1, <1>2, <1>4, <1>5 DEF DirectInv, BufInv, DestType, HandleType, BufType,
        Snapshot, PartInv, PublishedInv, StreamedInv, Complete, ChunksOf
<1>25. StreamedInv'
  BY <1>1, <1>2, <1>4, <1>5 DEF StreamedInv, DestType, HandleType, PartInv, Snapshot
<1>26. PartInv'
  BY <1>1, <1>2, <1>4, <1>5 DEF PartInv, StreamedInv, DirectInv, DestType,
        HandleType
<1>27. CkptInv'
  BY <1>1, <1>2, <1>4, <1>5 DEF CkptInv, SourceInv, BufInv, StreamedInv,
        JournalType, Ckpts, SourceType, Versions, DestType, ChunksOf
<1>28. HintIsBacked'
  BY <1>1, <1>2, <1>4, <1>5 DEF HintIsBacked, StreamedInv, DirectInv, PartInv,
        JournalType, Ckpts, DestType, CkptInv, Begins
<1>29. NoFalseSame'
  BY <1>1, <1>2, <1>4, <1>5 DEF NoFalseSame, DirectInv, PublishedInv, PartInv,
        BufInv, Same, Snapshot, Complete, ChunksOf, DestType, Versions, Now, Poison,
        Foreign
<1> QED
  BY <1>20, <1>21, <1>22, <1>23, <1>24, <1>25, <1>26, <1>27, <1>28, <1>29

\* Stamp keeps IInv.
LEMMA StampStep == ASSUME IInv, Stamp PROVE IInv'
<1> USE ConstantAssumption
<1>1. /\ store \in [Ids -> Objects] /\ h \in Ids /\ h = final /\ store[h] \in Objects
      /\ snap \in Stamps /\ snap \in Versions
  BY DEF DestType, DirectInv, SourceInv, Stamp, Stamps
<1> DEFINE o == IF mode.stampAtCreate THEN [store[h] EXCEPT !.mtime = snap] ELSE store[h]
<1>2. /\ o \in Objects /\ o.data = store[h].data /\ o.own = store[h].own
      /\ o.mtime = IF mode.stampAtCreate THEN snap ELSE store[h].mtime
  BY <1>1, Stamped
<1>3. store' = [store EXCEPT ![h] = o]
  BY <1>1 DEF Stamp
<1> HIDE DEF o
<1>4. /\ store' \in [Ids -> Objects] /\ store'[h] = o
      /\ \A j \in Ids : j # h => store'[j] = store[j]
  BY <1>1, <1>2, <1>3, Update
<1>5. /\ pc = "stamp" /\ pc' = "write"
      /\ UNCHANGED <<source, final, part, ckpt, run, journal, handle, buf, outcome, ghost>>
  BY DEF Stamp
<1>20. SourceType' /\ HandleType' /\ BufType' /\ ControlType'
  BY <1>1, <1>2, <1>4, <1>5 DEF SourceType, SourceInv, PlanType, Pcs, Versions,
        HandleType, DestType, JournalType, Ckpts, BufType, ControlType, Outcomes
<1>21. DestType'
  BY <1>1, <1>2, <1>4, <1>5 DEF DestType, HandleType
<1>22. JournalType' /\ PlanType' /\ GhostType'
  BY <1>1, <1>2, <1>4, <1>5 DEF JournalType, Ckpts, HandleType, BufType, PlanType,
        SourceType, Versions, Snaps, GhostType
<1>23. SourceInv' /\ BufInv'
  BY <1>1, <1>2, <1>4, <1>5 DEF SourceInv, SourceType, PlanType, Versions, BufInv,
        BufType, ChunksOf, Complete
<1>24. DirectInv' /\ PublishedInv'
  BY <1>1, <1>2, <1>4, <1>5 DEF DirectInv, BufInv, DestType, HandleType, BufType,
        Snapshot, PartInv, PublishedInv, StreamedInv, Complete, ChunksOf
<1>25. StreamedInv'
  BY <1>1, <1>2, <1>4, <1>5 DEF StreamedInv, DestType, HandleType, PartInv, Snapshot
<1>26. PartInv'
  BY <1>1, <1>2, <1>4, <1>5 DEF PartInv, StreamedInv, DirectInv, DestType,
        HandleType
<1>27. CkptInv'
  BY <1>1, <1>2, <1>4, <1>5 DEF CkptInv, SourceInv, BufInv, StreamedInv,
        JournalType, Ckpts, SourceType, Versions, DestType, ChunksOf
<1>28. HintIsBacked'
  BY <1>1, <1>2, <1>4, <1>5 DEF HintIsBacked, StreamedInv, DirectInv, PartInv,
        JournalType, Ckpts, DestType, CkptInv, Begins
<1>29. NoFalseSame'
  BY <1>1, <1>2, <1>4, <1>5 DEF NoFalseSame, DirectInv, PublishedInv, PartInv,
        BufInv, Same, Snapshot, Complete, ChunksOf, DestType, Versions, Now, Poison,
        Foreign
<1> QED
  BY <1>20, <1>21, <1>22, <1>23, <1>24, <1>25, <1>26, <1>27, <1>28, <1>29

\* WriteChunk keeps IInv.
LEMMA WriteChunkStep == ASSUME IInv, WriteChunk PROVE IInv'
<1> USE ConstantAssumption
<1>1. /\ store \in [Ids -> Objects] /\ h \in Ids /\ h = final /\ store[h] \in Objects
      /\ snap \in Stamps /\ snap \in Versions
  BY DEF DestType, DirectInv, SourceInv, WriteChunk, Stamps
<1> DEFINE d == store[h].data
           m == IF mode.stampAtCreate THEN store[h].mtime ELSE Now
           c == buf[Len(d) + 1]
           e == Append(d, c)
           o == [store[h] EXCEPT !.data = e, !.mtime = m]
<1>3. store' = [store EXCEPT ![h] = o]
  BY DEF WriteChunk
<1>6. m = (IF mode.stampAtCreate THEN store[h].mtime ELSE Now) /\ c = buf[Len(d) + 1]
  OBVIOUS
<1>7. d \in Seq(Chunks) /\ m \in Stamps
  BY <1>1, Fields DEF Stamps
<1>8. Len(d) < Len(buf) /\ buf \in Seq(Chunks)
  BY DEF WriteChunk, BufType
<1>9. c \in Chunks
  BY <1>7, <1>8
<1> HIDE DEF m, c
<1>10. /\ e \in Seq(Chunks) /\ Len(e) = Len(d) + 1 /\ e[Len(d) + 1] = c
       /\ \A i \in 1..Len(d) : e[i] = d[i]
  BY <1>7, <1>9
<1> HIDE DEF e
<1>2. o \in Objects /\ o.data = e /\ o.own = store[h].own /\ o.mtime = m
  <2>1. e \in Seq(Chunks) /\ m \in Stamps /\ store[h] \in Objects
    BY <1>1, <1>7, <1>10
  <2> QED
    BY <2>1 DEF Objects
<1>11. pc = "write" => \A i \in 1..Len(d) : d[i] = buf[i]
  BY DEF DirectInv
<1>12. pc = "write" => \A i \in 1..Len(e) : e[i] = buf[i]
  BY <1>6, <1>7, <1>10, <1>11
<1> HIDE DEF o
<1>4. /\ store' \in [Ids -> Objects] /\ store'[h] = o
      /\ \A j \in Ids : j # h => store'[j] = store[j]
  BY <1>1, <1>2, <1>3, Update
<1>5. /\ pc = "write" /\ pc' = "write"
      /\ UNCHANGED <<source, final, part, ckpt, run, journal, handle, buf, outcome, ghost>>
  BY DEF WriteChunk
<1>20. SourceType' /\ HandleType' /\ BufType' /\ ControlType'
  BY <1>1, <1>2, <1>4, <1>5, <1>6, <1>7, <1>8, <1>10, <1>12 DEF SourceType,
        SourceInv, PlanType, Pcs, Versions, HandleType, DestType, JournalType,
        Ckpts, BufType, ControlType, Outcomes
<1>21. DestType'
  BY <1>1, <1>2, <1>4, <1>5, <1>6, <1>7, <1>8, <1>10, <1>12 DEF DestType, HandleType
<1>22. JournalType' /\ PlanType' /\ GhostType'
  BY <1>1, <1>2, <1>4, <1>5, <1>6, <1>7, <1>8, <1>10, <1>12 DEF JournalType, Ckpts,
        HandleType, BufType, PlanType, SourceType, Versions, Snaps, GhostType
<1>23. SourceInv' /\ BufInv'
  BY <1>1, <1>2, <1>4, <1>5, <1>6, <1>7, <1>8, <1>10, <1>12 DEF SourceInv,
        SourceType, PlanType, Versions, BufInv, BufType, ChunksOf, Complete
<1>24. DirectInv' /\ PublishedInv'
  BY <1>1, <1>2, <1>4, <1>5, <1>6, <1>7, <1>8, <1>10, <1>12 DEF DirectInv, BufInv,
        DestType, HandleType, BufType, Snapshot, PartInv, PublishedInv, StreamedInv,
        Complete, ChunksOf
<1>25. StreamedInv'
  BY <1>1, <1>2, <1>4, <1>5, <1>6, <1>7, <1>8, <1>10, <1>12 DEF StreamedInv,
        DestType, HandleType, PartInv, Snapshot
<1>26. PartInv'
  BY <1>1, <1>2, <1>4, <1>5, <1>6, <1>7, <1>8, <1>10, <1>12 DEF PartInv,
        StreamedInv, DirectInv, DestType, HandleType
<1>27. CkptInv'
  BY <1>1, <1>2, <1>4, <1>5, <1>6, <1>7, <1>8, <1>10, <1>12 DEF CkptInv, SourceInv,
        BufInv, StreamedInv, JournalType, Ckpts, SourceType, Versions, DestType,
        ChunksOf
<1>28. HintIsBacked'
  BY <1>1, <1>2, <1>4, <1>5, <1>6, <1>7, <1>8, <1>10, <1>12 DEF HintIsBacked,
        StreamedInv, DirectInv, PartInv, JournalType, Ckpts, DestType, CkptInv,
        Begins
<1>29. NoFalseSame'
  BY <1>1, <1>2, <1>4, <1>5, <1>6, <1>7, <1>8, <1>10, <1>12, SMTT(60) DEF NoFalseSame,
        DirectInv, PublishedInv, PartInv, BufInv, Same, Snapshot, Complete,
        ChunksOf, DestType, Versions, Now, Poison, Foreign
<1> QED
  BY <1>20, <1>21, <1>22, <1>23, <1>24, <1>25, <1>26, <1>27, <1>28, <1>29

\* WriteDone keeps IInv.
LEMMA WriteDoneStep == ASSUME IInv, WriteDone PROVE IInv'
<1> USE ConstantAssumption
<1>1. SourceType' /\ DestType' /\ HandleType' /\ BufType'
  BY DEF WriteDone, SourceType, SourceInv, PlanType, Versions, DestType, HandleType,
        JournalType, Ckpts, BufType
<1>2. JournalType' /\ PlanType'
  BY DEF WriteDone, JournalType, Ckpts, HandleType, BufType, PlanType, SourceType,
        Versions, Snaps
<1>3. ControlType'
  BY DEF WriteDone, ControlType, Pcs, Outcomes
<1>4. GhostType'
  BY DEF WriteDone, GhostType
<1>5. SourceInv' /\ BufInv'
  BY DEF WriteDone, SourceInv, SourceType, PlanType, Versions, BufInv, BufType,
        ChunksOf, Complete
<1>6. DirectInv' /\ StreamedInv' /\ PublishedInv'
  BY DEF WriteDone, DirectInv, BufInv, DestType, HandleType, BufType, Snapshot,
        PartInv, StreamedInv, PublishedInv, Complete, ChunksOf
<1>7. CkptInv'
  BY DEF WriteDone, CkptInv, SourceInv, BufInv, StreamedInv, JournalType, Ckpts,
        SourceType, Versions, DestType, ChunksOf
<1>8. PartInv' /\ HintIsBacked' /\ NoFalseSame'
  BY DestKept DEF WriteDone
<1> QED
  BY <1>1, <1>2, <1>3, <1>4, <1>5, <1>6, <1>7, <1>8

\* RecheckSource keeps IInv.
LEMMA RecheckSourceStep == ASSUME IInv, RecheckSource PROVE IInv'
<1> USE ConstantAssumption
<1>1. "failed" \in Outcomes
  BY DEF Outcomes
<1>2. GhostType'
  BY FaultType DEF RecheckSource, GhostType
<1>3. pc # "idle"
  BY DEF RecheckSource
<1>4. CASE Abandon("failed")
  BY <1>1, <1>2, <1>3, <1>4, AbandonStep
<1>5. CASE ~Abandon("failed")
  <2>1. SourceType' /\ DestType' /\ HandleType' /\ BufType'
    BY <1>5 DEF RecheckSource, SourceType, SourceInv, PlanType, Versions, DestType,
          HandleType, JournalType, Ckpts, BufType
  <2>2. JournalType' /\ PlanType'
    BY <1>5 DEF RecheckSource, JournalType, Ckpts, HandleType, BufType, PlanType,
          SourceType, Versions, Snaps
  <2>3. ControlType'
    BY <1>5 DEF RecheckSource, ControlType, Pcs, Outcomes
  <2>4. GhostType'
    BY <1>5 DEF RecheckSource, GhostType
  <2>5. SourceInv' /\ BufInv'
    BY <1>5 DEF RecheckSource, SourceInv, SourceType, PlanType, Versions, BufInv,
          BufType, ChunksOf, Complete
  <2>6. DirectInv' /\ StreamedInv' /\ PublishedInv'
    BY <1>5 DEF RecheckSource, DirectInv, BufInv, DestType, HandleType, BufType,
          Snapshot, PartInv, StreamedInv, PublishedInv, Complete, ChunksOf
  <2>7. CkptInv'
    BY <1>5 DEF RecheckSource, CkptInv, SourceInv, BufInv, StreamedInv, JournalType,
          Ckpts, SourceType, Versions, DestType, ChunksOf
  <2>8. PartInv' /\ HintIsBacked' /\ NoFalseSame'
    BY <1>5, DestKept DEF RecheckSource
  <2> QED
    BY <2>1, <2>2, <2>3, <2>4, <2>5, <2>6, <2>7, <2>8
<1> QED
  BY <1>4, <1>5

\* Finish keeps IInv.
LEMMA FinishStep == ASSUME IInv, Finish PROVE IInv'
<1> USE ConstantAssumption
<1>1. /\ store \in [Ids -> Objects] /\ h \in Ids /\ h = final /\ store[h] \in Objects
      /\ snap \in Stamps /\ snap \in Versions
  BY DEF DestType, DirectInv, SourceInv, Finish, Stamps
<1> DEFINE o == IF mode.stampAtCreate THEN store[h] ELSE [store[h] EXCEPT !.mtime = snap]
<1>2. /\ o \in Objects /\ o.data = store[h].data /\ o.own = store[h].own
      /\ o.mtime = IF mode.stampAtCreate THEN store[h].mtime ELSE snap
  BY <1>1, Stamped
<1>3. store' = [store EXCEPT ![h] = o]
  BY <1>1 DEF Finish
<1> HIDE DEF o
<1>4. /\ store' \in [Ids -> Objects] /\ store'[h] = o
      /\ \A j \in Ids : j # h => store'[j] = store[j]
  BY <1>1, <1>2, <1>3, Update
<1>5. /\ pc = "finish" /\ pc' = "flush"
      /\ UNCHANGED <<source, final, part, ckpt, run, journal, handle, buf, outcome, ghost>>
  BY DEF Finish
<1>20. SourceType' /\ HandleType' /\ BufType' /\ ControlType'
  BY <1>1, <1>2, <1>4, <1>5 DEF SourceType, SourceInv, PlanType, Pcs, Versions,
        HandleType, DestType, JournalType, Ckpts, BufType, ControlType, Outcomes
<1>21. DestType'
  BY <1>1, <1>2, <1>4, <1>5 DEF DestType, HandleType
<1>22. JournalType' /\ PlanType' /\ GhostType'
  BY <1>1, <1>2, <1>4, <1>5 DEF JournalType, Ckpts, HandleType, BufType, PlanType,
        SourceType, Versions, Snaps, GhostType
<1>23. SourceInv' /\ BufInv'
  BY <1>1, <1>2, <1>4, <1>5 DEF SourceInv, SourceType, PlanType, Versions, BufInv,
        BufType, ChunksOf, Complete
<1>24. DirectInv' /\ PublishedInv'
  BY <1>1, <1>2, <1>4, <1>5 DEF DirectInv, BufInv, DestType, HandleType, BufType,
        Snapshot, PartInv, PublishedInv, StreamedInv, Complete, ChunksOf
<1>25. StreamedInv'
  BY <1>1, <1>2, <1>4, <1>5 DEF StreamedInv, DestType, HandleType, PartInv, Snapshot
<1>26. PartInv'
  BY <1>1, <1>2, <1>4, <1>5 DEF PartInv, StreamedInv, DirectInv, DestType,
        HandleType
<1>27. CkptInv'
  BY <1>1, <1>2, <1>4, <1>5 DEF CkptInv, SourceInv, BufInv, StreamedInv,
        JournalType, Ckpts, SourceType, Versions, DestType, ChunksOf
<1>28. HintIsBacked'
  BY <1>1, <1>2, <1>4, <1>5 DEF HintIsBacked, StreamedInv, DirectInv, PartInv,
        JournalType, Ckpts, DestType, CkptInv, Begins
<1>29. NoFalseSame'
  BY <1>1, <1>2, <1>4, <1>5 DEF NoFalseSame, DirectInv, PublishedInv, PartInv,
        BufInv, Same, Snapshot, Complete, ChunksOf, DestType, Versions, Now, Poison,
        Foreign
<1> QED
  BY <1>20, <1>21, <1>22, <1>23, <1>24, <1>25, <1>26, <1>27, <1>28, <1>29

\* DeferredCheck keeps IInv.
LEMMA DeferredCheckStep == ASSUME IInv, DeferredCheck PROVE IInv'
<1> USE ConstantAssumption
<1>1. SourceType'
  BY DEF DeferredCheck, CloseHandles, SourceType, SourceInv, PlanType, Versions
<1>2. DestType'
  BY DEF DeferredCheck, CloseHandles, DestType, HandleType
<1>3. HandleType'
  BY DEF DeferredCheck, CloseHandles, HandleType, DestType, JournalType, Ckpts
<1>4. BufType'
  BY DEF DeferredCheck, CloseHandles, BufType, JournalType, Ckpts
<1>5. JournalType' /\ PlanType'
  BY DEF DeferredCheck, CloseHandles, JournalType, Ckpts, HandleType, BufType,
        PlanType, SourceType, Versions, Snaps
<1>6. ControlType'
  BY DEF DeferredCheck, CloseHandles, ControlType, Pcs, Outcomes
<1>7. GhostType'
  BY DEF DeferredCheck, CloseHandles, GhostType
<1>8. SourceInv' /\ BufInv'
  BY DEF DeferredCheck, CloseHandles, SourceInv, SourceType, PlanType, Versions,
        BufInv, BufType, ChunksOf, Complete
<1>9. DirectInv' /\ StreamedInv' /\ PublishedInv'
  BY DEF DeferredCheck, CloseHandles, DirectInv, BufInv, DestType, HandleType,
        BufType, Snapshot, PartInv, StreamedInv, PublishedInv, Complete, ChunksOf
<1>10. CkptInv'
  BY DEF DeferredCheck, CloseHandles, CkptInv, SourceInv, BufInv, StreamedInv,
        JournalType, Ckpts, SourceType, Versions, DestType, ChunksOf
<1>11. PartInv' /\ HintIsBacked' /\ NoFalseSame'
  BY DestKept DEF DeferredCheck
<1> QED
  BY <1>1, <1>2, <1>3, <1>4, <1>5, <1>6, <1>7, <1>8, <1>9, <1>10, <1>11

\* SmallFault keeps IInv.
LEMMA SmallFaultStep == ASSUME IInv, SmallFault PROVE IInv'
<1> USE ConstantAssumption
<1>1. "failed" \in Outcomes
  BY DEF Outcomes
<1>2. GhostType'
  BY FaultType DEF SmallFault, GhostType
<1>3. pc # "idle"
  BY DEF SmallFault
<1>4. CASE Abandon("failed")
  BY <1>1, <1>2, <1>3, <1>4, AbandonStep
<1>5. CASE ~Abandon("failed")
  <2>1. SourceType' /\ DestType' /\ HandleType' /\ BufType'
    BY <1>5 DEF SmallFault, Fault, SourceType, SourceInv, PlanType, Versions,
          DestType, HandleType, JournalType, Ckpts, BufType
  <2>2. JournalType' /\ PlanType'
    BY <1>5 DEF SmallFault, Fault, JournalType, Ckpts, HandleType, BufType,
          PlanType, SourceType, Versions, Snaps
  <2>3. ControlType'
    BY <1>5 DEF SmallFault, Fault, ControlType, Pcs, Outcomes
  <2>4. GhostType'
    BY <1>5 DEF SmallFault, Fault, GhostType
  <2>5. SourceInv' /\ BufInv'
    BY <1>5 DEF SmallFault, Fault, SourceInv, SourceType, PlanType, Versions,
          BufInv, BufType, ChunksOf, Complete
  <2>6. DirectInv' /\ StreamedInv' /\ PublishedInv'
    BY <1>5 DEF SmallFault, Fault, DirectInv, BufInv, DestType, HandleType, BufType,
          Snapshot, PartInv, StreamedInv, PublishedInv, Complete, ChunksOf
  <2>7. CkptInv'
    BY <1>5 DEF SmallFault, Fault, CkptInv, SourceInv, BufInv, StreamedInv,
          JournalType, Ckpts, SourceType, Versions, DestType, ChunksOf
  <2>8. PartInv' /\ HintIsBacked' /\ NoFalseSame'
    BY <1>5, DestKept DEF SmallFault
  <2> QED
    BY <2>1, <2>2, <2>3, <2>4, <2>5, <2>6, <2>7, <2>8
<1> QED
  BY <1>4, <1>5

\* ResumeMiss keeps IInv.
LEMMA ResumeMissStep == ASSUME IInv, ResumeMiss PROVE IInv'
<1> USE ConstantAssumption
<1>1. SourceType' /\ DestType' /\ HandleType' /\ BufType'
  BY DEF ResumeMiss, SourceType, SourceInv, PlanType, Versions, DestType,
        HandleType, JournalType, Ckpts, BufType
<1>2. JournalType' /\ PlanType'
  BY DEF ResumeMiss, JournalType, Ckpts, HandleType, BufType, PlanType, SourceType,
        Versions, Snaps
<1>3. ControlType'
  BY DEF ResumeMiss, ControlType, Pcs, Outcomes
<1>4. GhostType'
  BY DEF ResumeMiss, GhostType
<1>5. SourceInv' /\ BufInv'
  BY DEF ResumeMiss, SourceInv, SourceType, PlanType, Versions, BufInv, BufType,
        ChunksOf, Complete
<1>6. DirectInv' /\ StreamedInv' /\ PublishedInv'
  BY DEF ResumeMiss, DirectInv, BufInv, DestType, HandleType, BufType, Snapshot,
        PartInv, StreamedInv, PublishedInv, Complete, ChunksOf
<1>7. CkptInv'
  BY DEF ResumeMiss, CkptInv, SourceInv, BufInv, StreamedInv, JournalType, Ckpts,
        SourceType, Versions, DestType, ChunksOf
<1>8. PartInv' /\ HintIsBacked' /\ NoFalseSame'
  BY DestKept DEF ResumeMiss
<1> QED
  BY <1>1, <1>2, <1>3, <1>4, <1>5, <1>6, <1>7, <1>8

\* ResumeFault keeps IInv.
LEMMA ResumeFaultStep == ASSUME IInv, ResumeFault PROVE IInv'
<1> USE ConstantAssumption
<1>1. "failed" \in Outcomes
  BY DEF Outcomes
<1>2. GhostType'
  BY FaultType DEF ResumeFault, GhostType
<1>3. pc # "idle"
  BY DEF ResumeFault
<1>4. CASE Abandon("failed")
  BY <1>1, <1>2, <1>3, <1>4, AbandonStep
<1>5. CASE ~Abandon("failed")
  <2>1. SourceType' /\ DestType' /\ HandleType' /\ BufType'
    BY <1>5 DEF ResumeFault, Fault, SourceType, SourceInv, PlanType, Versions,
          DestType, HandleType, JournalType, Ckpts, BufType
  <2>2. JournalType' /\ PlanType'
    BY <1>5 DEF ResumeFault, Fault, JournalType, Ckpts, HandleType, BufType,
          PlanType, SourceType, Versions, Snaps
  <2>3. ControlType'
    BY <1>5 DEF ResumeFault, Fault, ControlType, Pcs, Outcomes
  <2>4. GhostType'
    BY <1>5 DEF ResumeFault, Fault, GhostType
  <2>5. SourceInv' /\ BufInv'
    BY <1>5 DEF ResumeFault, Fault, SourceInv, SourceType, PlanType, Versions,
          BufInv, BufType, ChunksOf, Complete
  <2>6. DirectInv' /\ PublishedInv'
    BY <1>5 DEF ResumeFault, Fault, DirectInv, BufInv, DestType, HandleType,
          BufType, Snapshot, PartInv, PublishedInv, StreamedInv, Complete, ChunksOf
  <2>7. StreamedInv'
    <3>1. pc = "resume" /\ pc' = "mktemp" /\ armed' = armed
      BY <1>5 DEF ResumeFault
    <3>2. ~armed
      BY <3>1 DEF StreamedInv
    <3> QED
      BY <3>1, <3>2 DEF StreamedInv
  <2>8. CkptInv'
    BY <1>5 DEF ResumeFault, Fault, CkptInv, SourceInv, BufInv, StreamedInv,
          JournalType, Ckpts, SourceType, Versions, DestType, ChunksOf
  <2>9. PartInv' /\ HintIsBacked'
    BY <1>5, DestKept DEF ResumeFault
  <2>10. NoFalseSame'
    BY <1>5, FinalKept DEF ResumeFault
  <2> QED
    BY <2>1, <2>2, <2>3, <2>4, <2>5, <2>6, <2>7, <2>8, <2>9, <2>10
<1> QED
  BY <1>4, <1>5

\* ResumeDiscard keeps IInv.
LEMMA ResumeDiscardStep == ASSUME IInv, ResumeDiscard PROVE IInv'
<1> USE ConstantAssumption
<1>1. SourceType' /\ DestType' /\ HandleType' /\ BufType'
  BY DEF ResumeDiscard, Unlinked, PrefixVerified, SourceType, SourceInv, PlanType,
        Versions, DestType, HandleType, JournalType, Ckpts, BufType
<1>2. JournalType' /\ PlanType'
  BY DEF ResumeDiscard, Unlinked, PrefixVerified, JournalType, Ckpts, HandleType,
        BufType, PlanType, SourceType, Versions, Snaps
<1>3. ControlType'
  BY DEF ResumeDiscard, Unlinked, PrefixVerified, ControlType, Pcs, Outcomes
<1>4. GhostType'
  BY DEF ResumeDiscard, Unlinked, PrefixVerified, GhostType
<1>5. SourceInv' /\ BufInv'
  BY DEF ResumeDiscard, Unlinked, PrefixVerified, SourceInv, SourceType, PlanType,
        Versions, BufInv, BufType, ChunksOf, Complete
<1>6. DirectInv' /\ StreamedInv' /\ PublishedInv'
  BY DEF ResumeDiscard, Unlinked, PrefixVerified, DirectInv, BufInv, DestType,
        HandleType, BufType, Snapshot, PartInv, StreamedInv, PublishedInv, Complete,
        ChunksOf
<1>7. CkptInv'
  BY DEF ResumeDiscard, Unlinked, PrefixVerified, CkptInv, SourceInv, BufInv,
        StreamedInv, JournalType, Ckpts, SourceType, Versions, DestType, ChunksOf
<1>8. PartInv'
  BY DEF ResumeDiscard, Unlinked, PrefixVerified, PartInv, StreamedInv, DirectInv,
        DestType, HandleType
<1>9. HintIsBacked'
  BY DEF ResumeDiscard, Unlinked, PrefixVerified, HintIsBacked, StreamedInv,
        DirectInv, PartInv, JournalType, Ckpts, DestType, CkptInv, Begins
<1>10. NoFalseSame'
  BY DEF ResumeDiscard, Unlinked, PrefixVerified, NoFalseSame, DirectInv,
        PublishedInv, PartInv, BufInv, Same, Snapshot, Complete, ChunksOf, DestType,
        Versions, Now, Poison, Foreign
<1> QED
  BY <1>1, <1>2, <1>3, <1>4, <1>5, <1>6, <1>7, <1>8, <1>9, <1>10

\* ResumeVerified keeps IInv.
LEMMA ResumeVerifiedStep == ASSUME IInv, ResumeVerified PROVE IInv'
<1> USE ConstantAssumption
<1>1. /\ store \in [Ids -> Objects] /\ ckpt.id \in Ids /\ store[ckpt.id] \in Objects
      /\ ckpt.prefix \in Seq(Chunks) /\ ckpt.part \in Parts /\ part[ckpt.part] = ckpt.id
  BY DEF DestType, JournalType, Ckpts, CkptInv, ResumeVerified
<1> DEFINE x == store[ckpt.id]
           d == SubSeq(x.data, 1, Len(ckpt.prefix))
           o == [x EXCEPT !.data = d, !.mtime = Now, !.flushed = FALSE, !.touched = FALSE]
<1>2. d = ckpt.prefix
  <2>1. x.data \in Seq(Chunks)
    BY <1>1, Fields
  <2>2. Begins(x.data, ckpt.prefix)
    BY DEF ResumeVerified, PrefixVerified
  <2>3. /\ d \in Seq(Chunks) /\ Len(d) = Len(ckpt.prefix)
        /\ \A i \in 1..Len(d) : d[i] = ckpt.prefix[i]
    BY <1>1, <2>1, <2>2 DEF Begins
  <2> QED
    BY <1>1, <2>3, SeqEqual
<1>3. store' = [store EXCEPT ![ckpt.id] = o]
  BY DEF ResumeVerified
<1> HIDE DEF d
<1>4. o \in Objects /\ o.data = ckpt.prefix /\ o.mtime = Now /\ o.own = x.own
  <2>1. d \in Seq(Chunks) /\ x \in Objects
    BY <1>1, <1>2
  <2>2. o \in Objects /\ o.data = d /\ o.mtime = Now /\ o.own = x.own
    BY <2>1, Truncated
  <2> QED
    BY <1>2, <2>2
<1> HIDE DEF o
<1>5. /\ store' \in [Ids -> Objects] /\ store'[ckpt.id] = o
      /\ \A j \in Ids : j # ckpt.id => store'[j] = store[j]
  BY <1>1, <1>4, <1>3, Update
<1>6. /\ pc = "resume" /\ pc' = "transfer" /\ h' = ckpt.id /\ hpart' = ckpt.part /\ persistent' = TRUE
      /\ buf' = ckpt.prefix /\ ckpt.version = snap
      /\ UNCHANGED <<source, final, part, ckpt, run, journal, armed, outcome, ghost>>
  BY DEF ResumeVerified, PrefixVerified
<1>20. SourceType' /\ HandleType' /\ BufType' /\ ControlType'
  BY <1>1, <1>4, <1>5, <1>6 DEF SourceType, SourceInv, PlanType, Pcs, Versions,
        HandleType, DestType, JournalType, Ckpts, BufType, ControlType, Outcomes
<1>21. DestType'
  BY <1>1, <1>4, <1>5, <1>6 DEF DestType, HandleType
<1>22. JournalType' /\ PlanType' /\ GhostType'
  BY <1>1, <1>4, <1>5, <1>6 DEF JournalType, Ckpts, HandleType, BufType, PlanType,
        SourceType, Versions, Snaps, GhostType
<1>23. SourceInv'
  BY <1>1, <1>4, <1>5, <1>6 DEF SourceInv, SourceType, PlanType, Versions
<1>24. BufInv'
  <2>1. ChunksOf(ckpt.prefix, snap)
    BY <1>6 DEF CkptInv
  <2> QED
    BY <1>6, <2>1 DEF BufInv
<1>25. DirectInv' /\ PublishedInv'
  BY <1>1, <1>4, <1>5, <1>6 DEF DirectInv, BufInv, DestType, HandleType, BufType,
        Snapshot, PartInv, PublishedInv, StreamedInv, Complete, ChunksOf
<1>26. StreamedInv'
  BY <1>1, <1>4, <1>5, <1>6 DEF StreamedInv, CkptInv
<1>27. PartInv'
  <2>1. Now \notin Versions
    BY DEF Now, Versions
  <2> QED
    BY <1>1, <1>4, <1>5, <1>6, <2>1 DEF DestType, PartInv
<1>28. CkptInv'
  BY <1>1, <1>4, <1>5, <1>6 DEF CkptInv, SourceInv, BufInv, StreamedInv,
        JournalType, Ckpts, SourceType, Versions, DestType, ChunksOf
<1>29. HintIsBacked'
  BY <1>1, <1>4, <1>5, <1>6 DEF HintIsBacked, Begins
<1>30. NoFalseSame'
  <2>1. ckpt.id # final
    BY <1>1 DEF PartInv
  <2> QED
    BY <1>5, <1>6, <2>1, FinalKept DEF DestType
<1> QED
  BY <1>20, <1>21, <1>22, <1>23, <1>24, <1>25, <1>26, <1>27, <1>28, <1>29, <1>30

\* MakeTemp keeps IInv.
LEMMA MakeTempStep == ASSUME IInv, MakeTemp PROVE IInv'
<1> USE ConstantAssumption
<1>1. "failed" \in Outcomes
  BY DEF Outcomes
<1>2. GhostType'
  BY FaultType DEF MakeTemp, GhostType
<1>3. pc # "idle"
  BY DEF MakeTemp
<1>4. CASE Abandon("failed")
  BY <1>1, <1>2, <1>3, <1>4, AbandonStep
<1>5. CASE ~Abandon("failed")
  <2>1. FreshId \in Ids /\ Fresh(FreshId)
    BY <1>5, FreshChosen DEF MakeTemp
  <2>2. NewObject \in Objects /\ NewObject.data = << >> /\ NewObject.mtime = Now /\ NewObject.own
    BY NewTypes DEF NewObject
  <2>3. store \in [Ids -> Objects] /\ part \in [Parts -> SomeId]
    BY DEF DestType
  <2>4. /\ store' \in [Ids -> Objects] /\ store'[FreshId] = NewObject
        /\ \A j \in Ids : j # FreshId => store'[j] = store[j]
    BY <1>5, <2>1, <2>2, <2>3, Update DEF MakeTemp
  <2>5. PICK n \in Parts : /\ part[n] = NoObj /\ part' = [part EXCEPT ![n] = FreshId] /\ hpart' = n
    BY <1>5 DEF MakeTemp
  <2>6. /\ part' \in [Parts -> SomeId] /\ part'[n] = FreshId /\ \A m \in Parts : m # n => part'[m] = part[m]
    BY <2>1, <2>3, <2>5
  <2>7. /\ pc = "mktemp" /\ pc' = "arm" /\ h' = FreshId /\ hpart' = n
        /\ UNCHANGED <<source, final, ckpt, run, journal, armed, persistent, buf, outcome, ghost>>
    BY <1>5, <2>5 DEF MakeTemp
  <2>20. SourceType' /\ HandleType' /\ BufType' /\ ControlType'
    BY <2>1, <2>2, <2>3, <2>4, <2>6, <2>7 DEF SourceType, SourceInv, PlanType, Pcs,
          Versions, Fresh, HandleType, DestType, JournalType, Ckpts, BufType,
          ControlType, Outcomes
  <2>21. DestType'
    BY <2>1, <2>2, <2>3, <2>4, <2>6, <2>7 DEF DestType, HandleType, Fresh
  <2>22. JournalType' /\ PlanType' /\ GhostType'
    BY <2>1, <2>2, <2>3, <2>4, <2>6, <2>7 DEF JournalType, Ckpts, HandleType,
          BufType, PlanType, Fresh, SourceType, Versions, Snaps, GhostType
  <2>23. SourceInv' /\ BufInv'
    BY <2>1, <2>2, <2>3, <2>4, <2>6, <2>7 DEF SourceInv, SourceType, PlanType,
          Versions, Fresh, BufInv, BufType, ChunksOf, Complete
  <2>24. DirectInv' /\ PublishedInv'
    BY <2>1, <2>2, <2>3, <2>4, <2>6, <2>7 DEF DirectInv, BufInv, DestType,
          HandleType, BufType, Snapshot, PartInv, Fresh, PublishedInv, StreamedInv,
          Complete, ChunksOf
  <2>25. StreamedInv'
    BY <2>1, <2>2, <2>4, <2>6, <2>7 DEF StreamedInv, BufInv
  <2>26. PartInv'
    <3>1. Now \notin Versions /\ FreshId # NoObj
      BY <2>1 DEF Now, Versions
    <3> QED
      BY <2>1, <2>2, <2>3, <2>4, <2>6, <2>7, <3>1 DEF PartInv, Fresh
  <2>27. CkptInv'
    BY <2>1, <2>2, <2>3, <2>4, <2>6, <2>7 DEF CkptInv, SourceInv, BufInv,
          StreamedInv, JournalType, Ckpts, SourceType, Versions, DestType, ChunksOf,
          Fresh
  <2>28. HintIsBacked'
    BY <2>1, <2>2, <2>3, <2>4, <2>6, <2>7 DEF HintIsBacked, StreamedInv, DirectInv,
          PartInv, JournalType, Ckpts, DestType, CkptInv, Begins, Fresh
  <2>29. NoFalseSame'
    <3>1. FreshId # final
      BY <2>1 DEF Fresh
    <3> QED
      BY <2>4, <2>7, <3>1, FinalKept DEF DestType
  <2> QED
    BY <2>20, <2>21, <2>22, <2>23, <2>24, <2>25, <2>26, <2>27, <2>28, <2>29
<1> QED
  BY <1>4, <1>5

\* ArmDelete keeps IInv.
LEMMA ArmDeleteStep == ASSUME IInv, ArmDelete PROVE IInv'
<1> USE ConstantAssumption
<1>1. "failed" \in Outcomes
  BY DEF Outcomes
<1>2. GhostType'
  BY FaultType DEF ArmDelete, GhostType
<1>3. pc # "idle"
  BY DEF ArmDelete
<1>4. CASE Abandon("failed")
  BY <1>1, <1>2, <1>3, <1>4, AbandonStep
<1>5. CASE ~Abandon("failed")
  <2>1. SourceType' /\ DestType' /\ HandleType' /\ BufType'
    BY <1>5 DEF ArmDelete, Fault, SourceType, SourceInv, PlanType, Versions,
          DestType, HandleType, JournalType, Ckpts, BufType
  <2>2. JournalType' /\ PlanType'
    BY <1>5 DEF ArmDelete, Fault, JournalType, Ckpts, HandleType, BufType, PlanType,
          SourceType, Versions, Snaps
  <2>3. ControlType'
    BY <1>5 DEF ArmDelete, Fault, ControlType, Pcs, Outcomes
  <2>4. GhostType'
    BY <1>5 DEF ArmDelete, Fault, GhostType
  <2>5. SourceInv' /\ BufInv'
    BY <1>5 DEF ArmDelete, Fault, SourceInv, SourceType, PlanType, Versions, BufInv,
          BufType, ChunksOf, Complete
  <2>6. DirectInv' /\ StreamedInv' /\ PublishedInv'
    BY <1>5 DEF ArmDelete, Fault, DirectInv, BufInv, DestType, HandleType, BufType,
          Snapshot, PartInv, StreamedInv, PublishedInv, Complete, ChunksOf
  <2>7. CkptInv'
    BY <1>5 DEF ArmDelete, Fault, CkptInv, SourceInv, BufInv, StreamedInv,
          JournalType, Ckpts, SourceType, Versions, DestType, ChunksOf
  <2>8. PartInv' /\ HintIsBacked' /\ NoFalseSame'
    BY <1>5, DestKept DEF ArmDelete
  <2> QED
    BY <2>1, <2>2, <2>3, <2>4, <2>5, <2>6, <2>7, <2>8
<1> QED
  BY <1>4, <1>5

\* TransferChunk keeps IInv.
LEMMA TransferChunkStep == ASSUME IInv, TransferChunk PROVE IInv'
<1> USE ConstantAssumption
<1>1. "failed" \in Outcomes
  BY DEF Outcomes
<1>2. GhostType'
  BY FaultType DEF TransferChunk, GhostType
<1>3. pc # "idle"
  BY DEF TransferChunk
<1>4. CASE Abandon("failed")
  BY <1>1, <1>2, <1>3, <1>4, AbandonStep
<1>5. CASE ~Abandon("failed")
  <2>1. /\ store \in [Ids -> Objects] /\ h \in Ids /\ store[h] \in Objects /\ store[h].data = buf
        /\ buf \in Seq(Chunks) /\ hsrc \in Versions /\ pc = "transfer"
    BY DEF DestType, BufType, StreamedInv, SourceInv, TransferChunk
  <2> DEFINE c == <<hsrc, Len(buf) + 1>>
             e == Append(buf, c)
             o == [store[h] EXCEPT !.data = e]
  <2>2. c \in Chunks
    BY <2>1 DEF Chunks
  <2>3. store' = [store EXCEPT ![h] = o] /\ buf' = e
    BY <1>5, <2>1 DEF TransferChunk
  <2>4. /\ e \in Seq(Chunks) /\ Len(e) = Len(buf) + 1 /\ e[Len(buf) + 1] = <<hsrc, Len(buf) + 1>>
        /\ \A i \in 1..Len(buf) : e[i] = buf[i]
    BY <2>1, <2>2
  <2> HIDE DEF e
  <2>5. o \in Objects /\ o.data = e /\ o.own = store[h].own /\ o.mtime = store[h].mtime /\ o.touched = store[h].touched
    <3>1. e \in Seq(Chunks) /\ store[h] \in Objects
      BY <2>1, <2>4
    <3> QED
      BY <3>1 DEF Objects
  <2> HIDE DEF o
  <2>6. /\ store' \in [Ids -> Objects] /\ store'[h] = o
        /\ \A j \in Ids : j # h => store'[j] = store[j]
    BY <2>1, <2>5, <2>3, Update
  <2>7. /\ pc' \in {"ckpt", "transfer"}
        /\ UNCHANGED <<source, final, part, ckpt, run, journal, handle, outcome, ghost>>
    BY <1>5 DEF TransferChunk
  <2>8. buf' = e
    BY <2>3
  <2>20. SourceType' /\ HandleType' /\ BufType' /\ ControlType'
    BY <2>1, <2>4, <2>5, <2>6, <2>7, <2>8 DEF SourceType, SourceInv, PlanType, Pcs,
          Versions, HandleType, DestType, JournalType, Ckpts, BufType, ControlType,
          Outcomes
  <2>21. DestType'
    BY <2>1, <2>4, <2>5, <2>6, <2>7, <2>8 DEF DestType, HandleType
  <2>22. JournalType' /\ PlanType' /\ GhostType'
    BY <2>1, <2>4, <2>5, <2>6, <2>7, <2>8 DEF JournalType, Ckpts, HandleType,
          BufType, PlanType, SourceType, Versions, Snaps, GhostType
  <2>23. SourceInv'
    BY <2>1, <2>4, <2>5, <2>6, <2>7, <2>8 DEF SourceInv, SourceType, PlanType,
          Versions
  <2>24. BufInv'
    <3>1. ASSUME hsrc = snap PROVE ChunksOf(e, snap)
      <4>1. ChunksOf(buf, snap)
        BY <2>1, <3>1 DEF BufInv
      <4> QED
        BY <2>1, <2>4, <3>1, <4>1 DEF ChunksOf
    <3> QED
      BY <2>7, <2>8, <3>1 DEF BufInv
  <2>25. DirectInv' /\ PublishedInv'
    BY <2>1, <2>4, <2>5, <2>6, <2>7, <2>8 DEF DirectInv, BufInv, DestType,
          HandleType, BufType, Snapshot, PartInv, PublishedInv, StreamedInv,
          Complete, ChunksOf
  <2>26. StreamedInv'
    BY <2>1, <2>4, <2>5, <2>6, <2>7, <2>8 DEF StreamedInv, DestType, HandleType,
          PartInv, Snapshot
  <2>27. PartInv'
    BY <2>1, <2>4, <2>5, <2>6, <2>7, <2>8 DEF PartInv, StreamedInv, DirectInv,
          DestType, HandleType
  <2>28. CkptInv'
    BY <2>1, <2>4, <2>5, <2>6, <2>7, <2>8 DEF CkptInv, SourceInv, BufInv,
          StreamedInv, JournalType, Ckpts, SourceType, Versions, DestType, ChunksOf
  <2>29. HintIsBacked'
    <3>1. CASE ckpt.id = h
      <4>1. ASSUME HintIsBacked!1 PROVE Begins(e, ckpt.prefix)
        <5>1. Begins(buf, ckpt.prefix)
          BY <2>1, <3>1, <4>1 DEF HintIsBacked
        <5>2. Len(ckpt.prefix) \in Nat
          BY DEF JournalType, Ckpts
        <5> QED
          BY <2>1, <2>4, <5>1, <5>2 DEF Begins
      <4> QED
        BY <2>1, <2>5, <2>6, <2>7, <3>1, <4>1 DEF HintIsBacked
    <3>2. CASE ckpt.id # h
      BY <2>6, <2>7, <3>2 DEF JournalType, Ckpts, HintIsBacked
    <3> QED
      BY <3>1, <3>2
  <2>30. NoFalseSame'
    <3>1. h # final
      BY <2>1, StreamedApart
    <3> QED
      BY <2>6, <2>7, <3>1, FinalKept DEF DestType
  <2> QED
    BY <2>20, <2>21, <2>22, <2>23, <2>24, <2>25, <2>26, <2>27, <2>28, <2>29, <2>30
<1> QED
  BY <1>4, <1>5

\* CancelMidFile keeps IInv.
LEMMA CancelMidFileStep == ASSUME IInv, CancelMidFile PROVE IInv'
<1> USE ConstantAssumption
<1>1. "canceled" \in Outcomes
  BY DEF Outcomes
<1>2. GhostType'
  BY FaultType DEF CancelMidFile, GhostType
<1>3. pc # "idle"
  BY DEF CancelMidFile
<1>4. CASE Abandon("canceled")
  BY <1>1, <1>2, <1>3, <1>4, AbandonStep
<1>5. CASE ~Abandon("canceled")
  <2>1. SourceType' /\ DestType' /\ HandleType' /\ BufType'
    BY <1>5 DEF CancelMidFile, Fault, SourceType, SourceInv, PlanType, Versions,
          DestType, HandleType, JournalType, Ckpts, BufType
  <2>2. JournalType' /\ PlanType'
    BY <1>5 DEF CancelMidFile, Fault, JournalType, Ckpts, HandleType, BufType,
          PlanType, SourceType, Versions, Snaps
  <2>3. ControlType'
    BY <1>5 DEF CancelMidFile, Fault, ControlType, Pcs, Outcomes
  <2>4. GhostType'
    BY <1>5 DEF CancelMidFile, Fault, GhostType
  <2>5. SourceInv' /\ BufInv'
    BY <1>5 DEF CancelMidFile, Fault, SourceInv, SourceType, PlanType, Versions,
          BufInv, BufType, ChunksOf, Complete
  <2>6. DirectInv' /\ StreamedInv' /\ PublishedInv'
    BY <1>5 DEF CancelMidFile, Fault, DirectInv, BufInv, DestType, HandleType,
          BufType, Snapshot, PartInv, StreamedInv, PublishedInv, Complete, ChunksOf
  <2>7. CkptInv'
    BY <1>5 DEF CancelMidFile, Fault, CkptInv, SourceInv, BufInv, StreamedInv,
          JournalType, Ckpts, SourceType, Versions, DestType, ChunksOf
  <2>8. PartInv' /\ HintIsBacked' /\ NoFalseSame'
    BY <1>5, DestKept DEF CancelMidFile
  <2> QED
    BY <2>1, <2>2, <2>3, <2>4, <2>5, <2>6, <2>7, <2>8
<1> QED
  BY <1>4, <1>5

\* AppendCheckpoint keeps IInv.
LEMMA AppendCheckpointStep == ASSUME IInv, AppendCheckpoint PROVE IInv'
<1> USE ConstantAssumption
<1>1. SourceType' /\ DestType' /\ HandleType' /\ BufType'
  BY DEF AppendCheckpoint, Fault, SourceType, SourceInv, PlanType, Versions,
        DestType, HandleType, JournalType, Ckpts, BufType
<1>2. PlanType'
  BY DEF AppendCheckpoint, Fault, PlanType, SourceType, Versions, Snaps
<1>3. JournalType'
  <2> DEFINE r == [part |-> hpart, id |-> h, version |-> snap, prefix |-> buf]
  <2>1. r \in Ckpts
    BY DEF HandleType, PlanType, BufType, Ckpts
  <2>2. ckpt' = r \/ ckpt' = ckpt
    BY DEF AppendCheckpoint
  <2>3. journal' \in BOOLEAN
    BY DEF AppendCheckpoint, JournalType
  <2> QED
    BY <2>1, <2>2, <2>3 DEF JournalType
<1>4. ControlType'
  BY DEF AppendCheckpoint, Fault, ControlType, Pcs, Outcomes
<1>5. GhostType'
  BY DEF AppendCheckpoint, Fault, GhostType
<1>6. SourceInv' /\ BufInv'
  BY DEF AppendCheckpoint, Fault, SourceInv, SourceType, PlanType, Versions, BufInv,
        BufType, ChunksOf, Complete
<1>7. DirectInv' /\ StreamedInv' /\ PublishedInv'
  BY DEF AppendCheckpoint, Fault, DirectInv, BufInv, DestType, HandleType, BufType,
        Snapshot, PartInv, StreamedInv, PublishedInv, Complete, ChunksOf
<1>8. CkptInv'
  BY DEF AppendCheckpoint, Fault, CkptInv, SourceInv, BufInv, StreamedInv,
        JournalType, Ckpts, SourceType, Versions, DestType, ChunksOf
<1>9. PartInv'
  BY DEF AppendCheckpoint, Fault, PartInv, StreamedInv, DirectInv, DestType,
        HandleType
<1>10. HintIsBacked'
  <2>1. Begins(buf, buf)
    BY DEF BufType, Begins
  <2>2. h \in Ids /\ store[h].data = buf
    BY DEF AppendCheckpoint, StreamedInv
  <2> QED
    BY <2>1, <2>2 DEF AppendCheckpoint, HintIsBacked
<1>11. NoFalseSame'
  BY DEF AppendCheckpoint, Fault, NoFalseSame, DirectInv, PublishedInv, PartInv,
        BufInv, Same, Snapshot, Complete, ChunksOf, DestType, Versions, Now, Poison,
        Foreign
<1> QED
  BY <1>1, <1>2, <1>3, <1>4, <1>5, <1>6, <1>7, <1>8, <1>9, <1>10, <1>11

\* PersistForResume keeps IInv.
LEMMA PersistForResumeStep == ASSUME IInv, PersistForResume PROVE IInv'
<1> USE ConstantAssumption
<1>1. SourceType' /\ DestType' /\ HandleType' /\ BufType'
  BY DEF PersistForResume, Fault, SourceType, SourceInv, PlanType, Versions,
        DestType, HandleType, JournalType, Ckpts, BufType
<1>2. JournalType' /\ PlanType'
  BY DEF PersistForResume, Fault, JournalType, Ckpts, HandleType, BufType, PlanType,
        SourceType, Versions, Snaps
<1>3. ControlType'
  BY DEF PersistForResume, Fault, ControlType, Pcs, Outcomes
<1>4. GhostType'
  BY DEF PersistForResume, Fault, GhostType
<1>5. SourceInv' /\ BufInv'
  BY DEF PersistForResume, Fault, SourceInv, SourceType, PlanType, Versions, BufInv,
        BufType, ChunksOf, Complete
<1>6. DirectInv' /\ StreamedInv' /\ PublishedInv'
  BY DEF PersistForResume, Fault, DirectInv, BufInv, DestType, HandleType, BufType,
        Snapshot, PartInv, StreamedInv, PublishedInv, Complete, ChunksOf
<1>7. CkptInv'
  BY DEF PersistForResume, Fault, CkptInv, SourceInv, BufInv, StreamedInv,
        JournalType, Ckpts, SourceType, Versions, DestType, ChunksOf
<1>8. PartInv' /\ HintIsBacked' /\ NoFalseSame'
  BY DestKept DEF PersistForResume
<1> QED
  BY <1>1, <1>2, <1>3, <1>4, <1>5, <1>6, <1>7, <1>8

\* EndTransfer keeps IInv.
LEMMA EndTransferStep == ASSUME IInv, EndTransfer PROVE IInv'
<1> USE ConstantAssumption
<1>1. "failed" \in Outcomes
  BY DEF Outcomes
<1>2. GhostType'
  BY FaultType DEF EndTransfer, GhostType
<1>3. pc # "idle"
  BY DEF EndTransfer
<1>4. CASE Abandon("failed")
  BY <1>1, <1>2, <1>3, <1>4, AbandonStep
<1>5. CASE ~Abandon("failed")
  <2>1. SourceType' /\ DestType' /\ HandleType' /\ BufType'
    BY <1>5 DEF EndTransfer, SourceType, SourceInv, PlanType, Versions, DestType,
          HandleType, JournalType, Ckpts, BufType
  <2>2. JournalType' /\ PlanType'
    BY <1>5 DEF EndTransfer, JournalType, Ckpts, HandleType, BufType, PlanType,
          SourceType, Versions, Snaps
  <2>3. ControlType'
    BY <1>5 DEF EndTransfer, ControlType, Pcs, Outcomes
  <2>4. GhostType'
    BY <1>5 DEF EndTransfer, GhostType
  <2>5. SourceInv' /\ BufInv'
    BY <1>5 DEF EndTransfer, SourceInv, SourceType, PlanType, Versions, BufInv,
          BufType, ChunksOf, Complete
  <2>6. DirectInv' /\ StreamedInv' /\ PublishedInv'
    BY <1>5 DEF EndTransfer, DirectInv, BufInv, DestType, HandleType, BufType,
          Snapshot, PartInv, StreamedInv, PublishedInv, Complete, ChunksOf
  <2>7. CkptInv'
    BY <1>5 DEF EndTransfer, CkptInv, SourceInv, BufInv, StreamedInv, JournalType,
          Ckpts, SourceType, Versions, DestType, ChunksOf
  <2>8. PartInv' /\ HintIsBacked' /\ NoFalseSame'
    BY <1>5, DestKept DEF EndTransfer
  <2> QED
    BY <2>1, <2>2, <2>3, <2>4, <2>5, <2>6, <2>7, <2>8
<1> QED
  BY <1>4, <1>5

\* Precommit keeps IInv.
LEMMA PrecommitStep == ASSUME IInv, Precommit PROVE IInv'
<1> USE ConstantAssumption
<1>1. "failed" \in Outcomes
  BY DEF Outcomes
<1>2. GhostType'
  BY FaultType DEF Precommit, GhostType
<1>3. pc # "idle"
  BY DEF Precommit
<1>4. CASE Abandon("failed")
  BY <1>1, <1>2, <1>3, <1>4, AbandonStep
<1>5. CASE ~Abandon("failed")
  <2>1. SourceType' /\ DestType' /\ HandleType' /\ BufType'
    BY <1>5 DEF Precommit, Snapshot, NoSnap, SourceType, SourceInv, PlanType,
          Versions, DestType, HandleType, JournalType, Ckpts, BufType
  <2>2. JournalType' /\ PlanType'
    BY <1>5 DEF Precommit, Snapshot, NoSnap, JournalType, Ckpts, HandleType,
          BufType, PlanType, SourceType, Versions, Snaps
  <2>3. ControlType'
    BY <1>5 DEF Precommit, Snapshot, NoSnap, ControlType, Pcs, Outcomes
  <2>4. GhostType'
    BY <1>5 DEF Precommit, Snapshot, NoSnap, GhostType
  <2>5. SourceInv' /\ BufInv'
    BY <1>5 DEF Precommit, Snapshot, NoSnap, SourceInv, SourceType, PlanType,
          Versions, BufInv, BufType, ChunksOf, Complete
  <2>6. DirectInv' /\ StreamedInv' /\ PublishedInv'
    BY <1>5 DEF Precommit, Snapshot, NoSnap, DirectInv, BufInv, DestType,
          HandleType, BufType, PartInv, StreamedInv, PublishedInv, Complete,
          ChunksOf
  <2>7. CkptInv'
    BY <1>5 DEF Precommit, Snapshot, NoSnap, CkptInv, SourceInv, BufInv,
          StreamedInv, JournalType, Ckpts, SourceType, Versions, DestType, ChunksOf
  <2>8. PartInv' /\ HintIsBacked' /\ NoFalseSame'
    BY <1>5, DestKept DEF Precommit
  <2> QED
    BY <2>1, <2>2, <2>3, <2>4, <2>5, <2>6, <2>7, <2>8
<1> QED
  BY <1>4, <1>5

\* ClearDelete keeps IInv.
LEMMA ClearDeleteStep == ASSUME IInv, ClearDelete PROVE IInv'
<1> USE ConstantAssumption
<1>1. "failed" \in Outcomes
  BY DEF Outcomes
<1>2. GhostType'
  BY FaultType DEF ClearDelete, GhostType
<1>3. pc # "idle"
  BY DEF ClearDelete
<1>4. CASE Abandon("failed")
  BY <1>1, <1>2, <1>3, <1>4, AbandonStep
<1>5. CASE ~Abandon("failed")
  <2>1. SourceType' /\ DestType' /\ HandleType' /\ BufType'
    BY <1>5 DEF ClearDelete, Fault, SourceType, SourceInv, PlanType, Versions,
          DestType, HandleType, JournalType, Ckpts, BufType
  <2>2. JournalType' /\ PlanType'
    BY <1>5 DEF ClearDelete, Fault, JournalType, Ckpts, HandleType, BufType,
          PlanType, SourceType, Versions, Snaps
  <2>3. ControlType'
    BY <1>5 DEF ClearDelete, Fault, ControlType, Pcs, Outcomes
  <2>4. GhostType'
    BY <1>5 DEF ClearDelete, Fault, GhostType
  <2>5. SourceInv' /\ BufInv'
    BY <1>5 DEF ClearDelete, Fault, SourceInv, SourceType, PlanType, Versions,
          BufInv, BufType, ChunksOf, Complete
  <2>6. DirectInv' /\ StreamedInv' /\ PublishedInv'
    BY <1>5 DEF ClearDelete, Fault, DirectInv, BufInv, DestType, HandleType,
          BufType, Snapshot, PartInv, StreamedInv, PublishedInv, Complete, ChunksOf
  <2>7. CkptInv'
    BY <1>5 DEF ClearDelete, Fault, CkptInv, SourceInv, BufInv, StreamedInv,
          JournalType, Ckpts, SourceType, Versions, DestType, ChunksOf
  <2>8. PartInv' /\ HintIsBacked' /\ NoFalseSame'
    BY <1>5, DestKept DEF ClearDelete
  <2> QED
    BY <2>1, <2>2, <2>3, <2>4, <2>5, <2>6, <2>7, <2>8
<1> QED
  BY <1>4, <1>5

\* Rename keeps IInv.
LEMMA RenameStep == ASSUME IInv, Rename PROVE IInv'
<1> USE ConstantAssumption
<1>1. /\ pc = "rename" /\ h \in Ids /\ hpart \in Parts /\ part[hpart] = h /\ store[h].data = buf
      /\ part \in [Parts -> SomeId]
  BY DEF DestType, StreamedInv, Rename
<1>2. GhostType'
  BY FaultType DEF Rename, GhostType
<1> DEFINE p == Unlinked(hpart)
<1>3. p \in [Parts -> SomeId] /\ p[hpart] = NoObj /\ \A m \in Parts : m # hpart => p[m] = part[m]
  BY <1>1 DEF Unlinked
<1> HIDE DEF p
<1>4. CASE /\ final' = h
           /\ part' = p
           /\ pc' = "setbasic"
           /\ UNCHANGED <<source, store, ckpt, run, journal, handle, buf, outcome, ghost>>
  <2>10. SourceType' /\ HandleType' /\ BufType' /\ ControlType'
    BY <1>1, <1>2, <1>3, <1>4 DEF SourceType, SourceInv, PlanType, Pcs, Versions,
          HandleType, DestType, JournalType, Ckpts, BufType, ControlType, Outcomes
  <2>11. DestType'
    BY <1>1, <1>2, <1>3, <1>4 DEF DestType, HandleType
  <2>12. JournalType' /\ PlanType' /\ GhostType'
    BY <1>1, <1>2, <1>3, <1>4 DEF JournalType, Ckpts, HandleType, BufType, PlanType,
          SourceType, Versions, Snaps, GhostType
  <2>13. SourceInv' /\ BufInv'
    BY <1>1, <1>2, <1>3, <1>4 DEF SourceInv, SourceType, PlanType, Versions, BufInv,
          BufType, ChunksOf, Complete
  <2>14. DirectInv' /\ PublishedInv'
    BY <1>1, <1>2, <1>3, <1>4 DEF DirectInv, BufInv, DestType, HandleType, BufType,
          Snapshot, PartInv, PublishedInv, StreamedInv, Complete, ChunksOf
  <2>15. StreamedInv'
    <3>1. ~armed
      BY <1>1 DEF StreamedInv
    <3> QED
      BY <1>4, <3>1 DEF StreamedInv
  <2>16. PartInv'
    BY <1>1, <1>2, <1>3, <1>4 DEF PartInv, StreamedInv, DirectInv, DestType,
          HandleType
  <2>17. CkptInv'
    BY <1>1, <1>2, <1>3, <1>4 DEF CkptInv, SourceInv, BufInv, StreamedInv,
          JournalType, Ckpts, SourceType, Versions, DestType, ChunksOf
  <2>18. HintIsBacked'
    BY <1>1, <1>2, <1>3, <1>4 DEF HintIsBacked, StreamedInv, DirectInv, PartInv,
          JournalType, Ckpts, DestType, CkptInv, Begins
  <2>19. NoFalseSame'
    BY <1>1, <1>2, <1>3, <1>4 DEF NoFalseSame, DirectInv, PublishedInv, PartInv,
          BufInv, Same, Snapshot, Complete, ChunksOf, DestType, Versions, Now,
          Poison, Foreign
  <2> QED
    BY <2>10, <2>11, <2>12, <2>13, <2>14, <2>15, <2>16, <2>17, <2>18, <2>19
<1>5. CASE /\ outcome' = "failed"
           /\ pc' = "extras"
           /\ CloseHandles
           /\ part' = (IF persistent THEN part ELSE p)
           /\ UNCHANGED <<mode, src, store, final, ckpt, run, journal>>
  <2>10. SourceType'
    BY <1>1, <1>2, <1>3, <1>5 DEF SourceType, SourceInv, PlanType, Versions,
          CloseHandles
  <2>11. HandleType'
    BY <1>1, <1>2, <1>3, <1>5 DEF HandleType, DestType, JournalType, Ckpts,
          CloseHandles
  <2>12. BufType'
    BY <1>1, <1>2, <1>3, <1>5 DEF BufType, JournalType, Ckpts, CloseHandles
  <2>13. ControlType'
    BY <1>1, <1>2, <1>3, <1>5 DEF ControlType, Pcs, Outcomes, CloseHandles
  <2>14. DestType'
    BY <1>1, <1>2, <1>3, <1>5 DEF DestType, HandleType, CloseHandles
  <2>15. JournalType' /\ PlanType' /\ GhostType'
    BY <1>1, <1>2, <1>3, <1>5 DEF JournalType, Ckpts, HandleType, BufType, PlanType,
          CloseHandles, SourceType, Versions, Snaps, GhostType
  <2>16. SourceInv' /\ BufInv'
    BY <1>1, <1>2, <1>3, <1>5 DEF SourceInv, SourceType, PlanType, Versions,
          CloseHandles, BufInv, BufType, ChunksOf, Complete
  <2>17. DirectInv' /\ PublishedInv'
    BY <1>1, <1>2, <1>3, <1>5 DEF DirectInv, BufInv, DestType, HandleType, BufType,
          Snapshot, PartInv, CloseHandles, PublishedInv, StreamedInv, Complete,
          ChunksOf
  <2>18. StreamedInv'
    BY <1>1, <1>2, <1>3, <1>5 DEF StreamedInv, DestType, HandleType, PartInv,
          Snapshot, CloseHandles
  <2>19. PartInv'
    BY <1>1, <1>2, <1>3, <1>5 DEF PartInv, StreamedInv, DirectInv, DestType,
          HandleType, CloseHandles
  <2>20. CkptInv'
    BY <1>1, <1>2, <1>3, <1>5 DEF CkptInv, SourceInv, BufInv, StreamedInv,
          JournalType, Ckpts, SourceType, Versions, DestType, ChunksOf, CloseHandles
  <2>21. HintIsBacked'
    BY <1>1, <1>2, <1>3, <1>5 DEF HintIsBacked, StreamedInv, DirectInv, PartInv,
          JournalType, Ckpts, DestType, CkptInv, Begins, CloseHandles
  <2>22. NoFalseSame'
    BY <1>1, <1>2, <1>3, <1>5 DEF NoFalseSame, DirectInv, PublishedInv, PartInv,
          BufInv, Same, Snapshot, Complete, ChunksOf, DestType, Versions, Now,
          Poison, Foreign, CloseHandles
  <2> QED
    BY <2>10, <2>11, <2>12, <2>13, <2>14, <2>15, <2>16, <2>17, <2>18, <2>19, <2>20,
          <2>21, <2>22 DEF IInv, TypeOK
<1> QED
  BY <1>4, <1>5 DEF Rename, p

\* SetBasic keeps IInv.
LEMMA SetBasicStep == ASSUME IInv, SetBasic PROVE IInv'
<1> USE ConstantAssumption
<1>1. "failed" \in Outcomes
  BY DEF Outcomes
<1>2. GhostType'
  BY FaultType DEF SetBasic, GhostType
<1>3. pc # "idle"
  BY DEF SetBasic
<1>4. CASE Abandon("failed")
  BY <1>1, <1>2, <1>3, <1>4, AbandonStep
<1>5. CASE ~Abandon("failed")
  <2>1. /\ store \in [Ids -> Objects] /\ h \in Ids /\ h = final /\ store[h] \in Objects
        /\ snap \in Stamps /\ snap \in Versions
    BY DEF DestType, DirectInv, SourceInv, SetBasic, Stamps
  <2> DEFINE o == [store[h] EXCEPT !.mtime = snap]
  <2>2. o \in Objects /\ o.data = store[h].data /\ o.own = store[h].own /\ o.mtime = snap
    BY <2>1, Stamped
  <2>3. store' = [store EXCEPT ![h] = o]
    BY <1>5 DEF SetBasic
  <2> HIDE DEF o
  <2>4. /\ store' \in [Ids -> Objects] /\ store'[h] = o
        /\ \A j \in Ids : j # h => store'[j] = store[j]
    BY <2>1, <2>2, <2>3, Update
  <2>5. /\ pc = "setbasic" /\ pc' = "flush"
        /\ UNCHANGED <<source, final, part, ckpt, run, journal, handle, buf, outcome, ghost>>
    BY <1>5 DEF SetBasic
  <2>10. SourceType' /\ HandleType' /\ BufType' /\ ControlType'
    BY <2>1, <2>2, <2>4, <2>5 DEF SourceType, SourceInv, PlanType, Pcs, Versions,
          HandleType, DestType, JournalType, Ckpts, BufType, ControlType, Outcomes
  <2>11. DestType'
    BY <2>1, <2>2, <2>4, <2>5 DEF DestType, HandleType
  <2>12. JournalType' /\ PlanType' /\ GhostType'
    BY <2>1, <2>2, <2>4, <2>5 DEF JournalType, Ckpts, HandleType, BufType, PlanType,
          SourceType, Versions, Snaps, GhostType
  <2>13. SourceInv' /\ BufInv'
    BY <2>1, <2>2, <2>4, <2>5 DEF SourceInv, SourceType, PlanType, Versions, BufInv,
          BufType, ChunksOf, Complete
  <2>14. DirectInv' /\ PublishedInv'
    BY <2>1, <2>2, <2>4, <2>5 DEF DirectInv, BufInv, DestType, HandleType, BufType,
          Snapshot, PartInv, PublishedInv, StreamedInv, Complete, ChunksOf
  <2>15. StreamedInv'
    BY <2>1, <2>2, <2>4, <2>5 DEF StreamedInv, DestType, HandleType, PartInv,
          Snapshot
  <2>16. PartInv'
    BY <2>1, <2>2, <2>4, <2>5 DEF PartInv, StreamedInv, DirectInv, DestType,
          HandleType
  <2>17. CkptInv'
    BY <2>1, <2>2, <2>4, <2>5 DEF CkptInv, SourceInv, BufInv, StreamedInv,
          JournalType, Ckpts, SourceType, Versions, DestType, ChunksOf
  <2>18. HintIsBacked'
    BY <2>1, <2>2, <2>4, <2>5 DEF HintIsBacked, StreamedInv, DirectInv, PartInv,
          JournalType, Ckpts, DestType, CkptInv, Begins
  <2>19. NoFalseSame'
    BY <2>1, <2>2, <2>4, <2>5 DEF NoFalseSame, DirectInv, PublishedInv, PartInv,
          BufInv, Same, Snapshot, Complete, ChunksOf, DestType, Versions, Now,
          Poison, Foreign
  <2> QED
    BY <2>10, <2>11, <2>12, <2>13, <2>14, <2>15, <2>16, <2>17, <2>18, <2>19
<1> QED
  BY <1>4, <1>5

\* RetirePart keeps IInv.
LEMMA RetirePartStep == ASSUME IInv, RetirePart PROVE IInv'
<1> USE ConstantAssumption
<1>1. SourceType' /\ DestType' /\ HandleType' /\ BufType'
  BY DEF RetirePart, Fault, NoCkpt, SourceType, SourceInv, PlanType, Versions,
        DestType, HandleType, JournalType, Ckpts, BufType
<1>2. PlanType'
  BY DEF RetirePart, Fault, NoCkpt, PlanType, SourceType, Versions, Snaps
<1>3. JournalType'
  BY EmptyTypes DEF RetirePart, JournalType
<1>4. ControlType'
  BY DEF RetirePart, Fault, NoCkpt, ControlType, Pcs, Outcomes
<1>5. GhostType'
  BY DEF RetirePart, Fault, NoCkpt, GhostType
<1>6. SourceInv' /\ BufInv'
  BY DEF RetirePart, Fault, NoCkpt, SourceInv, SourceType, PlanType, Versions,
        BufInv, BufType, ChunksOf, Complete
<1>7. DirectInv' /\ StreamedInv' /\ PublishedInv'
  BY DEF RetirePart, Fault, NoCkpt, DirectInv, BufInv, DestType, HandleType,
        BufType, Snapshot, PartInv, StreamedInv, PublishedInv, Complete, ChunksOf
<1>8. CkptInv'
  BY DEF RetirePart, Fault, NoCkpt, CkptInv, SourceInv, BufInv, StreamedInv,
        JournalType, Ckpts, SourceType, Versions, DestType, ChunksOf
<1>9. PartInv'
  BY DEF RetirePart, Fault, NoCkpt, PartInv, StreamedInv, DirectInv, DestType,
        HandleType
<1>10. HintIsBacked'
  BY DEF RetirePart, Fault, NoCkpt, HintIsBacked, StreamedInv, DirectInv, PartInv,
        JournalType, Ckpts, DestType, CkptInv, Begins
<1>11. NoFalseSame'
  BY DEF RetirePart, Fault, NoCkpt, NoFalseSame, DirectInv, PublishedInv, PartInv,
        BufInv, Same, Snapshot, Complete, ChunksOf, DestType, Versions, Now, Poison,
        Foreign
<1> QED
  BY <1>1, <1>2, <1>3, <1>4, <1>5, <1>6, <1>7, <1>8, <1>9, <1>10, <1>11

\* FlushOrSkip keeps IInv.
LEMMA FlushOrSkipStep == ASSUME IInv, FlushOrSkip PROVE IInv'
<1> USE ConstantAssumption
<1>1. /\ store \in [Ids -> Objects] /\ h \in Ids /\ h = final /\ store[h] \in Objects
      /\ snap \in Stamps /\ snap \in Versions
  BY DEF DestType, DirectInv, SourceInv, FlushOrSkip, Stamps
<1> DEFINE o == IF mode.flush THEN [store[h] EXCEPT !.flushed = TRUE] ELSE store[h]
<1>2. /\ o \in Objects /\ o.data = store[h].data /\ o.own = store[h].own
      /\ o.mtime = store[h].mtime /\ (mode.flush => o.flushed)
  BY <1>1 DEF Objects
<1>3. store' = [store EXCEPT ![h] = o]
  BY <1>1 DEF FlushOrSkip
<1> HIDE DEF o
<1>4. /\ store' \in [Ids -> Objects] /\ store'[h] = o
      /\ \A j \in Ids : j # h => store'[j] = store[j]
  BY <1>1, <1>2, <1>3, Update
<1>5. /\ pc = "flush" /\ pc' = "close"
      /\ UNCHANGED <<source, final, part, ckpt, run, journal, handle, buf, outcome, ghost>>
  BY DEF FlushOrSkip
<1>20. SourceType' /\ HandleType' /\ BufType' /\ ControlType'
  BY <1>1, <1>2, <1>4, <1>5 DEF SourceType, SourceInv, PlanType, Pcs, Versions,
        HandleType, DestType, JournalType, Ckpts, BufType, ControlType, Outcomes
<1>21. DestType'
  BY <1>1, <1>2, <1>4, <1>5 DEF DestType, HandleType
<1>22. JournalType' /\ PlanType' /\ GhostType'
  BY <1>1, <1>2, <1>4, <1>5 DEF JournalType, Ckpts, HandleType, BufType, PlanType,
        SourceType, Versions, Snaps, GhostType
<1>23. SourceInv' /\ BufInv'
  BY <1>1, <1>2, <1>4, <1>5 DEF SourceInv, SourceType, PlanType, Versions, BufInv,
        BufType, ChunksOf, Complete
<1>24. DirectInv'
  BY <1>1, <1>2, <1>4, <1>5 DEF DirectInv, BufInv, DestType, HandleType, BufType,
        Snapshot, PartInv
<1>25. PublishedInv'
  BY <1>1, <1>2, <1>4, <1>5 DEF PublishedInv, DirectInv, BufInv, StreamedInv,
        DestType, HandleType, PartInv, Complete, ChunksOf
<1>26. StreamedInv'
  BY <1>1, <1>2, <1>4, <1>5 DEF StreamedInv, DestType, HandleType, PartInv, Snapshot
<1>27. PartInv'
  BY <1>1, <1>2, <1>4, <1>5 DEF PartInv, StreamedInv, DirectInv, DestType,
        HandleType
<1>28. CkptInv'
  BY <1>1, <1>2, <1>4, <1>5 DEF CkptInv, SourceInv, BufInv, StreamedInv,
        JournalType, Ckpts, SourceType, Versions, DestType, ChunksOf
<1>29. HintIsBacked'
  BY <1>1, <1>2, <1>4, <1>5 DEF HintIsBacked, StreamedInv, DirectInv, PartInv,
        JournalType, Ckpts, DestType, CkptInv, Begins
<1>30. NoFalseSame'
  BY <1>1, <1>2, <1>4, <1>5 DEF NoFalseSame, DirectInv, PublishedInv, PartInv,
        BufInv, Same, Snapshot, Complete, ChunksOf, DestType, Versions, Now, Poison,
        Foreign
<1> QED
  BY <1>20, <1>21, <1>22, <1>23, <1>24, <1>25, <1>26, <1>27, <1>28, <1>29, <1>30

\* FlushFailed keeps IInv.
LEMMA FlushFailedStep == ASSUME IInv, FlushFailed PROVE IInv'
<1> USE ConstantAssumption
<1>1. /\ store \in [Ids -> Objects] /\ h \in Ids /\ h = final /\ store[h] \in Objects
      /\ snap \in Stamps /\ snap \in Versions
  BY DEF DestType, DirectInv, SourceInv, FlushFailed, Stamps
<1>2. PICK m \in {Poison} \cup (IF PoisonFails THEN {snap} ELSE {}) :
        store' = [store EXCEPT ![h].mtime = m]
  BY DEF FlushFailed
<1>3. m = Poison \/ m = snap
  BY <1>2
<1> DEFINE o == [store[h] EXCEPT !.mtime = m]
<1>4. /\ o \in Objects /\ o.data = store[h].data /\ o.own = store[h].own
      /\ o.mtime = m
  BY <1>1, <1>3, Stamped DEF Stamps
<1>5. store' = [store EXCEPT ![h] = o]
  BY <1>2
<1> HIDE DEF o
<1>6. /\ store' \in [Ids -> Objects] /\ store'[h] = o
      /\ \A j \in Ids : j # h => store'[j] = store[j]
  BY <1>1, <1>4, <1>5, Update
<1>7. /\ pc = "flush" /\ pc' = "extras" /\ outcome' = "failed"
      /\ CloseHandles
      /\ UNCHANGED <<mode, src, final, part, ckpt, run, journal>>
  BY DEF FlushFailed
<1>8. GhostType'
  BY FaultType DEF FlushFailed
<1>20. SourceType'
  BY <1>1, <1>3, <1>4, <1>6, <1>7, <1>8 DEF SourceType, SourceInv, PlanType,
        Versions, CloseHandles
<1>21. HandleType'
  BY <1>1, <1>3, <1>4, <1>6, <1>7, <1>8 DEF HandleType, DestType, JournalType,
        Ckpts, CloseHandles
<1>22. BufType'
  BY <1>1, <1>3, <1>4, <1>6, <1>7, <1>8 DEF BufType, JournalType, Ckpts,
        CloseHandles
<1>23. ControlType'
  BY <1>1, <1>3, <1>4, <1>6, <1>7, <1>8 DEF ControlType, Pcs, Outcomes, CloseHandles
<1>24. DestType'
  BY <1>1, <1>3, <1>4, <1>6, <1>7, <1>8 DEF DestType, HandleType, CloseHandles
<1>25. JournalType' /\ PlanType' /\ GhostType'
  BY <1>1, <1>3, <1>4, <1>6, <1>7, <1>8 DEF JournalType, Ckpts, HandleType, BufType,
        PlanType, CloseHandles, SourceType, Versions, Snaps, GhostType
<1>26. SourceInv' /\ BufInv'
  BY <1>1, <1>3, <1>4, <1>6, <1>7, <1>8 DEF SourceInv, SourceType, PlanType,
        Versions, CloseHandles, BufInv, BufType, ChunksOf, Complete
<1>27. DirectInv' /\ PublishedInv'
  BY <1>1, <1>3, <1>4, <1>6, <1>7, <1>8 DEF DirectInv, BufInv, DestType, HandleType,
        BufType, Snapshot, PartInv, CloseHandles, PublishedInv, StreamedInv,
        Complete, ChunksOf
<1>28. StreamedInv'
  BY <1>1, <1>3, <1>4, <1>6, <1>7, <1>8 DEF StreamedInv, DestType, HandleType,
        PartInv, Snapshot, CloseHandles
<1>29. PartInv'
  BY <1>1, <1>3, <1>4, <1>6, <1>7, <1>8 DEF PartInv, StreamedInv, DirectInv,
        DestType, HandleType, CloseHandles
<1>30. CkptInv'
  BY <1>1, <1>3, <1>4, <1>6, <1>7, <1>8 DEF CkptInv, SourceInv, BufInv, StreamedInv,
        JournalType, Ckpts, SourceType, Versions, DestType, ChunksOf, CloseHandles
<1>31. HintIsBacked'
  BY <1>1, <1>3, <1>4, <1>6, <1>7, <1>8 DEF HintIsBacked, StreamedInv, DirectInv,
        PartInv, JournalType, Ckpts, DestType, CkptInv, Begins, CloseHandles
<1>32. NoFalseSame'
  <2>1. Complete(store[h].data, snap)
    BY <1>7 DEF PublishedInv
  <2>2. \A v \in Versions : m = v => v = snap
    BY <1>3 DEF Poison, Versions
  <2>3. final' = h /\ store'[h].data = store[h].data /\ store'[h].mtime = m
    BY <1>1, <1>4, <1>6, <1>7
  <2> QED
    BY <2>1, <2>2, <2>3 DEF NoFalseSame, Same, Snapshot, NoSnap, Complete
<1> QED
  BY <1>20, <1>21, <1>22, <1>23, <1>24, <1>25, <1>26, <1>27, <1>28, <1>29, <1>30,
        <1>31, <1>32 DEF IInv, TypeOK

\* Close keeps IInv.
LEMMA CloseStep == ASSUME IInv, Close PROVE IInv'
<1> USE ConstantAssumption
<1>1. SourceType'
  BY DEF Close, CloseHandles, SourceType, SourceInv, PlanType, Versions
<1>2. DestType'
  BY DEF Close, CloseHandles, DestType, HandleType
<1>3. HandleType'
  BY DEF Close, CloseHandles, HandleType, DestType, JournalType, Ckpts
<1>4. BufType'
  <2>1. buf' = buf \/ buf' = << >>
    BY DEF Close, CloseHandles
  <2>2. << >> \in Seq(Chunks) /\ buf \in Seq(Chunks)
    BY DEF BufType
  <2> QED
    BY <2>1, <2>2 DEF BufType
<1>5. JournalType' /\ PlanType'
  BY DEF Close, CloseHandles, JournalType, Ckpts, HandleType, BufType, PlanType,
        SourceType, Versions, Snaps
<1>6. ControlType'
  BY DEF Close, CloseHandles, ControlType, Pcs, Outcomes
<1>7. GhostType'
  BY DEF Close, CloseHandles, GhostType
<1>8. SourceInv' /\ BufInv'
  BY DEF Close, CloseHandles, SourceInv, SourceType, PlanType, Versions, BufInv,
        BufType, ChunksOf, Complete
<1>9. DirectInv' /\ StreamedInv' /\ PublishedInv'
  BY DEF Close, CloseHandles, DirectInv, BufInv, DestType, HandleType, BufType,
        Snapshot, PartInv, StreamedInv, PublishedInv, Complete, ChunksOf
<1>10. CkptInv'
  BY DEF Close, CloseHandles, CkptInv, SourceInv, BufInv, StreamedInv, JournalType,
        Ckpts, SourceType, Versions, DestType, ChunksOf
<1>11. PartInv' /\ HintIsBacked' /\ NoFalseSame'
  BY DestKept DEF Close
<1> QED
  BY <1>1, <1>2, <1>3, <1>4, <1>5, <1>6, <1>7, <1>8, <1>9, <1>10, <1>11

\* Reclaim keeps IInv.
LEMMA ReclaimStep == ASSUME IInv, Reclaim PROVE IInv'
<1> USE ConstantAssumption
<1>1. SourceType' /\ DestType' /\ HandleType' /\ BufType'
  BY DEF Reclaim, Unlinked, Fault, NoCkpt, SourceType, SourceInv, PlanType,
        Versions, DestType, HandleType, JournalType, Ckpts, BufType
<1>2. PlanType'
  BY DEF Reclaim, Unlinked, Fault, NoCkpt, PlanType, SourceType, Versions, Snaps
<1>3. JournalType'
  BY EmptyTypes DEF Reclaim, JournalType
<1>4. ControlType'
  BY DEF Reclaim, Unlinked, Fault, NoCkpt, ControlType, Pcs, Outcomes
<1>5. GhostType'
  BY DEF Reclaim, Unlinked, Fault, NoCkpt, GhostType
<1>6. SourceInv' /\ BufInv'
  BY DEF Reclaim, Unlinked, Fault, NoCkpt, SourceInv, SourceType, PlanType,
        Versions, BufInv, BufType, ChunksOf, Complete
<1>7. DirectInv' /\ StreamedInv' /\ PublishedInv'
  BY DEF Reclaim, Unlinked, Fault, NoCkpt, DirectInv, BufInv, DestType, HandleType,
        BufType, Snapshot, PartInv, StreamedInv, PublishedInv, Complete, ChunksOf
<1>8. CkptInv'
  BY DEF Reclaim, Unlinked, Fault, NoCkpt, CkptInv, SourceInv, BufInv, StreamedInv,
        JournalType, Ckpts, SourceType, Versions, DestType, ChunksOf
<1>9. PartInv'
  BY DEF Reclaim, Unlinked, Fault, NoCkpt, PartInv, StreamedInv, DirectInv,
        DestType, HandleType
<1>10. HintIsBacked'
  BY DEF Reclaim, Unlinked, Fault, NoCkpt, HintIsBacked, StreamedInv, DirectInv,
        PartInv, JournalType, Ckpts, DestType, CkptInv, Begins
<1>11. NoFalseSame'
  BY DEF Reclaim, Unlinked, Fault, NoCkpt, NoFalseSame, DirectInv, PublishedInv,
        PartInv, BufInv, Same, Snapshot, Complete, ChunksOf, DestType, Versions,
        Now, Poison, Foreign
<1> QED
  BY <1>1, <1>2, <1>3, <1>4, <1>5, <1>6, <1>7, <1>8, <1>9, <1>10, <1>11

\* EndRun keeps IInv.
LEMMA EndRunStep == ASSUME IInv, EndRun PROVE IInv'
<1> USE ConstantAssumption
<1>1. SourceType' /\ DestType' /\ HandleType' /\ BufType'
  BY DEF EndRun, DropPlan, NoSnap, SourceType, SourceInv, PlanType, Versions,
        DestType, HandleType, JournalType, Ckpts, BufType
<1>2. JournalType'
  BY DEF EndRun, DropPlan, NoSnap, JournalType, Ckpts, HandleType, BufType, PlanType
<1>3. PlanType'
  BY EmptyTypes DEF EndRun, DropPlan, PlanType
<1>4. ControlType'
  BY DEF EndRun, DropPlan, NoSnap, ControlType, Pcs, Outcomes
<1>5. GhostType'
  BY DEF EndRun, DropPlan, NoSnap, GhostType
<1>6. SourceInv' /\ BufInv'
  BY DEF EndRun, DropPlan, NoSnap, SourceInv, SourceType, PlanType, Versions,
        BufInv, BufType, ChunksOf, Complete
<1>7. DirectInv' /\ StreamedInv' /\ PublishedInv'
  BY DEF EndRun, DropPlan, NoSnap, DirectInv, BufInv, DestType, HandleType, BufType,
        Snapshot, PartInv, StreamedInv, PublishedInv, Complete, ChunksOf
<1>8. CkptInv'
  BY DEF EndRun, DropPlan, NoSnap, CkptInv, SourceInv, BufInv, StreamedInv,
        JournalType, Ckpts, SourceType, Versions, DestType, ChunksOf
<1>9. PartInv' /\ HintIsBacked' /\ NoFalseSame'
  BY DestKept DEF EndRun
<1> QED
  BY <1>1, <1>2, <1>3, <1>4, <1>5, <1>6, <1>7, <1>8, <1>9

\* SourceRewritten keeps IInv.
LEMMA SourceRewrittenStep == ASSUME IInv, SourceRewritten PROVE IInv'
<1> USE ConstantAssumption
<1>1. SourceType' /\ DestType' /\ HandleType' /\ BufType'
  BY DEF SourceRewritten, Env, SourceType, SourceInv, PlanType, Versions, DestType,
        HandleType, JournalType, Ckpts, BufType
<1>2. JournalType' /\ PlanType'
  BY DEF SourceRewritten, Env, JournalType, Ckpts, HandleType, BufType, PlanType,
        SourceType, Versions, Snaps
<1>3. ControlType'
  BY DEF SourceRewritten, Env, ControlType, Pcs, Outcomes
<1>4. GhostType'
  BY DEF SourceRewritten, Env, GhostType
<1>5. SourceInv' /\ BufInv'
  BY DEF SourceRewritten, Env, SourceInv, SourceType, PlanType, Versions, BufInv,
        BufType, ChunksOf, Complete
<1>6. DirectInv' /\ StreamedInv' /\ PublishedInv'
  BY DEF SourceRewritten, Env, DirectInv, BufInv, DestType, HandleType, BufType,
        Snapshot, PartInv, StreamedInv, PublishedInv, Complete, ChunksOf
<1>7. CkptInv'
  BY DEF SourceRewritten, CkptInv, SourceType, Versions, JournalType, Ckpts
<1>8. PartInv' /\ HintIsBacked' /\ NoFalseSame'
  BY DestKept DEF SourceRewritten
<1> QED
  BY <1>1, <1>2, <1>3, <1>4, <1>5, <1>6, <1>7, <1>8

\* SourceReplaced keeps IInv.
LEMMA SourceReplacedStep == ASSUME IInv, SourceReplaced PROVE IInv'
<1> USE ConstantAssumption
<1>1. SourceType' /\ DestType' /\ HandleType' /\ BufType'
  BY DEF SourceReplaced, Env, SourceType, SourceInv, PlanType, Versions, DestType,
        HandleType, JournalType, Ckpts, BufType
<1>2. JournalType' /\ PlanType'
  BY DEF SourceReplaced, Env, JournalType, Ckpts, HandleType, BufType, PlanType,
        SourceType, Versions, Snaps
<1>3. ControlType'
  BY DEF SourceReplaced, Env, ControlType, Pcs, Outcomes
<1>4. GhostType'
  BY DEF SourceReplaced, Env, GhostType
<1>5. SourceInv' /\ BufInv'
  BY DEF SourceReplaced, Env, SourceInv, SourceType, PlanType, Versions, BufInv,
        BufType, ChunksOf, Complete
<1>6. DirectInv' /\ StreamedInv' /\ PublishedInv'
  BY DEF SourceReplaced, Env, DirectInv, BufInv, DestType, HandleType, BufType,
        Snapshot, PartInv, StreamedInv, PublishedInv, Complete, ChunksOf
<1>7. CkptInv'
  BY DEF SourceReplaced, CkptInv, SourceType, Versions, JournalType, Ckpts
<1>8. PartInv' /\ HintIsBacked' /\ NoFalseSame'
  BY DestKept DEF SourceReplaced
<1> QED
  BY <1>1, <1>2, <1>3, <1>4, <1>5, <1>6, <1>7, <1>8

\* ForeignFinal keeps IInv.
LEMMA ForeignFinalStep == ASSUME IInv, ForeignFinal PROVE IInv'
<1> USE ConstantAssumption
<1>1. store \in [Ids -> Objects] /\ final \in SomeId
  BY DEF DestType
<1>2. /\ AlienObject \in Objects /\ AlienObject.mtime = Foreign /\ AlienObject.touched
      /\ Foreign \notin Versions
  BY NewTypes DEF AlienObject, Foreign, Versions
<1>3. /\ h # final \/ h = NoObj
      /\ raced' = (raced \/ Unchecked)
      /\ UNCHANGED <<source, part, ckpt, pc, run, journal, handle, buf, outcome>>
  BY DEF ForeignFinal
<1>4. GhostType'
  BY EnvType DEF ForeignFinal, GhostType, Unchecked
<1>5. CASE HasFreshId /\ final' = FreshId /\ store' = [store EXCEPT ![FreshId] = AlienObject]
  <2>1. FreshId \in Ids /\ Fresh(FreshId)
    BY <1>5, FreshChosen
  <2>2. /\ store' \in [Ids -> Objects] /\ store'[FreshId] = AlienObject /\ final' = FreshId
        /\ \A j \in Ids : j # FreshId => store'[j] = store[j]
    BY <1>1, <1>2, <1>5, <2>1, Update
  <2>10. SourceType' /\ HandleType' /\ BufType' /\ ControlType'
    BY <1>1, <1>2, <1>3, <1>4, <2>1, <2>2 DEF SourceType, SourceInv, PlanType, Pcs,
          Versions, Unchecked, Fresh, HandleType, DestType, JournalType, Ckpts,
          BufType, ControlType, Outcomes
  <2>11. DestType'
    BY <1>1, <1>2, <1>3, <1>4, <2>1, <2>2 DEF DestType, HandleType, Unchecked, Fresh
  <2>12. JournalType' /\ PlanType' /\ GhostType'
    BY <1>1, <1>2, <1>3, <1>4, <2>1, <2>2 DEF JournalType, Ckpts, HandleType,
          BufType, PlanType, Unchecked, Fresh, SourceType, Versions, Snaps,
          GhostType
  <2>13. SourceInv' /\ BufInv'
    BY <1>1, <1>2, <1>3, <1>4, <2>1, <2>2 DEF SourceInv, SourceType, PlanType,
          Versions, Unchecked, Fresh, BufInv, BufType, ChunksOf, Complete
  <2>14. DirectInv' /\ PublishedInv'
    BY <1>1, <1>2, <1>3, <1>4, <2>1, <2>2 DEF DirectInv, BufInv, DestType,
          HandleType, BufType, Snapshot, PartInv, Unchecked, Fresh, PublishedInv,
          StreamedInv, Complete, ChunksOf
  <2>15. StreamedInv'
    BY <1>1, <1>2, <1>3, <1>4, <2>1, <2>2 DEF StreamedInv, DestType, HandleType,
          PartInv, Snapshot, Unchecked, Fresh
  <2>16. PartInv'
    BY <1>1, <1>2, <1>3, <1>4, <2>1, <2>2 DEF PartInv, StreamedInv, DirectInv,
          DestType, HandleType, Unchecked, Fresh
  <2>17. CkptInv'
    BY <1>1, <1>2, <1>3, <1>4, <2>1, <2>2 DEF CkptInv, SourceInv, BufInv,
          StreamedInv, JournalType, Ckpts, SourceType, Versions, DestType, ChunksOf,
          Unchecked, Fresh
  <2>18. HintIsBacked'
    BY <1>1, <1>2, <1>3, <1>4, <2>1, <2>2 DEF HintIsBacked, StreamedInv, DirectInv,
          PartInv, JournalType, Ckpts, DestType, CkptInv, Begins, Unchecked, Fresh
  <2>19. NoFalseSame'
    BY <1>2, <2>2 DEF NoFalseSame
  <2> QED
    BY <2>10, <2>11, <2>12, <2>13, <2>14, <2>15, <2>16, <2>17, <2>18, <2>19
<1>6. CASE final # NoObj /\ final' = NoObj /\ UNCHANGED store
  <2>10. SourceType' /\ HandleType' /\ BufType' /\ ControlType'
    BY <1>1, <1>3, <1>4, <1>6 DEF SourceType, SourceInv, PlanType, Pcs, Versions,
          Unchecked, HandleType, DestType, JournalType, Ckpts, BufType, ControlType,
          Outcomes
  <2>11. DestType'
    BY <1>1, <1>3, <1>4, <1>6 DEF DestType, HandleType, Unchecked
  <2>12. JournalType' /\ PlanType' /\ GhostType'
    BY <1>1, <1>3, <1>4, <1>6 DEF JournalType, Ckpts, HandleType, BufType, PlanType,
          Unchecked, SourceType, Versions, Snaps, GhostType
  <2>13. SourceInv' /\ BufInv'
    BY <1>1, <1>3, <1>4, <1>6 DEF SourceInv, SourceType, PlanType, Versions,
          Unchecked, BufInv, BufType, ChunksOf, Complete
  <2>14. DirectInv' /\ PublishedInv'
    BY <1>1, <1>3, <1>4, <1>6 DEF DirectInv, BufInv, DestType, HandleType, BufType,
          Snapshot, PartInv, Unchecked, PublishedInv, StreamedInv, Complete,
          ChunksOf
  <2>15. StreamedInv'
    BY <1>1, <1>3, <1>4, <1>6 DEF StreamedInv, DestType, HandleType, PartInv,
          Snapshot, Unchecked
  <2>16. PartInv'
    BY <1>1, <1>3, <1>4, <1>6 DEF PartInv, StreamedInv, DirectInv, DestType,
          HandleType, Unchecked
  <2>17. CkptInv'
    BY <1>1, <1>3, <1>4, <1>6 DEF CkptInv, SourceInv, BufInv, StreamedInv,
          JournalType, Ckpts, SourceType, Versions, DestType, ChunksOf, Unchecked
  <2>18. HintIsBacked'
    BY <1>1, <1>3, <1>4, <1>6 DEF HintIsBacked, StreamedInv, DirectInv, PartInv,
          JournalType, Ckpts, DestType, CkptInv, Begins, Unchecked
  <2>19. NoFalseSame'
    BY <1>6 DEF NoFalseSame, Same, Snapshot, NoSnap
  <2> QED
    BY <2>10, <2>11, <2>12, <2>13, <2>14, <2>15, <2>16, <2>17, <2>18, <2>19
<1>7. CASE /\ final # NoObj
           /\ store' = [store EXCEPT ![final] = [AlienObject EXCEPT !.own = store[final].own]]
           /\ UNCHANGED final
  <2> DEFINE o == [AlienObject EXCEPT !.own = store[final].own]
  <2>1. final \in Ids /\ store[final] \in Objects
    BY <1>1, <1>7
  <2>2. o \in Objects /\ o.mtime = Foreign /\ o.touched /\ o.own = store[final].own
    BY <1>2, <2>1 DEF Objects
  <2>3. store' = [store EXCEPT ![final] = o]
    BY <1>7
  <2> HIDE DEF o
  <2>4. /\ store' \in [Ids -> Objects] /\ store'[final] = o
        /\ \A j \in Ids : j # final => store'[j] = store[j]
    BY <1>1, <2>1, <2>2, <2>3, Update
  <2>10. SourceType' /\ HandleType' /\ BufType' /\ ControlType'
    BY <1>1, <1>2, <1>3, <1>4, <1>7, <2>1, <2>2, <2>4 DEF SourceType, SourceInv,
          PlanType, Pcs, Versions, Unchecked, HandleType, DestType, JournalType,
          Ckpts, BufType, ControlType, Outcomes
  <2>11. DestType'
    BY <1>1, <1>2, <1>3, <1>4, <1>7, <2>1, <2>2, <2>4 DEF DestType, HandleType,
          Unchecked
  <2>12. JournalType' /\ PlanType' /\ GhostType'
    BY <1>1, <1>2, <1>3, <1>4, <1>7, <2>1, <2>2, <2>4 DEF JournalType, Ckpts,
          HandleType, BufType, PlanType, Unchecked, SourceType, Versions, Snaps,
          GhostType
  <2>13. SourceInv' /\ BufInv'
    BY <1>1, <1>2, <1>3, <1>4, <1>7, <2>1, <2>2, <2>4 DEF SourceInv, SourceType,
          PlanType, Versions, Unchecked, BufInv, BufType, ChunksOf, Complete
  <2>14. DirectInv' /\ PublishedInv'
    BY <1>1, <1>2, <1>3, <1>4, <1>7, <2>1, <2>2, <2>4 DEF DirectInv, BufInv,
          DestType, HandleType, BufType, Snapshot, PartInv, Unchecked, PublishedInv,
          StreamedInv, Complete, ChunksOf
  <2>15. StreamedInv'
    BY <1>1, <1>2, <1>3, <1>4, <1>7, <2>1, <2>2, <2>4 DEF StreamedInv, DestType,
          HandleType, PartInv, Snapshot, Unchecked
  <2>16. PartInv'
    BY <1>1, <1>2, <1>3, <1>4, <1>7, <2>1, <2>2, <2>4 DEF PartInv, StreamedInv,
          DirectInv, DestType, HandleType, Unchecked
  <2>17. CkptInv'
    BY <1>1, <1>2, <1>3, <1>4, <1>7, <2>1, <2>2, <2>4 DEF CkptInv, SourceInv,
          BufInv, StreamedInv, JournalType, Ckpts, SourceType, Versions, DestType,
          ChunksOf, Unchecked
  <2>18. HintIsBacked'
    BY <1>1, <1>2, <1>3, <1>4, <1>7, <2>1, <2>2, <2>4 DEF HintIsBacked, StreamedInv,
          DirectInv, PartInv, JournalType, Ckpts, DestType, CkptInv, Begins,
          Unchecked
  <2>19. NoFalseSame'
    BY <1>2, <1>7, <2>2, <2>4 DEF NoFalseSame
  <2> QED
    BY <2>10, <2>11, <2>12, <2>13, <2>14, <2>15, <2>16, <2>17, <2>18, <2>19
<1> QED
  BY <1>5, <1>6, <1>7 DEF ForeignFinal

\* ForeignPart keeps IInv.
LEMMA ForeignPartStep == ASSUME IInv, ForeignPart PROVE IInv'
<1> USE ConstantAssumption
<1>1. store \in [Ids -> Objects] /\ part \in [Parts -> SomeId]
  BY DEF DestType
<1>2. /\ AlienObject \in Objects /\ AlienObject.mtime = Foreign /\ AlienObject.touched
      /\ Foreign \notin Versions
  BY NewTypes DEF AlienObject, Foreign, Versions
<1>3. UNCHANGED <<source, final, ckpt, pc, run, journal, handle, buf, outcome, raced>>
  BY DEF ForeignPart
<1>4. GhostType'
  BY EnvType DEF ForeignPart, GhostType
<1>5. PICK n \in Parts :
        /\ part[n] # h \/ h = NoObj
        /\ \/ part[n] # NoObj /\ part' = Unlinked(n) /\ UNCHANGED store
           \/ /\ HasFreshId
              /\ part' = [part EXCEPT ![n] = FreshId]
              /\ store' = [store EXCEPT ![FreshId] = AlienObject]
           \/ /\ part[n] # NoObj
              /\ store' = [store EXCEPT ![part[n]] = [AlienObject EXCEPT !.own = store[part[n]].own]]
              /\ UNCHANGED part
  BY DEF ForeignPart
<1>6. CASE part[n] # NoObj /\ part' = Unlinked(n) /\ UNCHANGED store
  <2>1. part' \in [Parts -> SomeId] /\ part'[n] = NoObj /\ \A m \in Parts : m # n => part'[m] = part[m]
    BY <1>1, <1>6 DEF Unlinked
  <2>10. SourceType' /\ HandleType' /\ BufType' /\ ControlType'
    BY <1>1, <1>3, <1>4, <1>5, <1>6, <2>1 DEF SourceType, SourceInv, PlanType, Pcs,
          Versions, HandleType, DestType, JournalType, Ckpts, BufType, ControlType,
          Outcomes
  <2>11. DestType'
    BY <1>1, <1>3, <1>4, <1>5, <1>6, <2>1 DEF DestType, HandleType
  <2>12. JournalType' /\ PlanType' /\ GhostType'
    BY <1>1, <1>3, <1>4, <1>5, <1>6, <2>1 DEF JournalType, Ckpts, HandleType,
          BufType, PlanType, SourceType, Versions, Snaps, GhostType
  <2>13. SourceInv' /\ BufInv'
    BY <1>1, <1>3, <1>4, <1>5, <1>6, <2>1 DEF SourceInv, SourceType, PlanType,
          Versions, BufInv, BufType, ChunksOf, Complete
  <2>14. DirectInv' /\ PublishedInv'
    BY <1>1, <1>3, <1>4, <1>5, <1>6, <2>1 DEF DirectInv, BufInv, DestType,
          HandleType, BufType, Snapshot, PartInv, PublishedInv, StreamedInv,
          Complete, ChunksOf
  <2>15. StreamedInv'
    BY <1>1, <1>3, <1>4, <1>5, <1>6, <2>1 DEF StreamedInv, DestType, HandleType,
          PartInv, Snapshot
  <2>16. PartInv'
    BY <1>1, <1>3, <1>4, <1>5, <1>6, <2>1 DEF PartInv, StreamedInv, DirectInv,
          DestType, HandleType
  <2>17. CkptInv'
    BY <1>1, <1>3, <1>4, <1>5, <1>6, <2>1 DEF CkptInv, SourceInv, BufInv,
          StreamedInv, JournalType, Ckpts, SourceType, Versions, DestType, ChunksOf
  <2>18. HintIsBacked'
    BY <1>1, <1>3, <1>4, <1>5, <1>6, <2>1 DEF HintIsBacked, StreamedInv, DirectInv,
          PartInv, JournalType, Ckpts, DestType, CkptInv, Begins
  <2>19. NoFalseSame'
    BY <1>1, <1>3, <1>4, <1>5, <1>6, <2>1 DEF NoFalseSame, DirectInv, PublishedInv,
          PartInv, BufInv, Same, Snapshot, Complete, ChunksOf, DestType, Versions,
          Now, Poison, Foreign
  <2> QED
    BY <2>10, <2>11, <2>12, <2>13, <2>14, <2>15, <2>16, <2>17, <2>18, <2>19
<1>7. CASE /\ HasFreshId
           /\ part' = [part EXCEPT ![n] = FreshId]
           /\ store' = [store EXCEPT ![FreshId] = AlienObject]
  <2>1. FreshId \in Ids /\ Fresh(FreshId)
    BY <1>7, FreshChosen
  <2>2. /\ store' \in [Ids -> Objects] /\ store'[FreshId] = AlienObject
        /\ \A j \in Ids : j # FreshId => store'[j] = store[j]
    BY <1>1, <1>2, <1>7, <2>1, Update
  <2>3. part' \in [Parts -> SomeId] /\ part'[n] = FreshId /\ \A m \in Parts : m # n => part'[m] = part[m]
    BY <1>1, <1>7, <2>1
  <2>10. SourceType' /\ HandleType' /\ BufType' /\ ControlType'
    BY <1>1, <1>2, <1>3, <1>4, <1>5, <2>1, <2>2, <2>3 DEF SourceType, SourceInv,
          PlanType, Pcs, Versions, Fresh, HandleType, DestType, JournalType, Ckpts,
          BufType, ControlType, Outcomes
  <2>11. DestType'
    BY <1>1, <1>2, <1>3, <1>4, <1>5, <2>1, <2>2, <2>3 DEF DestType, HandleType,
          Fresh
  <2>12. JournalType' /\ PlanType' /\ GhostType'
    BY <1>1, <1>2, <1>3, <1>4, <1>5, <2>1, <2>2, <2>3 DEF JournalType, Ckpts,
          HandleType, BufType, PlanType, Fresh, SourceType, Versions, Snaps,
          GhostType
  <2>13. SourceInv' /\ BufInv'
    BY <1>1, <1>2, <1>3, <1>4, <1>5, <2>1, <2>2, <2>3 DEF SourceInv, SourceType,
          PlanType, Versions, Fresh, BufInv, BufType, ChunksOf, Complete
  <2>14. DirectInv'
    BY <1>1, <1>2, <1>3, <1>4, <1>5, <2>1, <2>2, <2>3 DEF DirectInv, BufInv,
          DestType, HandleType, BufType, Snapshot, PartInv, Fresh
  <2>15. PublishedInv'
    BY <1>1, <1>2, <1>3, <1>4, <1>5, <2>1, <2>2, <2>3 DEF PublishedInv, DirectInv,
          BufInv, StreamedInv, DestType, HandleType, PartInv, Complete, ChunksOf,
          Fresh
  <2>16. StreamedInv'
    BY <1>1, <1>2, <1>3, <1>4, <1>5, <2>1, <2>2, <2>3 DEF StreamedInv, DestType,
          HandleType, PartInv, Snapshot, Fresh
  <2>17. PartInv'
    BY <1>1, <1>2, <1>3, <1>4, <1>5, <2>1, <2>2, <2>3 DEF PartInv, StreamedInv,
          DirectInv, DestType, HandleType, Fresh
  <2>18. CkptInv'
    BY <1>1, <1>2, <1>3, <1>4, <1>5, <2>1, <2>2, <2>3 DEF CkptInv, SourceInv,
          BufInv, StreamedInv, JournalType, Ckpts, SourceType, Versions, DestType,
          ChunksOf, Fresh
  <2>19. HintIsBacked'
    BY <1>1, <1>2, <1>3, <1>4, <1>5, <2>1, <2>2, <2>3 DEF HintIsBacked, StreamedInv,
          DirectInv, PartInv, JournalType, Ckpts, DestType, CkptInv, Begins, Fresh
  <2>20. NoFalseSame'
    <3>1. FreshId # final
      BY <2>1 DEF Fresh
    <3> QED
      BY <1>3, <2>2, <3>1, FinalKept DEF DestType
  <2> QED
    BY <2>10, <2>11, <2>12, <2>13, <2>14, <2>15, <2>16, <2>17, <2>18, <2>19, <2>20
<1>8. CASE /\ part[n] # NoObj
           /\ store' = [store EXCEPT ![part[n]] = [AlienObject EXCEPT !.own = store[part[n]].own]]
           /\ UNCHANGED part
  <2> DEFINE o == [AlienObject EXCEPT !.own = store[part[n]].own]
  <2>1. part[n] \in Ids /\ store[part[n]] \in Objects
    BY <1>1, <1>8
  <2>2. o \in Objects /\ o.mtime = Foreign /\ o.touched /\ o.own = store[part[n]].own
    BY <1>2, <2>1 DEF Objects
  <2>3. store' = [store EXCEPT ![part[n]] = o]
    BY <1>8
  <2> HIDE DEF o
  <2>4. /\ store' \in [Ids -> Objects] /\ store'[part[n]] = o
        /\ \A j \in Ids : j # part[n] => store'[j] = store[j]
    BY <1>1, <2>1, <2>2, <2>3, Update
  <2>10. SourceType' /\ HandleType' /\ BufType' /\ ControlType'
    BY <1>1, <1>2, <1>3, <1>4, <1>5, <1>8, <2>1, <2>2, <2>4 DEF SourceType,
          SourceInv, PlanType, Pcs, Versions, HandleType, DestType, JournalType,
          Ckpts, BufType, ControlType, Outcomes
  <2>11. DestType'
    BY <1>1, <1>2, <1>3, <1>4, <1>5, <1>8, <2>1, <2>2, <2>4 DEF DestType, HandleType
  <2>12. JournalType' /\ PlanType' /\ GhostType'
    BY <1>1, <1>2, <1>3, <1>4, <1>5, <1>8, <2>1, <2>2, <2>4 DEF JournalType, Ckpts,
          HandleType, BufType, PlanType, SourceType, Versions, Snaps, GhostType
  <2>13. SourceInv' /\ BufInv'
    BY <1>1, <1>2, <1>3, <1>4, <1>5, <1>8, <2>1, <2>2, <2>4 DEF SourceInv,
          SourceType, PlanType, Versions, BufInv, BufType, ChunksOf, Complete
  <2>14. DirectInv' /\ PublishedInv'
    BY <1>1, <1>2, <1>3, <1>4, <1>5, <1>8, <2>1, <2>2, <2>4, SMTT(60) DEF DirectInv, BufInv,
          DestType, HandleType, BufType, Snapshot, PartInv, PublishedInv,
          StreamedInv, Complete, ChunksOf
  <2>15. StreamedInv'
    BY <1>1, <1>2, <1>3, <1>4, <1>5, <1>8, <2>1, <2>2, <2>4 DEF StreamedInv,
          DestType, HandleType, PartInv, Snapshot
  <2>16. PartInv'
    BY <1>1, <1>2, <1>3, <1>4, <1>5, <1>8, <2>1, <2>2, <2>4 DEF PartInv,
          StreamedInv, DirectInv, DestType, HandleType
  <2>17. CkptInv'
    BY <1>1, <1>2, <1>3, <1>4, <1>5, <1>8, <2>1, <2>2, <2>4 DEF CkptInv, SourceInv,
          BufInv, StreamedInv, JournalType, Ckpts, SourceType, Versions, DestType,
          ChunksOf
  <2>18. HintIsBacked'
    BY <1>1, <1>2, <1>3, <1>4, <1>5, <1>8, <2>1, <2>2, <2>4 DEF HintIsBacked,
          StreamedInv, DirectInv, PartInv, JournalType, Ckpts, DestType, CkptInv,
          Begins
  <2>19. NoFalseSame'
    <3>1. part[n] # final
      BY <1>8 DEF PartInv
    <3> QED
      BY <1>3, <2>4, <3>1, FinalKept DEF DestType
  <2> QED
    BY <2>10, <2>11, <2>12, <2>13, <2>14, <2>15, <2>16, <2>17, <2>18, <2>19
<1> QED
  BY <1>5, <1>6, <1>7, <1>8

\* Crash keeps IInv.
LEMMA CrashStep == ASSUME IInv, Crash PROVE IInv'
<1> USE ConstantAssumption
<1>1. SourceType'
  BY DEF Crash, CloseHandles, Unlinked, DropPlan, NoSnap, Env, SourceType,
        SourceInv, PlanType, Versions
<1>2. DestType'
  BY DEF Crash, CloseHandles, Unlinked, DropPlan, NoSnap, Env, DestType, HandleType
<1>3. HandleType'
  BY DEF Crash, CloseHandles, Unlinked, DropPlan, NoSnap, Env, HandleType, DestType,
        JournalType, Ckpts
<1>4. BufType'
  BY DEF Crash, CloseHandles, Unlinked, DropPlan, NoSnap, Env, BufType, JournalType,
        Ckpts
<1>5. JournalType'
  BY DEF Crash, CloseHandles, Unlinked, DropPlan, NoSnap, Env, JournalType, Ckpts,
        HandleType, BufType, PlanType
<1>6. PlanType'
  BY EmptyTypes DEF Crash, DropPlan, PlanType
<1>7. ControlType'
  BY DEF Crash, CloseHandles, Unlinked, DropPlan, NoSnap, Env, ControlType, Pcs,
        Outcomes
<1>8. GhostType'
  BY EnvType DEF Crash, DropPlan, GhostType
<1>9. SourceInv' /\ BufInv'
  BY DEF Crash, CloseHandles, Unlinked, DropPlan, NoSnap, Env, SourceInv,
        SourceType, PlanType, Versions, BufInv, BufType, ChunksOf, Complete
<1>10. DirectInv' /\ StreamedInv' /\ PublishedInv'
  BY DEF Crash, CloseHandles, Unlinked, DropPlan, NoSnap, Env, DirectInv, BufInv,
        DestType, HandleType, BufType, Snapshot, PartInv, StreamedInv, PublishedInv,
        Complete, ChunksOf
<1>11. CkptInv'
  BY DEF Crash, CloseHandles, Unlinked, DropPlan, NoSnap, Env, CkptInv, SourceInv,
        BufInv, StreamedInv, JournalType, Ckpts, SourceType, Versions, DestType,
        ChunksOf
<1>12. PartInv'
  BY DEF Crash, CloseHandles, Unlinked, DropPlan, NoSnap, Env, PartInv, StreamedInv,
        DirectInv, DestType, HandleType
<1>13. HintIsBacked'
  BY DEF Crash, CloseHandles, Unlinked, DropPlan, NoSnap, Env, HintIsBacked,
        StreamedInv, DirectInv, PartInv, JournalType, Ckpts, DestType, CkptInv,
        Begins
<1>14. NoFalseSame'
  BY DEF Crash, CloseHandles, Unlinked, DropPlan, NoSnap, Env, NoFalseSame,
        DirectInv, PublishedInv, PartInv, BufInv, Same, Snapshot, Complete,
        ChunksOf, DestType, Versions, Now, Poison, Foreign
<1> QED
  BY <1>1, <1>2, <1>3, <1>4, <1>5, <1>6, <1>7, <1>8, <1>9, <1>10, <1>11, <1>12,
        <1>13, <1>14 DEF IInv, TypeOK

\* PowerLoss keeps IInv.
LEMMA PowerLossStep == ASSUME IInv, PowerLoss PROVE IInv'
<1> USE ConstantAssumption
<1>1. /\ store \in [Ids -> Objects] /\ part \in [Parts -> SomeId] /\ ckpt \in Ckpts
  BY DEF DestType, JournalType
<1>2. /\ part' \in [Parts -> SomeId]
      /\ \A m \in Parts : part'[m] # NoObj => part'[m] = part[m]
  BY <1>1 DEF PowerLoss, Unlinked
<1>3. /\ store' \in [Ids -> Objects]
      /\ \A j \in Ids : /\ store'[j].mtime = store[j].mtime
                        /\ store'[j].own = store[j].own
                        /\ store'[j] # store[j] => store'[j].touched
  <2>1. CASE UNCHANGED store
    BY <1>1, <2>1
  <2>2. CASE ~UNCHANGED store
    <3>0. PICK i \in Ids : \E d \in Rotten(store[i].data) :
            store' = [store EXCEPT ![i] = [@ EXCEPT !.data = d, !.touched = TRUE]]
      BY <2>2 DEF PowerLoss
    <3>1. PICK d \in Rotten(store[i].data) :
            store' = [store EXCEPT ![i] = [@ EXCEPT !.data = d, !.touched = TRUE]]
      BY <3>0
    <3>2. store[i] \in Objects /\ store[i].data \in Seq(Chunks)
      BY <1>1, Fields
    <3>3. d \in Seq(Chunks)
      <4>1. PICK k \in 1..Len(store[i].data) : d = [store[i].data EXCEPT ![k] = <<Rot, k>>]
        BY <3>1 DEF Rotten
      <4>2. <<Rot, k>> \in Chunks
        BY <3>2, <4>1 DEF Chunks
      <4> QED
        BY <3>2, <4>1, <4>2
    <3> DEFINE o == [store[i] EXCEPT !.data = d, !.touched = TRUE]
    <3>4. o \in Objects /\ o.mtime = store[i].mtime /\ o.own = store[i].own /\ o.touched
      BY <3>2, <3>3 DEF Objects
    <3>5. store' = [store EXCEPT ![i] = o]
      BY <3>1
    <3> HIDE DEF o
    <3>6. /\ store' \in [Ids -> Objects] /\ store'[i] = o
          /\ \A j \in Ids : j # i => store'[j] = store[j]
      BY <1>1, <3>4, <3>5, Update
    <3> QED
      BY <3>4, <3>6
  <2> QED
    BY <2>1, <2>2
<1>4. \/ ckpt' = NoCkpt
      \/ /\ ckpt' \in Ckpts
         /\ ckpt'.part = ckpt.part /\ ckpt'.id = ckpt.id /\ ckpt'.version = ckpt.version
         /\ Len(ckpt'.prefix) <= Len(ckpt.prefix)
         /\ \A i \in 1..Len(ckpt'.prefix) : ckpt'.prefix[i] = ckpt.prefix[i]
  <2>1. CASE ckpt' = ckpt
    BY <1>1, <2>1 DEF Ckpts
  <2>2. CASE /\ Len(ckpt.prefix) > CkptEvery
             /\ ckpt' = [ckpt EXCEPT !.prefix = SubSeq(@, 1, CkptEvery)]
    <3> DEFINE p == ckpt.prefix
               q == SubSeq(p, 1, CkptEvery)
    <3>1. p \in Seq(Chunks)
      BY <1>1 DEF Ckpts
    <3>2. /\ q \in Seq(Chunks) /\ Len(q) = CkptEvery
          /\ \A i \in 1..Len(q) : q[i] = p[i]
      BY <2>2, <3>1
    <3>3. ckpt' = [ckpt EXCEPT !.prefix = q]
      BY <2>2
    <3> HIDE DEF q
    <3>4. /\ ckpt' \in Ckpts /\ ckpt'.prefix = q
          /\ ckpt'.part = ckpt.part /\ ckpt'.id = ckpt.id /\ ckpt'.version = ckpt.version
      BY <1>1, <3>2, <3>3 DEF Ckpts
    <3> QED
      BY <2>2, <3>1, <3>2, <3>4
  <2> QED
    BY <2>1, <2>2 DEF PowerLoss
<1>5. /\ pc' = "idle" /\ outcome' = "none"
      /\ CloseHandles
      /\ DropPlan
      /\ UNCHANGED <<mode, src, final>>
  BY DEF PowerLoss
<1>6. /\ NoSnap \in Snaps /\ NoCkpt \in Ckpts /\ 0 \in 0..MaxVersion
      /\ NoCkpt.id = NoObj /\ NoCkpt.version = 0
  BY EmptyTypes DEF NoCkpt
<1>7. faults' \in 0..MaxFaults
  BY EnvType DEF PowerLoss
<1>20. SourceType'
  BY <1>1, <1>2, <1>3, <1>4, <1>5, <1>6, <1>7 DEF SourceType, SourceInv, PlanType,
        Versions, CloseHandles, DropPlan
<1>21. HandleType'
  BY <1>1, <1>2, <1>3, <1>4, <1>5, <1>6, <1>7 DEF HandleType, DestType, JournalType,
        Ckpts, CloseHandles, DropPlan
<1>22. BufType'
  BY <1>1, <1>2, <1>3, <1>4, <1>5, <1>6, <1>7 DEF BufType, JournalType, Ckpts,
        CloseHandles, DropPlan
<1>23. ControlType'
  BY <1>1, <1>2, <1>3, <1>4, <1>5, <1>6, <1>7 DEF ControlType, Pcs, Outcomes,
        CloseHandles, DropPlan
<1>24. DestType'
  BY <1>1, <1>2, <1>3, <1>4, <1>5, <1>6, <1>7 DEF DestType, HandleType,
        CloseHandles, DropPlan
<1>25. JournalType' /\ GhostType'
  BY <1>1, <1>2, <1>3, <1>4, <1>5, <1>6, <1>7 DEF JournalType, Ckpts, HandleType,
        BufType, PlanType, CloseHandles, DropPlan, GhostType
<1>26. PlanType'
  BY <1>5, <1>6 DEF PlanType, DropPlan
<1>27. SourceInv' /\ BufInv'
  BY <1>1, <1>2, <1>3, <1>4, <1>5, <1>6, <1>7 DEF SourceInv, SourceType, PlanType,
        Versions, CloseHandles, DropPlan, BufInv, BufType, ChunksOf, Complete
<1>28. DirectInv' /\ PublishedInv'
  BY <1>1, <1>2, <1>3, <1>4, <1>5, <1>6, <1>7 DEF DirectInv, BufInv, DestType,
        HandleType, BufType, Snapshot, PartInv, CloseHandles, DropPlan,
        PublishedInv, StreamedInv, Complete, ChunksOf
<1>29. StreamedInv'
  BY <1>1, <1>2, <1>3, <1>4, <1>5, <1>6, <1>7 DEF StreamedInv, DestType, HandleType,
        PartInv, Snapshot, CloseHandles, DropPlan
<1>30. PartInv'
  BY <1>1, <1>2, <1>3, <1>4, <1>5, <1>6, <1>7 DEF PartInv, StreamedInv, DirectInv,
        DestType, HandleType, CloseHandles, DropPlan
<1>31. CkptInv'
  <2>1. CASE ckpt' = NoCkpt
    BY <1>5, <1>6, <2>1 DEF SourceType, Versions, CkptInv
  <2>2. CASE ckpt' # NoCkpt
    <3>1. ckpt.id # NoObj => ckpt.id \in Ids
      BY <1>1 DEF Ckpts
    <3>2. \A v : ChunksOf(ckpt.prefix, v) => ChunksOf(ckpt'.prefix, v)
      <4>1. ckpt.prefix \in Seq(Chunks) /\ ckpt'.prefix \in Seq(Chunks)
        BY <1>1, <1>4, <2>2 DEF Ckpts
      <4> QED
        BY <1>4, <2>2, <4>1 DEF ChunksOf
    <3> QED
      BY <1>3, <1>4, <1>5, <2>2, <3>1, <3>2 DEF CkptInv
  <2> QED
    BY <2>1, <2>2
<1>32. HintIsBacked'
  <2>1. CASE ckpt' = NoCkpt
    BY <1>6, <2>1 DEF HintIsBacked
  <2>2. CASE ckpt' # NoCkpt
    <3>1. ASSUME ckpt.id # NoObj, NEW n \in Parts, part'[n] = ckpt.id, ~store'[ckpt.id].touched
          PROVE  Begins(store'[ckpt.id].data, ckpt'.prefix)
      <4>1. ckpt.id \in Ids
        BY <1>1, <3>1 DEF Ckpts
      <4>2. part[n] = ckpt.id /\ store'[ckpt.id] = store[ckpt.id]
        BY <1>2, <1>3, <3>1, <4>1
      <4>3. Begins(store[ckpt.id].data, ckpt.prefix)
        BY <3>1, <4>2 DEF HintIsBacked
      <4>4. ckpt.prefix \in Seq(Chunks) /\ ckpt'.prefix \in Seq(Chunks) /\ store[ckpt.id].data \in Seq(Chunks)
        BY <1>1, <1>4, <2>2, <4>1, Fields DEF Ckpts
      <4> QED
        BY <1>4, <2>2, <4>2, <4>3, <4>4 DEF Begins
    <3> QED
      BY <1>4, <2>2, <3>1 DEF HintIsBacked
  <2> QED
    BY <2>1, <2>2
<1>33. NoFalseSame'
  <2>1. CASE final # NoObj => store'[final] = store[final]
    BY <1>5, <2>1, FinalKept
  <2>2. CASE final # NoObj /\ store'[final] # store[final]
    <3>1. store'[final].touched
      BY <1>3, <2>2 DEF DestType
    <3> QED
      BY <1>5, <3>1 DEF NoFalseSame
  <2> QED
    BY <2>1, <2>2
<1> QED
  BY <1>20, <1>21, <1>22, <1>23, <1>24, <1>25, <1>26, <1>27, <1>28, <1>29, <1>30,
        <1>31, <1>32, <1>33 DEF IInv, TypeOK

-----------------------------------------------------------------------------
(* IInv is an invariant.                                                     *)

\* It holds before the first run.
LEMMA InitIInv == ASSUME Init PROVE IInv
<1> USE ConstantAssumption
<1>1. AlienObject \in Objects /\ AlienObject.mtime = Foreign
  BY NewTypes DEF AlienObject
<1>2. NoSnap \in Snaps /\ NoCkpt \in Ckpts /\ 0 \in 0..MaxVersion /\ 1 \in Versions
  BY EmptyTypes DEF Versions
<1>3. (CHOOSE i \in Ids : TRUE) \in Ids
  OBVIOUS
<1>4. SourceType /\ GhostType
  <2>1. faults \in 0..MaxFaults
    BY DEF Init
  <2> QED
    BY <1>2, <2>1 DEF Init, SourceType, GhostType
<1>5. DestType
  BY <1>1, <1>3 DEF Init, DestType
<1>6. JournalType /\ PlanType
  BY <1>2 DEF Init, JournalType, PlanType
<1>7. HandleType /\ ControlType
  BY DEF Init, HandleType, ControlType, Pcs, Outcomes
<1>8. BufType
  BY DEF Init, BufType
<1>9. SourceInv /\ BufInv
  BY DEF Init, SourceInv, BufInv
<1>10. DirectInv /\ StreamedInv /\ PublishedInv
  BY DEF Init, DirectInv, StreamedInv, PublishedInv
<1>11. PartInv
  BY DEF Init, PartInv
<1>12. CkptInv /\ HintIsBacked
  BY DEF Init, CkptInv, HintIsBacked, NoCkpt
<1>13. NoFalseSame
  <2>1. ASSUME final # NoObj PROVE store[final].mtime \notin Versions
    BY <1>1, <1>3, <2>1 DEF Init, Foreign, Versions
  <2> QED
    BY <2>1 DEF NoFalseSame, Same, Snapshot, NoSnap
<1> QED
  BY <1>4, <1>5, <1>6, <1>7, <1>8, <1>9, <1>10, <1>11, <1>12, <1>13

\* Nothing happened.
LEMMA StutterStep == ASSUME IInv, UNCHANGED vars PROVE IInv'
<1>1. TypeOK'
  BY DEF SourceType, DestType, JournalType, PlanType, HandleType, BufType,
        ControlType, Outcomes, Pcs, GhostType, vars
<1>2. SourceInv' /\ BufInv' /\ DirectInv' /\ StreamedInv' /\ PublishedInv' /\ CkptInv'
  BY DEF SourceInv, BufInv, DirectInv, StreamedInv, PublishedInv, CkptInv, Snapshot,
        vars
<1>3. PartInv' /\ HintIsBacked' /\ NoFalseSame'
  BY DestKept DEF vars
<1> QED
  BY <1>1, <1>2, <1>3

\* Every step keeps it.
LEMMA NextIInv == ASSUME IInv, [Next]_vars PROVE IInv'
<1>1. CASE Small
  BY <1>1, ReadChunkStep, ReadDoneStep, CreateNewStep, OpenExistingStep,
     CreateRefusedStep, TruncateStep, StampStep, WriteChunkStep, WriteDoneStep,
     RecheckSourceStep, FinishStep, DeferredCheckStep, SmallFaultStep DEF
        Small
<1>2. CASE Large
  BY <1>2, ResumeMissStep, ResumeFaultStep, ResumeDiscardStep, ResumeVerifiedStep,
     MakeTempStep, ArmDeleteStep, TransferChunkStep, CancelMidFileStep,
     AppendCheckpointStep, PersistForResumeStep, EndTransferStep, PrecommitStep,
     ClearDeleteStep, RenameStep, SetBasicStep, RetirePartStep DEF
        Large
<1>3. CASE Process
  BY <1>1, <1>2, <1>3, StartRunStep, OpenSourceStep, FlushOrSkipStep,
     FlushFailedStep, CloseStep, ReclaimStep, EndRunStep DEF
        Process
<1>4. CASE Environment
  BY <1>4, SourceRewrittenStep, SourceReplacedStep, ForeignFinalStep,
     ForeignPartStep, CrashStep, PowerLossStep DEF
        Environment
<1>5. CASE UNCHANGED vars
  BY <1>5, StutterStep
<1> QED
  BY <1>3, <1>4, <1>5 DEF Next

HIDE DEF IInv, TypeOK

\* IInv holds in every reachable state of every instance.
THEOREM Invariance == Spec => []IInv
<1>1. Init => IInv
  BY InitIInv
<1>2. IInv /\ [Next]_vars => IInv'
  BY NextIInv
<1> QED
  BY <1>1, <1>2, PTL DEF Spec

-----------------------------------------------------------------------------
(* The properties.                                                           *)

\* Every variable keeps its type, in every run of the process and whatever the
\* environment does.
THEOREM TypeCorrect == Spec => []TypeOK
<1>1. IInv => TypeOK
  BY DEF IInv
<1> QED
  BY <1>1, Invariance, PTL

\* The skip test is sound: an interrupted copy, on either strategy, never
\* leaves a file that size and last-write time take for the source without
\* its bytes.
THEOREM SkipTestSound == Spec => []NoFalseSame
<1>1. IInv => NoFalseSame
  BY DEF IInv
<1> QED
  BY <1>1, Invariance, PTL

\* A checkpoint that the current source would resume from was read entirely
\* from that source.
THEOREM ResumeSourceSound == Spec => []HintIsOfItsSource
<1>1. IInv => HintIsOfItsSource
  BY DEF IInv, CkptInv, HintIsOfItsSource
<1> QED
  BY <1>1, Invariance, PTL

\* The journal never vouches for bytes the temporary does not hold.
THEOREM ResumePrefixSound == Spec => []HintIsBacked
<1>1. IInv => HintIsBacked
  BY DEF IInv
<1> QED
  BY <1>1, Invariance, PTL

\* Only a close or the deferred check reports "copied".
LEMMA CopiedBy ==
  ASSUME Next, outcome' = "copied", outcome # "copied"
  PROVE  Close \/ DeferredCheck
<1>1. ~StartRun /\ ~OpenSource /\ ~FlushOrSkip /\ ~FlushFailed /\ ~Reclaim /\ ~EndRun
  BY DEF StartRun, OpenSource, FlushOrSkip, FlushFailed, Reclaim, EndRun, Abandon
<1>2. Small => DeferredCheck
  BY DEF Small, ReadChunk, ReadDone, CreateNew, OpenExisting, CreateRefused, Truncate,
        Stamp, WriteChunk, WriteDone, RecheckSource, Finish, SmallFault, Abandon
<1>3. ~Large
  BY DEF Large, ResumeMiss, ResumeFault, ResumeDiscard, ResumeVerified, MakeTemp,
        ArmDelete, TransferChunk, CancelMidFile, AppendCheckpoint, PersistForResume,
        EndTransfer, Precommit, ClearDelete, Rename, SetBasic, RetirePart, Abandon
<1>4. ~Environment
  BY DEF Environment, SourceRewritten, SourceReplaced, ForeignFinal, ForeignPart,
        Crash, PowerLoss
<1> QED
  BY <1>1, <1>2, <1>3, <1>4 DEF Next, Process

\* A reported copy is there: complete, stamped and, if asked for, flushed.
THEOREM CopiedSound == Spec => CopiedIsComplete
<1> DEFINE F == outcome' = "copied" /\ outcome # "copied" /\ ~raced =>
                  /\ final # NoObj
                  /\ Complete(store[final].data, snap)
                  /\ store[final].mtime = snap
                  /\ mode.flush => store[final].flushed
<1>1. ASSUME IInv, Next PROVE F
  <2>1. SUFFICES ASSUME outcome' = "copied", outcome # "copied", ~raced PROVE F
    OBVIOUS
  <2>2. CASE Close
    <3>1. pc = "close" /\ h = final /\ h \in Ids
      BY <1>1, <2>2 DEF Close, IInv, DirectInv
    <3>2. Complete(store[h].data, snap) /\ store[h].mtime = snap
      BY <1>1, <3>1 DEF IInv, PublishedInv
    <3>3. mode.flush => store[h].flushed
      BY <1>1, <3>1 DEF IInv, PublishedInv
    <3> QED
      BY <3>1, <3>2, <3>3, ConstantAssumption
  <2>3. CASE DeferredCheck
    <3>1. /\ final \in Ids
          /\ Complete(store[final].data, snap) /\ store[final].mtime = snap
          /\ mode.flush => store[final].flushed
      BY <1>1, <2>1, <2>3 DEF DeferredCheck, IInv, PublishedInv
    <3> QED
      BY <3>1, ConstantAssumption
  <2> QED
    BY <1>1, <2>1, <2>2, <2>3, CopiedBy
<1>2. IInv /\ [Next]_vars => [F]_vars
  BY <1>1
<1> QED
  BY <1>2, Invariance, PTL DEF Spec, CopiedIsComplete

USE DEF IInv, TypeOK

\* A temporary that a step of bigcp removes is its own: the one it holds, or the
\* one the record names, whose identity it has just compared.
LEMMA OwnRemoved ==
  ASSUME IInv, Next, ~ForeignPart, NEW n \in Parts, part[n] # NoObj, part'[n] # part[n]
  PROVE  store[part[n]].own
<1>1. /\ part \in [Parts -> SomeId] /\ NoObj \notin Ids /\ HandleType
      /\ ckpt.id # NoObj => ckpt.part \in Parts /\ store[ckpt.id].own
      /\ pc \in Streamed => hpart \in Parts /\ part[hpart] = h /\ store[h].own
      /\ armed => pc \in Streamed
  BY ConstantAssumption DEF DestType, CkptInv, StreamedInv
<1>2. ASSUME part' = Unlinked(ckpt.part), part[ckpt.part] = ckpt.id
      PROVE  store[part[n]].own
  <2>1. n = ckpt.part
    BY <1>1, <1>2 DEF Unlinked
  <2> QED
    BY <1>1, <1>2, <2>1
<1>3. ASSUME part' = Unlinked(hpart), pc \in Streamed PROVE store[part[n]].own
  <2>1. n = hpart
    BY <1>1, <1>3 DEF Unlinked
  <2> QED
    BY <1>1, <1>3, <2>1
<1>4. ASSUME NEW o, Abandon(o) PROVE store[part[n]].own
  BY <1>1, <1>3, <1>4 DEF Abandon
<1>5. CASE Crash \/ PowerLoss
  BY <1>1, <1>3, <1>5 DEF Crash, PowerLoss
<1>6. CASE Reclaim \/ ResumeDiscard
  BY <1>2, <1>6 DEF Reclaim, ResumeDiscard
<1>7. CASE Rename
  <2>1. part' = Unlinked(hpart)
    BY <1>7 DEF Rename
  <2>2. pc \in Streamed
    BY <1>7 DEF Rename
  <2> QED
    BY <1>3, <2>1, <2>2
<1>8. CASE MakeTemp
  <2>1. CASE \E m \in Parts : part[m] = NoObj /\ part' = [part EXCEPT ![m] = FreshId]
    BY <1>1, <2>1
  <2> QED
    BY <1>4, <1>8, <2>1 DEF MakeTemp
<1>9. CASE \/ StartRun \/ OpenSource \/ Small \/ FlushOrSkip \/ FlushFailed \/ Close \/ EndRun
  BY <1>4, <1>9 DEF StartRun, OpenSource, Small, FlushOrSkip, FlushFailed, Close, EndRun,
        ReadChunk, ReadDone, CreateNew, OpenExisting, CreateRefused, Truncate, Stamp,
        WriteChunk, WriteDone, RecheckSource, Finish, DeferredCheck, SmallFault
<1>10. CASE \/ ResumeMiss \/ ResumeFault \/ ResumeVerified \/ ArmDelete \/ TransferChunk
            \/ CancelMidFile \/ AppendCheckpoint \/ PersistForResume \/ EndTransfer
            \/ Precommit \/ ClearDelete \/ SetBasic \/ RetirePart
  BY <1>4, <1>10 DEF ResumeMiss, ResumeFault, ResumeVerified, ArmDelete, TransferChunk,
        CancelMidFile, AppendCheckpoint, PersistForResume, EndTransfer, Precommit,
        ClearDelete, SetBasic, RetirePart
<1>11. CASE SourceRewritten \/ SourceReplaced \/ ForeignFinal
  BY <1>11 DEF SourceRewritten, SourceReplaced, ForeignFinal
<1> QED
  BY <1>5, <1>6, <1>7, <1>8, <1>9, <1>10, <1>11 DEF Next, Process, Large, Environment

HIDE DEF IInv, TypeOK

\* bigcp never deletes an object under a temporary name that it did not make.
THEOREM OthersKept == Spec => NeverDeletesOthers
<1> DEFINE F == \A n \in Parts :
                  part[n] # NoObj /\ ~store[part[n]].own /\ part'[n] # part[n] => ForeignPart
<1>1. IInv /\ [Next]_vars => [F]_vars
  BY OwnRemoved
<1> QED
  BY <1>1, Invariance, PTL DEF Spec, NeverDeletesOthers

-----------------------------------------------------------------------------
(* The object under the final name.                                          *)

USE DEF IInv, TypeOK

\* A fresh identity is not that of the final name.
LEMMA FreshApart == ASSUME HasFreshId PROVE FreshId \in Ids /\ FreshId # final
  BY FreshChosen DEF Fresh

\* The bytes under the final name, and that name, change in these ways only.
FinalSame == final' = final /\ (final # NoObj => store'[final].data = store[final].data)

\* Giving up touches no object.
LEMMA AbandonShows == ASSUME NEW o, Abandon(o) PROVE FinalSame
  BY DEF Abandon, FinalSame

\* On the streamed path only the rename changes what is under the final name.
LEMMA LargeShows == ASSUME IInv, Large, ~Rename PROVE FinalSame
<1>1. store \in [Ids -> Objects] /\ final \in SomeId /\ NoObj \notin Ids
  BY ConstantAssumption DEF DestType
<1>2. CASE ResumeVerified
  <2>1. ckpt.id \in SomeId /\ ckpt.part \in Parts
    BY <1>2 DEF ResumeVerified, JournalType, Ckpts, CkptInv
  <2>2. ckpt.id # final
    BY <1>2, <2>1 DEF ResumeVerified, PartInv
  <2> QED
    BY <1>1, <1>2, <2>2 DEF ResumeVerified, FinalSame
<1>3. CASE MakeTemp
  BY <1>1, <1>3, FreshApart, AbandonShows DEF MakeTemp, FinalSame
<1>4. CASE TransferChunk
  <2>1. h # final
    BY <1>4, StreamedApart DEF TransferChunk
  <2> QED
    BY <1>1, <1>4, <2>1, AbandonShows DEF TransferChunk, FinalSame
<1>5. CASE SetBasic
  <2>1. store' = [store EXCEPT ![h].mtime = snap] => store'[final].data = store[final].data
    BY <1>1, <1>5 DEF SetBasic, DirectInv, Objects
  <2> QED
    BY <1>5, <2>1, AbandonShows DEF SetBasic, FinalSame
<1>6. CASE Rename
  BY <1>6
<1>7. CASE \/ ResumeMiss \/ ResumeFault \/ ResumeDiscard \/ ArmDelete
            \/ CancelMidFile \/ AppendCheckpoint \/ PersistForResume \/ EndTransfer
            \/ Precommit \/ ClearDelete \/ RetirePart
  BY <1>7, AbandonShows DEF ResumeMiss, ResumeFault, ResumeDiscard, ArmDelete,
        CancelMidFile, AppendCheckpoint, PersistForResume, EndTransfer, Precommit,
        ClearDelete, RetirePart, FinalSame
<1> QED
  BY <1>2, <1>3, <1>4, <1>5, <1>6, <1>7 DEF Large

\* Around an attempt nothing does.
LEMMA RunShows ==
  ASSUME IInv, \/ StartRun \/ OpenSource \/ FlushOrSkip \/ FlushFailed \/ Close \/ Reclaim \/ EndRun
  PROVE  FinalSame
<1>1. store \in [Ids -> Objects] /\ final \in SomeId /\ NoObj \notin Ids
  BY ConstantAssumption DEF DestType
<1>2. CASE FlushOrSkip
  BY <1>1, <1>2 DEF FlushOrSkip, DirectInv, FinalSame, Objects
<1>3. CASE FlushFailed
  <2>1. PICK m : store' = [store EXCEPT ![h].mtime = m]
    BY <1>3 DEF FlushFailed
  <2> QED
    BY <1>1, <1>3, <2>1 DEF FlushFailed, DirectInv, FinalSame, Objects
<1>4. CASE StartRun \/ OpenSource \/ Close \/ Reclaim \/ EndRun
  BY <1>4, AbandonShows DEF StartRun, OpenSource, Close, Reclaim, EndRun, FinalSame
<1> QED
  BY <1>2, <1>3, <1>4

\* What is outside bigcp: other programs and the power.
LEMMA EnvironmentShows ==
  ASSUME IInv, Environment, ~ForeignFinal
  PROVE  FinalSame \/ PowerLoss
<1>1. store \in [Ids -> Objects] /\ final \in SomeId /\ NoObj \notin Ids
  BY ConstantAssumption DEF DestType
<1>2. CASE ForeignPart
  <2>1. PICK n \in Parts :
        /\ \/ part[n] # NoObj /\ part' = Unlinked(n) /\ UNCHANGED store
           \/ /\ HasFreshId
              /\ part' = [part EXCEPT ![n] = FreshId]
              /\ store' = [store EXCEPT ![FreshId] = AlienObject]
           \/ /\ part[n] # NoObj
              /\ store' = [store EXCEPT ![part[n]] = [AlienObject EXCEPT !.own = store[part[n]].own]]
              /\ UNCHANGED part
    BY <1>2 DEF ForeignPart
  <2>2. final' = final
    BY <1>2 DEF ForeignPart
  <2>3. part[n] # NoObj => part[n] # final
    BY DEF PartInv
  <2>4. ASSUME NEW i, i # final, NEW x, store' = [store EXCEPT ![i] = x] PROVE FinalSame
    BY <1>1, <2>2, <2>4 DEF FinalSame
  <2>5. UNCHANGED store => FinalSame
    BY <2>2 DEF FinalSame
  <2> QED
    BY <2>1, <2>3, <2>4, <2>5, FreshApart
<1>3. CASE SourceRewritten \/ SourceReplaced \/ Crash
  BY <1>3 DEF SourceRewritten, SourceReplaced, Crash, FinalSame
<1> QED
  BY <1>2, <1>3 DEF Environment

\* On the direct path only the file's creation, its truncation and the writes do.
LEMMA SmallShows ==
  ASSUME IInv, Small, ~CreateNew, ~Truncate, ~WriteChunk PROVE FinalSame
<1>1. store \in [Ids -> Objects] /\ final \in SomeId /\ NoObj \notin Ids
  BY ConstantAssumption DEF DestType
<1>2. CASE Stamp \/ Finish
  BY <1>1, <1>2 DEF Stamp, Finish, DirectInv, FinalSame, Objects
<1>3. CASE \/ ReadChunk \/ ReadDone \/ OpenExisting \/ CreateRefused
           \/ WriteDone \/ RecheckSource \/ DeferredCheck \/ SmallFault
  BY <1>3, AbandonShows DEF ReadChunk, ReadDone, OpenExisting, CreateRefused,
        WriteDone, RecheckSource, DeferredCheck, SmallFault, FinalSame
<1> QED
  BY <1>2, <1>3 DEF Small

\* A loss of power leaves the name, and at most one chunk of its object is rotten.
LEMMA PowerShows ==
  ASSUME IInv, PowerLoss
  PROVE  \/ FinalSame
         \/ /\ final' = final /\ final \in Ids
            /\ store'[final].data \in Rotten(store[final].data)
<1>1. store \in [Ids -> Objects] /\ final \in SomeId /\ NoObj \notin Ids /\ final' = final
  BY ConstantAssumption DEF DestType, PowerLoss
<1>2. CASE store' = store
  BY <1>1, <1>2 DEF FinalSame
<1>3. ASSUME NEW i \in Ids, NEW d \in Rotten(store[i].data),
             store' = [store EXCEPT ![i] = [@ EXCEPT !.data = d, !.touched = TRUE]]
      PROVE  \/ FinalSame
             \/ final \in Ids /\ store'[final].data \in Rotten(store[final].data)
  <2>1. store'[i].data = d /\ \A j \in Ids : j # i => store'[j] = store[j]
    BY <1>1, <1>3 DEF Objects
  <2> QED
    BY <1>1, <1>3, <2>1 DEF FinalSame
<1> QED
  BY <1>1, <1>2, <1>3 DEF PowerLoss

\* What displaces the object under the final name, or shortens it.
LEMMA DisplacedBy ==
  ASSUME IInv, Next, Displaces PROVE Truncate \/ Rename \/ ForeignFinal
<1>1. store \in [Ids -> Objects] /\ final \in Ids /\ NoObj \notin Ids
  BY ConstantAssumption DEF DestType, Displaces
<1>2. store[final].data \in Seq(Chunks) /\ Len(store[final].data) \in Nat
  BY <1>1, Fields
<1>3. ~FinalSame
  BY <1>2 DEF FinalSame, Displaces
<1>4. ~CreateNew
  BY <1>1 DEF CreateNew
<1>5. ~WriteChunk
  <2>1. SUFFICES ASSUME WriteChunk PROVE FALSE
    OBVIOUS
  <2>2. h = final /\ final' = final /\ Len(store[h].data) < Len(buf) /\ buf \in Seq(Chunks)
    BY <2>1 DEF WriteChunk, DirectInv, BufType
  <2>3. store'[final].data = Append(store[final].data, buf[Len(store[final].data) + 1])
    BY <1>1, <2>1, <2>2 DEF WriteChunk, Objects
  <2>4. Len(store'[final].data) = Len(store[final].data) + 1
    BY <1>2, <2>3
  <2> QED
    BY <1>2, <2>2, <2>4 DEF Displaces
<1>6. ~PowerLoss
  <2>1. ASSUME final' = final, store'[final].data \in Rotten(store[final].data) PROVE FALSE
    <3>1. PICK k \in 1..Len(store[final].data) :
            store'[final].data = [store[final].data EXCEPT ![k] = <<Rot, k>>]
      BY <2>1 DEF Rotten
    <3>2. Len(store'[final].data) = Len(store[final].data)
      BY <1>2, <3>1
    <3> QED
      BY <1>2, <2>1, <3>2 DEF Displaces
  <2> QED
    BY <1>3, <2>1, PowerShows
<1>7. SUFFICES ASSUME ~Truncate, ~Rename, ~ForeignFinal PROVE FALSE
  OBVIOUS
<1> QED
  BY <1>3, <1>4, <1>5, <1>6, <1>7, SmallShows, LargeShows, RunShows, EnvironmentShows
  DEF Next, Process

HIDE DEF IInv, TypeOK

\* Only the object that classification saw is truncated or replaced, unless
\* another program acted after the last check.
THEOREM ReplacedAsClassified == Spec => OnlyClassifiedReplaced
<1> DEFINE F == Displaces => ForeignFinal \/ raced \/ Snapshot(final) = dsnap
<1>1. ASSUME IInv, Next PROVE F
  <2>1. SUFFICES ASSUME Displaces, ~ForeignFinal, ~raced PROVE Snapshot(final) = dsnap
    OBVIOUS
  <2>2. CASE Truncate
    BY <1>1, <2>2 DEF Truncate, IInv, DirectInv
  <2>3. CASE Rename
    <3>1. pc = "rename" /\ (dsnap.id # NoObj \/ final = NoObj \/ UNCHANGED <<store, final>>)
      BY <2>3 DEF Rename
    <3>2. final # NoObj /\ ~UNCHANGED <<store, final>>
      <4>1. final # NoObj => Len(store[final].data) \in Nat
        BY <1>1, Fields DEF IInv, TypeOK, DestType, SomeId
      <4> QED
        BY <2>1, <4>1 DEF Displaces
    <3> QED
      BY <1>1, <2>1, <3>1, <3>2 DEF IInv, StreamedInv
  <2> QED
    BY <1>1, <2>1, <2>2, <2>3, DisplacedBy
<1>2. IInv /\ [Next]_vars => [F]_vars
  BY <1>1
<1> QED
  BY <1>2, Invariance, PTL DEF Spec, OnlyClassifiedReplaced

-----------------------------------------------------------------------------
(* The streamed strategy implements atomic publication.                      *)

\* Every version is streamed, and what other programs write is not empty.
AllLarge == ForeignLen > 0 /\ \A v \in Versions : Size[v] >= LargeThreshold

\* The direct path is not taken.
LargeInv == pc \notin Direct \cup {"read", "create", "deferred"}

\* It is never taken.
LEMMA LargeStep == ASSUME AllLarge, IInv, LargeInv, [Next]_vars PROVE LargeInv'
<1>1. snap \in Versions \/ pc = "idle"
  BY DEF IInv, SourceInv
<1>2. pc # "idle" => ~(Size[snap] < LargeThreshold)
  BY <1>1, ConstantAssumption DEF AllLarge
<1>3. CASE StartRun \/ OpenSource \/ Close
  BY <1>2, <1>3 DEF StartRun, OpenSource, Close, Abandon, LargeInv
<1>4. CASE \/ FlushOrSkip \/ FlushFailed \/ Reclaim \/ EndRun
  BY <1>4 DEF FlushOrSkip, FlushFailed, Reclaim, EndRun, LargeInv
<1>5. ~Small
  BY DEF Small, ReadChunk, ReadDone, CreateNew, OpenExisting, CreateRefused, Truncate,
        Stamp, WriteChunk, WriteDone, RecheckSource, Finish, DeferredCheck, SmallFault, LargeInv
<1>6. CASE Large
  BY <1>6 DEF Large, ResumeMiss, ResumeFault, ResumeDiscard, ResumeVerified, MakeTemp,
        ArmDelete, TransferChunk, CancelMidFile, AppendCheckpoint, PersistForResume,
        EndTransfer, Precommit, ClearDelete, Rename, SetBasic, RetirePart, Abandon, LargeInv
<1>7. CASE Environment
  BY <1>7 DEF Environment, SourceRewritten, SourceReplaced, ForeignFinal, ForeignPart,
        Crash, PowerLoss, LargeInv
<1>8. CASE UNCHANGED vars
  BY <1>8 DEF vars, LargeInv
<1> QED
  BY <1>3, <1>4, <1>5, <1>6, <1>7, <1>8 DEF Next, Process

\* A complete buffer is the whole version.
LEMMA CompleteIsWhole ==
  ASSUME NEW d \in Seq(Chunks), NEW v \in Versions, Complete(d, v) PROVE d = Abstract!Whole(v)
<1>1. Len(d) = Size[v] /\ \A i \in 1..Len(d) : d[i] = <<v, i>>
  BY DEF Complete, ChunksOf
<1>2. d = [i \in 1..Len(d) |-> d[i]]
  OBVIOUS
<1> QED
  BY <1>1, <1>2 DEF Abstract!Whole

\* What other programs write is no version of the source.
LEMMA AlienShown == ASSUME AllLarge PROVE Abstract!Alien(AlienData)
<1>1. AlienData[1] = <<Alien, 1>> /\ Len(AlienData) = ForeignLen /\ 1 \in 1..ForeignLen
  BY ConstantAssumption DEF AllLarge, AlienData
<1>2. Alien \notin Versions
  BY ConstantAssumption DEF Alien, Versions
<1> QED
  BY <1>1, <1>2 DEF Abstract!Alien

\* Nor is what the device has lost a chunk of.
LEMMA RottenShown ==
  ASSUME NEW d \in Seq(Chunks), NEW e \in Rotten(d) PROVE Abstract!Alien(e)
<1>1. PICK k \in 1..Len(d) : e = [d EXCEPT ![k] = <<Rot, k>>]
  BY DEF Rotten
<1>2. Len(e) = Len(d) /\ e[k] = <<Rot, k>>
  BY <1>1
<1>3. Rot \notin Versions
  BY ConstantAssumption DEF Rot, Versions
<1> QED
  BY <1>2, <1>3 DEF Abstract!Alien

\* The initial states show nothing, or bytes that are not the copy's.
LEMMA InitShows == ASSUME AllLarge, Init PROVE Abstract!Init
<1>1. CASE final = NoObj
  BY <1>1 DEF Abstract!Init, Shown
<1>2. CASE final # NoObj
  <2>1. final \in Ids /\ store[final] = AlienObject
    BY <1>2, ConstantAssumption DEF Init
  <2>2. Shown = AlienData
    BY <1>2, <2>1 DEF Shown, AlienObject
  <2> QED
    BY <2>2, AlienShown DEF Abstract!Init
<1> QED
  BY <1>1, <1>2

\* Every step publishes a whole version, is another's, or shows nothing new.
LEMMA StepShows ==
  ASSUME AllLarge, IInv, LargeInv, [Next]_vars
  PROVE  Abstract!Publish \/ Abstract!Interfere \/ UNCHANGED Shown
<1>1. store \in [Ids -> Objects] /\ final \in SomeId /\ NoObj \notin Ids
  BY ConstantAssumption DEF IInv, TypeOK, DestType
<1>2. FinalSame => UNCHANGED Shown
  BY DEF FinalSame, Shown
<1>3. CASE Rename
  <2>1. CASE final' = h /\ store' = store
    <3>1. /\ h \in Ids /\ store[h].data = buf /\ Complete(buf, snap)
          /\ snap \in Versions /\ buf \in Seq(Chunks)
      BY <1>3 DEF Rename, IInv, TypeOK, StreamedInv, BufInv, SourceInv, BufType
    <3>2. Shown' = buf
      BY <1>1, <2>1, <3>1 DEF Shown
    <3>3. Shown' = Abstract!Whole(snap)
      BY <3>1, <3>2, CompleteIsWhole
    <3> QED
      BY <3>1, <3>3 DEF Abstract!Publish
  <2>2. CASE UNCHANGED <<store, final>>
    BY <1>2, <2>2 DEF FinalSame
  <2> QED
    BY <1>3, <2>1, <2>2 DEF Rename
<1>4. CASE ForeignFinal
  <2>1. CASE final' = NoObj
    BY <2>1 DEF Shown, Abstract!Interfere
  <2>2. ASSUME NEW i \in Ids, NEW o, final' = i, store' = [store EXCEPT ![i] = o], o.data = AlienData
        PROVE  Abstract!Interfere
    <3>1. Shown' = AlienData
      BY <1>1, <2>2 DEF Shown
    <3> QED
      BY <3>1, AlienShown DEF Abstract!Interfere
  <2>3. \A b : [AlienObject EXCEPT !.own = b].data = AlienData
    BY DEF AlienObject
  <2>4. AlienObject.data = AlienData
    BY DEF AlienObject
  <2> QED
    BY <1>1, <1>4, <2>1, <2>2, <2>3, <2>4, FreshChosen DEF ForeignFinal
<1>5. CASE PowerLoss
  <2>1. ASSUME final' = final, final \in Ids, store'[final].data \in Rotten(store[final].data)
        PROVE  Abstract!Interfere
    <3>1. Shown' = store'[final].data
      BY <1>1, <2>1 DEF Shown
    <3>2. store[final].data \in Seq(Chunks)
      BY <1>1, <2>1, Fields
    <3> QED
      BY <2>1, <3>1, <3>2, RottenShown DEF Abstract!Interfere
  <2> QED
    BY <1>2, <1>5, <2>1, PowerShows
<1>6. ~CreateNew /\ ~Truncate /\ ~WriteChunk
  BY DEF CreateNew, Truncate, WriteChunk, LargeInv
<1>7. CASE UNCHANGED vars
  BY <1>2, <1>7 DEF vars, FinalSame
<1> QED
  BY <1>2, <1>3, <1>4, <1>5, <1>6, <1>7, SmallShows, LargeShows, RunShows, EnvironmentShows
  DEF Next, Process

\* Where every version is streamed, whoever looks at the final name sees what
\* was there before or one whole version, however the copy is interrupted.
THEOREM PublishedAtomically == ASSUME AllLarge PROVE Spec => AtomicPublication
<1>1. Init => Abstract!Init /\ LargeInv
  BY InitShows DEF Init, LargeInv
<1>2. IInv /\ LargeInv /\ [Next]_vars => LargeInv'
  BY LargeStep
<1>3. IInv /\ LargeInv /\ [Next]_vars => [Abstract!Publish \/ Abstract!Interfere]_Shown
  BY StepShows
<1> QED
  BY <1>1, <1>2, <1>3, Invariance, PTL DEF Spec, AtomicPublication, Abstract!Spec
=============================================================================
