----------------------------- MODULE AuditedRun -----------------------------
(***************************************************************************)
(* One bigcp process from its command line to its exit code: the           *)
(* confirmation of limitations and the preflight gates (cli main.rs,       *)
(* copy.rs), the destination mutex (lock.rs), the JSONL audit log with its *)
(* rollback, its one reopen and its failover (audit.rs), the report and    *)
(* its fallback (report.rs, artifact.rs), the final audit record, and the  *)
(* dashboard that waits for the run's result (tui lib.rs).                 *)
(*                                                                         *)
(* The copying itself is Coordinator's; here it is a step that emits       *)
(* events and ends with an exit code.  Successive processes may be given   *)
(* the same --log and --report paths.                                      *)
(***************************************************************************)
EXTENDS Naturals, Sequences, FiniteSets, SequencesExt

CONSTANTS MaxNotes,     \* bound: events other than run_start, run_end and report_fallback
          MaxFaults,    \* bound: failed calls of the operating system
          MaxRuns,      \* bound: processes started one after the other
          Displays,     \* display modes to choose from: "plain", "dashboard"
          None          \* absent value

ASSUME BoundsAssumption == {MaxNotes, MaxFaults} \subseteq Nat /\ MaxRuns \in Nat \ {0}
ASSUME DisplaysAssumption == Displays \subseteq {"plain", "dashboard"}

VARIABLES
    pc,         \* where the process stands
    run,        \* number of this process
    opts,       \* its command line: dry run or not
    pf,         \* preflight's facts: what limits the copy, what is accepted
    consent,    \* ghost: preflight returned with every limitation accepted and
                \* the run's files apart
    mutated,    \* ghost: the destination tree was changed by this run
    file,       \* lines of the primary and of the fallback log
    durable,    \* how many of them are synchronized
    base,       \* lines that were in the primary log before this run
    writer,     \* AuditWriter: current path and degraded flag
    em,         \* emit() in progress: its step, its line, what follows
    acked,      \* ghost: events whose emit() returned Ok
    report,     \* the report in memory
    art,        \* its AtomicArtifact: the path it is for and its progress
    disk,       \* published reports by path
    result,     \* what run_copy returned, on its way to main
    disp,       \* the thread that displays
    exit,       \* the process's exit code
    faults      \* failed calls so far

logVars  == <<file, durable, base, writer, em, acked>>
repVars  == <<report, art, disk>>
gateVars == <<opts, pf, consent, mutated>>
vars == <<pc, run, gateVars, logVars, repVars, result, disp, exit, faults>>

Limits == {"remote", "degraded"}
Paths  == {"primary", "fallback"}
Torn   == [kind |-> "torn", n |-> 0]
Notice == [kind |-> "notice", n |-> 0]

\* What a report says, and what a path can hold: the report of some run, forgotten
\* if that run was an earlier one.
Reports   == [exit : {0, 2, 3, 4, 6}, integrity : {"ok", "failed"},
              audit : {"ok", "degraded"}, log : Paths, path : Paths]
Published == [run : 1 .. MaxRuns, rep : Reports \cup {None}, whole : BOOLEAN]

ASSUME NoneAssumption == None \notin Nat \cup {"ok"} \cup Reports \cup Published

Idle    == [at |-> "idle", line |-> None, then |-> None]
NoFacts == [limits |-> {}, accepted |-> {}]

\* A call that can fail, and did.
Fault == faults < MaxFaults /\ faults' = faults + 1

\* An outcome of a call: ok, or (within the bound) a failure.
OrFault(ok) == IF ok THEN UNCHANGED faults ELSE Fault

\* The line of the next event; run_end also carries the report's verdicts.
Event(kind) == [kind |-> kind, n |-> Len(acked) + 1]
EndEvent == [kind |-> "run_end", n |-> Len(acked) + 1, exit |-> report.exit,
             audit |-> report.audit, integrity |-> report.integrity]

\* run_copy calls emit()? and continues at the given step.
Emit(line, next) ==
    /\ em' = [at |-> "first", line |-> line, then |-> next]
    /\ pc' = "emit"

\* run_copy continues without an event.
Goto(next) == pc' = next /\ UNCHANGED em

\* run_copy returns: the result goes to main or through the dashboard's channel,
\* and dropping Preflight releases the mutex.
Return(r) == pc' = "returned" /\ result' = r /\ em' = Idle

-----------------------------------------------------------------------------
(* The command line and preflight. *)

\* confirm_preflight_warnings: the CLI probes the paths lexically and may see
\* fewer limitations than preflight will; what it sees and the flags do not
\* accept must be accepted at the one prompt, or the process exits with 5.
\* A failed write of the notice exits with 6.
ConfirmWarnings ==
    /\ pc = "start"
    /\ \E seen \in SUBSET pf.limits, interactive, yes \in BOOLEAN :
         LET needed == IF opts.dry THEN {} ELSE seen \ pf.accepted IN
         \/ /\ needed = {} \/ (interactive /\ yes)
            /\ pf' = [pf EXCEPT !.accepted = @ \cup needed]
            /\ pc' = "lock"
            /\ UNCHANGED <<exit, faults>>
         \/ /\ needed # {} /\ ~(interactive /\ yes)
            /\ exit' = 5 /\ pc' = "exited"
            /\ UNCHANGED <<pf, faults>>
         \/ /\ seen # {} /\ Fault
            /\ exit' = 6 /\ pc' = "exited"
            /\ UNCHANGED pf
    /\ UNCHANGED <<run, opts, consent, mutated, logVars, repVars, result, disp>>

\* preflight: roots are pinned and compared, then the named mutex is created;
\* it may exist already, or the call may fail.
AcquireLock ==
    /\ pc = "lock"
    /\ \/ Goto("gates") /\ UNCHANGED <<result, faults>>
       \/ Fault /\ \E e \in {"locked", "io"} : Return(e)
    /\ UNCHANGED <<run, gateVars, file, durable, base, writer, acked,
                   repVars, disp, exit>>

\* Where the user puts the state directory, the log and the report, as resolved
\* paths; "s" and "d" are the source and the destination root.
Places == {<<"x">>, <<"y">>, <<"x", "journal">>, <<"x", "f">>, <<"s", "f">>, <<"d">>}
Layout == [state : Places, log : Places, report : Places]
Roots  == {<<"s">>, <<"d">>}
Journal(l) == Append(l.state, "journal")

\* is_same_or_descendant_with.
Under(path, ancestor) == IsPrefix(ancestor, path)

\* Mutant: the log or the report may be the journal.
LayoutOk_AnyJournal(l) ==
    /\ l.log # l.report
    /\ \A a \in {l.log, l.report} : ~Under(l.state, a)
    /\ \A p \in {l.state, l.log, l.report}, root \in Roots : ~Under(p, root)

\* validate_audit_layout and the loop of audit_paths.
LayoutOk(l) ==
    /\ l.log # l.report
    /\ \A a \in {l.log, l.report} : a # Journal(l) /\ ~Under(l.state, a)
    /\ \A p \in {l.state, l.log, l.report}, root \in Roots : ~Under(p, root)

\* Ghost: the files the run will write are different ones and outside both trees.
Apart(l) ==
    LET files == <<l.log, l.report, Journal(l), Append(l.state, "fallback log"),
                   Append(l.state, "fallback report")>>
    IN  /\ \A i, j \in DOMAIN files : i # j => files[i] # files[j]
        /\ \A i \in DOMAIN files, root \in Roots : ~Under(files[i], root)

\* preflight after the lock: audit paths and volumes, then the gates on what the
\* pinned roots really are; only then are missing components of the destination
\* root created.  Preflight's own facts are gone once it returns.
Gates ==
    LET pass == opts.dry \/ pf.limits \subseteq pf.accepted IN
    /\ pc = "gates"
    /\ \/ /\ \E l \in Layout : ~LayoutOk(l) \/ ~pass
          /\ Return("invalid")
          /\ UNCHANGED <<consent, mutated, faults>>
       \/ /\ \E l \in Layout : LayoutOk(l) /\ consent' = (pf.limits \subseteq pf.accepted /\ Apart(l))
          /\ pass
          /\ \E created \in BOOLEAN : mutated' = (created /\ ~opts.dry)
          /\ Goto("create") /\ UNCHANGED <<result, faults>>
       \/ Fault /\ Return("io") /\ UNCHANGED <<consent, mutated>>
    /\ pf' = NoFacts
    /\ UNCHANGED <<run, opts, file, durable, base, writer, acked,
                   repVars, disp, exit>>

\* AuditWriter::create opens the primary log without truncating it.
CreateWriter ==
    /\ pc = "create"
    /\ \/ Emit(Event("run_start"), "notes") /\ UNCHANGED <<result, faults>>
       \/ Fault /\ Return("io")
    /\ UNCHANGED <<run, gateVars, file, durable, base, writer, acked,
                   repVars, disp, exit>>

-----------------------------------------------------------------------------
(* AuditWriter::emit.  em.at names the call that comes next; "ok" and "err" *)
(* are its two results.                                                     *)

\* write_atomic_line: the line is appended; or nothing was written or the part
\* that was is truncated away, which is safe to retry; or that truncation fails
\* as well, with or without a fragment left behind.
AttemptThen(line, onOk, onBack, onTorn) ==
    \/ /\ file' = [file EXCEPT ![writer.path] = Append(@, line)]
       /\ em' = [em EXCEPT !.at = onOk]
       /\ UNCHANGED faults
    \/ /\ Fault
       /\ em' = [em EXCEPT !.at = onBack]
       /\ UNCHANGED file
    \/ /\ Fault
       /\ em' = [em EXCEPT !.at = onTorn]
       /\ \E left \in {<<>>, <<Torn>>} : file' = [file EXCEPT ![writer.path] = @ \o left]

\* Mutant: a failed truncation is taken for a successful one.
Attempt_Unchecked(line, onOk, onBack, onTorn) == AttemptThen(line, onOk, onBack, onBack)
Attempt(line, onOk, onBack, onTorn) == AttemptThen(line, onOk, onBack, onTorn)

\* A torn primary is abandoned, a torn fallback ends the run.
AfterTorn == IF writer.path = "fallback" THEN "err" ELSE "failover"

\* open_log: opening appends nothing.
Open(onOk, onFail) ==
    \E ok \in BOOLEAN :
        /\ OrFault(ok)
        /\ em' = [em EXCEPT !.at = IF ok THEN onOk ELSE onFail]

\* emit: the first attempt.
EmitFirst ==
    /\ pc = "emit" /\ em.at = "first"
    /\ Attempt(em.line, "ok", "reopen", AfterTorn)
    /\ UNCHANGED writer

\* reopen_and_retry: one reopen of the same path and one more attempt.
EmitReopen ==
    /\ pc = "emit"
    /\ \/ em.at = "reopen" /\ Open("retry", "failover") /\ UNCHANGED file
       \/ em.at = "retry" /\ Attempt(em.line, "ok", "failover", AfterTorn)
    /\ UNCHANGED writer

\* failover_and_retry: the fallback is opened and becomes the current log ...
FailoverMarking(mark) ==
    /\ pc = "emit" /\ em.at = "failover"
    /\ Open("notice", "err")
    /\ writer' = IF em'.at = "notice" THEN [path |-> "fallback", degraded |-> mark] ELSE writer
    /\ UNCHANGED file

\* Mutant: the switch is not recorded.
EmitFailover_Unmarked == FailoverMarking(FALSE)
EmitFailover == FailoverMarking(TRUE)

\* ... the notice of the switch is written, with one reopen if it was rolled back ...
EmitNotice ==
    /\ pc = "emit"
    /\ \/ em.at = "notice" /\ Attempt(Notice, "line", "notice_reopen", "err")
       \/ em.at = "notice_reopen" /\ Open("notice_retry", "err") /\ UNCHANGED file
       \/ em.at = "notice_retry" /\ Attempt(Notice, "line", "err", "err")
    /\ UNCHANGED writer

\* ... and the event itself follows it.
EmitAfterNotice ==
    /\ pc = "emit" /\ em.at = "line"
    /\ Attempt(em.line, "ok", "err", "err")
    /\ UNCHANGED writer

EmitStep ==
    /\ EmitFirst \/ EmitReopen \/ EmitFailover \/ EmitNotice \/ EmitAfterNotice
    /\ UNCHANGED <<pc, run, gateVars, durable, base, acked, repVars, result, disp, exit>>

\* emit returns to run_copy: Ok is an acknowledgement, Err ends the run.
EmitReturns ==
    /\ pc = "emit"
    /\ \/ /\ em.at = "ok"
          /\ acked' = Append(acked, em.line)
          /\ pc' = em.then /\ em' = Idle
          /\ UNCHANGED result
       \/ em.at = "err" /\ Return("audit") /\ UNCHANGED acked
    /\ UNCHANGED <<run, gateVars, file, durable, base, writer, repVars,
                   disp, exit, faults>>

-----------------------------------------------------------------------------
(* run_copy between the first event and the report. *)

\* An optional event: a warning, a statistic, the record of an object.
May == Len(acked) <= MaxNotes
Note(next) == May /\ Emit(Event("note"), next)

\* The part of the state no step of run_copy's body touches.
Frame == UNCHANGED <<run, opts, pf, consent, file, durable, base, writer,
                     acked, disp, exit, faults>>

\* The profile and the warnings of a remote, slow or degraded destination, then
\* the journal, whose failures are warnings too.
Announce ==
    /\ pc = "notes"
    /\ Note("notes") \/ Goto("copy")
    /\ UNCHANGED <<mutated, repVars, result>> /\ Frame

\* copy_tree: any number of events, or an error that no event could record.
CopyTree ==
    /\ pc = "copy"
    /\ \/ (Note("copy") \/ Goto("after")) /\ UNCHANGED result
       \/ \E e \in {"io", "invariant"} : Return(e)
    /\ mutated' = (mutated \/ ~opts.dry)
    /\ UNCHANGED repVars /\ Frame

\* The last statistic, verification and analysis.
AfterCopy ==
    /\ pc = "after"
    /\ Note("after") \/ Goto("reconcile")
    /\ UNCHANGED <<mutated, repVars, result>> /\ Frame

\* Counters that do not reconcile are a warning and exit code 6; otherwise
\* completed_exit tells the run's outcome.
Reconcile ==
    /\ pc = "reconcile"
    /\ \E x \in {0, 2, 3, 4, 6} :
         /\ report' = [exit |-> x, integrity |-> IF x = 6 THEN "failed" ELSE "ok",
                       audit |-> "ok", log |-> "primary", path |-> "primary"]
         /\ IF x = 6 THEN Note("journal_end") ELSE Goto("journal_end")
    /\ UNCHANGED <<mutated, art, disk, result>> /\ Frame

\* The journal's end marker and compaction; either failure is a warning.
EndJournal ==
    /\ pc = "journal_end"
    /\ (~opts.dry /\ Note("compose")) \/ Goto("compose")
    /\ UNCHANGED <<mutated, repVars, result>> /\ Frame

\* The report is composed with the log's present state.
Compose ==
    /\ pc = "compose"
    /\ report' = [report EXCEPT !.audit = IF writer.degraded THEN "degraded" ELSE "ok",
                                !.log = writer.path]
    /\ Goto("report")
    /\ UNCHANGED <<mutated, art, disk, result>> /\ Frame

-----------------------------------------------------------------------------
(* RunReport::write_atomic through an AtomicArtifact, and its fallback. *)

RepFrame == UNCHANGED <<run, gateVars, file, durable, base, writer, acked,
                        disp, exit>>

\* A failed primary report makes the run degraded and is announced; a failed
\* fallback report ends the run.
ReportFails ==
    /\ art' = "none"
    /\ \/ /\ pc = "report"
          /\ report' = [report EXCEPT !.audit = "degraded", !.path = "fallback"]
          /\ Emit(Event("report_fallback"), "refresh")
          /\ UNCHANGED result
       \/ pc = "report2" /\ Return("audit") /\ UNCHANGED report

\* The exclusive sibling is created, filled and flushed, then synchronized; a
\* failure closes it with its delete-on-close disposition.
FillReport ==
    /\ pc \in {"report", "report2"} /\ art \in {"none", "written"}
    /\ \/ /\ art' = IF art = "none" THEN "written" ELSE "synced"
          /\ Goto(pc) /\ UNCHANGED <<report, result, faults>>
       \/ Fault /\ ReportFails
    /\ UNCHANGED disk /\ RepFrame

\* publish_artifact: rename by handle over the final path.
PublishBefore(ready) ==
    /\ pc \in {"report", "report2"} /\ art \in ready
    /\ \/ /\ disk' = [disk EXCEPT ![report.path] =
                        [run |-> run, rep |-> report, whole |-> art = "synced"]]
          /\ art' = "named"
          /\ Goto(pc) /\ UNCHANGED <<report, result, faults>>
       \/ Fault /\ ReportFails /\ UNCHANGED disk
    /\ RepFrame

\* Mutant: the name is published before its contents are synchronized.
PublishReport_Early == PublishBefore({"written", "synced"})
PublishReport == PublishBefore({"synced"})

\* The second synchronization and the close: their failure is reported as a
\* failure of the whole although the name is already published.
SettleReport ==
    /\ pc \in {"report", "report2"} /\ art = "named"
    /\ \/ art' = "none" /\ Goto("run_end") /\ UNCHANGED <<report, result, faults>>
       \/ Fault /\ ReportFails
    /\ UNCHANGED disk /\ RepFrame

\* The announcement may itself have moved the log: the path is taken again.
RefreshTo(path) ==
    /\ pc = "refresh"
    /\ report' = [report EXCEPT !.log = path]
    /\ Goto("report2")
    /\ UNCHANGED <<mutated, art, disk, result>> /\ Frame

\* Mutant: the path captured before the announcement is kept.
RefreshLogPath_Stale == RefreshTo(report.log)
RefreshLogPath == RefreshTo(writer.path)

-----------------------------------------------------------------------------
(* The terminal record, its synchronization and the return to main. *)

RunEnd ==
    /\ pc = "run_end"
    /\ Emit(EndEvent, "finish")
    /\ UNCHANGED <<mutated, repVars, result>> /\ Frame

\* AuditWriter::finish synchronizes the current log only.
FinishWith(ok) ==
    /\ OrFault(ok)
    /\ durable' = [durable EXCEPT ![writer.path] = IF ok THEN Len(file[writer.path]) ELSE @]
    /\ Return(IF ~ok THEN "io" ELSE IF report.integrity = "failed" THEN "invariant" ELSE "ok")

\* Mutant: a failed synchronization is ignored.
Finish_Ignores ==
    /\ pc = "finish"
    /\ \/ FinishWith(TRUE)
       \/ Fault /\ Return("ok") /\ UNCHANGED durable
    /\ UNCHANGED <<run, gateVars, file, base, writer, acked, repVars, disp, exit>>
Finish ==
    /\ pc = "finish"
    /\ \E ok \in BOOLEAN : FinishWith(ok)
    /\ UNCHANGED <<run, gateVars, file, base, writer, acked, repVars, disp, exit>>

MainFrame == UNCHANGED <<run, gateVars, logVars, repVars, result>>

\* Without a dashboard run_copy is an ordinary call.
PlainReturns ==
    /\ pc = "returned" /\ disp = "plain"
    /\ pc' = "main"
    /\ UNCHANGED <<disp, exit, faults>> /\ MainFrame

\* dashboard_loop finds the result in the channel and takes it, then draws one
\* last time before it returns it.
LoopTakes ==
    /\ pc = "returned" /\ disp = "loop"
    /\ pc' = "taken"
    /\ UNCHANGED <<disp, exit, faults>> /\ MainFrame
LoopReturns ==
    /\ pc = "taken" /\ disp = "loop"
    /\ \/ pc' = "main" /\ UNCHANGED <<disp, faults>>
       \/ Fault /\ disp' = "broken" /\ UNCHANGED pc
    /\ UNCHANGED exit /\ MainFrame

\* A terminal that fails earlier leaves the copy running ...
LoopFails ==
    /\ disp = "loop" /\ pc \notin {"start", "taken", "main", "exited", "killed"}
    /\ Fault /\ disp' = "broken"
    /\ UNCHANGED <<pc, exit>> /\ MainFrame

\* Mutant: the receiver is given up with the failed loop.
BrokenReceives_Disconnect == FALSE /\ UNCHANGED vars

\* ... and the result is then received by a blocking recv.  The sender lives in
\* the same frame, so an empty channel is never disconnected.
BrokenReceives ==
    /\ pc = "returned" /\ disp = "broken"
    /\ pc' = "main"
    /\ UNCHANGED <<disp, exit, faults>> /\ MainFrame

\* exit_for_error.
ErrorCode(e) == IF e \in {"locked", "invalid", "io"} THEN 5 ELSE 6

\* execute prints the summary and exits with the report's code.
PrintSummary ==
    /\ pc = "main" /\ result = "ok"
    /\ pc' = "exited"
    /\ \/ exit' = report.exit /\ UNCHANGED faults
       \/ Fault /\ exit' = 6
    /\ UNCHANGED disp /\ MainFrame

\* An error is printed and decides the code itself.
ExitWithError ==
    /\ pc = "main" /\ result # "ok"
    /\ pc' = "exited"
    /\ exit' = ErrorCode(result)
    /\ UNCHANGED <<disp, faults>> /\ MainFrame

-----------------------------------------------------------------------------
(* The environment. *)

Gone == {"exited", "killed"}

\* The process is killed (also by a second Ctrl+C), in the middle of a line perhaps.
Kill ==
    /\ pc \notin Gone
    /\ pc' = "killed"
    /\ \E left \in {<<>>} \cup IF em.at \in {"first", "retry", "notice", "notice_retry", "line"}
                               THEN {<<Torn>>} ELSE {} :
         file' = [file EXCEPT ![writer.path] = @ \o left]
    /\ UNCHANGED <<run, gateVars, durable, base, writer, em, acked, repVars,
                   result, disp, exit, faults>>

\* The torn lines among some lines.
TornOf(lines) == [i \in 1 .. Cardinality({j \in DOMAIN lines : lines[j] = Torn}) |-> Torn]

\* The same command again, with the same --log and --report; one with fresh default
\* names starts like the first.  Of what it finds only a torn tail and a whole
\* report matter, so the lines and the contents are forgotten.
Rerun ==
    /\ pc \in Gone /\ run < MaxRuns
    /\ run' = run + 1
    /\ pc' = "start"
    /\ pf' \in [limits : SUBSET Limits, accepted : SUBSET Limits]
    /\ disp' = IF disp = "plain" THEN "plain" ELSE "loop"
    /\ file' = [primary |-> TornOf(file.primary), fallback |-> <<>>]
    /\ durable' = [primary |-> 0, fallback |-> 0]
    /\ disk' = [primary |-> IF disk.primary = None THEN None ELSE [disk.primary EXCEPT !.rep = None],
                fallback |-> None]
    /\ consent' = FALSE /\ mutated' = FALSE
    /\ base' = Len(file'.primary) /\ writer' = [path |-> "primary", degraded |-> FALSE]
    /\ em' = Idle /\ acked' = <<>> /\ report' = None /\ art' = "none"
    /\ result' = None /\ exit' = None
    /\ UNCHANGED <<opts, faults>>

Init ==
    /\ pc = "start" /\ run = 1
    /\ opts \in [dry : BOOLEAN]
    /\ pf \in [limits : SUBSET Limits, accepted : SUBSET Limits]
    /\ disp \in {IF d = "plain" THEN "plain" ELSE "loop" : d \in Displays}
    /\ consent = FALSE /\ mutated = FALSE
    /\ file = [p \in Paths |-> <<>>] /\ durable = [p \in Paths |-> 0] /\ base = 0
    /\ writer = [path |-> "primary", degraded |-> FALSE]
    /\ em = Idle /\ acked = <<>> /\ report = None /\ art = "none"
    /\ disk = [p \in Paths |-> None]
    /\ result = None /\ exit = None /\ faults = 0

\* Steps of the process itself.
Process ==
    \/ ConfirmWarnings \/ AcquireLock \/ Gates \/ CreateWriter
    \/ EmitStep \/ EmitReturns
    \/ Announce \/ CopyTree \/ AfterCopy \/ Reconcile \/ EndJournal \/ Compose
    \/ FillReport \/ PublishReport \/ SettleReport \/ RefreshLogPath
    \/ RunEnd \/ Finish
    \/ PlainReturns \/ LoopTakes \/ LoopReturns \/ BrokenReceives \/ PrintSummary \/ ExitWithError

Next == Process \/ LoopFails \/ Kill \/ Rerun

Spec == Init /\ [][Next]_vars

\* The process keeps running: each thread executes its next statement.
FairSpec == Spec /\ WF_vars(Process)

-----------------------------------------------------------------------------
(* Properties. *)

Steps == {"start", "lock", "gates", "create", "emit", "notes", "copy", "after", "reconcile",
          "journal_end", "compose", "report", "refresh", "report2", "run_end", "finish",
          "returned", "taken", "main"} \cup Gone

\* Type invariant.
TypeOK ==
    /\ pc \in Steps /\ run \in 1 .. MaxRuns /\ faults \in 0 .. MaxFaults
    /\ pf.limits \subseteq Limits /\ pf.accepted \subseteq Limits
    /\ {consent, mutated, opts.dry} \subseteq BOOLEAN
    /\ disp \in {"plain", "loop", "broken"}
    /\ writer.path \in Paths /\ writer.degraded = (writer.path = "fallback")
    /\ \A p \in Paths : durable[p] <= Len(file[p])
    /\ base <= Len(file.primary)
    /\ (pc = "emit") => em.at # "idle"
    /\ art \in {"none", "written", "synced", "named"}
    /\ exit \in {None, 0, 2, 3, 4, 5, 6}

\* This run's lines, primary log first.
Written == SubSeq(file.primary, base + 1, Len(file.primary)) \o file.fallback

\* The events among some lines.
EventsOf(lines) ==
    LET upTo[i \in 0 .. Len(lines)] ==
          IF i = 0 THEN <<>>
          ELSE IF lines[i] \in {Torn, Notice} THEN upTo[i - 1]
          ELSE Append(upTo[i - 1], lines[i])
    IN  upTo[Len(lines)]
Events == EventsOf(Written)

\* The log is lossless (audit.rs:189, DESIGN.md:120): whatever mixture of torn
\* writes, rollbacks, reopens, failovers and kills the run met, its events are in
\* the two files once each and in the order in which emit() acknowledged them,
\* with at most the event in flight besides; and no line follows a torn one in
\* its file.
LogIsLossless ==
    /\ Events \in {acked} \cup (IF em.at = "idle" THEN {} ELSE {Append(acked, em.line)})
    /\ \A p \in Paths : \A i \in 1 .. Len(file[p]) - 1 :
         file[p][i] = Torn => p = "primary" /\ i <= base

RunEnded == \E i \in DOMAIN Events : Events[i].kind = "run_end"

\* run_end is the last event, and what it says was published before it
\* (copy.rs:550-589, DESIGN.md:122-125): the report at the path the summary names
\* is this run's, whole, and agrees with it on exit code, audit status and
\* integrity.  The report's audit status and log path are out of date only
\* if run_end itself moved the log.
EndIsTerminal ==
    RunEnded =>
      LET end == Last(Events)
          on == disk[report.path]
      IN  /\ end.kind = "run_end"
          /\ on # None /\ on.run = run /\ on.whole /\ on.rep = report
          /\ <<end.exit, end.audit, end.integrity>>
               = <<report.exit, report.audit, report.integrity>>
          /\ (report.log # writer.path \/ (report.audit = "ok" /\ writer.degraded))
               => EventsOf(file.fallback) = <<end>>

\* A published report is never a fragment (artifact.rs, DESIGN.md:113-115): its
\* contents are synchronized before its name appears, so neither a kill nor a
\* power loss shows a reader half of one; and a run that did not get to publish
\* leaves an earlier run's report alone.
ReportsAreWhole ==
    \A p \in Paths : disk[p] # None =>
        /\ disk[p].whole
        /\ disk[p].run < run => p = "primary"

\* The exit codes 0, 2, 3 and 4 are the report's (README "Exit codes"): the process
\* only uses them when the run_end record with the same code is synchronized in
\* the log and the report with the same code is published, with its counters
\* reconciled.
ExitIsTrue ==
    exit \in {0, 2, 3, 4} =>
        /\ RunEnded /\ Last(Events).exit = exit
        /\ durable[writer.path] = Len(file[writer.path])
        /\ disk[report.path].rep.exit = exit /\ report.integrity = "ok"

\* The destination is changed, and a log is written, only by a run whose log,
\* report, journal and fallbacks are different files outside both trees and that
\* had every limitation the pinned roots show accepted, also those the CLI's probe
\* missed; a dry run changes nothing (main.rs:463-468, copy.rs:3490-3511).
ChangesOnlyWithLeave ==
    /\ mutated => consent /\ ~opts.dry
    /\ Written # <<>> /\ ~opts.dry => consent

\* Every process ends (README "Exit codes"), except for one whose last draw fails
\* after dashboard_loop has already taken the result out of the channel.
Ends == []<>(pc \in Gone \/ (pc = "taken" /\ disp = "broken"))

\* A dashboard that fails does not lose the run (tui lib.rs:169-184): the result
\* still arrives and the process ends.
AlwaysEnds == []<>(pc \in Gone)
=============================================================================
