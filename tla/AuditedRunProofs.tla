-------------------------- MODULE AuditedRunProofs --------------------------
(***************************************************************************)
(* Theorems about AuditedRun, for every number of events, failed calls and *)
(* successive processes.  IInv is the inductive invariant; each action     *)
(* preserves it by a lemma of its own, and the properties follow.          *)
(***************************************************************************)
EXTENDS AuditedRun, Induction, SequenceTheorems, FiniteSetTheorems, TLAPS

\* Lines of a log; the events among them.
Marks  == {Torn, Notice}
Plain  == [kind : {"run_start", "note", "report_fallback"}, n : Nat]
Finals == [kind : {"run_end"}, n : Nat, exit : {0, 2, 3, 4, 6},
           audit : {"ok", "degraded"}, integrity : {"ok", "failed"}]
Lines  == Plain \cup Finals \cup Marks

\* Where run_copy will go on: after the emit() in progress, or at once.
Phase == IF em.at = "idle" THEN pc ELSE em.then

Before   == {"start", "lock", "gates", "create"}
Dead     == {"returned", "taken", "main", "exited", "killed"}
Reported == {"journal_end", "compose", "report", "refresh", "report2", "run_end", "finish"}
Resumes  == {"notes", "copy", "after", "journal_end", "compose", "refresh", "finish"}
EmSteps  == {"idle", "first", "reopen", "retry", "failover", "notice", "notice_reopen",
             "notice_retry", "line", "ok", "err"}

Types ==
    /\ pc \in Steps /\ run \in 1 .. MaxRuns /\ faults \in 0 .. MaxFaults
    /\ opts \in [dry : BOOLEAN] /\ pf \in [limits : SUBSET Limits, accepted : SUBSET Limits]
    /\ consent \in BOOLEAN /\ mutated \in BOOLEAN
    /\ file \in [Paths -> Seq(Lines)] /\ durable \in [Paths -> Nat] /\ base \in Nat
    /\ writer \in [path : Paths, degraded : BOOLEAN]
    /\ em \in [at : EmSteps, line : Lines \cup {None}, then : Resumes \cup {None}]
    /\ acked \in Seq(Lines)
    /\ report \in Reports \cup {None} /\ art \in {"none", "written", "synced", "named"}
    /\ disk \in [Paths -> Published \cup {None}]
    /\ result \in {None, "ok", "locked", "io", "invalid", "invariant", "audit"}
    /\ disp \in {"plain", "loop", "broken"} /\ exit \in {None, 0, 2, 3, 4, 5, 6}

\* emit() in progress: it has an event, and run_end alone leads to finish.
EmitInv ==
    /\ (pc = "emit") => em.at # "idle"
    /\ (em.at # "idle") => /\ pc \in {"emit", "killed"}
                           /\ em.line \in Plain \cup Finals /\ em.then \in Resumes
                           /\ em.line \in Finals <=> em.then = "finish"

\* The events in the files are those acknowledged, and the one just written.
LogInv ==
    /\ base <= Len(file["primary"])
    /\ \A p \in Paths : durable[p] <= Len(file[p])
    /\ writer.degraded = (writer.path = "fallback")
    /\ (writer.path = "primary") => file["fallback"] = <<>>
    /\ Events = IF em.at = "ok" THEN Append(acked, em.line) ELSE acked

\* A torn line is an earlier run's, or the last one of a file nothing will be
\* written to again.
TornInv ==
    \A p \in Paths : \A i \in 1 .. Len(file[p]) : file[p][i] = Torn =>
        \/ p = "primary" /\ i <= base
        \/ /\ i = Len(file[p])
           /\ \/ em.at = "err" \/ pc \in Dead
              \/ p = "primary" /\ (writer.path = "fallback" \/ em.at = "failover")

\* Nothing is written or changed before preflight has given its leave.
LeaveInv ==
    /\ (pc \in Before) => /\ em.at = "idle" /\ acked = <<>>
                          /\ Len(file["primary"]) = base /\ file["fallback"] = <<>>
    /\ mutated => consent /\ ~opts.dry
    /\ (Phase \notin {"start", "lock", "gates"} \cup Dead \/ Written # <<>>) /\ ~opts.dry => consent

\* The report agrees with the log while it is published.
ReportInv ==
    /\ (Phase \in Reported) => report \in Reports
    /\ (report # None) => /\ (report.integrity = "failed") <=> (report.exit = 6)
                          /\ (report.log = "fallback") => writer.path = "fallback"
    /\ (Phase \in {"report", "report2", "run_end"}) =>
          report.log = writer.path /\ (report.audit = "ok" => ~writer.degraded)
    /\ (Phase \in {"refresh", "report2"}) => report.audit = "degraded"
    /\ (art # "none") => pc \in {"report", "report2", "killed"}
    /\ \A p \in Paths : disk[p] # None =>
          disk[p].whole /\ disk[p].run <= run /\ (disk[p].run < run => p = "primary")

OnDisk == disk[report.path] = [run |-> run, rep |-> report, whole |-> TRUE]
EndedBy(e) == /\ e \in Finals /\ e.exit = report.exit
              /\ e.audit = report.audit /\ e.integrity = report.integrity
Acked == acked # <<>> /\ acked[Len(acked)] \in Finals
Moved == report.log # writer.path \/ (report.audit = "ok" /\ writer.degraded)

\* The terminal record: it is the last, and repeats the published report.
EndInv ==
    /\ \A i \in 1 .. Len(acked) : acked[i] \in Finals =>
          i = Len(acked) /\ EndedBy(acked[i]) /\ em.at = "idle" /\ pc \in {"finish"} \cup Dead
    /\ (em.at # "idle" /\ em.then = "finish") => EndedBy(em.line)
    /\ (pc = "finish") => Acked
    /\ (Phase \in {"report", "report2"} /\ art = "named") => OnDisk
    /\ (Phase = "run_end") => OnDisk
    /\ (Phase = "finish" \/ Acked) => /\ report \in Reports /\ OnDisk
                                      /\ Moved => EventsOf(file["fallback"]) =
                                           IF em.at = "idle" THEN <<acked[Len(acked)]>>
                                           ELSE IF em.at = "ok" THEN <<em.line>> ELSE <<>>

\* The result and the exit code.
ResultInv ==
    /\ (result # None) => pc \in Dead
    /\ (result = "ok") => /\ em.at = "idle" /\ Acked /\ report.integrity = "ok"
                          /\ durable[writer.path] = Len(file[writer.path])
    /\ (exit # None) => pc \in Gone
    /\ (exit \in {0, 2, 3, 4}) => result = "ok" /\ exit = report.exit

IInv == /\ Types /\ EmitInv /\ LogInv /\ TornInv /\ LeaveInv /\ ReportInv /\ EndInv /\ ResultInv

-----------------------------------------------------------------------------
(* EventsOf is a recursive function: it exists, and is what its equation says. *)

Fill(s, n, f) == [i \in 0 .. n |-> IF i = 0 THEN <<>>
                                   ELSE IF s[i] \in Marks THEN f[i - 1]
                                   ELSE Append(f[i - 1], s[i])]

\* The recursion of EventsOf has a solution on every prefix.
LEMMA FillExists ==
  ASSUME NEW s, NEW n \in Nat
  PROVE  \E f : f = Fill(s, n, f)
<1> DEFINE T == {k \in Nat : \E f : f = Fill(s, k, f)}
<1>1. 0 \in T
  <2> DEFINE f == [i \in 0 .. 0 |-> <<>>]
  <2>1. f = Fill(s, 0, f)
    BY DEF Fill
  <2> QED BY <2>1
<1>2. ASSUME NEW k \in T PROVE k + 1 \in T
  <2>1. PICK f : f = Fill(s, k, f)
    OBVIOUS
  <2> DEFINE next == IF s[k + 1] \in Marks THEN f[k] ELSE Append(f[k], s[k + 1])
             g == [i \in 0 .. k + 1 |-> IF i = k + 1 THEN next ELSE f[i]]
  <2>2. \A i \in 0 .. k : f[i] = IF i = 0 THEN <<>>
                                 ELSE IF s[i] \in Marks THEN f[i - 1]
                                 ELSE Append(f[i - 1], s[i])
    BY <2>1 DEF Fill
  <2>3. \A i \in 0 .. k + 1 : g[i] = IF i = 0 THEN <<>>
                                     ELSE IF s[i] \in Marks THEN g[i - 1]
                                     ELSE Append(g[i - 1], s[i])
    <3> TAKE i \in 0 .. k + 1
    <3>1. CASE i = k + 1
      <4>1. g[i - 1] = f[k] /\ g[i] = next /\ i # 0
        BY <3>1
      <4> QED BY <4>1, <3>1
    <3>2. CASE i # k + 1
      <4>1. i \in 0 .. k /\ g[i] = f[i] /\ (i # 0 => g[i - 1] = f[i - 1])
        BY <3>2
      <4> QED BY <4>1, <2>2
    <3> QED BY <3>1, <3>2
  <2> HIDE DEF next
  <2>4. g = Fill(s, k + 1, g)
    <3>1. g = [i \in 0 .. k + 1 |-> g[i]]
      OBVIOUS
    <3> HIDE DEF g
    <3> QED BY <3>1, <2>3 DEF Fill
  <2> QED BY <2>4
<1>3. T = Nat
  <2> HIDE DEF T
  <2>1. T \in SUBSET Nat
    BY DEF T
  <2> QED BY <1>1, <1>2, <2>1, Induct
<1> QED BY <1>3

\* EventsOf is the last value of a solution.
LEMMA EventsFill ==
  ASSUME NEW s, Len(s) \in Nat
  PROVE  \E f : f = Fill(s, Len(s), f) /\ EventsOf(s) = f[Len(s)]
<1> DEFINE f == CHOOSE g : g = Fill(s, Len(s), g)
<1>1. f = Fill(s, Len(s), f)
  BY FillExists
<1>2. EventsOf(s) = f[Len(s)]
  BY DEF EventsOf, Fill, Marks
<1> QED BY <1>1, <1>2

\* Two solutions for sequences with a common prefix agree on it.
LEMMA FillAgrees ==
  ASSUME NEW s, NEW t, NEW m \in Nat, NEW n \in Nat, m <= n,
         \A i \in 1 .. m : s[i] = t[i],
         NEW f, NEW g, f = Fill(s, m, f), g = Fill(t, n, g)
  PROVE  f[m] = g[m]
<1> DEFINE T == {k \in Nat : k <= m => f[k] = g[k]}
<1>1. 0 \in T
  <2>1. f[0] = <<>> /\ g[0] = <<>>
    BY DEF Fill
  <2> QED BY <2>1
<1>2. ASSUME NEW k \in T PROVE k + 1 \in T
  <2> SUFFICES ASSUME k + 1 <= m PROVE f[k + 1] = g[k + 1]
    OBVIOUS
  <2>1. f[k] = g[k] /\ s[k + 1] = t[k + 1]
    OBVIOUS
  <2>2. f[k + 1] = IF s[k + 1] \in Marks THEN f[k] ELSE Append(f[k], s[k + 1])
    <3>1. k + 1 \in 0 .. m /\ k + 1 # 0 /\ (k + 1) - 1 = k
      OBVIOUS
    <3> QED BY <3>1 DEF Fill
  <2>3. g[k + 1] = IF t[k + 1] \in Marks THEN g[k] ELSE Append(g[k], t[k + 1])
    <3>1. k + 1 \in 0 .. n /\ k + 1 # 0 /\ (k + 1) - 1 = k
      OBVIOUS
    <3> QED BY <3>1 DEF Fill
  <2> QED BY <2>1, <2>2, <2>3
<1>3. T = Nat
  <2> HIDE DEF T
  <2>1. T \in SUBSET Nat
    BY DEF T
  <2> QED BY <1>1, <1>2, <2>1, Induct
<1> QED BY <1>3

\* An empty log has no events.
LEMMA EventsNone == EventsOf(<<>>) = <<>>
<1>1. PICK f : f = Fill(<<>>, 0, f) /\ EventsOf(<<>>) = f[0]
  BY EventsFill
<1>2. f[0] = <<>>
  BY <1>1 DEF Fill
<1> QED BY <1>1, <1>2

\* One more line is one more event, unless it is a torn one or a notice.
LEMMA EventsAppend ==
  ASSUME NEW S, NEW s \in Seq(S), NEW e \in S
  PROVE  EventsOf(Append(s, e)) = IF e \in Marks THEN EventsOf(s) ELSE Append(EventsOf(s), e)
<1> DEFINE t == Append(s, e)
           n == Len(s)
<1>1. Len(t) = n + 1 /\ n \in Nat /\ t[n + 1] = e /\ \A i \in 1 .. n : t[i] = s[i]
  BY AppendProperties
<1> HIDE DEF t, n
<1>2. PICK f : f = Fill(s, n, f) /\ EventsOf(s) = f[n]
  BY <1>1, EventsFill DEF n
<1>3. PICK g : g = Fill(t, n + 1, g) /\ EventsOf(t) = g[n + 1]
  BY <1>1, EventsFill
<1>4. f[n] = g[n]
  BY <1>1, <1>2, <1>3, FillAgrees
<1>5. g[n + 1] = IF t[n + 1] \in Marks THEN g[n] ELSE Append(g[n], t[n + 1])
  <2>1. n + 1 \in 0 .. n + 1 /\ n + 1 # 0 /\ (n + 1) - 1 = n
    BY <1>1
  <2> QED BY <1>3, <2>1 DEF Fill
<1> QED BY <1>1, <1>2, <1>3, <1>4, <1>5 DEF t

-----------------------------------------------------------------------------
(* The files. *)

\* The files are sequences of lines.
LEMMA Files ==
  ASSUME Types
  PROVE  /\ file["primary"] \in Seq(Lines) /\ file["fallback"] \in Seq(Lines)
         /\ \A p \in Paths : Len(file[p]) \in Nat
         /\ DOMAIN file = Paths
<1> QED BY DEF Types, Paths

\* What this run wrote is a sequence of lines.
LEMMA WrittenType ==
  ASSUME Types, base <= Len(file["primary"])
  PROVE  Written \in Seq(Lines)
<1>1. SubSeq(file["primary"], base + 1, Len(file["primary"])) \in Seq(Lines)
  BY Files, SubSeqProperties DEF Types
<1> QED BY <1>1, Files, ConcatProperties DEF Written

\* Dropping the first lines and adding one commute.
LEMMA Cut ==
  ASSUME NEW s \in Seq(Lines), NEW l \in Lines, NEW b \in Nat, b <= Len(s)
  PROVE  SubSeq(Append(s, l), b + 1, Len(Append(s, l))) = Append(SubSeq(s, b + 1, Len(s)), l)
<1> DEFINE t == Append(s, l)
           u == SubSeq(s, b + 1, Len(s))
           x == SubSeq(t, b + 1, Len(t))
           y == Append(u, l)
<1>1. t \in Seq(Lines) /\ Len(t) = Len(s) + 1 /\ t[Len(s) + 1] = l
      /\ \A i \in 1 .. Len(s) : t[i] = s[i]
  BY AppendProperties
<1>2. u \in Seq(Lines) /\ Len(u) = Len(s) - b /\ \A i \in 1 .. Len(u) : u[i] = s[b + i]
  BY SubSeqProperties
<1>3. y \in Seq(Lines) /\ Len(y) = Len(u) + 1 /\ y[Len(u) + 1] = l
      /\ \A i \in 1 .. Len(u) : y[i] = u[i]
  <2> HIDE DEF u
  <2> QED BY <1>2, AppendProperties
<1>4. x \in Seq(Lines) /\ Len(x) = Len(t) - b /\ \A i \in 1 .. Len(x) : x[i] = t[b + i]
  <2> HIDE DEF t
  <2> QED BY <1>1, SubSeqProperties
<1> HIDE DEF t, u, x, y
<1>5. Len(x) = Len(y) /\ Len(s) \in Nat
  BY <1>1, <1>2, <1>3, <1>4
<1>6. ASSUME NEW i \in 1 .. Len(x) PROVE x[i] = y[i]
  <2>1. CASE i \in 1 .. Len(u)
    <3>1. b + i \in 1 .. Len(s)
      BY <2>1, <1>2, <1>5
    <3> QED BY <3>1, <2>1, <1>1, <1>2, <1>3, <1>4
  <2>2. CASE i = Len(u) + 1
    <3>1. b + i = Len(s) + 1
      BY <2>2, <1>2, <1>5
    <3> QED BY <3>1, <2>2, <1>1, <1>3, <1>4
  <2> QED BY <2>1, <2>2, <1>5, <1>3, <1>2
<1>7. x = y
  BY <1>3, <1>4, <1>5, <1>6, SeqEqual
<1> QED BY <1>7 DEF x, y, t, u

\* A line written to the current log is the last one this run wrote.
LEMMA Grown ==
  ASSUME Types, LogInv, NEW l \in Lines, file' = [file EXCEPT ![writer.path] = Append(@, l)],
         base' = base
  PROVE  /\ file' \in [Paths -> Seq(Lines)]
         /\ \A p \in Paths \ {writer.path} : file'[p] = file[p]
         /\ Len(file'[writer.path]) = Len(file[writer.path]) + 1
         /\ file'[writer.path][Len(file[writer.path]) + 1] = l
         /\ \A i \in 1 .. Len(file[writer.path]) : file'[writer.path][i] = file[writer.path][i]
         /\ Written' = Append(Written, l)
         /\ Events' = IF l \in Marks THEN Events ELSE Append(Events, l)
         /\ EventsOf(file["fallback"])' =
              IF writer.path = "primary" \/ l \in Marks THEN EventsOf(file["fallback"])
              ELSE Append(EventsOf(file["fallback"]), l)
<1> DEFINE w == writer.path
<1>0. w \in Paths
  BY DEF Types
<1>1. file[w] \in Seq(Lines)
  BY <1>0, Files DEF Paths
<1>2. file'[w] = Append(file[w], l) /\ \A p \in Paths \ {w} : file'[p] = file[p]
  BY <1>0, Files
<1>3. /\ Append(file[w], l) \in Seq(Lines) /\ Len(Append(file[w], l)) = Len(file[w]) + 1
      /\ Append(file[w], l)[Len(file[w]) + 1] = l
      /\ \A i \in 1 .. Len(file[w]) : Append(file[w], l)[i] = file[w][i]
  BY <1>1, AppendProperties
<1>4. file' \in [Paths -> Seq(Lines)]
  <2>1. \A p \in Paths : file'[p] \in Seq(Lines)
    BY <1>2, <1>3, Files DEF Paths
  <2>2. file' = [p \in Paths |-> file'[p]]
    BY Files
  <2> QED BY <2>1, <2>2
<1>5. Written' = Append(Written, l)
  <2>1. CASE w = "primary"
    <3> DEFINE s == file["primary"]
    <3>1. file["fallback"] = <<>> /\ file'["fallback"] = <<>> /\ file'["primary"] = Append(s, l)
      BY <2>1, <1>2, <1>3 DEF LogInv, Paths
    <3>2. s \in Seq(Lines) /\ base \in Nat /\ base <= Len(s)
      BY Files DEF Types, LogInv
    <3> HIDE DEF s
    <3>4. SubSeq(s, base + 1, Len(s)) \in Seq(Lines)
      BY <3>2, SubSeqProperties
    <3>5. Append(SubSeq(s, base + 1, Len(s)), l) \in Seq(Lines)
      BY <3>4, AppendProperties
    <3>3. SubSeq(Append(s, l), base + 1, Len(Append(s, l))) = Append(SubSeq(s, base + 1, Len(s)), l)
      BY <3>2, Cut
    <3>6. \A t \in Seq(Lines) : t \o <<>> = t
      BY ConcatEmptySeq
    <3> QED BY <3>1, <3>3, <3>4, <3>5, <3>6 DEF Written, s
  <2>2. CASE w = "fallback"
    <3> DEFINE a == SubSeq(file["primary"], base + 1, Len(file["primary"]))
               b == file["fallback"]
    <3>1. a \in Seq(Lines) /\ b \in Seq(Lines)
      BY Files, SubSeqProperties DEF Types, LogInv
    <3>2. a' = a /\ b' = Append(b, l)
      BY <2>2, <1>2 DEF Paths
    <3>3. Written = a \o b /\ Written' = a' \o b'
      BY DEF Written
    <3> HIDE DEF a, b
    <3>4. a \o Append(b, l) = Append(a \o b, l)
      BY <3>1
    <3> QED BY <3>2, <3>3, <3>4
  <2> QED BY <2>1, <2>2, <1>0 DEF Paths
<1>6. Events' = IF l \in Marks THEN Events ELSE Append(Events, l)
  <2>1. Written \in Seq(Lines)
    BY WrittenType DEF LogInv
  <2> QED BY <2>1, <1>5, EventsAppend DEF Events
<1>7. EventsOf(file["fallback"])' = IF w = "primary" \/ l \in Marks THEN EventsOf(file["fallback"])
                                    ELSE Append(EventsOf(file["fallback"]), l)
  <2>1. CASE w = "primary"
    BY <2>1, <1>2 DEF Paths
  <2>2. CASE w = "fallback"
    <3>1. EventsOf(Append(file["fallback"], l))
            = IF l \in Marks THEN EventsOf(file["fallback"])
              ELSE Append(EventsOf(file["fallback"]), l)
      BY Files, EventsAppend
    <3>2. file'["fallback"] = Append(file["fallback"], l)
      BY <2>2, <1>2
    <3> QED BY <3>1, <3>2, <2>2
  <2> QED BY <2>1, <2>2, <1>0 DEF Paths
<1> QED BY <1>2, <1>3, <1>4, <1>5, <1>6, <1>7

\* Nothing left behind by a torn write changes nothing; a fragment is one torn line.
LEMMA Fragment ==
  ASSUME Types, NEW left \in {<<>>, <<Torn>>}, file' = [file EXCEPT ![writer.path] = @ \o left]
  PROVE  \/ file' = file
         \/ file' = [file EXCEPT ![writer.path] = Append(@, Torn)]
<1>0. writer.path \in Paths
  BY DEF Types
<1>1. file[writer.path] \in Seq(Lines)
  BY <1>0, Files DEF Paths
<1>2. CASE left = <<>>
  <2>1. file[writer.path] \o <<>> = file[writer.path]
    BY <1>1, ConcatEmptySeq
  <2>2. file = [file EXCEPT ![writer.path] = file[writer.path]]
    BY <1>0 DEF Types
  <2> QED BY <2>1, <2>2, <1>2
<1>3. CASE left = <<Torn>>
  <2>1. Torn \in Lines
    BY DEF Lines, Marks
  <2>2. file[writer.path] \o <<Torn>> = Append(file[writer.path], Torn)
    BY <1>1, <2>1, AppendIsConcat
  <2> QED BY <2>2, <1>3
<1> QED BY <1>2, <1>3

-----------------------------------------------------------------------------
(* Steps that leave the log alone. *)

\* The log's invariant does not depend on where the run stands.
LEMMA LogKept ==
  ASSUME LogInv, UNCHANGED <<file, base, writer, durable, acked>>, em.at # "ok", em'.at # "ok"
  PROVE  LogInv'
<1>1. Written' = Written
  BY DEF Written
<1>2. Events' = Events
  BY <1>1 DEF Events
<1> QED BY <1>2 DEF LogInv

\* Nor does that of the torn lines, unless a torn file is gone back to.
LEMMA TornKept ==
  ASSUME TornInv, UNCHANGED <<file, base, writer>>,
         em.at \notin {"err", "failover"} \/ pc' \in Dead,
         pc \in Dead => pc' \in Dead
  PROVE  TornInv'
<1> QED BY DEF TornInv

\* Before run_copy returns there is neither a result nor an exit code.
LEMMA ResultKept ==
  ASSUME IInv, pc \notin Dead, exit' = exit,
         result' = result \/ (pc' \in Dead /\ result' # "ok")
  PROVE  ResultInv'
<1>1. result = None /\ exit = None
  BY DEF IInv, ResultInv, Dead, Gone
<1>2. exit' \notin {0, 2, 3, 4} /\ result' # "ok" /\ (result' # None => pc' \in Dead)
  BY <1>1, NoneAssumption
<1> QED BY <1>1, <1>2 DEF ResultInv

\* Without a report or an event of the end, the terminal record is still to come.
LEMMA EndAhead ==
  ASSUME IInv, em.at = "idle", pc \notin {"finish"} \cup Dead
  PROVE  ~Acked /\ \A i \in 1 .. Len(acked) : acked[i] \notin Finals
<1>1. acked \in Seq(Lines)
  BY DEF IInv, Types
<1> QED BY <1>1 DEF IInv, EndInv, Acked

\* Nor has it been acknowledged while some event is being written.
LEMMA EndUnwritten ==
  ASSUME IInv, em.at # "idle"
  PROVE  ~Acked /\ \A i \in 1 .. Len(acked) : acked[i] \notin Finals
<1>1. acked \in Seq(Lines)
  BY DEF IInv, Types
<1> QED BY <1>1 DEF IInv, EndInv, Acked

\* The announcements leave the log to emit() and everything else alone.
LEMMA AnnounceStep == ASSUME IInv, Announce PROVE IInv'
<1>1. Types'
  BY DEF IInv, Types, EmitInv, ReportInv, Phase, Reported, Announce, Idle, Emit, Event, Goto,
         Note, May, Frame, gateVars, repVars, logVars, Steps, Lines, Plain, Finals, Resumes,
         EmSteps, Reports, Gone
<1>2. EmitInv'
  BY DEF IInv, Types, EmitInv, ReportInv, Phase, Reported, Announce, Idle, Emit, Event, Goto,
         Note, May, Frame, gateVars, repVars, logVars, Plain, Finals, Resumes, EmSteps, Reports
<1>3. LogInv'
  BY LogKept
     DEF IInv, EmitInv, Announce, Idle, Emit, Event, Goto, Note, May, Frame, gateVars, repVars,
         logVars
<1>4. TornInv'
  BY TornKept
     DEF IInv, EmitInv, Dead, Announce, Idle, Emit, Event, Goto, Note, May, Frame, gateVars,
         repVars, logVars
<1>5. LeaveInv'
  BY DEF IInv, Types, EmitInv, LogInv, LeaveInv, Phase, Before, Dead, Written, Announce, Idle,
         Emit, Event, Goto, Note, May, Frame, gateVars, repVars, logVars
<1>6. ReportInv'
  BY DEF IInv, Types, EmitInv, LogInv, ReportInv, Phase, Reported, Dead, Resumes, Announce,
         Idle, Emit, Event, Goto, Note, May, Frame, gateVars, repVars, logVars
<1>7. EndInv'
  BY EndAhead
     DEF IInv, Types, EmitInv, ReportInv, EndInv, Phase, Dead, Resumes, OnDisk, EndedBy, Acked,
         Moved, LogInv, Finals, Plain, Announce, Idle, Emit, Event, Goto, Note, May, Frame,
         gateVars, repVars, logVars
<1>8. ResultInv'
  BY ResultKept
     DEF Dead, Announce, Idle, Emit, Event, Goto, Note, May, Frame, gateVars, repVars, logVars
<1> QED BY <1>1, <1>2, <1>3, <1>4, <1>5, <1>6, <1>7, <1>8 DEF IInv

\* Copying changes the destination only with leave.
LEMMA CopyTreeStep == ASSUME IInv, CopyTree PROVE IInv'
<1>1. Types'
  BY DEF IInv, Types, EmitInv, ReportInv, Phase, Reported, CopyTree, Return, Idle, Emit, Event,
         Goto, Note, May, Frame, gateVars, repVars, logVars, Steps, Lines, Plain, Finals,
         Resumes, EmSteps, Reports, Gone
<1>2. EmitInv'
  BY DEF IInv, Types, EmitInv, ReportInv, Phase, Reported, CopyTree, Return, Idle, Emit, Event,
         Goto, Note, May, Frame, gateVars, repVars, logVars, Plain, Finals, Resumes, EmSteps,
         Reports
<1>3. LogInv'
  BY LogKept
     DEF IInv, EmitInv, CopyTree, Return, Idle, Emit, Event, Goto, Note, May, Frame, gateVars,
         repVars, logVars
<1>4. TornInv'
  BY TornKept
     DEF IInv, EmitInv, Dead, CopyTree, Return, Idle, Emit, Event, Goto, Note, May, Frame,
         gateVars, repVars, logVars
<1>5. LeaveInv'
  BY DEF IInv, Types, EmitInv, LogInv, LeaveInv, Phase, Before, Dead, Written, CopyTree, Return,
         Idle, Emit, Event, Goto, Note, May, Frame, gateVars, repVars, logVars
<1>6. ReportInv'
  BY DEF IInv, Types, EmitInv, LogInv, ReportInv, Phase, Reported, Dead, Resumes, CopyTree,
         Return, Idle, Emit, Event, Goto, Note, May, Frame, gateVars, repVars, logVars
<1>7. EndInv'
  BY EndAhead
     DEF IInv, Types, EmitInv, ReportInv, EndInv, Phase, Dead, Resumes, OnDisk, EndedBy, Acked,
         Moved, LogInv, Finals, Plain, CopyTree, Return, Idle, Emit, Event, Goto, Note, May,
         Frame, gateVars, repVars, logVars
<1>8. ResultInv'
  BY ResultKept
     DEF Dead, CopyTree, Return, Idle, Emit, Event, Goto, Note, May, Frame, gateVars, repVars,
         logVars
<1> QED BY <1>1, <1>2, <1>3, <1>4, <1>5, <1>6, <1>7, <1>8 DEF IInv

\* The last statistics change nothing but the step.
LEMMA AfterCopyStep == ASSUME IInv, AfterCopy PROVE IInv'
<1>1. Types'
  BY DEF IInv, Types, EmitInv, ReportInv, Phase, Reported, AfterCopy, Idle, Emit, Event, Goto,
         Note, May, Frame, gateVars, repVars, logVars, Steps, Lines, Plain, Finals, Resumes,
         EmSteps, Reports, Gone
<1>2. EmitInv'
  BY DEF IInv, Types, EmitInv, ReportInv, Phase, Reported, AfterCopy, Idle, Emit, Event, Goto,
         Note, May, Frame, gateVars, repVars, logVars, Plain, Finals, Resumes, EmSteps, Reports
<1>3. LogInv'
  BY LogKept
     DEF IInv, EmitInv, AfterCopy, Idle, Emit, Event, Goto, Note, May, Frame, gateVars, repVars,
         logVars
<1>4. TornInv'
  BY TornKept
     DEF IInv, EmitInv, Dead, AfterCopy, Idle, Emit, Event, Goto, Note, May, Frame, gateVars,
         repVars, logVars
<1>5. LeaveInv'
  BY DEF IInv, Types, EmitInv, LogInv, LeaveInv, Phase, Before, Dead, Written, AfterCopy, Idle,
         Emit, Event, Goto, Note, May, Frame, gateVars, repVars, logVars
<1>6. ReportInv'
  BY DEF IInv, Types, EmitInv, LogInv, ReportInv, Phase, Reported, Dead, Resumes, AfterCopy,
         Idle, Emit, Event, Goto, Note, May, Frame, gateVars, repVars, logVars
<1>7. EndInv'
  BY EndAhead
     DEF IInv, Types, EmitInv, ReportInv, EndInv, Phase, Dead, Resumes, OnDisk, EndedBy, Acked,
         Moved, LogInv, Finals, Plain, AfterCopy, Idle, Emit, Event, Goto, Note, May, Frame,
         gateVars, repVars, logVars
<1>8. ResultInv'
  BY ResultKept
     DEF Dead, AfterCopy, Idle, Emit, Event, Goto, Note, May, Frame, gateVars, repVars, logVars
<1> QED BY <1>1, <1>2, <1>3, <1>4, <1>5, <1>6, <1>7, <1>8 DEF IInv

\* Ending the journal changes nothing but the step.
LEMMA EndJournalStep == ASSUME IInv, EndJournal PROVE IInv'
<1>1. Types'
  BY SMTT(60) DEF IInv, Types, EmitInv, ReportInv, Phase, Reported, EndJournal, Idle, Emit, Event, Goto,
         Note, May, Frame, gateVars, repVars, logVars, Steps, Lines, Plain, Finals, Resumes,
         EmSteps, Reports, Gone
<1>2. EmitInv'
  BY DEF IInv, Types, EmitInv, ReportInv, Phase, Reported, EndJournal, Idle, Emit, Event, Goto,
         Note, May, Frame, gateVars, repVars, logVars, Plain, Finals, Resumes, EmSteps, Reports
<1>3. LogInv'
  BY LogKept
     DEF IInv, EmitInv, EndJournal, Idle, Emit, Event, Goto, Note, May, Frame, gateVars,
         repVars, logVars
<1>4. TornInv'
  BY TornKept
     DEF IInv, EmitInv, Dead, EndJournal, Idle, Emit, Event, Goto, Note, May, Frame, gateVars,
         repVars, logVars
<1>5. LeaveInv'
  BY DEF IInv, Types, EmitInv, LogInv, LeaveInv, Phase, Before, Dead, Written, EndJournal, Idle,
         Emit, Event, Goto, Note, May, Frame, gateVars, repVars, logVars
<1>6. ReportInv'
  BY DEF IInv, Types, EmitInv, LogInv, ReportInv, Phase, Reported, Dead, Resumes, EndJournal,
         Idle, Emit, Event, Goto, Note, May, Frame, gateVars, repVars, logVars
<1>7. EndInv'
  BY EndAhead
     DEF IInv, Types, EmitInv, ReportInv, EndInv, Phase, Dead, Resumes, OnDisk, EndedBy, Acked,
         Moved, LogInv, Finals, Plain, EndJournal, Idle, Emit, Event, Goto, Note, May, Frame,
         gateVars, repVars, logVars
<1>8. ResultInv'
  BY ResultKept
     DEF Dead, EndJournal, Idle, Emit, Event, Goto, Note, May, Frame, gateVars, repVars, logVars
<1> QED BY <1>1, <1>2, <1>3, <1>4, <1>5, <1>6, <1>7, <1>8 DEF IInv

\* The composed report agrees with the log.
LEMMA ComposeStep == ASSUME IInv, Compose PROVE IInv'
<1>0. /\ em.at = "idle" /\ report \in Reports /\ report' \in Reports /\ writer.path \in Paths
      /\ report'.exit = report.exit /\ report'.integrity = report.integrity
      /\ report'.log = writer.path /\ (report'.audit = "ok" => ~writer.degraded)
  <2>1. em.at = "idle"
    BY DEF IInv, EmitInv, Compose
  <2>2. report \in Reports /\ writer.path \in Paths /\ writer.degraded \in BOOLEAN
    BY <2>1 DEF IInv, Types, ReportInv, Phase, Reported, Compose
  <2> QED BY <2>1, <2>2 DEF Compose, Reports
<1>1. Types'
  BY <1>0, SMTT(60)
     DEF IInv, Types, EmitInv, ReportInv, Phase, Reported, Compose, Idle, Emit, Event, Goto,
         Note, May, Frame, gateVars, repVars, logVars, Steps, Lines, Plain, Finals, Resumes,
         EmSteps, Reports, Gone
<1>2. EmitInv'
  BY <1>0
     DEF IInv, Types, EmitInv, ReportInv, Phase, Reported, Compose, Idle, Emit, Event, Goto,
         Note, May, Frame, gateVars, repVars, logVars, Plain, Finals, Resumes, EmSteps, Reports
<1>3. LogInv'
  BY <1>0, LogKept
     DEF IInv, EmitInv, Compose, Idle, Emit, Event, Goto, Note, May, Frame, gateVars, repVars,
         logVars
<1>4. TornInv'
  BY <1>0, TornKept
     DEF IInv, EmitInv, Dead, Compose, Idle, Emit, Event, Goto, Note, May, Frame, gateVars,
         repVars, logVars
<1>5. LeaveInv'
  BY <1>0
     DEF IInv, Types, EmitInv, LogInv, LeaveInv, Phase, Before, Dead, Written, Compose, Idle,
         Emit, Event, Goto, Note, May, Frame, gateVars, repVars, logVars
<1>6. ReportInv'
  <2>1. /\ pc = "compose" /\ pc' = "report" /\ em' = em /\ art = "none"
        /\ UNCHANGED <<art, disk, run, writer>>
    BY DEF IInv, ReportInv, Compose, Goto, Frame
  <2> QED BY <1>0, <2>1, NoneAssumption DEF IInv, ReportInv, Phase, Reported
<1>7. EndInv'
  BY <1>0, EndAhead
     DEF IInv, Types, EmitInv, ReportInv, EndInv, Phase, Dead, Resumes, OnDisk, EndedBy, Acked,
         Moved, LogInv, Finals, Plain, Compose, Idle, Emit, Event, Goto, Note, May, Frame,
         gateVars, repVars, logVars
<1>8. ResultInv'
  BY <1>0, ResultKept
     DEF Dead, Compose, Idle, Emit, Event, Goto, Note, May, Frame, gateVars, repVars, logVars
<1> QED BY <1>1, <1>2, <1>3, <1>4, <1>5, <1>6, <1>7, <1>8 DEF IInv

\* The terminal record repeats the published report.
LEMMA RunEndStep == ASSUME IInv, RunEnd PROVE IInv'
<1>0. /\ em.at = "idle" /\ report \in Reports /\ EndEvent \in Finals /\ EndedBy(EndEvent)
      /\ OnDisk /\ ~Moved
  <2>1. em.at = "idle" /\ Phase = "run_end"
    BY DEF IInv, EmitInv, RunEnd, Phase
  <2>2. report \in Reports /\ OnDisk /\ ~Moved
    BY <2>1 DEF IInv, ReportInv, EndInv, Reported, Moved
  <2>3. Len(acked) \in Nat
    BY DEF IInv, Types
  <2> QED BY <2>1, <2>2, <2>3 DEF EndEvent, Finals, EndedBy, Reports
<1>1. Types'
  BY <1>0
     DEF IInv, Types, EmitInv, ReportInv, Phase, Reported, RunEnd, EndEvent, Idle, Emit, Event,
         Goto, Note, May, Frame, gateVars, repVars, logVars, Steps, Lines, Plain, Finals,
         Resumes, EmSteps, Reports, Gone
<1>2. EmitInv'
  BY <1>0
     DEF IInv, Types, EmitInv, ReportInv, Phase, Reported, RunEnd, EndEvent, Idle, Emit, Event,
         Goto, Note, May, Frame, gateVars, repVars, logVars, Plain, Finals, Resumes, EmSteps,
         Reports
<1>3. LogInv'
  BY <1>0, LogKept
     DEF IInv, EmitInv, RunEnd, EndEvent, Idle, Emit, Event, Goto, Note, May, Frame, gateVars,
         repVars, logVars
<1>4. TornInv'
  BY <1>0, TornKept
     DEF IInv, EmitInv, Dead, RunEnd, EndEvent, Idle, Emit, Event, Goto, Note, May, Frame,
         gateVars, repVars, logVars
<1>5. LeaveInv'
  BY <1>0
     DEF IInv, Types, EmitInv, LogInv, LeaveInv, Phase, Before, Dead, Written, RunEnd, EndEvent,
         Idle, Emit, Event, Goto, Note, May, Frame, gateVars, repVars, logVars
<1>6. ReportInv'
  BY <1>0
     DEF IInv, Types, EmitInv, LogInv, ReportInv, Phase, Reported, Dead, Resumes, RunEnd,
         EndEvent, Idle, Emit, Event, Goto, Note, May, Frame, gateVars, repVars, logVars
<1>7. EndInv'
  BY <1>0, EndAhead
     DEF IInv, Types, EmitInv, ReportInv, EndInv, Phase, Dead, Resumes, OnDisk, EndedBy, Acked,
         Moved, LogInv, Finals, Plain, RunEnd, EndEvent, Idle, Emit, Event, Goto, Note, May,
         Frame, gateVars, repVars, logVars
<1>8. ResultInv'
  BY <1>0, ResultKept
     DEF Dead, RunEnd, EndEvent, Idle, Emit, Event, Goto, Note, May, Frame, gateVars, repVars,
         logVars
<1> QED BY <1>1, <1>2, <1>3, <1>4, <1>5, <1>6, <1>7, <1>8 DEF IInv

\* Reconciling composes the first form of the report.
LEMMA ReconcileStep == ASSUME IInv, Reconcile PROVE IInv'
<1>0. /\ em.at = "idle" /\ report' \in Reports
      /\ (report'.integrity = "failed") <=> (report'.exit = 6)
      /\ report'.log = "primary" /\ report'.audit = "ok"
  BY DEF IInv, EmitInv, Reconcile, Reports, Paths
<1>1. Types'
  BY <1>0
     DEF IInv, Types, EmitInv, ReportInv, Phase, Reported, Reconcile, Idle, Emit, Event, Goto,
         Note, May, Frame, gateVars, repVars, logVars, Steps, Lines, Plain, Finals, Resumes,
         EmSteps, Reports, Gone
<1>2. EmitInv'
  BY <1>0
     DEF IInv, Types, EmitInv, ReportInv, Phase, Reported, Reconcile, Idle, Emit, Event, Goto,
         Note, May, Frame, gateVars, repVars, logVars, Plain, Finals, Resumes, EmSteps, Reports
<1>3. LogInv'
  BY <1>0, LogKept
     DEF IInv, EmitInv, Reconcile, Idle, Emit, Event, Goto, Note, May, Frame, gateVars, repVars,
         logVars
<1>4. TornInv'
  BY <1>0, TornKept
     DEF IInv, EmitInv, Dead, Reconcile, Idle, Emit, Event, Goto, Note, May, Frame, gateVars,
         repVars, logVars
<1>5. LeaveInv'
  BY <1>0
     DEF IInv, Types, EmitInv, LogInv, LeaveInv, Phase, Before, Dead, Written, Reconcile, Idle,
         Emit, Event, Goto, Note, May, Frame, gateVars, repVars, logVars
<1>6. ReportInv'
  BY <1>0
     DEF IInv, Types, EmitInv, LogInv, ReportInv, Phase, Reported, Dead, Resumes, Reconcile,
         Idle, Emit, Event, Goto, Note, May, Frame, gateVars, repVars, logVars
<1>7. EndInv'
  BY <1>0, EndAhead
     DEF IInv, Types, EmitInv, ReportInv, EndInv, Phase, Dead, Resumes, OnDisk, EndedBy, Acked,
         Moved, LogInv, Finals, Plain, Reconcile, Idle, Emit, Event, Goto, Note, May, Frame,
         gateVars, repVars, logVars
<1>8. ResultInv'
  BY <1>0, ResultKept
     DEF Dead, Reconcile, Idle, Emit, Event, Goto, Note, May, Frame, gateVars, repVars, logVars
<1> QED BY <1>1, <1>2, <1>3, <1>4, <1>5, <1>6, <1>7, <1>8 DEF IInv

-----------------------------------------------------------------------------
(* Preflight. *)

\* The names paths are made of.
Names == {"x", "y", "s", "d", "f", "journal", "fallback log", "fallback report"}

\* A place is a path of one or two names.
LEMMA PlaceType ==
  ASSUME NEW l \in Layout
  PROVE  l.state \in Seq(Names) /\ Len(l.state) \in {1, 2}
<1>1. \A p \in Places : p \in Seq(Names)
  <2>1. /\ <<"x">> \in Seq(Names) /\ <<"y">> \in Seq(Names) /\ <<"d">> \in Seq(Names)
        /\ <<"x", "journal">> \in Seq(Names) /\ <<"x", "f">> \in Seq(Names)
        /\ <<"s", "f">> \in Seq(Names)
    BY DEF Names
  <2> QED BY <2>1 DEF Places
<1>2. \A p \in Places : Len(p) \in {1, 2}
  BY DEF Places
<1>3. l.state \in Places
  BY DEF Layout
<1> QED BY <1>1, <1>2, <1>3

\* A file put into a directory is outside a root that the directory is outside of.
LEMMA UnderRoot ==
  ASSUME NEW l \in Layout, NEW root \in Roots, NEW name \in Names, ~Under(l.state, root)
  PROVE  ~Under(Append(l.state, name), root)
<1> DEFINE s == l.state
           t == Append(s, name)
<1>1. s \in Seq(Names) /\ Len(s) \in {1, 2}
  BY PlaceType
<1>2. Len(t) = Len(s) + 1 /\ t[1] = s[1]
  <2> HIDE DEF s
  <2> QED BY <1>1, AppendProperties
<1>3. Len(root) = 1
  BY DEF Roots
<1>4. s[1] # root[1]
  <2> HIDE DEF s
  <2>1. ~(Len(root) <= Len(s) /\ \A i \in 1 .. Len(root) : root[i] = s[i])
    BY <1>1, <1>3 DEF Under, IsPrefix, s
  <2> QED BY <2>1, <1>1, <1>3
<1> HIDE DEF t
<1>5. ~(\A i \in 1 .. Len(root) : root[i] = t[i])
  BY <1>2, <1>3, <1>4
<1>6. ~Under(t, root)
  BY <1>1, <1>2, <1>3, <1>5 DEF Under, IsPrefix
<1> QED BY <1>6 DEF t

\* The layout that preflight accepts keeps the run's files apart from each other
\* and outside both trees.
LEMMA LayoutApart ==
  ASSUME NEW l \in Layout, LayoutOk(l)
  PROVE  Apart(l)
<1> DEFINE a == l.log
           b == l.report
           j == Append(l.state, "journal")
           f == Append(l.state, "fallback log")
           g == Append(l.state, "fallback report")
           files == <<a, b, j, f, g>>
<1>1. l.state \in Seq(Names) /\ Len(l.state) \in Nat
  BY PlaceType
<1>2. \A p \in Places : p[Len(p)] \notin {"fallback log", "fallback report"}
  <2> TAKE p \in Places
  <2>1. CASE p \in {<<"x">>, <<"y">>, <<"d">>}
    <3>1. Len(p) = 1 /\ p[1] \in {"x", "y", "d"}
      BY <2>1
    <3> QED BY <3>1
  <2>2. CASE p \in {<<"x", "journal">>, <<"x", "f">>, <<"s", "f">>}
    <3>1. Len(p) = 2 /\ p[2] \in {"journal", "f"}
      BY <2>2
    <3> QED BY <3>1
  <2> QED BY <2>1, <2>2 DEF Places
<1>3. \A x \in Names : Append(l.state, x)[Len(Append(l.state, x))] = x
  BY <1>1, AppendProperties
<1>4. a # b /\ a \notin {j, f, g} /\ b \notin {j, f, g}
  <2>1. \A x \in {a, b} : x # j /\ x \in Places
    BY DEF LayoutOk, Journal, Layout
  <2>2. f[Len(f)] = "fallback log" /\ g[Len(g)] = "fallback report"
    BY <1>3 DEF Names
  <2> HIDE DEF f, g, j
  <2> QED BY <2>1, <2>2, <1>2 DEF LayoutOk
<1>5. j # f /\ j # g /\ f # g
  <2>1. f[Len(f)] = "fallback log" /\ g[Len(g)] = "fallback report" /\ j[Len(j)] = "journal"
    BY <1>3 DEF Names
  <2> HIDE DEF f, g, j
  <2> QED BY <2>1
<1>6. \A root \in Roots : /\ ~Under(a, root) /\ ~Under(b, root)
                          /\ ~Under(j, root) /\ ~Under(f, root) /\ ~Under(g, root)
  <2> TAKE root \in Roots
  <2>1. \A p \in {l.state, a, b} : ~Under(p, root)
    BY DEF LayoutOk
  <2>2. \A x \in Names : ~Under(Append(l.state, x), root)
    BY <2>1, UnderRoot
  <2> QED BY <2>1, <2>2 DEF Names
<1> HIDE DEF a, b, j, f, g
<1>7. DOMAIN files = 1 .. 5 /\ files[1] = a /\ files[2] = b /\ files[3] = j /\ files[4] = f
      /\ files[5] = g
  OBVIOUS
<1>8. \A i \in 1 .. 5 : i = 1 \/ i = 2 \/ i = 3 \/ i = 4 \/ i = 5
  OBVIOUS
<1> HIDE DEF files
<1>9. \A i, k \in 1 .. 5 : i # k => files[i] # files[k]
  BY <1>4, <1>5, <1>7, <1>8
<1>10. \A i \in 1 .. 5, root \in Roots : ~Under(files[i], root)
  BY <1>6, <1>7, <1>8
<1> QED BY <1>7, <1>9, <1>10 DEF Apart, Journal, files, a, b, j, f, g

\* The prompt accepts limitations and touches no file.
LEMMA ConfirmWarningsStep == ASSUME IInv, ConfirmWarnings PROVE IInv'
<1>0. em.at = "idle" /\ faults' \in 0 .. MaxFaults /\ Len(acked) \in Nat
  BY BoundsAssumption DEF IInv, Types, EmitInv, Fault, ConfirmWarnings
<1>a. /\ pf' \in [limits : SUBSET Limits, accepted : SUBSET Limits]
      /\ pc = "start" /\ result' = result
      /\ exit' = exit \/ (exit' \in {5, 6} /\ pc' = "exited")
  <2>1. pf \in [limits : SUBSET Limits, accepted : SUBSET Limits]
    BY DEF IInv, Types
  <2> QED BY <2>1 DEF ConfirmWarnings
<1>1. Types'
  BY <1>0, <1>a
     DEF IInv, Types, EmitInv, ConfirmWarnings, Idle, Emit, Event, Goto, Return, Fault,
         gateVars, repVars, logVars, Steps, Lines, Plain, Finals, Resumes, EmSteps, Gone,
         NoFacts
<1>2. EmitInv'
  BY <1>0
     DEF IInv, Types, EmitInv, ConfirmWarnings, Idle, Emit, Event, Goto, Return, Fault,
         gateVars, repVars, logVars, Plain, Finals, Resumes, EmSteps
<1>3. LogInv'
  BY <1>0, LogKept
     DEF IInv, EmitInv, ConfirmWarnings, Idle, Emit, Event, Goto, Return, Fault, gateVars,
         repVars, logVars
<1>4. TornInv'
  BY <1>0, TornKept
     DEF IInv, EmitInv, Dead, ConfirmWarnings, Idle, Emit, Event, Goto, Return, Fault, gateVars,
         repVars, logVars
<1>5. LeaveInv'
  BY <1>0
     DEF IInv, Types, EmitInv, LogInv, LeaveInv, Phase, Before, Dead, Written, ConfirmWarnings,
         Idle, Emit, Event, Goto, Return, Fault, gateVars, repVars, logVars
<1>6. ReportInv'
  BY <1>0
     DEF IInv, Types, EmitInv, LogInv, ReportInv, Phase, Reported, Dead, Resumes,
         ConfirmWarnings, Idle, Emit, Event, Goto, Return, Fault, gateVars, repVars, logVars
<1>7. EndInv'
  BY <1>0, EndAhead
     DEF IInv, Types, EmitInv, EndInv, Phase, Dead, Resumes, OnDisk, EndedBy, Acked, Moved,
         Finals, Plain, ConfirmWarnings, Idle, Emit, Event, Goto, Return, Fault, gateVars,
         repVars, logVars
<1>8. ResultInv'
  BY <1>0, <1>a, NoneAssumption DEF IInv, ResultInv, Dead, Gone
<1> QED BY <1>1, <1>2, <1>3, <1>4, <1>5, <1>6, <1>7, <1>8 DEF IInv

\* Taking the lock touches no file.
LEMMA AcquireLockStep == ASSUME IInv, AcquireLock PROVE IInv'
<1>0. em.at = "idle" /\ faults' \in 0 .. MaxFaults /\ Len(acked) \in Nat
  BY BoundsAssumption DEF IInv, Types, EmitInv, Fault, AcquireLock
<1>1. Types'
  BY <1>0
     DEF IInv, Types, EmitInv, AcquireLock, Idle, Emit, Event, Goto, Return, Fault, gateVars,
         repVars, logVars, Steps, Lines, Plain, Finals, Resumes, EmSteps, Gone, NoFacts
<1>2. EmitInv'
  BY <1>0
     DEF IInv, Types, EmitInv, AcquireLock, Idle, Emit, Event, Goto, Return, Fault, gateVars,
         repVars, logVars, Plain, Finals, Resumes, EmSteps
<1>3. LogInv'
  BY <1>0, LogKept
     DEF IInv, EmitInv, AcquireLock, Idle, Emit, Event, Goto, Return, Fault, gateVars, repVars,
         logVars
<1>4. TornInv'
  BY <1>0, TornKept
     DEF IInv, EmitInv, Dead, AcquireLock, Idle, Emit, Event, Goto, Return, Fault, gateVars,
         repVars, logVars
<1>5. LeaveInv'
  BY <1>0
     DEF IInv, Types, EmitInv, LogInv, LeaveInv, Phase, Before, Dead, Written, AcquireLock,
         Idle, Emit, Event, Goto, Return, Fault, gateVars, repVars, logVars
<1>6. ReportInv'
  BY <1>0
     DEF IInv, Types, EmitInv, LogInv, ReportInv, Phase, Reported, Dead, Resumes, AcquireLock,
         Idle, Emit, Event, Goto, Return, Fault, gateVars, repVars, logVars
<1>7. EndInv'
  BY <1>0, EndAhead
     DEF IInv, Types, EmitInv, EndInv, Phase, Dead, Resumes, OnDisk, EndedBy, Acked, Moved,
         Finals, Plain, AcquireLock, Idle, Emit, Event, Goto, Return, Fault, gateVars, repVars,
         logVars
<1>8. ResultInv'
  BY <1>0, ResultKept
     DEF Dead, AcquireLock, Idle, Emit, Event, Goto, Return, Fault, gateVars, repVars, logVars
<1> QED BY <1>1, <1>2, <1>3, <1>4, <1>5, <1>6, <1>7, <1>8 DEF IInv

\* Preflight gives leave only with everything accepted and the files apart.
LEMMA GatesStep == ASSUME IInv, Gates PROVE IInv'
<1>0. em.at = "idle" /\ faults' \in 0 .. MaxFaults /\ Len(acked) \in Nat
  BY BoundsAssumption DEF IInv, Types, EmitInv, Fault, Gates
<1>a. /\ pf' = NoFacts /\ consent' \in BOOLEAN /\ mutated' \in BOOLEAN
      /\ UNCHANGED <<run, opts, file, durable, base, writer, acked, report, art, disk, disp, exit>>
      /\ pc = "gates"
      /\ \/ pc' = "create" /\ em' = em /\ (mutated' => ~opts.dry) /\ (~opts.dry => consent')
            /\ UNCHANGED result
         \/ /\ pc' = "returned" /\ em' = Idle /\ result' \in {"invalid", "io"}
            /\ UNCHANGED <<consent, mutated>>
  <2>1. \A l \in Layout : LayoutOk(l) => Apart(l)
    BY LayoutApart
  <2>2. consent \in BOOLEAN /\ mutated \in BOOLEAN
    BY DEF IInv, Types
  <2> QED BY <2>1, <2>2 DEF Gates, Goto, Return, gateVars, repVars
<1>1. Types'
  BY <1>0, <1>a
     DEF IInv, Types, EmitInv, Idle, Steps, Lines, Plain, Finals, Resumes, EmSteps, Gone,
         NoFacts
<1>2. EmitInv'
  BY <1>0, <1>a DEF IInv, Types, EmitInv, Idle, Plain, Finals, Resumes, EmSteps
<1>3. LogInv'
  BY <1>0, <1>a, LogKept DEF IInv, EmitInv, Idle
<1>4. TornInv'
  BY <1>0, <1>a, TornKept DEF IInv, EmitInv, Dead, Idle
<1>5. LeaveInv'
  BY <1>0, <1>a DEF IInv, Types, EmitInv, LogInv, LeaveInv, Phase, Before, Dead, Written, Idle
<1>6. ReportInv'
  BY <1>0, <1>a
     DEF IInv, Types, EmitInv, LogInv, ReportInv, Phase, Reported, Dead, Resumes, Idle
<1>7. EndInv'
  BY <1>0, <1>a, EndAhead, <1>a
     DEF IInv, Types, EmitInv, EndInv, Phase, Dead, Resumes, OnDisk, EndedBy, Acked, Moved,
         Finals, Plain, Idle
<1>8. ResultInv'
  BY <1>0, <1>a, ResultKept DEF Dead, Idle
<1> QED BY <1>1, <1>2, <1>3, <1>4, <1>5, <1>6, <1>7, <1>8 DEF IInv

\* Opening the log writes nothing.
LEMMA CreateWriterStep == ASSUME IInv, CreateWriter PROVE IInv'
<1>0. em.at = "idle" /\ faults' \in 0 .. MaxFaults /\ Len(acked) \in Nat
  BY BoundsAssumption DEF IInv, Types, EmitInv, Fault, CreateWriter
<1>1. Types'
  BY <1>0
     DEF IInv, Types, EmitInv, CreateWriter, Idle, Emit, Event, Goto, Return, Fault, gateVars,
         repVars, logVars, Steps, Lines, Plain, Finals, Resumes, EmSteps, Gone, NoFacts
<1>2. EmitInv'
  BY <1>0
     DEF IInv, Types, EmitInv, CreateWriter, Idle, Emit, Event, Goto, Return, Fault, gateVars,
         repVars, logVars, Plain, Finals, Resumes, EmSteps
<1>3. LogInv'
  BY <1>0, LogKept
     DEF IInv, EmitInv, CreateWriter, Idle, Emit, Event, Goto, Return, Fault, gateVars, repVars,
         logVars
<1>4. TornInv'
  BY <1>0, TornKept
     DEF IInv, EmitInv, Dead, CreateWriter, Idle, Emit, Event, Goto, Return, Fault, gateVars,
         repVars, logVars
<1>5. LeaveInv'
  BY <1>0
     DEF IInv, Types, EmitInv, LogInv, LeaveInv, Phase, Before, Dead, Written, CreateWriter,
         Idle, Emit, Event, Goto, Return, Fault, gateVars, repVars, logVars
<1>6. ReportInv'
  BY <1>0
     DEF IInv, Types, EmitInv, LogInv, ReportInv, Phase, Reported, Dead, Resumes, CreateWriter,
         Idle, Emit, Event, Goto, Return, Fault, gateVars, repVars, logVars
<1>7. EndInv'
  BY <1>0, EndAhead
     DEF IInv, Types, EmitInv, EndInv, Phase, Dead, Resumes, OnDisk, EndedBy, Acked, Moved,
         Finals, Plain, CreateWriter, Idle, Emit, Event, Goto, Return, Fault, gateVars, repVars,
         logVars
<1>8. ResultInv'
  BY <1>0, ResultKept
     DEF Dead, CreateWriter, Idle, Emit, Event, Goto, Return, Fault, gateVars, repVars, logVars
<1> QED BY <1>1, <1>2, <1>3, <1>4, <1>5, <1>6, <1>7, <1>8 DEF IInv

\* The result reaches main.
LEMMA PlainReturnsStep == ASSUME IInv, PlainReturns PROVE IInv'
<1>0. em.at = "idle" /\ faults' \in 0 .. MaxFaults /\ Len(acked) \in Nat
  BY BoundsAssumption DEF IInv, Types, EmitInv, Fault, PlainReturns
<1>1. Types'
  BY <1>0
     DEF IInv, Types, EmitInv, PlainReturns, MainFrame, Idle, Emit, Event, Goto, Return, Fault,
         gateVars, repVars, logVars, Steps, Lines, Plain, Finals, Resumes, EmSteps, Gone,
         NoFacts
<1>2. EmitInv'
  BY <1>0
     DEF IInv, Types, EmitInv, PlainReturns, MainFrame, Idle, Emit, Event, Goto, Return, Fault,
         gateVars, repVars, logVars, Plain, Finals, Resumes, EmSteps
<1>3. LogInv'
  BY <1>0, LogKept
     DEF IInv, EmitInv, PlainReturns, MainFrame, Idle, Emit, Event, Goto, Return, Fault,
         gateVars, repVars, logVars
<1>4. TornInv'
  BY <1>0, TornKept
     DEF IInv, EmitInv, Dead, PlainReturns, MainFrame, Idle, Emit, Event, Goto, Return, Fault,
         gateVars, repVars, logVars
<1>5. LeaveInv'
  BY <1>0
     DEF IInv, Types, EmitInv, LogInv, LeaveInv, Phase, Before, Dead, Written, PlainReturns,
         MainFrame, Idle, Emit, Event, Goto, Return, Fault, gateVars, repVars, logVars
<1>6. ReportInv'
  BY <1>0
     DEF IInv, Types, EmitInv, LogInv, ReportInv, Phase, Reported, Dead, Resumes, PlainReturns,
         MainFrame, Idle, Emit, Event, Goto, Return, Fault, gateVars, repVars, logVars
<1>7. EndInv'
  BY <1>0
     DEF IInv, EndInv, Phase, Dead, OnDisk, EndedBy, Acked, Moved, PlainReturns, MainFrame,
         Idle, Emit, Event, Goto, Return, Fault, gateVars, repVars, logVars
<1>8. ResultInv'
  BY <1>0, NoneAssumption
     DEF IInv, ResultInv, ReportInv, Reports, Types, Acked, Dead, Gone, PlainReturns, MainFrame,
         Idle, Emit, Event, Goto, Return, Fault, gateVars, repVars, logVars
<1> QED BY <1>1, <1>2, <1>3, <1>4, <1>5, <1>6, <1>7, <1>8 DEF IInv

\* The dashboard takes the result.
LEMMA LoopTakesStep == ASSUME IInv, LoopTakes PROVE IInv'
<1>0. em.at = "idle" /\ faults' \in 0 .. MaxFaults /\ Len(acked) \in Nat
  BY BoundsAssumption DEF IInv, Types, EmitInv, Fault, LoopTakes
<1>1. Types'
  BY <1>0
     DEF IInv, Types, EmitInv, LoopTakes, MainFrame, Idle, Emit, Event, Goto, Return, Fault,
         gateVars, repVars, logVars, Steps, Lines, Plain, Finals, Resumes, EmSteps, Gone,
         NoFacts
<1>2. EmitInv'
  BY <1>0
     DEF IInv, Types, EmitInv, LoopTakes, MainFrame, Idle, Emit, Event, Goto, Return, Fault,
         gateVars, repVars, logVars, Plain, Finals, Resumes, EmSteps
<1>3. LogInv'
  BY <1>0, LogKept
     DEF IInv, EmitInv, LoopTakes, MainFrame, Idle, Emit, Event, Goto, Return, Fault, gateVars,
         repVars, logVars
<1>4. TornInv'
  BY <1>0, TornKept
     DEF IInv, EmitInv, Dead, LoopTakes, MainFrame, Idle, Emit, Event, Goto, Return, Fault,
         gateVars, repVars, logVars
<1>5. LeaveInv'
  BY <1>0
     DEF IInv, Types, EmitInv, LogInv, LeaveInv, Phase, Before, Dead, Written, LoopTakes,
         MainFrame, Idle, Emit, Event, Goto, Return, Fault, gateVars, repVars, logVars
<1>6. ReportInv'
  BY <1>0
     DEF IInv, Types, EmitInv, LogInv, ReportInv, Phase, Reported, Dead, Resumes, LoopTakes,
         MainFrame, Idle, Emit, Event, Goto, Return, Fault, gateVars, repVars, logVars
<1>7. EndInv'
  BY <1>0
     DEF IInv, EndInv, Phase, Dead, OnDisk, EndedBy, Acked, Moved, LoopTakes, MainFrame, Idle,
         Emit, Event, Goto, Return, Fault, gateVars, repVars, logVars
<1>8. ResultInv'
  BY <1>0, NoneAssumption
     DEF IInv, ResultInv, ReportInv, Reports, Types, Acked, Dead, Gone, LoopTakes, MainFrame,
         Idle, Emit, Event, Goto, Return, Fault, gateVars, repVars, logVars
<1> QED BY <1>1, <1>2, <1>3, <1>4, <1>5, <1>6, <1>7, <1>8 DEF IInv

\* The dashboard hands the result over, or fails holding it.
LEMMA LoopReturnsStep == ASSUME IInv, LoopReturns PROVE IInv'
<1>0. em.at = "idle" /\ faults' \in 0 .. MaxFaults /\ Len(acked) \in Nat
  BY BoundsAssumption DEF IInv, Types, EmitInv, Fault, LoopReturns
<1>1. Types'
  BY <1>0
     DEF IInv, Types, EmitInv, LoopReturns, MainFrame, Idle, Emit, Event, Goto, Return, Fault,
         gateVars, repVars, logVars, Steps, Lines, Plain, Finals, Resumes, EmSteps, Gone,
         NoFacts
<1>2. EmitInv'
  BY <1>0
     DEF IInv, Types, EmitInv, LoopReturns, MainFrame, Idle, Emit, Event, Goto, Return, Fault,
         gateVars, repVars, logVars, Plain, Finals, Resumes, EmSteps
<1>3. LogInv'
  BY <1>0, LogKept
     DEF IInv, EmitInv, LoopReturns, MainFrame, Idle, Emit, Event, Goto, Return, Fault,
         gateVars, repVars, logVars
<1>4. TornInv'
  BY <1>0, TornKept
     DEF IInv, EmitInv, Dead, LoopReturns, MainFrame, Idle, Emit, Event, Goto, Return, Fault,
         gateVars, repVars, logVars
<1>5. LeaveInv'
  BY <1>0
     DEF IInv, Types, EmitInv, LogInv, LeaveInv, Phase, Before, Dead, Written, LoopReturns,
         MainFrame, Idle, Emit, Event, Goto, Return, Fault, gateVars, repVars, logVars
<1>6. ReportInv'
  BY <1>0
     DEF IInv, Types, EmitInv, LogInv, ReportInv, Phase, Reported, Dead, Resumes, LoopReturns,
         MainFrame, Idle, Emit, Event, Goto, Return, Fault, gateVars, repVars, logVars
<1>7. EndInv'
  BY <1>0
     DEF IInv, EndInv, Phase, Dead, OnDisk, EndedBy, Acked, Moved, LoopReturns, MainFrame, Idle,
         Emit, Event, Goto, Return, Fault, gateVars, repVars, logVars
<1>8. ResultInv'
  BY <1>0, NoneAssumption
     DEF IInv, ResultInv, ReportInv, Reports, Types, Acked, Dead, Gone, LoopReturns, MainFrame,
         Idle, Emit, Event, Goto, Return, Fault, gateVars, repVars, logVars
<1> QED BY <1>1, <1>2, <1>3, <1>4, <1>5, <1>6, <1>7, <1>8 DEF IInv

\* After a failed dashboard the result is received.
LEMMA BrokenReceivesStep == ASSUME IInv, BrokenReceives PROVE IInv'
<1>0. em.at = "idle" /\ faults' \in 0 .. MaxFaults /\ Len(acked) \in Nat
  BY BoundsAssumption DEF IInv, Types, EmitInv, Fault, BrokenReceives
<1>1. Types'
  BY <1>0
     DEF IInv, Types, EmitInv, BrokenReceives, MainFrame, Idle, Emit, Event, Goto, Return,
         Fault, gateVars, repVars, logVars, Steps, Lines, Plain, Finals, Resumes, EmSteps, Gone,
         NoFacts
<1>2. EmitInv'
  BY <1>0
     DEF IInv, Types, EmitInv, BrokenReceives, MainFrame, Idle, Emit, Event, Goto, Return,
         Fault, gateVars, repVars, logVars, Plain, Finals, Resumes, EmSteps
<1>3. LogInv'
  BY <1>0, LogKept
     DEF IInv, EmitInv, BrokenReceives, MainFrame, Idle, Emit, Event, Goto, Return, Fault,
         gateVars, repVars, logVars
<1>4. TornInv'
  BY <1>0, TornKept
     DEF IInv, EmitInv, Dead, BrokenReceives, MainFrame, Idle, Emit, Event, Goto, Return, Fault,
         gateVars, repVars, logVars
<1>5. LeaveInv'
  BY <1>0
     DEF IInv, Types, EmitInv, LogInv, LeaveInv, Phase, Before, Dead, Written, BrokenReceives,
         MainFrame, Idle, Emit, Event, Goto, Return, Fault, gateVars, repVars, logVars
<1>6. ReportInv'
  BY <1>0
     DEF IInv, Types, EmitInv, LogInv, ReportInv, Phase, Reported, Dead, Resumes,
         BrokenReceives, MainFrame, Idle, Emit, Event, Goto, Return, Fault, gateVars, repVars,
         logVars
<1>7. EndInv'
  BY <1>0
     DEF IInv, EndInv, Phase, Dead, OnDisk, EndedBy, Acked, Moved, BrokenReceives, MainFrame,
         Idle, Emit, Event, Goto, Return, Fault, gateVars, repVars, logVars
<1>8. ResultInv'
  BY <1>0, NoneAssumption
     DEF IInv, ResultInv, ReportInv, Reports, Types, Acked, Dead, Gone, BrokenReceives,
         MainFrame, Idle, Emit, Event, Goto, Return, Fault, gateVars, repVars, logVars
<1> QED BY <1>1, <1>2, <1>3, <1>4, <1>5, <1>6, <1>7, <1>8 DEF IInv

\* The summary is printed and the report's code becomes the exit code.
LEMMA PrintSummaryStep == ASSUME IInv, PrintSummary PROVE IInv'
<1>0. em.at = "idle" /\ faults' \in 0 .. MaxFaults /\ Len(acked) \in Nat
  BY BoundsAssumption DEF IInv, Types, EmitInv, Fault, PrintSummary
<1>a. exit' \in {0, 2, 3, 4, 5, 6}
  <2>1. report \in Reports
    BY NoneAssumption DEF IInv, ResultInv, EndInv, PrintSummary
  <2> QED BY <2>1 DEF PrintSummary, Reports
<1>1. Types'
  BY <1>0, <1>a
     DEF IInv, Types, EmitInv, PrintSummary, MainFrame, Idle, Emit, Event, Goto, Return, Fault,
         gateVars, repVars, logVars, Steps, Lines, Plain, Finals, Resumes, EmSteps, Gone,
         NoFacts
<1>2. EmitInv'
  BY <1>0
     DEF IInv, Types, EmitInv, PrintSummary, MainFrame, Idle, Emit, Event, Goto, Return, Fault,
         gateVars, repVars, logVars, Plain, Finals, Resumes, EmSteps
<1>3. LogInv'
  BY <1>0, LogKept
     DEF IInv, EmitInv, PrintSummary, MainFrame, Idle, Emit, Event, Goto, Return, Fault,
         gateVars, repVars, logVars
<1>4. TornInv'
  BY <1>0, TornKept
     DEF IInv, EmitInv, Dead, PrintSummary, MainFrame, Idle, Emit, Event, Goto, Return, Fault,
         gateVars, repVars, logVars
<1>5. LeaveInv'
  BY <1>0
     DEF IInv, Types, EmitInv, LogInv, LeaveInv, Phase, Before, Dead, Written, PrintSummary,
         MainFrame, Idle, Emit, Event, Goto, Return, Fault, gateVars, repVars, logVars
<1>6. ReportInv'
  BY <1>0
     DEF IInv, Types, EmitInv, LogInv, ReportInv, Phase, Reported, Dead, Resumes, PrintSummary,
         MainFrame, Idle, Emit, Event, Goto, Return, Fault, gateVars, repVars, logVars
<1>7. EndInv'
  BY <1>0
     DEF IInv, EndInv, Phase, Dead, OnDisk, EndedBy, Acked, Moved, PrintSummary, MainFrame,
         Idle, Emit, Event, Goto, Return, Fault, gateVars, repVars, logVars
<1>8. ResultInv'
  BY <1>0, NoneAssumption
     DEF IInv, ResultInv, ReportInv, Reports, Types, Acked, Dead, Gone, PrintSummary, MainFrame,
         Idle, Emit, Event, Goto, Return, Fault, gateVars, repVars, logVars
<1> QED BY <1>1, <1>2, <1>3, <1>4, <1>5, <1>6, <1>7, <1>8 DEF IInv

\* An error's code is never one of the report's.
LEMMA ExitWithErrorStep == ASSUME IInv, ExitWithError PROVE IInv'
<1>0. em.at = "idle" /\ faults' \in 0 .. MaxFaults /\ Len(acked) \in Nat
  BY BoundsAssumption DEF IInv, Types, EmitInv, Fault, ExitWithError
<1>1. Types'
  BY <1>0
     DEF IInv, Types, EmitInv, ExitWithError, MainFrame, ErrorCode, Idle, Emit, Event, Goto,
         Return, Fault, gateVars, repVars, logVars, Steps, Lines, Plain, Finals, Resumes,
         EmSteps, Gone, NoFacts
<1>2. EmitInv'
  BY <1>0
     DEF IInv, Types, EmitInv, ExitWithError, MainFrame, ErrorCode, Idle, Emit, Event, Goto,
         Return, Fault, gateVars, repVars, logVars, Plain, Finals, Resumes, EmSteps
<1>3. LogInv'
  BY <1>0, LogKept
     DEF IInv, EmitInv, ExitWithError, MainFrame, ErrorCode, Idle, Emit, Event, Goto, Return,
         Fault, gateVars, repVars, logVars
<1>4. TornInv'
  BY <1>0, TornKept
     DEF IInv, EmitInv, Dead, ExitWithError, MainFrame, ErrorCode, Idle, Emit, Event, Goto,
         Return, Fault, gateVars, repVars, logVars
<1>5. LeaveInv'
  BY <1>0
     DEF IInv, Types, EmitInv, LogInv, LeaveInv, Phase, Before, Dead, Written, ExitWithError,
         MainFrame, ErrorCode, Idle, Emit, Event, Goto, Return, Fault, gateVars, repVars,
         logVars
<1>6. ReportInv'
  BY <1>0
     DEF IInv, Types, EmitInv, LogInv, ReportInv, Phase, Reported, Dead, Resumes, ExitWithError,
         MainFrame, ErrorCode, Idle, Emit, Event, Goto, Return, Fault, gateVars, repVars,
         logVars
<1>7. EndInv'
  BY <1>0
     DEF IInv, EndInv, Phase, Dead, OnDisk, EndedBy, Acked, Moved, ExitWithError, MainFrame,
         ErrorCode, Idle, Emit, Event, Goto, Return, Fault, gateVars, repVars, logVars
<1>8. ResultInv'
  BY <1>0, NoneAssumption
     DEF IInv, ResultInv, ReportInv, Reports, Types, Acked, Dead, Gone, ExitWithError,
         MainFrame, ErrorCode, Idle, Emit, Event, Goto, Return, Fault, gateVars, repVars,
         logVars
<1> QED BY <1>1, <1>2, <1>3, <1>4, <1>5, <1>6, <1>7, <1>8 DEF IInv

-----------------------------------------------------------------------------
(* The report and the end. *)

\* The log's path in the report is brought up to date after the announcement.
LEMMA RefreshLogPathStep == ASSUME IInv, RefreshLogPath PROVE IInv'
<1>0. em.at = "idle" /\ report \in Reports /\ writer.path \in Paths
  BY DEF IInv, Types, EmitInv, ReportInv, Phase, Reported, RefreshLogPath, RefreshTo
<1>a. /\ pc = "refresh" /\ pc' = "report2" /\ em' = em /\ art = "none" /\ em.at = "idle"
      /\ report' \in Reports /\ report'.log = writer.path /\ report'.audit = report.audit
      /\ report'.exit = report.exit /\ report'.integrity = report.integrity
      /\ UNCHANGED <<run, gateVars, logVars, mutated, art, disk, result, disp, exit, faults>>
      /\ UNCHANGED <<file, base, writer, durable, acked, opts, pf, consent>>
  BY <1>0
     DEF IInv, ReportInv, RefreshLogPath, RefreshTo, Goto, Frame, Reports, gateVars, logVars
<1>1. Types'
  BY <1>0, <1>a DEF IInv, Types, Steps
<1>2. EmitInv'
  BY <1>0, <1>a DEF IInv, EmitInv
<1>3. LogInv'
  BY <1>0, <1>a, LogKept DEF IInv
<1>4. TornInv'
  BY <1>0, <1>a, TornKept DEF IInv, Dead
<1>5. LeaveInv'
  BY <1>0, <1>a DEF IInv, LeaveInv, Phase, Before, Dead, Written
<1>6. ReportInv'
  BY <1>0, <1>a, NoneAssumption DEF IInv, ReportInv, LogInv, Phase, Reported
<1>7. EndInv'
  BY <1>0, <1>a, EndAhead DEF IInv, EndInv, Phase, Dead, OnDisk, Acked
<1>8. ResultInv'
  BY <1>0, <1>a, ResultKept DEF Dead
<1> QED BY <1>1, <1>2, <1>3, <1>4, <1>5, <1>6, <1>7, <1>8 DEF IInv

\* What publishing a report leaves alone.
LEMMA Publishing ==
  ASSUME IInv, pc \in {"report", "report2"}, RepFrame, faults' \in 0 .. MaxFaults,
         report' \in Reports, disk' \in [Paths -> Published \cup {None}],
         \A p \in Paths : disk'[p] # None =>
           disk'[p].whole /\ disk'[p].run <= run /\ (disk'[p].run < run => p = "primary"),
         \/ /\ pc' \in {pc, "run_end"} /\ em' = em /\ report' = report /\ result' = result
            /\ art' \in {"none", "written", "synced", "named"}
            /\ (pc' = "run_end") => art' = "none" /\ OnDisk'
            /\ (art' = "named") => OnDisk'
         \/ /\ pc = "report2" /\ pc' = "returned" /\ em' = Idle /\ result' = "audit"
            /\ report' = report /\ art' = "none"
         \/ /\ pc = "report" /\ pc' = "emit" /\ result' = result /\ art' = "none"
            /\ em' = [at |-> "first", line |-> Event("report_fallback"), then |-> "refresh"]
            /\ report' = [report EXCEPT !.audit = "degraded", !.path = "fallback"]
  PROVE  IInv'
<1>0. /\ em.at = "idle" /\ em'.at \in {"idle", "first"} /\ report \in Reports
      /\ Event("report_fallback") \in Plain /\ Event("report_fallback") \notin Finals
      /\ UNCHANGED <<run, opts, pf, consent, mutated, file, durable, base, writer, acked, disp, exit>>
  BY DEF IInv, Types, EmitInv, ReportInv, Phase, Reported, RepFrame, Event, Plain, Finals, Idle,
         gateVars
<1>a. /\ report'.exit = report.exit /\ report'.integrity = report.integrity
      /\ report'.log = report.log /\ (report'.audit = "degraded" \/ report'.audit = report.audit)
      /\ (pc' = "emit" => report'.audit = "degraded")
  BY <1>0 DEF Reports
<1>1. Types'
  BY <1>0 DEF IInv, Types, Steps, Lines, Resumes, EmSteps, Idle, Gone
<1>2. EmitInv'
  BY <1>0 DEF IInv, EmitInv, Resumes, Idle
<1>3. LogInv'
  BY <1>0, LogKept DEF IInv
<1>4. TornInv'
  BY <1>0, TornKept DEF IInv, Dead
<1>5. LeaveInv'
  BY <1>0 DEF IInv, LeaveInv, Phase, Before, Dead, Written, Idle
<1>6. ReportInv'
  BY <1>0, <1>a, NoneAssumption DEF IInv, ReportInv, Phase, Reported, Idle
<1>7. EndInv'
  BY <1>0, EndAhead DEF IInv, EndInv, Phase, Dead, Acked, Idle
<1>8. ResultInv'
  BY <1>0, ResultKept DEF Dead
<1> QED BY <1>1, <1>2, <1>3, <1>4, <1>5, <1>6, <1>7, <1>8 DEF IInv

\* A report that fails is a run that goes on to its fallback, or ends.
LEMMA ReportFailsStep ==
  ASSUME IInv, Fault, ReportFails, RepFrame, disk' = disk
  PROVE  IInv'
<1>1. /\ pc \in {"report", "report2"} /\ report \in Reports /\ faults' \in 0 .. MaxFaults
  BY BoundsAssumption DEF IInv, Types, EmitInv, ReportInv, Phase, Reported, ReportFails, Fault
<1>2. report' \in Reports
  BY <1>1 DEF ReportFails, Reports, Paths
<1>3. /\ disk' \in [Paths -> Published \cup {None}]
      /\ \A p \in Paths : disk'[p] # None =>
           disk'[p].whole /\ disk'[p].run <= run /\ (disk'[p].run < run => p = "primary")
  BY DEF IInv, Types, ReportInv
<1> QED
  BY <1>1, <1>2, <1>3, Publishing DEF ReportFails, Emit, Return

\* The temporary is written and synchronized.
LEMMA FillReportStep == ASSUME IInv, FillReport PROVE IInv'
<1>1. CASE Fault /\ ReportFails
  BY <1>1, ReportFailsStep DEF FillReport
<1>2. CASE UNCHANGED <<report, result, faults>> /\ pc' = pc /\ em' = em /\ art' \in {"written", "synced"}
  <2>1. /\ pc \in {"report", "report2"} /\ report' \in Reports /\ faults' \in 0 .. MaxFaults
        /\ disk' = disk
    BY <1>2 DEF IInv, Types, EmitInv, ReportInv, Phase, Reported, FillReport
  <2>2. /\ disk' \in [Paths -> Published \cup {None}]
        /\ \A p \in Paths : disk'[p] # None =>
             disk'[p].whole /\ disk'[p].run <= run /\ (disk'[p].run < run => p = "primary")
    BY <2>1 DEF IInv, Types, ReportInv
  <2> QED
    BY <1>2, <2>1, <2>2, Publishing DEF FillReport
<1> QED BY <1>1, <1>2 DEF FillReport, Goto

\* The report gets its name after its contents are synchronized.
LEMMA PublishReportStep == ASSUME IInv, PublishReport PROVE IInv'
<1>0. art = "synced" /\ pc \in {"report", "report2"} /\ RepFrame
  BY DEF PublishReport, PublishBefore
<1>1. CASE Fault /\ ReportFails /\ disk' = disk
  BY <1>0, <1>1, ReportFailsStep
<1>2. CASE /\ UNCHANGED <<report, result, faults>> /\ pc' = pc /\ em' = em /\ art' = "named"
           /\ disk' = [disk EXCEPT ![report.path] = [run |-> run, rep |-> report, whole |-> art = "synced"]]
  <2>1. report \in Reports /\ report.path \in Paths /\ faults' \in 0 .. MaxFaults /\ run \in 1 .. MaxRuns
        /\ report' \in Reports
    BY <1>0, <1>2 DEF IInv, Types, EmitInv, ReportInv, Phase, Reported, Reports
  <2> DEFINE new == [run |-> run, rep |-> report, whole |-> TRUE]
  <2>2. new \in Published /\ new.run = run /\ new.whole
    BY <2>1 DEF Published
  <2>3. disk' = [disk EXCEPT ![report.path] = new]
    BY <1>0, <1>2
  <2>4. run' = run /\ run <= run
    BY <1>0, <2>1 DEF RepFrame
  <2> HIDE DEF new
  <2>5. /\ disk' \in [Paths -> Published \cup {None}] /\ disk'[report.path] = new
        /\ \A p \in Paths : p # report.path => disk'[p] = disk[p]
    BY <2>1, <2>2, <2>3 DEF IInv, Types
  <2>6. \A p \in Paths : disk'[p] # None =>
             disk'[p].whole /\ disk'[p].run <= run /\ (disk'[p].run < run => p = "primary")
    BY <2>1, <2>2, <2>5 DEF IInv, ReportInv
  <2>7. OnDisk'
    BY <1>2, <2>4, <2>5 DEF OnDisk, new
  <2> QED
    BY <1>0, <1>2, <2>1, <2>5, <2>6, <2>7, Publishing
<1> QED BY <1>0, <1>1, <1>2 DEF PublishReport, PublishBefore, Goto

\* The published report is settled, or taken for failed.
LEMMA SettleReportStep == ASSUME IInv, SettleReport PROVE IInv'
<1>0. art = "named" /\ pc \in {"report", "report2"} /\ RepFrame /\ disk' = disk
  BY DEF SettleReport
<1>1. CASE Fault /\ ReportFails
  BY <1>0, <1>1, ReportFailsStep
<1>2. CASE UNCHANGED <<report, result, faults>> /\ pc' = "run_end" /\ em' = em /\ art' = "none"
  <2>1. /\ report' \in Reports /\ faults' \in 0 .. MaxFaults /\ run' = run
    BY <1>0, <1>2 DEF IInv, Types, EmitInv, ReportInv, Phase, Reported, RepFrame
  <2>2. /\ disk' \in [Paths -> Published \cup {None}]
        /\ \A p \in Paths : disk'[p] # None =>
             disk'[p].whole /\ disk'[p].run <= run /\ (disk'[p].run < run => p = "primary")
    BY <1>0 DEF IInv, Types, ReportInv
  <2>3. OnDisk'
    BY <1>0, <1>2, <2>1 DEF IInv, EndInv, EmitInv, Phase, OnDisk
  <2> QED
    BY <1>0, <1>2, <2>1, <2>2, <2>3, Publishing
<1> QED BY <1>0, <1>1, <1>2 DEF SettleReport, Goto

\* Only a synchronized log lets the run succeed.
LEMMA FinishStep == ASSUME IInv, Finish PROVE IInv'
<1>0. /\ pc = "finish" /\ pc' = "returned" /\ em.at = "idle" /\ em' = Idle /\ Acked /\ Phase = "finish"
      /\ result' \in {"io", "invariant", "ok"} /\ faults' \in 0 .. MaxFaults
      /\ result' = "ok" => report.integrity # "failed" /\ durable'[writer.path] = Len(file[writer.path])
      /\ UNCHANGED <<run, opts, pf, consent, mutated, file, base, writer, acked, report, art, disk,
                     disp, exit>>
  <2>1. em.at = "idle"
    BY DEF IInv, EmitInv, Finish
  <2>2. durable \in [Paths -> Nat] /\ writer.path \in Paths
    BY DEF IInv, Types
  <2>3. Acked
    BY DEF IInv, EndInv, Finish
  <2> QED BY <2>1, <2>2, <2>3, BoundsAssumption
    DEF IInv, Types, Phase, Finish, FinishWith, OrFault, Fault, Return, gateVars, repVars
<1>a. /\ durable' \in [Paths -> Nat] /\ \A p \in Paths : durable'[p] <= Len(file[p])
      /\ report \in Reports
  <2>1. durable \in [Paths -> Nat] /\ \A p \in Paths : Len(file[p]) \in Nat /\ durable[p] <= Len(file[p])
    BY Files DEF IInv, Types, LogInv
  <2>2. report \in Reports
    BY <1>0 DEF IInv, ReportInv, Reported
  <2>3. writer.path \in Paths
    BY DEF IInv, Types
  <2>4. PICK n : /\ n \in {durable[writer.path], Len(file[writer.path])}
                 /\ durable' = [durable EXCEPT ![writer.path] = n]
    BY DEF Finish, FinishWith
  <2>5. n \in Nat /\ n <= Len(file[writer.path])
    BY <2>1, <2>3, <2>4
  <2> QED BY <2>1, <2>2, <2>3, <2>4, <2>5
<1>1. Types'
  BY <1>0, <1>a DEF IInv, Types, Idle, Steps, EmSteps
<1>2. EmitInv'
  BY <1>0 DEF IInv, EmitInv, Idle
<1>3. LogInv'
  <2>1. Events' = Events
    BY <1>0 DEF Events, Written
  <2> QED BY <1>0, <1>a, <2>1 DEF IInv, LogInv, Idle
<1>4. TornInv'
  BY <1>0, TornKept DEF IInv, Dead
<1>5. LeaveInv'
  BY <1>0 DEF IInv, LeaveInv, Phase, Before, Dead, Written, Idle
<1>6. ReportInv'
  BY <1>0 DEF IInv, ReportInv, Phase, Reported, Idle
<1>7. EndInv'
  BY <1>0 DEF IInv, EndInv, Phase, Dead, Acked, EndedBy, OnDisk, Moved, Idle
<1>8. ResultInv'
  <2>1. result = None /\ exit = None
    BY <1>0 DEF IInv, ResultInv, Dead, Gone
  <2>2. (result' = "ok") => report.integrity = "ok"
    BY <1>0, <1>a DEF Reports
  <2> QED BY <1>0, <2>1, <2>2, NoneAssumption DEF ResultInv, Acked, Dead, Idle
<1> QED BY <1>1, <1>2, <1>3, <1>4, <1>5, <1>6, <1>7, <1>8 DEF IInv

-----------------------------------------------------------------------------
(* emit() and the end of a process. *)

\* What a step of emit() leaves alone.
EmitFrame == UNCHANGED <<pc, run, opts, pf, consent, mutated, durable, base, acked, report, art,
                         disk, result, disp, exit>>

\* A call of emit() that writes a line: the event itself, a notice, or a torn one
\* after which the file is given up.
LEMMA EmitWrites ==
  ASSUME IInv, pc = "emit", em.at \notin {"ok", "err", "failover"}, EmitFrame, writer' = writer,
         faults' \in 0 .. MaxFaults, NEW l \in Lines, NEW at \in EmSteps \ {"idle"},
         file' = [file EXCEPT ![writer.path] = Append(@, l)], em' = [em EXCEPT !.at = at],
         \/ l = em.line /\ at = "ok"
         \/ l = Notice /\ at # "ok"
         \/ l = Torn /\ (at = "err" \/ (at = "failover" /\ writer.path = "primary"))
  PROVE  IInv'
<1>0. /\ em.at # "idle" /\ em.line \in Plain \cup Finals /\ em.line \in Lines
      /\ em' = [at |-> at, line |-> em.line, then |-> em.then] /\ at # "idle"
      /\ em'.at = at /\ em'.line = em.line /\ em'.then = em.then
      /\ Phase = em.then /\ Phase' = Phase /\ writer.path \in Paths
  BY DEF IInv, Types, EmitInv, Phase, Lines
<1>a. Torn \in Marks /\ Notice \in Marks /\ em.line \notin Marks /\ Notice # Torn /\ em.line # Torn
  BY <1>0 DEF Marks, Torn, Notice, Plain, Finals
<1>b. /\ file' \in [Paths -> Seq(Lines)]
      /\ \A p \in Paths \ {writer.path} : file'[p] = file[p]
      /\ Len(file'[writer.path]) = Len(file[writer.path]) + 1
      /\ file'[writer.path][Len(file[writer.path]) + 1] = l
      /\ \A i \in 1 .. Len(file[writer.path]) : file'[writer.path][i] = file[writer.path][i]
      /\ \A p \in Paths : Len(file[p]) \in Nat
      /\ Written' = Append(Written, l)
      /\ Events' = IF l \in Marks THEN Events ELSE Append(Events, l)
      /\ EventsOf(file["fallback"])' =
            IF writer.path = "primary" \/ l \in Marks THEN EventsOf(file["fallback"])
            ELSE Append(EventsOf(file["fallback"]), l)
  BY Grown, Files DEF IInv, EmitFrame
<1>1. Types'
  <2>1. em' \in [at : EmSteps, line : Lines \cup {None}, then : Resumes \cup {None}]
    BY <1>0 DEF IInv, Types
  <2> QED BY <1>b, <2>1 DEF IInv, Types, EmitFrame
<1>2. EmitInv'
  BY <1>0 DEF IInv, EmitInv, EmitFrame
<1>3. LogInv'
  <2>1. Events' = IF at = "ok" THEN Append(acked, em.line) ELSE acked
    BY <1>a, <1>b DEF IInv, LogInv
  <2>2. /\ base' <= Len(file'["primary"]) /\ \A p \in Paths : durable'[p] <= Len(file'[p])
    BY <1>b, <1>0 DEF IInv, LogInv, Types, EmitFrame, Paths
  <2>3. (writer.path = "primary") => file'["fallback"] = <<>>
    BY <1>b DEF IInv, LogInv, Paths
  <2> QED BY <1>0, <2>1, <2>2, <2>3 DEF IInv, LogInv, EmitFrame
<1>4. TornInv'
  <2> SUFFICES ASSUME NEW p \in Paths, NEW i \in 1 .. Len(file'[p]), file'[p][i] = Torn
               PROVE  \/ p = "primary" /\ i <= base
                      \/ /\ i = Len(file'[p])
                         /\ \/ at = "err" \/ pc' \in Dead
                            \/ p = "primary" /\ (writer.path = "fallback" \/ at = "failover")
    BY <1>0 DEF TornInv, EmitFrame
  <2>1. pc' \notin Dead /\ pc \notin Dead
    BY DEF EmitFrame, Dead
  <2>2. CASE p # writer.path
    <3>1. file'[p] = file[p] /\ (p = "primary" => writer.path = "fallback")
      BY <2>2, <1>0, <1>b DEF Paths
    <3> QED BY <2>1, <3>1 DEF IInv, TornInv
  <2>3. CASE p = writer.path /\ i \in 1 .. Len(file[p])
    <3>1. file[p][i] = Torn
      BY <2>3, <1>b
    <3>2. ~(p = "primary" /\ writer.path = "fallback")
      BY <2>3
    <3> QED BY <2>1, <2>3, <3>1, <3>2 DEF IInv, TornInv
  <2>4. CASE p = writer.path /\ i = Len(file[p]) + 1
    <3>1. l = Torn /\ i = Len(file'[p])
      BY <2>4, <1>b
    <3> QED BY <2>4, <3>1, <1>a
  <2> QED BY <2>2, <2>3, <2>4, <1>b
<1>5. LeaveInv'
  <2>1. pc \notin Before /\ Phase \notin {"start", "lock", "gates"} \cup Dead
    BY <1>0 DEF IInv, EmitInv, Before, Dead, Resumes
  <2> QED BY <1>0, <2>1 DEF IInv, LeaveInv, EmitFrame
<1>6. ReportInv'
  BY <1>0 DEF IInv, ReportInv, EmitFrame
<1>7. EndInv'
  <2>1. ~Acked
    BY <1>0, EndUnwritten
  <2>2. (Phase = "finish" /\ Moved) =>
           EventsOf(file["fallback"])' = IF at = "ok" THEN <<em.line>> ELSE <<>>
    <3>1. SUFFICES ASSUME Phase = "finish", Moved
                   PROVE  EventsOf(file["fallback"])' = IF at = "ok" THEN <<em.line>> ELSE <<>>
      OBVIOUS
    <3>2. EventsOf(file["fallback"]) = <<>>
      BY <3>1, <1>0 DEF IInv, EndInv
    <3>3. writer.path = "fallback"
      BY <3>1, <1>0, NoneAssumption
         DEF IInv, EndInv, ReportInv, LogInv, Moved, Paths, Reports, Types
    <3>4. Append(<<>>, em.line) = <<em.line>>
      OBVIOUS
    <3> QED BY <3>2, <3>3, <3>4, <1>a, <1>b
  <2> QED BY <1>0, <2>1, <2>2 DEF IInv, EndInv, EmitFrame, Acked, EndedBy, OnDisk, Moved
<1>8. ResultInv'
  BY ResultKept DEF EmitFrame, Dead
<1> QED BY <1>1, <1>2, <1>3, <1>4, <1>5, <1>6, <1>7, <1>8 DEF IInv

\* A call of emit() that writes nothing, or goes over to the fallback.
LEMMA EmitQuiet ==
  ASSUME IInv, pc = "emit", em.at # "ok", EmitFrame, file' = file,
         faults' \in 0 .. MaxFaults, NEW at \in EmSteps \ {"idle", "ok"},
         em' = [em EXCEPT !.at = at],
         writer' \in {writer, [path |-> "fallback", degraded |-> TRUE]},
         em.at \in {"err", "failover"} => at = "err" \/ writer'.path = "fallback",
         em.at # "err"
  PROVE  IInv'
<1>0. /\ em.at # "idle" /\ em' = [at |-> at, line |-> em.line, then |-> em.then] /\ at # "idle"
      /\ em'.at = at /\ em'.line = em.line /\ em'.then = em.then
      /\ Phase = em.then /\ Phase' = Phase /\ writer.path \in Paths
  BY DEF IInv, Types, EmitInv, Phase, Lines
<1>a. /\ writer' \in [path : Paths, degraded : BOOLEAN] /\ writer'.degraded = (writer'.path = "fallback")
      /\ writer.path = "fallback" => writer'.path = "fallback"
      /\ writer'.path = "primary" => writer' = writer
      /\ writer' # writer => writer'.path = "fallback"
  <2>1. writer \in [path : Paths, degraded : BOOLEAN] /\ writer.degraded = (writer.path = "fallback")
    BY DEF IInv, Types, LogInv
  <2>2. CASE writer' = writer
    BY <2>1, <2>2
  <2>3. CASE writer' = [path |-> "fallback", degraded |-> TRUE]
    BY <2>1, <2>3 DEF Paths
  <2> QED BY <2>2, <2>3
<1>1. Types'
  <2>1. em' \in [at : EmSteps, line : Lines \cup {None}, then : Resumes \cup {None}]
    BY <1>0 DEF IInv, Types
  <2> QED BY <1>a, <2>1 DEF IInv, Types, EmitFrame
<1>2. EmitInv'
  BY <1>0 DEF IInv, EmitInv, EmitFrame
<1>3. LogInv'
  <2>1. Events' = Events
    BY DEF Events, Written, EmitFrame
  <2> QED BY <1>0, <1>a, <2>1 DEF IInv, LogInv, EmitFrame
<1>4. TornInv'
  BY <1>0, <1>a DEF IInv, TornInv, EmitFrame
<1>5. LeaveInv'
  BY <1>0 DEF IInv, LeaveInv, EmitFrame, Written
<1>6. ReportInv'
  <2>1. Phase \notin {"report", "report2", "run_end"}
    BY <1>0 DEF IInv, EmitInv, Resumes
  <2> QED BY <1>0, <1>a, <2>1 DEF IInv, ReportInv, EmitFrame
<1>7. EndInv'
  <2>1. ~Acked
    BY <1>0, EndUnwritten
  <2>2. (Phase = "finish") => EventsOf(file["fallback"]) = <<>> \/ ~Moved'
    <3>1. CASE writer' = writer
      BY <3>1, <1>0 DEF IInv, EndInv, Moved, EmitFrame
    <3>2. CASE writer' # writer /\ writer.path = "primary"
      BY <3>2, EventsNone DEF IInv, LogInv
    <3>3. CASE writer.path = "fallback"
      <4>1. writer' = writer
        BY <3>3 DEF IInv, LogInv, Types
      <4> QED BY <4>1, <3>1
    <3> QED BY <3>1, <3>2, <3>3, <1>0 DEF Paths
  <2> QED BY <1>0, <2>1, <2>2 DEF IInv, EndInv, EmitFrame, Acked, EndedBy, OnDisk
<1>8. ResultInv'
  BY ResultKept DEF EmitFrame, Dead
<1> QED BY <1>1, <1>2, <1>3, <1>4, <1>5, <1>6, <1>7, <1>8 DEF IInv

\* One attempt at a line, whatever follows it.
LEMMA AttemptStep ==
  ASSUME IInv, pc = "emit", em.at \notin {"ok", "err", "failover"}, EmitFrame, writer' = writer,
         NEW l, NEW onOk \in EmSteps, NEW onBack \in EmSteps, NEW onTorn, Attempt(l, onOk, onBack, onTorn),
         (l = em.line /\ onOk = "ok") \/ (l = Notice /\ onOk = "line"),
         onBack \notin {"idle", "ok"},
         onTorn = "err" \/ (onTorn = "failover" /\ writer.path = "primary")
  PROVE  IInv'
<1>1. l \in Lines /\ Torn \in Lines
  BY DEF IInv, Types, EmitInv, Lines, Marks
<1>2. faults \in 0 .. MaxFaults /\ MaxFaults \in Nat /\ (Fault => faults' \in 0 .. MaxFaults)
      /\ (faults' = faults => faults' \in 0 .. MaxFaults)
  BY BoundsAssumption DEF IInv, Types, Fault
<1>3. CASE file' = [file EXCEPT ![writer.path] = Append(@, l)] /\ em' = [em EXCEPT !.at = onOk] /\ faults' = faults
  BY <1>1, <1>2, <1>3, EmitWrites DEF EmSteps
<1>4. CASE Fault /\ em' = [em EXCEPT !.at = onBack] /\ file' = file
  BY <1>2, <1>4, EmitQuiet
<1>5. CASE /\ Fault /\ em' = [em EXCEPT !.at = onTorn]
           /\ \E left \in {<<>>, <<Torn>>} : file' = [file EXCEPT ![writer.path] = @ \o left]
  <2>1. file' = file \/ file' = [file EXCEPT ![writer.path] = Append(@, Torn)]
    BY <1>5, Fragment DEF IInv
  <2>2. onTorn \in EmSteps \ {"idle", "ok"}
    BY DEF EmSteps
  <2>3. CASE file' = file
    BY <1>2, <1>5, <2>2, <2>3, EmitQuiet
  <2>4. CASE file' = [file EXCEPT ![writer.path] = Append(@, Torn)]
    BY <1>1, <1>2, <1>5, <2>2, <2>4, EmitWrites
  <2> QED BY <2>1, <2>3, <2>4
<1> QED BY <1>3, <1>4, <1>5 DEF Attempt, AttemptThen

\* Opening a log writes nothing.
LEMMA OpenStep ==
  ASSUME IInv, pc = "emit", em.at \notin {"ok", "err"}, EmitFrame, file' = file,
         NEW onOk \in EmSteps \ {"idle", "ok"}, NEW onFail \in EmSteps \ {"idle", "ok"},
         Open(onOk, onFail),
         em.at = "failover" => onFail = "err",
         \/ writer' = writer /\ em.at # "failover"
         \/ writer' = IF em'.at = onOk THEN [path |-> "fallback", degraded |-> TRUE] ELSE writer
  PROVE  IInv'
<1>1. PICK ok \in BOOLEAN : OrFault(ok) /\ em' = [em EXCEPT !.at = IF ok THEN onOk ELSE onFail]
  BY DEF Open
<1>2. faults' \in 0 .. MaxFaults
  BY <1>1, BoundsAssumption DEF IInv, Types, OrFault, Fault
<1>3. em'.at = IF ok THEN onOk ELSE onFail
  BY <1>1 DEF IInv, Types
<1> QED
  BY <1>1, <1>2, <1>3, EmitQuiet

\* Every step of emit() keeps the log's account.
LEMMA EmitStepStep == ASSUME IInv, EmitStep PROVE IInv'
<1>0. EmitFrame /\ pc = "emit"
  BY DEF EmitStep, EmitFrame, EmitFirst, EmitReopen, EmitFailover, FailoverMarking, EmitNotice,
         EmitAfterNotice, gateVars, repVars
<1>a. writer.path \in Paths /\ (AfterTorn = "err" \/ (AfterTorn = "failover" /\ writer.path = "primary"))
  BY DEF IInv, Types, AfterTorn, Paths
<1>1. CASE EmitFirst
  BY <1>0, <1>1, <1>a, AttemptStep DEF EmitFirst, EmSteps
<1>2. CASE EmitReopen
  <2>1. CASE em.at = "reopen" /\ Open("retry", "failover") /\ UNCHANGED file
    BY <1>0, <1>2, <2>1, OpenStep DEF EmitReopen, EmSteps
  <2>2. CASE em.at = "retry" /\ Attempt(em.line, "ok", "failover", AfterTorn)
    BY <1>0, <1>2, <1>a, <2>2, AttemptStep DEF EmitReopen, EmSteps
  <2> QED BY <1>2, <2>1, <2>2 DEF EmitReopen
<1>3. CASE EmitFailover
  BY <1>0, <1>3, OpenStep DEF EmitFailover, FailoverMarking, EmSteps
<1>4. CASE EmitNotice
  <2>1. CASE em.at = "notice" /\ Attempt(Notice, "line", "notice_reopen", "err")
    BY <1>0, <1>4, <2>1, AttemptStep DEF EmitNotice, EmSteps
  <2>2. CASE em.at = "notice_reopen" /\ Open("notice_retry", "err") /\ UNCHANGED file
    BY <1>0, <1>4, <2>2, OpenStep DEF EmitNotice, EmSteps
  <2>3. CASE em.at = "notice_retry" /\ Attempt(Notice, "line", "err", "err")
    BY <1>0, <1>4, <2>3, AttemptStep DEF EmitNotice, EmSteps
  <2> QED BY <1>4, <2>1, <2>2, <2>3 DEF EmitNotice
<1>5. CASE EmitAfterNotice
  BY <1>0, <1>5, AttemptStep DEF EmitAfterNotice, EmSteps
<1> QED BY <1>1, <1>2, <1>3, <1>4, <1>5 DEF EmitStep

\* emit() returns: an event is acknowledged, or the run is over.
LEMMA EmitReturnsStep == ASSUME IInv, EmitReturns PROVE IInv'
<1>0. /\ pc = "emit" /\ em' = Idle /\ em.at \in {"ok", "err"} /\ em.at # "idle" /\ Phase = em.then
      /\ em.line \in Plain \cup Finals /\ em.line \in Lines /\ em.then \in Resumes
      /\ acked \in Seq(Lines) /\ Len(acked) \in Nat
      /\ UNCHANGED <<run, opts, pf, consent, mutated, file, durable, base, writer, report, art, disk,
                     disp, exit, faults>>
  BY DEF IInv, Types, EmitInv, EmitReturns, Return, Phase, Lines, gateVars, repVars
<1>1. CASE em.at = "ok" /\ acked' = Append(acked, em.line) /\ pc' = em.then /\ result' = result
  <2>0. /\ acked' \in Seq(Lines) /\ Len(acked') = Len(acked) + 1 /\ acked'[Len(acked')] = em.line
        /\ \A i \in 1 .. Len(acked) : acked'[i] = acked[i]
        /\ em'.at = "idle" /\ Phase' = Phase /\ pc' \notin Before \cup Dead \cup {"emit"}
        /\ acked' # <<>>
    BY <1>0, <1>1, AppendProperties DEF Idle, Phase, Before, Dead, Resumes
  <2>1. Types'
    BY <1>0, <1>1, <2>0 DEF IInv, Types, Idle, Steps, Resumes, EmSteps
  <2>2. EmitInv'
    BY <2>0 DEF EmitInv
  <2>3. LogInv'
    <3>1. Events' = acked'
      BY <1>0, <1>1 DEF IInv, LogInv, Events, Written
    <3> QED BY <1>0, <2>0, <3>1 DEF IInv, LogInv
  <2>4. TornInv'
    BY <1>0, <1>1, <2>0, TornKept DEF IInv, Dead
  <2>5. LeaveInv'
    BY <1>0, <2>0 DEF IInv, LeaveInv, Written
  <2>6. ReportInv'
    BY <1>0, <1>1, <2>0 DEF IInv, ReportInv
  <2>7. EndInv'
    <3>1. Acked' <=> em.then = "finish"
      BY <1>0, <2>0 DEF IInv, EmitInv, Acked
    <3>2. \A i \in 1 .. Len(acked') : acked'[i] \in Finals => i = Len(acked') /\ em.then = "finish"
      BY <1>0, <2>0, EndUnwritten DEF IInv, EmitInv
    <3>3. (em.then = "finish") => EndedBy(acked'[Len(acked')])
      BY <1>0, <2>0 DEF IInv, EndInv
    <3>4. (em.then = "finish") => EndedBy(acked[Len(acked)])'
      BY <1>0, <3>3 DEF EndedBy
    <3> QED
      BY <1>0, <1>1, <2>0, <3>1, <3>2, <3>4 DEF IInv, EndInv, OnDisk, Moved, EndedBy
  <2>8. ResultInv'
    BY <1>0, <1>1, ResultKept DEF Dead
  <2> QED BY <2>1, <2>2, <2>3, <2>4, <2>5, <2>6, <2>7, <2>8 DEF IInv
<1>2. CASE em.at = "err" /\ Return("audit") /\ acked' = acked
  <2>0. pc' = "returned" /\ result' = "audit" /\ em'.at = "idle" /\ Phase' = "returned"
    BY <1>0, <1>2 DEF Return, Idle, Phase
  <2>1. Types'
    BY <1>0, <1>2, <2>0 DEF IInv, Types, Idle, Steps, EmSteps
  <2>2. EmitInv'
    BY <2>0 DEF EmitInv
  <2>3. LogInv'
    BY <1>0, <1>2, <2>0, LogKept DEF IInv
  <2>4. TornInv'
    BY <1>0, <2>0, TornKept DEF IInv, Dead
  <2>5. LeaveInv'
    BY <1>0, <2>0 DEF IInv, LeaveInv, Before, Dead, Written
  <2>6. ReportInv'
    BY <1>0, <2>0 DEF IInv, ReportInv, Reported
  <2>7. EndInv'
    <3>1. acked' = acked /\ ~Acked'
      BY <1>0, <1>2, EndUnwritten DEF Acked
    <3> QED BY <1>0, <2>0, <3>1, EndUnwritten DEF EndInv
  <2>8. ResultInv'
    BY <1>0, <2>0, ResultKept DEF Dead
  <2> QED BY <2>1, <2>2, <2>3, <2>4, <2>5, <2>6, <2>7, <2>8 DEF IInv
<1> QED BY <1>0, <1>1, <1>2 DEF EmitReturns

\* A terminal that fails is the dashboard's concern alone.
LEMMA LoopFailsStep == ASSUME IInv, LoopFails PROVE IInv'
<1>0. /\ disp' = "broken" /\ faults' \in 0 .. MaxFaults
      /\ UNCHANGED <<pc, run, opts, pf, consent, mutated, file, durable, base, writer, em, acked,
                     report, art, disk, result, exit>>
  BY BoundsAssumption DEF IInv, Types, LoopFails, Fault, MainFrame, gateVars, logVars, repVars
<1>1. Types'
  BY <1>0 DEF IInv, Types
<1>2. EmitInv' /\ LogInv' /\ TornInv' /\ LeaveInv'
  BY <1>0 DEF IInv, EmitInv, LogInv, TornInv, LeaveInv, Events, Written, Phase
<1>3. ReportInv' /\ EndInv' /\ ResultInv'
  BY <1>0 DEF IInv, ReportInv, EndInv, ResultInv, Phase, OnDisk, EndedBy, Acked, Moved
<1> QED BY <1>1, <1>2, <1>3 DEF IInv

\* A kill leaves at most one torn line, in the file that was being written.
LEMMA KillStep == ASSUME IInv, Kill PROVE IInv'
<1>0. /\ pc \notin Gone /\ pc' = "killed" /\ pc' \in Dead /\ pc' \notin {"emit"} \cup Before
      /\ UNCHANGED <<run, opts, pf, consent, mutated, durable, base, writer, em, acked, report, art,
                     disk, result, disp, exit, faults>>
  BY DEF Kill, Gone, Dead, Before, gateVars, repVars
<1>a. \/ file' = file
      \/ em.at \notin {"idle", "ok", "err", "failover"} /\ file' = [file EXCEPT ![writer.path] = Append(@, Torn)]
  <2>1. PICK left \in {<<>>} \cup IF em.at \in {"first", "retry", "notice", "notice_retry", "line"}
                                  THEN {<<Torn>>} ELSE {} :
             file' = [file EXCEPT ![writer.path] = @ \o left]
    BY DEF Kill
  <2>2. file' = file \/ file' = [file EXCEPT ![writer.path] = Append(@, Torn)]
    BY <2>1, Fragment DEF IInv
  <2>3. CASE em.at \in {"first", "retry", "notice", "notice_retry", "line"}
    BY <2>2, <2>3
  <2>4. CASE left = <<>>
    <3>1. writer.path \in Paths /\ file[writer.path] \o <<>> = file[writer.path]
      BY Files, ConcatEmptySeq DEF IInv, Types, Paths
    <3>2. file = [file EXCEPT ![writer.path] = file[writer.path]]
      BY <3>1 DEF IInv, Types
    <3> QED BY <2>1, <2>4, <3>1, <3>2
  <2> QED BY <2>1, <2>3, <2>4
<1>b. (em.at # "idle") => pc = "emit" /\ Phase' = Phase
  BY <1>0 DEF IInv, EmitInv, Gone, Phase
<1>c. (em.at = "idle") => Phase' = "killed" /\ Phase = pc /\ file' = file
  BY <1>0, <1>a DEF Phase
<1>d. ASSUME file' # file
      PROVE  /\ file' \in [Paths -> Seq(Lines)]
             /\ \A p \in Paths \ {writer.path} : file'[p] = file[p]
             /\ Len(file'[writer.path]) = Len(file[writer.path]) + 1
             /\ \A i \in 1 .. Len(file[writer.path]) : file'[writer.path][i] = file[writer.path][i]
             /\ \A p \in Paths : Len(file[p]) \in Nat
             /\ Events' = Events /\ EventsOf(file["fallback"])' = EventsOf(file["fallback"])
  <2>1. Torn \in Lines /\ Torn \in Marks
    BY DEF Lines, Marks
  <2> QED BY <1>0, <1>a, <1>d, <2>1, Grown, Files DEF IInv
<1>1. Types'
  BY <1>0, <1>d DEF IInv, Types, Steps, Gone
<1>2. EmitInv'
  BY <1>0 DEF IInv, EmitInv
<1>3. LogInv'
  <2>1. CASE file' = file
    BY <1>0, <2>1 DEF IInv, LogInv, Events, Written
  <2>2. CASE file' # file
    BY <1>0, <1>d, <2>2 DEF IInv, LogInv, Types, Paths
  <2> QED BY <2>1, <2>2
<1>4. TornInv'
  <2>1. CASE file' = file
    BY <1>0, <2>1 DEF IInv, TornInv
  <2>2. CASE file' # file
    <3>1. em.at \notin {"err", "failover", "idle"} /\ pc \notin Dead
      BY <2>2, <1>a, <1>b DEF Dead
    <3> SUFFICES ASSUME NEW p \in Paths, NEW i \in 1 .. Len(file'[p]), file'[p][i] = Torn
                 PROVE  (p = "primary" /\ i <= base) \/ i = Len(file'[p])
      BY <1>0 DEF TornInv
    <3>2. CASE p # writer.path
      BY <2>2, <3>2, <1>d DEF IInv, TornInv
    <3>3. CASE p = writer.path /\ i \in 1 .. Len(file[p])
      BY <2>2, <3>1, <3>3, <1>d DEF IInv, TornInv
    <3>4. CASE p = writer.path /\ i = Len(file[p]) + 1
      BY <2>2, <3>4, <1>d
    <3> QED BY <2>2, <3>2, <3>3, <3>4, <1>d
  <2> QED BY <2>1, <2>2
<1>5. LeaveInv'
  <2>1. CASE em.at = "idle"
    BY <1>0, <1>c, <2>1 DEF IInv, LeaveInv, Written, Dead
  <2>2. CASE em.at # "idle"
    <3>1. Phase \notin {"start", "lock", "gates"} \cup Dead
      BY <2>2 DEF IInv, EmitInv, Phase, Dead, Resumes
    <3> QED BY <1>0, <1>b, <2>2, <3>1 DEF IInv, LeaveInv
  <2> QED BY <2>1, <2>2
<1>6. ReportInv'
  <2>1. CASE em.at = "idle"
    BY <1>0, <1>c, <2>1 DEF IInv, ReportInv, Reported
  <2>2. CASE em.at # "idle"
    BY <1>0, <1>b, <2>2 DEF IInv, ReportInv
  <2> QED BY <2>1, <2>2
<1>7. EndInv'
  <2>1. CASE em.at = "idle"
    BY <1>0, <1>c, <2>1 DEF IInv, EndInv, OnDisk, EndedBy, Acked, Moved
  <2>2. CASE em.at # "idle"
    <3>1. EventsOf(file["fallback"])' = EventsOf(file["fallback"])
      BY <1>d
    <3> QED BY <1>0, <1>b, <2>2, <3>1 DEF IInv, EndInv, OnDisk, EndedBy, Acked, Moved
  <2> QED BY <2>1, <2>2
<1>8. ResultInv'
  <2>1. (result = "ok") => file' = file
    BY <1>c DEF IInv, ResultInv
  <2> QED BY <1>0, <2>1 DEF IInv, ResultInv, Acked, Gone
<1> QED BY <1>1, <1>2, <1>3, <1>4, <1>5, <1>6, <1>7, <1>8 DEF IInv

\* A record with the two paths as fields is a function of the path.
LEMMA ByPath ==
  ASSUME NEW S, NEW a \in S, NEW b \in S
  PROVE  /\ [primary |-> a, fallback |-> b] \in [Paths -> S]
         /\ [primary |-> a, fallback |-> b]["primary"] = a
         /\ [primary |-> a, fallback |-> b]["fallback"] = b
<1> QED BY DEF Paths

\* What a later run finds of the log: torn lines.
LEMMA TornOfType ==
  ASSUME NEW s \in Seq(Lines)
  PROVE  TornOf(s) \in Seq(Lines) /\ \A i \in 1 .. Len(TornOf(s)) : TornOf(s)[i] = Torn
<1> DEFINE S == {j \in DOMAIN s : s[j] = Torn}
           n == Cardinality(S)
<1>1. IsFiniteSet(1 .. Len(s)) /\ S \in SUBSET (1 .. Len(s))
  BY FS_Interval
<1>2. n \in Nat
  <2> HIDE DEF S
  <2> QED BY <1>1, FS_Subset, FS_CardinalityType
<1> HIDE DEF n
<1>3. Torn \in Lines
  BY DEF Lines, Marks
<1>4. [i \in 1 .. n |-> Torn] \in Seq(Lines) /\ Len([i \in 1 .. n |-> Torn]) = n
  BY <1>2, <1>3
<1>5. TornOf(s) = [i \in 1 .. n |-> Torn]
  BY DEF TornOf, n
<1> QED BY <1>2, <1>4, <1>5

\* A later run finds torn lines and whole reports, and starts like the first.
LEMMA RerunStep == ASSUME IInv, Rerun PROVE IInv'
<1>0. /\ pc' = "start" /\ em' = Idle /\ em'.at = "idle" /\ acked' = <<>> /\ report' = None /\ art' = "none"
      /\ result' = None /\ exit' = None /\ consent' = FALSE /\ mutated' = FALSE
      /\ writer' = [path |-> "primary", degraded |-> FALSE]
      /\ run' = run + 1 /\ run' \in 1 .. MaxRuns /\ run \in 1 .. MaxRuns
      /\ UNCHANGED <<opts, faults>>
  BY BoundsAssumption DEF IInv, Types, Rerun, Idle
<1>a. /\ file'["primary"] \in Seq(Lines) /\ file'["fallback"] = <<>> /\ base' = Len(file'["primary"])
      /\ \A i \in 1 .. Len(file'["primary"]) : file'["primary"][i] = Torn
      /\ file' \in [Paths -> Seq(Lines)] /\ base' \in Nat
      /\ durable' \in [Paths -> Nat] /\ \A p \in Paths : durable'[p] = 0
  <2>1. TornOf(file["primary"]) \in Seq(Lines)
        /\ \A i \in 1 .. Len(TornOf(file["primary"])) : TornOf(file["primary"])[i] = Torn
    BY Files, TornOfType DEF IInv
  <2>2. <<>> \in Seq(Lines)
    OBVIOUS
  <2>3. file' = [primary |-> TornOf(file["primary"]), fallback |-> <<>>]
        /\ durable' = [primary |-> 0, fallback |-> 0] /\ base' = Len(file'["primary"])
    BY DEF Rerun
  <2> DEFINE torn == TornOf(file["primary"])
  <2>6. torn \in Seq(Lines) /\ file' = [primary |-> torn, fallback |-> <<>>]
    BY <2>1, <2>3
  <2> HIDE DEF torn
  <2>4. file'["primary"] = torn /\ file'["fallback"] = <<>> /\ file' \in [Paths -> Seq(Lines)]
    BY <2>2, <2>6, ByPath
  <2>5. durable' \in [Paths -> Nat] /\ \A p \in Paths : durable'[p] = 0
    BY <2>3 DEF Paths
  <2> QED BY <2>1, <2>3, <2>4, <2>5 DEF torn
<1>b. /\ disk' \in [Paths -> Published \cup {None}] /\ disk'["fallback"] = None
      /\ disk'["primary"] # None => disk'["primary"].whole /\ disk'["primary"].run < run'
  <2>1. CASE disk["primary"] = None
    BY <2>1 DEF Rerun, Paths
  <2>2. CASE disk["primary"] # None
    <3>1. disk["primary"] \in Published /\ disk["primary"].whole /\ disk["primary"].run <= run
      BY <2>2 DEF IInv, Types, ReportInv, Paths
    <3> DEFINE old == [disk["primary"] EXCEPT !.rep = None]
    <3>2. old \in Published /\ old.whole = disk["primary"].whole /\ old.run = disk["primary"].run
      BY <3>1 DEF Published
    <3>3. disk' = [primary |-> old, fallback |-> None]
      BY <2>2 DEF Rerun
    <3>4. old.run < run'
      BY <1>0, <3>1, <3>2 DEF Published
    <3> HIDE DEF old
    <3>5. disk'["primary"] = old /\ disk'["fallback"] = None /\ disk' \in [Paths -> Published \cup {None}]
      BY <3>2, <3>3 DEF Paths
    <3> QED BY <3>1, <3>2, <3>4, <3>5
  <2> QED BY <2>1, <2>2
<1>c. Phase' = "start" /\ ~Acked' /\ Written' = <<>>
  <2>1. SubSeq(file'["primary"], base' + 1, Len(file'["primary"])) = <<>>
    BY <1>a, SubSeqEmpty
  <2>2. Written' = <<>>
    BY <1>a, <2>1 DEF Written
  <2> QED BY <1>0, <2>2 DEF Phase, Acked
<1>1. Types'
  <2>1. pf' \in [limits : SUBSET Limits, accepted : SUBSET Limits] /\ disp' \in {"plain", "loop"}
    BY DEF Rerun
  <2>2. em' \in [at : EmSteps, line : Lines \cup {None}, then : Resumes \cup {None}]
    BY <1>0 DEF Idle, EmSteps
  <2>3. writer' \in [path : Paths, degraded : BOOLEAN] /\ <<>> \in Seq(Lines) /\ "start" \in Steps
    BY <1>0 DEF Paths, Steps
  <2> QED BY <1>0, <1>a, <1>b, <2>1, <2>2, <2>3 DEF IInv, Types
<1>2. EmitInv'
  BY <1>0 DEF EmitInv
<1>3. LogInv'
  <2>1. Events' = <<>>
    BY <1>c, EventsNone DEF Events
  <2>2. \A p \in Paths : Len(file'[p]) \in Nat
    BY <1>a
  <2>3. writer'.degraded = (writer'.path = "fallback")
    BY <1>0
  <2>4. \A p \in Paths : durable'[p] <= Len(file'[p])
    BY <1>a, <2>2
  <2>5. base' <= Len(file'["primary"])
    BY <1>a
  <2> QED BY <1>0, <1>a, <2>1, <2>3, <2>4, <2>5 DEF LogInv
<1>4. TornInv'
  BY <1>a DEF TornInv, Paths
<1>5. LeaveInv'
  BY <1>0, <1>a, <1>c DEF LeaveInv
<1>6. ReportInv'
  BY <1>0, <1>b, <1>c DEF ReportInv, Reported, Paths, Published, Types
<1>7. EndInv'
  BY <1>0, <1>c DEF EndInv
<1>8. ResultInv'
  BY <1>0, NoneAssumption DEF ResultInv
<1> QED BY <1>1, <1>2, <1>3, <1>4, <1>5, <1>6, <1>7, <1>8 DEF IInv

-----------------------------------------------------------------------------
(* The theorems. *)

\* The first process starts with empty files.
LEMMA InitIInv == Init => IInv
<1> SUFFICES ASSUME Init PROVE IInv
  OBVIOUS
<1>0. /\ pc = "start" /\ run = 1 /\ em = Idle /\ em.at = "idle" /\ acked = <<>> /\ base = 0
      /\ report = None /\ art = "none" /\ result = None /\ exit = None /\ faults = 0
      /\ consent = FALSE /\ mutated = FALSE
      /\ writer = [path |-> "primary", degraded |-> FALSE]
      /\ file["primary"] = <<>> /\ file["fallback"] = <<>> /\ \A p \in Paths : file[p] = <<>>
      /\ \A p \in Paths : durable[p] = 0 /\ disk[p] = None
      /\ file \in [Paths -> Seq(Lines)] /\ durable \in [Paths -> Nat] /\ disk \in [Paths -> Published \cup {None}]
  BY DEF Init, Idle, Paths
<1>a. Phase = "start" /\ ~Acked /\ Written = <<>>
  <2>1. SubSeq(<<>>, 1, 0) = <<>> /\ <<>> \o <<>> = <<>>
    OBVIOUS
  <2> QED BY <1>0, <2>1 DEF Phase, Acked, Written
<1>1. Types
  <2>1. /\ pf \in [limits : SUBSET Limits, accepted : SUBSET Limits] /\ disp \in {"plain", "loop"}
        /\ opts \in [dry : BOOLEAN]
    BY DEF Init
  <2>2. em \in [at : EmSteps, line : Lines \cup {None}, then : Resumes \cup {None}]
    BY <1>0 DEF Idle, EmSteps
  <2>3. writer \in [path : Paths, degraded : BOOLEAN] /\ <<>> \in Seq(Lines) /\ "start" \in Steps
    BY <1>0 DEF Paths, Steps
  <2>4. 1 \in 1 .. MaxRuns /\ 0 \in 0 .. MaxFaults
    BY BoundsAssumption
  <2> QED BY <1>0, <2>1, <2>2, <2>3, <2>4 DEF Types
<1>2. EmitInv /\ ResultInv /\ EndInv /\ TornInv /\ ReportInv
  BY <1>0, <1>a, NoneAssumption DEF EmitInv, ResultInv, EndInv, TornInv, ReportInv, Reported
<1>3. LogInv /\ LeaveInv
  <2>1. Events = <<>>
    BY <1>a, EventsNone DEF Events
  <2>2. Len(<<>>) = 0 /\ 0 <= 0
    OBVIOUS
  <2>3. writer.degraded = (writer.path = "fallback")
    BY <1>0
  <2>4. LogInv
    BY <1>0, <2>1, <2>2, <2>3 DEF LogInv, Paths
  <2> QED BY <1>0, <1>a, <2>2, <2>4 DEF LeaveInv
<1> QED BY <1>1, <1>2, <1>3 DEF IInv

\* Every step preserves the invariant.
LEMMA NextIInv == IInv /\ [Next]_vars => IInv'
<1> SUFFICES ASSUME IInv, [Next]_vars PROVE IInv'
  OBVIOUS
<1>1. CASE Process
  BY <1>1, ConfirmWarningsStep, AcquireLockStep, GatesStep, CreateWriterStep, EmitStepStep,
     EmitReturnsStep, AnnounceStep, CopyTreeStep, AfterCopyStep, ReconcileStep, EndJournalStep,
     ComposeStep, FillReportStep, PublishReportStep, SettleReportStep, RefreshLogPathStep, RunEndStep,
     FinishStep, PlainReturnsStep, LoopTakesStep, LoopReturnsStep, BrokenReceivesStep,
     PrintSummaryStep, ExitWithErrorStep DEF Process
<1>2. CASE LoopFails \/ Kill \/ Rerun
  BY <1>2, LoopFailsStep, KillStep, RerunStep
<1>3. CASE UNCHANGED vars
  <2>1. UNCHANGED <<pc, run, opts, pf, consent, mutated, file, durable, base, writer, em, acked,
                    report, art, disk, result, disp, exit, faults>>
    BY <1>3 DEF vars, gateVars, logVars, repVars
  <2>2. Types'
    BY <2>1 DEF IInv, Types
  <2>3. EmitInv' /\ LogInv' /\ TornInv' /\ LeaveInv'
    BY <2>1 DEF IInv, EmitInv, LogInv, TornInv, LeaveInv, Events, Written, Phase
  <2>4. ReportInv' /\ EndInv' /\ ResultInv'
    BY <2>1 DEF IInv, ReportInv, EndInv, ResultInv, Phase, OnDisk, EndedBy, Acked, Moved
  <2> QED BY <2>2, <2>3, <2>4 DEF IInv
<1> QED BY <1>1, <1>2, <1>3 DEF Next

\* IInv is an invariant of the run, whatever fails or is killed.
THEOREM Invariance == Spec => []IInv
<1> QED BY InitIInv, NextIInv, PTL DEF Spec

\* Every variable keeps its type, and the log never gets shorter than what was synchronized.
THEOREM TypeCorrect == Spec => []TypeOK
<1>1. IInv => TypeOK
  BY DEF IInv, Types, EmitInv, LogInv, TypeOK
<1> QED BY <1>1, Invariance, PTL

\* What the files hold in terms of what was acknowledged.
LEMMA EventsAre ==
  ASSUME IInv
  PROVE  /\ acked \in Seq(Lines) /\ Len(acked) \in Nat
         /\ Events = acked \/ (em.at = "ok" /\ Events = Append(acked, em.line))
<1> QED BY DEF IInv, Types, LogInv

\* No event is lost, repeated or reordered by torn writes, rollbacks, reopens, the
\* failover or a kill (audit.rs:189).
THEOREM LogLossless == Spec => []LogIsLossless
<1>1. IInv => LogIsLossless
  <2> SUFFICES ASSUME IInv PROVE LogIsLossless
    OBVIOUS
  <2>1. Events \in {acked} \cup (IF em.at = "idle" THEN {} ELSE {Append(acked, em.line)})
    BY EventsAre
  <2>2. ASSUME NEW p \in Paths, NEW i \in 1 .. Len(file[p]) - 1, file[p][i] = Torn
        PROVE  p = "primary" /\ i <= base
    <3>1. Len(file[p]) \in Nat
      BY Files DEF IInv
    <3>2. i \in 1 .. Len(file[p]) /\ i # Len(file[p])
      BY <3>1
    <3> QED BY <2>2, <3>2 DEF IInv, TornInv
  <2> QED BY <2>1, <2>2 DEF LogIsLossless
<1> QED BY <1>1, Invariance, PTL

\* A run_end among the events is the last of them, and the end phase is reached.
LEMMA EndLast ==
  ASSUME IInv, RunEnded
  PROVE  /\ Last(Events) \in Finals /\ EndedBy(Last(Events)) /\ report \in Reports /\ OnDisk
         /\ Moved => EventsOf(file["fallback"]) = <<Last(Events)>>
         /\ Acked => Last(Events) = acked[Len(acked)]
<1>0. PICK i \in DOMAIN Events : Events[i].kind = "run_end"
  BY DEF RunEnded
<1>a. \A l \in Lines : l.kind = "run_end" => l \in Finals
  BY DEF Lines, Plain, Finals, Marks, Torn, Notice
<1>1. CASE em.at = "ok"
  <2>1. /\ em.line \in Lines /\ Events = Append(acked, em.line) /\ em.at # "idle"
        /\ acked \in Seq(Lines)
    BY <1>1 DEF IInv, LogInv, EmitInv, Lines, Types
  <2>2. /\ Len(Events) = Len(acked) + 1 /\ Events[Len(Events)] = em.line
        /\ DOMAIN Events = 1 .. Len(Events)
        /\ \A k \in 1 .. Len(acked) : Events[k] = acked[k]
    BY <2>1, AppendProperties
  <2>3. \A k \in 1 .. Len(acked) : acked[k] \notin Finals
    BY <2>1, EndUnwritten
  <2>4. i = Len(Events)
    <3>1. ASSUME i \in 1 .. Len(acked) PROVE FALSE
      <4>1. acked[i] \in Lines /\ acked[i].kind = "run_end"
        BY <1>0, <2>1, <2>2, <3>1
      <4> QED BY <4>1, <1>a, <2>3, <3>1
    <3>2. Len(acked) \in Nat
      BY <2>1
    <3> QED BY <3>1, <3>2, <2>2, <1>0
  <2>5. em.line \in Finals /\ em.then = "finish" /\ Phase = "finish"
    BY <1>0, <1>a, <2>1, <2>2, <2>4 DEF IInv, EmitInv, Phase
  <2> QED BY <1>1, <2>1, <2>2, <2>5, EndUnwritten DEF IInv, EndInv, Last
<1>2. CASE em.at # "ok"
  <2>1. Events = acked /\ acked \in Seq(Lines) /\ DOMAIN acked = 1 .. Len(acked) /\ Len(acked) \in Nat
    BY <1>2 DEF IInv, LogInv, Types
  <2>2. acked[i] \in Finals
    BY <1>0, <1>a, <2>1
  <2>3. i = Len(acked) /\ EndedBy(acked[i]) /\ em.at = "idle" /\ acked # <<>>
    <3>1. i \in 1 .. Len(acked)
      BY <1>0, <2>1
    <3>2. acked # <<>>
      BY <3>1
    <3> QED BY <2>2, <3>1, <3>2 DEF IInv, EndInv
  <2>4. Acked /\ Last(Events) = acked[i]
    BY <2>1, <2>2, <2>3 DEF Acked, Last
  <2> QED BY <2>2, <2>3, <2>4 DEF IInv, EndInv
<1> QED BY <1>1, <1>2

\* run_end closes the log, and what it says was published before it (copy.rs:550-589).
THEOREM EndTerminal == Spec => []EndIsTerminal
<1>1. IInv => EndIsTerminal
  <2> SUFFICES ASSUME IInv, RunEnded PROVE EndIsTerminal
    BY DEF EndIsTerminal
  <2> DEFINE end == Last(Events)
  <2>1. /\ end \in Finals /\ EndedBy(end) /\ report \in Reports /\ OnDisk
        /\ Moved => EventsOf(file["fallback"]) = <<end>>
    BY EndLast
  <2>2. run \in 1 .. MaxRuns
    BY DEF IInv, Types
  <2>3. disk[report.path] \in Published /\ disk[report.path] # None
    <3>1. [run |-> run, rep |-> report, whole |-> TRUE] \in Published
      BY <2>1, <2>2 DEF Published
    <3> QED BY <2>1, <3>1, NoneAssumption DEF OnDisk
  <2> HIDE DEF end
  <2>4. end.kind = "run_end"
        /\ <<end.exit, end.audit, end.integrity>> = <<report.exit, report.audit, report.integrity>>
    BY <2>1 DEF EndedBy, Finals
  <2> QED BY <2>1, <2>3, <2>4 DEF EndIsTerminal, OnDisk, Moved, end
<1> QED BY <1>1, Invariance, PTL

\* No reader ever finds a fragment of a report, after any kill (artifact.rs).
THEOREM ReportsWhole == Spec => []ReportsAreWhole
<1>1. IInv => ReportsAreWhole
  BY DEF IInv, ReportInv, ReportsAreWhole
<1> QED BY <1>1, Invariance, PTL

\* The report's exit codes mean a synchronized run_end and a published report that
\* say the same (README "Exit codes").
THEOREM ExitTrue == Spec => []ExitIsTrue
<1>1. IInv => ExitIsTrue
  <2> SUFFICES ASSUME IInv, exit \in {0, 2, 3, 4} PROVE ExitIsTrue
    BY DEF ExitIsTrue
  <2>1. /\ result = "ok" /\ exit = report.exit /\ em.at = "idle" /\ Acked /\ report.integrity = "ok"
        /\ durable[writer.path] = Len(file[writer.path])
    BY DEF IInv, ResultInv
  <2>2. Events = acked /\ acked \in Seq(Lines)
    BY <2>1 DEF IInv, LogInv, Types
  <2>3. RunEnded
    <3>1. Len(acked) \in DOMAIN acked /\ acked[Len(acked)].kind = "run_end"
      BY <2>1, <2>2 DEF Acked, Finals
    <3> QED BY <2>2, <3>1 DEF RunEnded
  <2>4. EndedBy(Last(Events)) /\ OnDisk
    BY <2>3, EndLast
  <2> QED BY <2>1, <2>3, <2>4 DEF ExitIsTrue, EndedBy, OnDisk
<1> QED BY <1>1, Invariance, PTL

\* The destination changes, and a log is written, only with leave (main.rs:463-468).
THEOREM LeaveGiven == Spec => []ChangesOnlyWithLeave
<1>1. IInv => ChangesOnlyWithLeave
  BY DEF IInv, LeaveInv, ChangesOnlyWithLeave
<1> QED BY <1>1, Invariance, PTL
=============================================================================
